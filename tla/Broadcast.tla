----------------------------- MODULE Broadcast -----------------------------
(***************************************************************************)
(* How news gets out of the BNAP board: threads that write the one         *)
(* structure of a message and broadcast an event (src/soft/bnap/src/       *)
(* bnap_ui.c, mavlink_dbg.c, sanity.c) and the packer that takes the       *)
(* events one by one, limits the rate of some messages                     *)
(* (link/gen_link_packer.py, traffic_limiter in link/link.c) and writes    *)
(* them to the port.                                                       *)
(***************************************************************************)
EXTENDS Integers, FiniteSets, FiniteSetsExt

CONSTANTS
  Wrap,        (* what systime_t counts                                    *)
  MaxPeriod,   (* the longest period of sending                            *)
  MaxEvents    (* a bound: presses, releases, sensor alarms, new periods,   *)
               (* changes of the port                                      *)

BroadcastAssumption ==
  {Wrap, MaxPeriod, MaxEvents} \subseteq Nat /\ MaxPeriod < Wrap

(* The bits of the events.                                                 *)
Heartbeat == 0
Statustext == 7

Texts == {"none", "alarm", "pressed", "released"}

VARIABLES
  now,        (* chTimeNow()                                               *)
  period,     (* T_hb_bnap, in ticks; 0 is off                             *)
  lastsent,   (* heartbeat_bnap_lastsent                                   *)
  since,      (* ticks since a heartbeat was sent, MaxPeriod at most       *)
  events,     (* those that wait for the packer                            *)
  packer,     (* waits, has taken the event heartbeat or text, or holds a   *)
              (* text to write                                             *)
  port_ready,
  text,       (* mavlink_statustext_struct                                 *)
  printing,   (* who has written it and not yet broadcast the event        *)
  sent,       (* the last text that was written to the port, or dropped    *)
  pin, cur,   (* the button: 0 is pressed; what its thread knows of it     *)
  button,     (* that thread: it polls, or repeats while it is pressed     *)
  quick,      (* the button was pressed again before the next poll         *)
  count       (* what has happened, of MaxEvents                           *)

timing == <<now, period, lastsent, since>>
link == <<packer, port_ready, sent>>
news == <<text, printing>>
btn == <<pin, cur, button, quick>>
vars == <<timing, events, link, news, btn, count>>

Init ==
  /\ now = 0 /\ period \in 0 .. MaxPeriod /\ lastsent = 0 /\ since = MaxPeriod
  /\ events = {} /\ packer = "wait" /\ port_ready \in BOOLEAN
  /\ text = "none" /\ printing = {} /\ sent = "none"
  /\ pin = 1 /\ cur = 1 /\ button = "poll" /\ quick = FALSE /\ count = 0

Happens == count < MaxEvents /\ count' = count + 1

-----------------------------------------------------------------------------
(* mavlink_dbg_print writes the structure, then broadcasts.                *)
Prints(who, what) ==
  /\ who \notin printing
  /\ text' = what /\ printing' = printing \cup {who}

Printed ==
  /\ \E who \in printing : printing' = printing \ {who}
  /\ events' = events \cup {Statustext}
  /\ UNCHANGED <<timing, link, text, btn, count>>

(* AnalogAlarmThread, when a sensor shows less than 10.                    *)
AnalogAlarm ==
  /\ Happens /\ Prints("alarm", "alarm")
  /\ UNCHANGED <<timing, events, link, btn>>

Press ==
  /\ Happens /\ pin' = 1 - pin
  /\ quick' = (quick \/ (pin = 1 /\ cur = 0 /\ button = "poll"))
  /\ UNCHANGED <<timing, events, link, news, cur, button>>

(* UiAlertBtnThread, every 100 ms.                                         *)
Poll ==
  /\ button = "poll" /\ "button" \notin printing /\ cur # pin
  /\ cur' = pin
  /\ IF pin = 0
     THEN button' = "repeat" /\ UNCHANGED news
     ELSE button' = "poll" /\ Prints("button", "released")
  /\ UNCHANGED <<timing, events, link, pin, quick, count>>

(* Every 4 ms, as long as it is pressed.                                   *)
Repeat ==
  /\ button = "repeat" /\ "button" \notin printing
  /\ IF pin = 0
     THEN button' = "repeat" /\ Prints("button", "pressed")
     ELSE button' = "poll" /\ UNCHANGED news
  /\ UNCHANGED <<timing, events, link, pin, cur, quick, count>>

-----------------------------------------------------------------------------
Tick ==
  /\ now' = (now + 1) % Wrap
  /\ since' = IF since < MaxPeriod THEN since + 1 ELSE since
  /\ UNCHANGED <<period, lastsent, events, link, news, btn, count>>

(* HeartbeatThread; the packer has served a heartbeat before the next.     *)
Beat ==
  /\ Heartbeat \notin events /\ packer # "heartbeat"
  /\ events' = events \cup {Heartbeat}
  /\ UNCHANGED <<timing, link, news, btn, count>>

SetPeriod ==
  /\ Happens /\ \E p \in 0 .. MaxPeriod : period' = p
  /\ UNCHANGED <<now, lastsent, since, events, link, news, btn>>

PortChanges ==
  /\ Happens /\ port_ready' = ~port_ready
  /\ UNCHANGED <<timing, events, packer, sent, news, btn>>

-----------------------------------------------------------------------------
(* chEvtWaitOneTimeout: the lowest bit, which is cleared.                  *)
TakesEvent ==
  /\ packer = "wait" /\ events # {}
  /\ packer' = (IF Min(events) = Heartbeat THEN "heartbeat" ELSE "text")
  /\ events' = events \ {Min(events)}
  /\ UNCHANGED <<timing, port_ready, sent, news, btn, count>>

(* The clock and the difference are unsigned.                              *)
PeriodIsOver == (now - lastsent) % Wrap >= period

(* traffic_limiter; a heartbeat that may not be sent yet is dropped.       *)
(* NULL, the period of the text, is no limit.                              *)
PacksHeartbeat ==
  /\ packer = "heartbeat" /\ packer' = "wait"
  /\ IF period # 0 /\ PeriodIsOver
     THEN lastsent' = now /\ since' = 0
     ELSE UNCHANGED <<lastsent, since>>
  /\ UNCHANGED <<now, period, events, port_ready, sent, news, btn, count>>

(* memcpy_ts *)
PacksText ==
  /\ packer = "text" /\ packer' = text
  /\ UNCHANGED <<timing, events, port_ready, sent, news, btn, count>>

Forgotten == events \ {Statustext}

Left == events

(* What the port is not ready for is dropped too.                          *)
Writes ==
  /\ packer \in Texts /\ packer' = "wait"
  /\ sent' = IF port_ready THEN packer ELSE "dropped"
  /\ events' = Left
  /\ UNCHANGED <<timing, port_ready, news, btn, count>>

Pack == PacksHeartbeat \/ PacksText \/ Writes

Next ==
  \/ Printed \/ AnalogAlarm \/ Press \/ Poll \/ Repeat
  \/ Tick \/ Beat \/ SetPeriod \/ PortChanges \/ TakesEvent \/ Pack

(* Each thread gets the processor, the packer between two heartbeats too.  *)
Fairness ==
  /\ WF_vars(Printed) /\ WF_vars(Poll) /\ WF_vars(Repeat)
  /\ WF_vars(Pack) /\ WF_vars(TakesEvent) /\ SF_vars(TakesEvent /\ packer' = "text")

Spec == Init /\ [][Next]_vars /\ Fairness

-----------------------------------------------------------------------------
(* link.c:117-124: between two heartbeats at least the period goes by,     *)
(* also when the clock wraps between them or the period has just been      *)
(* changed.                                                                *)
RateIsKept == [][since' < since => since >= period]_vars

(* mavlink_dbg.c:59-66, gen_link_packer.py:94-109: of two texts that meet  *)
(* in the structure the first is lost but the last is not: it goes out, or *)
(* the port was not ready for it.  A button that is kept pressed is told   *)
(* of so, unless it was pressed again within 100 ms (bnap_ui.c:92-107).    *)
LastTextGoesOut ==
  <>[]( /\ sent \in {text, "dropped"}
        /\ pin = 0 => quick \/ sent \in {"pressed", "dropped"} )
=============================================================================
