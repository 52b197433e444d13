------------------------------ MODULE Displays ------------------------------
(***************************************************************************)
(* Who looks at the vehicle.  On a desktop src/soft/face/serialproxy.py    *)
(* copies the serial port to UDP, and hud.py runs two processes: link.py   *)
(* fills a queue from UDP and telemetry.py draws what it finds there.  On  *)
(* the computer in the cab src/soft/som/telemetry/Window.cpp reads the     *)
(* serial port itself.  Messages get lost anywhere; a tick is a second.    *)
(***************************************************************************)
EXTENDS Integers, Sequences

CONSTANTS
  QueueSize,  (* of q_tlm                                                  *)
  Timeout     (* of the window in the cab, in seconds                      *)

DisplayAssumption == {QueueSize, Timeout} \subseteq Nat \ {0}

Kinds == {"sensors", "heartbeat"}

VARIABLES
  silent,    (* the vehicle says nothing any more                          *)
  m,         (* link.input: the message it holds, or None                  *)
  input,     (* the process: paused, waits, has (a message to put), ended   *)
  waited,    (* it has waited for a second                                 *)
  q_tlm,
  tlm,       (* the telemetry process: runs, ended                         *)
  since,     (* seconds since last_success_time, 3 at most                 *)
  hud,       (* the first process: starting, joins, kills, ended           *)
  reader, writer,   (* threads of the proxy: runs, ended                   *)
  proxy,     (* its main thread: runs, stops, closed                       *)
  misused,   (* a thread touched the port when it was closed               *)
  heard,     (* bMPIOVD of the window                                      *)
  green,     (* the label is                                               *)
  timer,     (* seconds until Timeout()                                    *)
  gap        (* seconds since anything was heard there, 2 Timeout at most   *)

desk == <<m, input, waited, q_tlm, tlm, since, hud>>
serial == <<reader, writer, proxy, misused>>
cab == <<heard, green, timer, gap>>
vars == <<silent, desk, serial, cab>>

Init ==
  /\ silent = FALSE /\ m = "none" /\ input = "paused" /\ waited = FALSE
  /\ q_tlm = <<>> /\ tlm = "runs" /\ since = 0 /\ hud = "starting"
  /\ reader = "runs" /\ writer = "runs" /\ proxy = "runs" /\ misused = FALSE
  /\ heard = FALSE /\ green = FALSE /\ timer = 1 /\ gap = 2 * Timeout

-----------------------------------------------------------------------------
(* link.py *)
Listens == input = "waits" /\ proxy = "runs" /\ reader = "runs"

(* link.input: its last message is still there when nothing comes.         *)
TimesOut ==
  /\ input = "waits" /\ waited /\ waited' = FALSE
  /\ input' = "has"
  /\ UNCHANGED <<silent, m, q_tlm, tlm, since, hud, serial, cab>>

Killed == hud \in {"kills", "ended"}

(* put_nowait: what does not fit is dropped.                               *)
Puts ==
  /\ input = "has" /\ input' = (IF Killed THEN "ended" ELSE "waits")
  /\ q_tlm' = IF m # "none" /\ Len(q_tlm) < QueueSize THEN Append(q_tlm, m) ELSE q_tlm
  /\ UNCHANGED <<silent, m, waited, tlm, since, hud, serial, cab>>

(* telemetry.py, __normalupdate *)
CountsAnything(t) == TRUE

Counts(t) == t = "sensors"

Gets ==
  /\ tlm = "runs" /\ q_tlm # <<>> /\ q_tlm' = Tail(q_tlm)
  /\ since' = IF Counts(Head(q_tlm)) THEN 0 ELSE since
  /\ UNCHANGED <<silent, m, input, waited, tlm, hud, serial, cab>>

(* draw: "UVVU not responding" *)
Warning == since > 2

Quits ==
  /\ tlm = "runs" /\ tlm' = "ended"
  /\ UNCHANGED <<silent, m, input, waited, q_tlm, since, hud, serial, cab>>

Joined == tlm = "ended"

(* hud.py *)
Hud ==
  /\ \/ hud = "starting" /\ hud' = "joins" /\ input' = "waits"
     \/ hud = "joins" /\ Joined /\ hud' = "kills" /\ UNCHANGED input
     \/ hud = "kills" /\ input = "ended" /\ hud' = "ended" /\ UNCHANGED input
  /\ UNCHANGED <<silent, m, waited, q_tlm, tlm, since, serial, cab>>

-----------------------------------------------------------------------------
(* serialproxy.py: a thread looks whether it is to stop, then reads or     *)
(* writes for half a second at most.                                       *)
Uses == misused' = (misused \/ proxy = "closed")

ReaderGoes ==
  /\ reader = "runs"
  /\ \/ Uses /\ UNCHANGED reader
     \/ proxy # "runs" /\ reader' = "ended" /\ UNCHANGED misused
  /\ UNCHANGED <<silent, desk, writer, proxy, cab>>

WriterGoes ==
  /\ writer = "runs"
  /\ \/ Uses /\ UNCHANGED writer
     \/ proxy # "runs" /\ writer' = "ended" /\ UNCHANGED misused
  /\ UNCHANGED <<silent, desk, reader, proxy, cab>>

BothEnded == {reader, writer} = {"ended"}

Interrupt ==
  /\ proxy = "runs" /\ proxy' = "stops"
  /\ UNCHANGED <<silent, desk, reader, writer, misused, cab>>

Closes ==
  /\ proxy = "stops" /\ BothEnded /\ proxy' = "closed"
  /\ UNCHANGED <<silent, desk, reader, writer, misused, cab>>

-----------------------------------------------------------------------------
(* Window.cpp, ReceiveData *)
ReceiveData == heard' = TRUE /\ gap' = 0 /\ UNCHANGED <<green, timer>>

(* A message that comes to the desk, to the cab, or to both.               *)
Message ==
  /\ ~silent
  /\ \E kind \in Kinds, desks \in BOOLEAN :
       IF desks /\ Listens
       THEN m' = kind /\ input' = "has" /\ waited' = FALSE
       ELSE UNCHANGED <<m, input, waited>>
  /\ ReceiveData \/ UNCHANGED cab
  /\ UNCHANGED <<silent, q_tlm, tlm, since, hud, serial>>

Silence == ~silent /\ silent' = TRUE /\ UNCHANGED <<desk, serial, cab>>

StaysGreen == green \/ heard

Green == heard

(* HUD2::Timeout *)
LooksAtLabels ==
  IF timer = 1
  THEN green' = Green /\ heard' = FALSE /\ timer' = Timeout
  ELSE timer' = timer - 1 /\ UNCHANGED <<green, heard>>

Tick ==
  /\ LooksAtLabels
  /\ gap' = IF gap < 2 * Timeout THEN gap + 1 ELSE gap
  /\ since' = IF since < 3 THEN since + 1 ELSE since
  /\ waited' = (input = "waits")
  /\ UNCHANGED <<silent, m, input, q_tlm, tlm, hud, serial>>

Next ==
  \/ TimesOut \/ Puts \/ Gets \/ Quits \/ Hud
  \/ ReaderGoes \/ WriterGoes \/ Interrupt \/ Closes
  \/ Message \/ Silence \/ Tick

(* The processes run and time goes on; who uses them does what he likes.   *)
Spec ==
  /\ Init /\ [][Next]_vars
  /\ WF_vars(TimesOut) /\ WF_vars(Puts) /\ WF_vars(Gets) /\ WF_vars(Hud)
  /\ WF_vars(ReaderGoes /\ reader' = "ended") /\ WF_vars(WriterGoes /\ writer' = "ended") /\ WF_vars(Closes)
  /\ WF_vars(Tick)

-----------------------------------------------------------------------------
(* Window.cpp:103-122: a label is green only if its device was heard       *)
(* within two periods, and after it was not heard for two it is red.  The  *)
(* proxy's threads never touch the port it has closed                      *)
(* (serialproxy.py:83-102).                                                *)
LabelsAreRecent ==
  /\ green => gap < 2 * Timeout
  /\ ~misused

(* hud.py:79-83, serialproxy.py:83-102: when the window is closed every    *)
(* process ends, and so does the proxy when it is interrupted.  A vehicle  *)
(* that fell silent is warned of if the last it said was no sensors.       *)
AllEndsAndIsTold ==
  /\ tlm = "ended" ~> hud = "ended"
  /\ proxy = "stops" ~> proxy = "closed"
  /\ <>[](silent /\ m # "sensors" /\ tlm = "runs") => <>[]Warning
  /\ <>[]silent => <>[]~green

(* telemetry.py:861-862: "UVVU not responding" is drawn when the vehicle   *)
(* has fallen silent.                                                      *)
SilenceIsTold == <>[](silent /\ tlm = "runs") => <>Warning
=============================================================================
