-------------------------------- MODULE Leds --------------------------------
(***************************************************************************)
(* The two LEDs of the BNAP board (src/soft/bnap/src/bnap_ui.c).  A thread *)
(* of each waits for an event, of the control centre (gsm) or the receiver *)
(* (gps), and lights its LED for the time a parameter says; 0 is off.  The *)
(* parameter is read once to decide and once more to sleep, and events go  *)
(* on meanwhile.                                                           *)
(***************************************************************************)
EXTENDS Integers

CONSTANT MaxEvents   (* events for each LED, and changes around it          *)

LedsAssumption == MaxEvents \in Nat

Leds == {"gsm", "gps"}

VARIABLES
  blink,      (* Tblink_gsm, Tblink_gps: 0, or some time                   *)
  gps_valid,
  pending,    (* the flag of the event in the thread                       *)
  led_pc,     (* where each thread is: wait, decide, on, sleep             *)
  lit,
  heard, blinks,  (* history: events sent; times it was lit                *)
  moved       (* changes of parameters and of gps_valid                    *)

vars == <<blink, gps_valid, pending, led_pc, lit, heard, blinks, moved>>

(* UiInit. *)
Init ==
  /\ blink \in [Leds -> {0, 1}] /\ gps_valid \in BOOLEAN
  /\ pending = [l \in Leds |-> FALSE] /\ led_pc = [l \in Leds |-> "wait"]
  /\ lit = [l \in Leds |-> FALSE]
  /\ heard = [l \in Leds |-> 0] /\ blinks = [l \in Leds |-> 0] /\ moved = 0

Goes(l, from, to) == led_pc[l] = from /\ led_pc' = [led_pc EXCEPT ![l] = to]

(* chEvtBroadcastFlags: an event that comes before the last one was taken  *)
(* is one with it.                                                         *)
Event(l) ==
  /\ heard[l] < MaxEvents
  /\ pending' = [pending EXCEPT ![l] = TRUE]
  /\ heard' = [heard EXCEPT ![l] = @ + 1]
  /\ UNCHANGED <<blink, gps_valid, led_pc, lit, blinks, moved>>

(* chEvtWaitOne *)
Takes(l) ==
  /\ Goes(l, "wait", "decide") /\ pending[l]
  /\ pending' = [pending EXCEPT ![l] = FALSE]
  /\ UNCHANGED <<blink, gps_valid, lit, heard, blinks, moved>>

Shows(l) == blink[l] # 0 /\ (l = "gps" => gps_valid)

Decides(l) ==
  /\ Goes(l, "decide", IF Shows(l) THEN "on" ELSE "wait")
  /\ UNCHANGED <<blink, gps_valid, pending, lit, heard, blinks, moved>>

On(l) ==
  /\ Goes(l, "on", "sleep")
  /\ lit' = [lit EXCEPT ![l] = TRUE] /\ blinks' = [blinks EXCEPT ![l] = @ + 1]
  /\ UNCHANGED <<blink, gps_valid, pending, heard, moved>>

Off(l) ==
  /\ Goes(l, "sleep", "wait")
  /\ lit' = [lit EXCEPT ![l] = FALSE]
  /\ UNCHANGED <<blink, gps_valid, pending, heard, blinks, moved>>

(* The Parameters thread and the receiver. *)
Moves ==
  /\ moved < MaxEvents /\ moved' = moved + 1
  /\ \/ \E l \in Leds : blink' = [blink EXCEPT ![l] = 1 - @] /\ UNCHANGED gps_valid
     \/ gps_valid' = ~gps_valid /\ UNCHANGED blink
  /\ UNCHANGED <<pending, led_pc, lit, heard, blinks>>

Next ==
  \/ Moves
  \/ \E l \in Leds : Event(l) \/ Takes(l) \/ Decides(l) \/ On(l) \/ Off(l)

Steps(l) == Takes(l) \/ Decides(l) \/ On(l) \/ Off(l)

Spec == Init /\ [][Next]_vars /\ \A l \in Leds : WF_vars(Steps(l))

-----------------------------------------------------------------------------
(* bnap_ui.c:125-132, 150-157: each time a LED is lit stands for an event  *)
(* of its own, and one that is lit has its thread to put it out.           *)
EachBlinkHasItsEvent ==
  \A l \in Leds :
    LET awaiting == (IF pending[l] THEN 1 ELSE 0)
          + (IF led_pc[l] \in {"decide", "on"} THEN 1 ELSE 0) IN
      /\ blinks[l] + awaiting <= heard[l]
      /\ lit[l] <=> led_pc[l] = "sleep"

(* An event that comes while the LED is lit for the one before it lights   *)
(* it once more, if nothing moves meanwhile; and no LED stays lit.         *)
EventsAreShown ==
  \A l \in Leds :
    /\ lit[l] ~> ~lit[l]
    /\ \A n \in 0 .. MaxEvents :
         (pending[l] /\ blinks[l] = n /\ Shows(l)) ~> (blinks[l] > n \/ ~Shows(l))
=============================================================================
