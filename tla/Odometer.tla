------------------------------ MODULE Odometer ------------------------------
(***************************************************************************)
(* What a counter that survives power failures promises, with no EEPROM    *)
(* and no search: it only counts up, the stored value follows it, and      *)
(* after a power failure, or when it is loaded again, it goes on from the  *)
(* stored value.  Only the operator sets it to something else.             *)
(***************************************************************************)
EXTENDS Integers

VARIABLES
  value,   (* what GetTrip returns                     *)
  saved,   (* what survives a power failure            *)
  on       (* the device has power and has been started *)

vars == <<value, saved, on>>

Init == value = 0 /\ saved = 0 /\ on = FALSE

Count == on /\ value' >= value /\ UNCHANGED <<saved, on>>

Save == on /\ saved' \in saved .. value /\ UNCHANGED <<value, on>>

PowerLoss == on' = FALSE /\ value' = saved /\ UNCHANGED saved

Load == on' = TRUE /\ value' = saved /\ UNCHANGED saved

SetTo == on /\ saved' >= 0 /\ UNCHANGED <<value, on>>

Next == Count \/ Save \/ PowerLoss \/ Load \/ SetTo

Spec == Init /\ [][Next]_vars
=============================================================================
