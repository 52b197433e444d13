----------------------------- MODULE TripStore -----------------------------
(***************************************************************************)
(* The trip and uptime counters of the MPIOVD node                         *)
(* (src/soft/mpiovd/src/storage.c).  A counter is kept in an EEPROM file   *)
(* used as a ring of slots, and each value is written twice: a slot whose  *)
(* two words differ was torn by a power failure.  The newest value is      *)
(* found again by running through the ring to the first torn slot or the   *)
(* first value smaller than the one before it.                             *)
(*                                                                         *)
(* The code does the same for both counters; this is one of them.          *)
(***************************************************************************)
EXTENDS Integers

CONSTANTS
  Slots,     (* size of the EEPROM file / RECORD_SIZE *)
  MaxTrip    (* bound on the counter                  *)

ASSUME TripStoreAssumption == Slots \in Nat /\ Slots >= 2 /\ MaxTrip \in Nat

VARIABLES
  word1, word2,  (* slot -> the two words it holds                          *)
  pos,           (* slot the file position stands at, Slots at its end      *)
  trip, prev,    (* Trip and Trip_prev                                      *)
  phase,         (* "off", "run", "saving" or "stopped"                     *)
  t,             (* the local copy of *curr in save                         *)
  durable        (* history: the last value that was written twice          *)

file == <<word1, word2>>
ram  == <<pos, trip, prev, t>>
vars == <<file, ram, phase, durable>>

Slot == 0 .. Slots - 1
Trips == 0 .. MaxTrip

(* A word whose write was cut short: neither its old nor its new value,    *)
(* and not equal to the other word of the slot either.                     *)
Half1 == -1
Half2 == -2

(* The file as "storage trip 0" leaves it, before the first power on. *)
Init ==
  /\ word1 = [s \in Slot |-> 0] /\ word2 = [s \in Slot |-> 0]
  /\ pos = 0 /\ trip = 0 /\ prev = 0 /\ t = 0
  /\ phase = "off"
  /\ durable = 0

-----------------------------------------------------------------------------
(* fsck. *)

Torn(s) == word1[s] # word2[s]

KneeOnly(s) == s > 0 /\ word1[s] < word1[s - 1]

(* The two breaks of the loop. *)
EndsScan(s) == Torn(s) \/ (s > 0 /\ word1[s] < word1[s - 1])

(* The value of tip after the loop, in slots. *)
ScanEndsAt(tip) ==
  /\ \A s \in 0 .. tip - 1 : ~EndsScan(s)
  /\ tip < Slots => EndsScan(tip)

FirstSlotBefore(tip) == IF tip = 0 THEN 0 ELSE tip - 1

(* "correct tip": the slot fsck leaves the file position at. *)
SlotBefore(tip) == IF tip = 0 THEN Slots - 1 ELSE tip - 1

(* The part of __storage_start for one counter: both words of the slot are *)
(* read, which moves the position on; the second one is kept.              *)
Load ==
  /\ \E tip \in 0 .. Slots :
       /\ ScanEndsAt(tip)
       /\ pos' = SlotBefore(tip) + 1
       /\ trip' = word2[SlotBefore(tip)]
  /\ prev' = trip'

Boot ==
  /\ phase = "off"
  /\ phase' = "run"
  /\ Load
  /\ UNCHANGED <<file, t, durable>>

-----------------------------------------------------------------------------
(* update_trip, uptime_do_tick_cb. *)
Count ==
  /\ phase # "off"
  /\ trip < MaxTrip
  /\ trip' \in trip + 1 .. MaxTrip
  /\ UNCHANGED <<file, pos, prev, phase, t, durable>>

OverwritesNewest == IF pos = Slots THEN 0 ELSE IF pos = 0 THEN 0 ELSE pos - 1

(* The slot save writes to: the position wraps at the end of the file. *)
SaveSlot == IF pos > Slots - 1 THEN 0 ELSE pos

ChangedALot == trip > prev + 1

(* "only if changed" *)
Changed == trip # prev

(* save, called by StorageThread: the first word, then the second. *)
SaveFirst ==
  /\ phase = "run"
  /\ Changed
  /\ t' = trip
  /\ pos' = SaveSlot
  /\ word1' = [word1 EXCEPT ![SaveSlot] = trip]
  /\ phase' = "saving"
  /\ UNCHANGED <<word2, trip, prev, durable>>

SaveSecond ==
  /\ phase = "saving"
  /\ word2' = [word2 EXCEPT ![pos] = t]
  /\ pos' = pos + 1
  /\ prev' = t
  /\ durable' = t
  /\ phase' = "run"
  /\ UNCHANGED <<word1, trip, t>>

-----------------------------------------------------------------------------
(* "storage dump" and "storage trip N": __storage_stop waits until the     *)
(* thread has run its loop to the end; what is counted after the thread    *)
(* last read the counter is not saved.  __storage_start loads the file.    *)

Stop ==
  /\ phase = "run"
  /\ phase' = "stopped"
  /\ UNCHANGED <<file, ram, durable>>

(* storage_cli_set: the file is filled with zeros, n goes to slot 0. *)
CliSet ==
  /\ phase = "stopped"
  /\ \E n \in Trips :
       /\ word1' = [s \in Slot |-> IF s = 0 THEN n ELSE 0]
       /\ word2' = [s \in Slot |-> IF s = 0 THEN n ELSE 0]
       /\ durable' = n
  /\ UNCHANGED <<ram, phase>>

Restart ==
  /\ phase = "stopped"
  /\ phase' = "run"
  /\ Load
  /\ UNCHANGED <<file, t, durable>>

-----------------------------------------------------------------------------
(* Power failures; RAM is cleared. *)

Reset ==
  /\ phase # "off"
  /\ phase' = "off"
  /\ pos' = 0 /\ trip' = 0 /\ prev' = 0 /\ t' = 0

PowerLoss ==
  /\ Reset
  /\ UNCHANGED <<file, durable>>

PowerLossInFirst ==
  /\ phase = "run" /\ Changed
  /\ word1' = [word1 EXCEPT ![SaveSlot] = Half1]
  /\ Reset
  /\ UNCHANGED <<word2, durable>>

PowerLossInSecond ==
  /\ phase = "saving"
  /\ word2' = [word2 EXCEPT ![pos] = Half2]
  /\ Reset
  /\ UNCHANGED <<word1, durable>>

Next ==
  \/ Boot \/ Count \/ SaveFirst \/ SaveSecond
  \/ Stop \/ CliSet \/ Restart
  \/ PowerLoss \/ PowerLossInFirst \/ PowerLossInSecond

(* The operator does not lose power in the middle of "storage trip N",     *)
(* which erases the file byte by byte and has no protection against it.    *)
Spec == Init /\ [][Next]_vars

(* StorageThread wakes up every T_save_trip milliseconds.                  *)
FairSpec == Spec /\ WF_vars(SaveFirst) /\ WF_vars(SaveSecond)

-----------------------------------------------------------------------------
Loaded == phase \in {"off", "stopped"} /\ phase' = "run"

(* The position never leaves the file, and no value that was not counted   *)
(* gets into the RAM.                                                      *)
TypeOK ==
  /\ word1 \in [Slot -> Trips \cup {Half1}]
  /\ word2 \in [Slot -> Trips \cup {Half2}]
  /\ pos \in 0 .. Slots
  /\ trip \in Trips /\ prev \in Trips /\ t \in Trips /\ durable \in Trips
  /\ phase \in {"off", "run", "saving", "stopped"}

(* storage.c:30-32: after a power failure between, or inside, the two      *)
(* writes the counter rolls back to the last correct value.                *)
LoadRestores == [][Loaded => trip' = durable]_vars

(* The stored counter implements Odometer: between two loads it only       *)
(* grows, and a load brings back the last value that was saved.            *)
Abstract == INSTANCE Odometer WITH
              value <- IF phase = "off" THEN durable ELSE trip,
              saved <- durable,
              on    <- phase # "off"

ImplementsOdometer == Abstract!Spec

(* What was counted is saved, unless the power goes away or the thread is  *)
(* stopped first.                                                          *)
CountIsSaved ==
  \A v \in Trips : (phase = "run" /\ trip = v) ~> (durable >= v \/ phase \in {"off", "stopped"})

-----------------------------------------------------------------------------
(***************************************************************************)
(* The inductive invariant.  The newest value lies in slot n; up to it the *)
(* values do not descend, and behind it the scan ends at once, because the *)
(* value there is older or torn.  Only the slot next to be written is ever *)
(* torn; when that is slot 0, the newest value is in the last one.         *)
(***************************************************************************)
SlotAfter(n) == IF n = Slots - 1 THEN 0 ELSE n + 1

ScanPasses(n) == \A s \in 0 .. n : ~EndsScan(s)

NewestAt(n) ==
  /\ word1[n] = durable /\ word2[n] = durable
  /\ \A s \in Slot : word2[s] <= durable
  /\ \A s \in Slot : Torn(s) => s = SlotAfter(n)
  /\ n < Slots - 1 => ScanPasses(n) /\ EndsScan(n + 1)
  /\ n = Slots - 1 => Torn(0) \/ ScanPasses(n)

RamFollows(n) ==
  /\ phase = "run" => pos = n + 1 /\ prev = durable /\ durable <= trip
  /\ phase = "saving" =>
       /\ pos = SlotAfter(n) /\ prev = durable
       /\ Torn(pos) /\ word1[pos] = t /\ durable < t /\ t <= trip

(* storage.c:15-19: the newest value is where the values stop growing.     *)
TripInv == \E n \in Slot : NewestAt(n) /\ RamFollows(n)
=============================================================================
