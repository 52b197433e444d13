---------------------------- MODULE BnapStorage ----------------------------
(***************************************************************************)
(* The vehicle log of the BNAP node: a ring of fixed-size records on an SD *)
(* card (src/soft/bnap/src/storage/storage.c).  No pointer to the newest   *)
(* record is stored on the card.  After a restart it is found again by a   *)
(* binary search for the "knee" of the time stamps, so everything rests on *)
(* how the clock behaves: the real time clock read at boot, the GPS that   *)
(* corrects it, and the flags time_good and time_proved.                   *)
(*                                                                         *)
(* One behaviour follows one card through any number of power losses,      *)
(* removals and insertions.  The mutual exclusion of the threads that use  *)
(* the log is the subject of module MicroSd; here every exported function  *)
(* runs to its end unless the power goes away.                             *)
(***************************************************************************)
EXTENDS Integers, FiniteSets

CONSTANTS
  Capacity,     (* blocks of the card, one record each                      *)
  VoidLimit,    (* STORAGE_VOID_LIMIT_US                                    *)
  BuildTime,    (* BUILD_TIMESTAMP: an older RTC time is not believed       *)
  Corrections,  (* SysTimeShift values a GPS fix may ask for                *)
  MaxTime       (* bound on the clock                                       *)

ASSUME StorageAssumption ==
  /\ Capacity \in Nat /\ Capacity >= 3
  /\ VoidLimit \in Nat
  /\ BuildTime \in Nat
  /\ Corrections \subseteq Int
  /\ MaxTime \in Nat

VARIABLES
  card,         (* block -> time stamp of the record in it, or Blank        *)
  tip,          (* BnapStorage_t.tip: block the next record goes to         *)
  used,         (* BnapStorage_t.used: number of readable records           *)
  mtime,        (* BnapStorage_t.mtime: stamp of the last record            *)
  phase,        (* "off" (no card mounted), "mounting" or "ready"           *)
  p0, p1,       (* the two block numbers of the search in bnapStorageMount  *)
  now,          (* SysTimeUsec                                              *)
  shift,        (* SysTimeShift: correction the next system tick applies    *)
  time_good, time_proved,
  head,         (* history: the tip the log had when it was last ready      *)
  session       (* history: records written since the mount, at most Capacity *)

ram    == <<tip, used, mtime>>
knee   == <<p0, p1>>
clock  == <<now, shift, time_good, time_proved>>
ghosts == <<head, session>>
vars   == <<card, ram, phase, knee, clock, ghosts>>

Blocks == 0 .. Capacity - 1

(* A block without signature or with a wrong CRC: erased, or torn by a     *)
(* power loss in the middle of its write.                                  *)
Blank == -2

(* The time stamp _fill_buf gets while the time is good but not proved.    *)
NoTime == -1

CheckBlockOfTorn(b) == IF card[b] = Blank THEN 0 ELSE card[b]

(* _check_block: the stamp of a valid record that is not in the future.    *)
CheckBlock(b) == IF card[b] \in 0 .. now THEN card[b] ELSE -1

(* One system tick, at which timekeeper_vt_cb applies the pending shift.   *)
ClockAdvances ==
  /\ now' = now + 1 + shift
  /\ now' \in 0 .. MaxTime
  /\ shift' = 0

(* TimekeeperInit: a RTC time is believed unless it is before the build.   *)
TimeLooksGood(t) == IF t >= BuildTime THEN TRUE ELSE FALSE

Init ==
  /\ card = [b \in Blocks |-> Blank]
  /\ tip = 0 /\ used = 0 /\ mtime = 0
  /\ phase = "off"
  /\ p0 = 0 /\ p1 = 0
  /\ now \in 0 .. MaxTime
  /\ shift = 0
  /\ time_good = TimeLooksGood(now)
  /\ time_proved = FALSE
  /\ head = 0 /\ session = 0

-----------------------------------------------------------------------------
(* Clock. *)

Tick ==
  /\ ClockAdvances
  /\ UNCHANGED <<card, ram, phase, knee, time_good, time_proved, ghosts>>

(* TimekeeperThread after a PPS edge and the NMEA time that belongs to it. *)
(* The flags are set at once, the shift waits for the next tick.           *)
GpsFix ==
  /\ shift' \in Corrections
  /\ time_good' = TRUE
  /\ time_proved' = TRUE
  /\ UNCHANGED <<card, ram, phase, knee, now, ghosts>>

-----------------------------------------------------------------------------
(* Mount: one action per turn of the loop, because the clock may be        *)
(* corrected and the power may fail between two turns.                     *)

MountBegin ==
  /\ phase = "off"
  /\ phase' = "mounting"
  /\ p0' = 0 /\ p1' = Capacity - 1
  /\ UNCHANGED <<card, ram, clock, ghosts>>

SearchGoesOnTooFar == p1 >= p0

SearchGoesOn == p1 > p0 + 1

KneeIsLeftOf(mid) == CheckBlock(p0) > CheckBlock(mid)

KneeIsRightOf(mid) == CheckBlock(p0) < CheckBlock(mid)

SearchKnee ==
  LET mid == p0 + ((p1 - p0) \div 2)
  IN  /\ phase = "mounting"
      /\ SearchGoesOn
      /\ \/ /\ p0 = 0 /\ CheckBlock(p0) = -1
            /\ p1' = p0
            /\ UNCHANGED p0
         \/ /\ ~(p0 = 0 /\ CheckBlock(p0) = -1)
            /\ KneeIsRightOf(mid)
            /\ p0' = mid
            /\ UNCHANGED p1
         \/ /\ ~(p0 = 0 /\ CheckBlock(p0) = -1)
            /\ ~KneeIsRightOf(mid)
            /\ p1' = mid
            /\ UNCHANGED p0
      /\ UNCHANGED <<card, ram, phase, clock, ghosts>>

FoundNewest(t0, t1) == p0

FoundTip(t0, t1) == IF t0 > t1 THEN p1 ELSE p0

MountEnd ==
  LET t0 == CheckBlock(p0)
      t1 == CheckBlock(p1)
  IN  /\ phase = "mounting"
      /\ ~SearchGoesOn
      /\ phase' = "ready"
      /\ tip' = FoundTip(t0, t1)
      /\ mtime' = IF t0 > t1 THEN t0 ELSE t1
      /\ used' = IF t1 = -1 THEN tip' ELSE Capacity
      /\ head' = tip'
      /\ session' = 0
      /\ UNCHANGED <<card, knee, clock>>

-----------------------------------------------------------------------------
(* bnapStorageDoRecord.  It changes nothing unless time_good; with a       *)
(* proved time it refuses a stamp older than mtime.                        *)

Stamp == IF time_proved THEN now ELSE NoTime

ClockNeverWentBack == FALSE

ClockWentBack == time_proved /\ mtime > now

RecordAllowed ==
  /\ phase = "ready"
  /\ time_good
  /\ ~ClockWentBack

NextTipWrapsEarly == IF tip + 1 >= Capacity - 1 THEN 0 ELSE tip + 1

NextTip == IF tip + 1 >= Capacity THEN 0 ELSE tip + 1

NextUsed == IF used + 1 >= Capacity THEN Capacity ELSE used + 1

(* The write takes at least one tick, so two records share a stamp only if *)
(* the clock is set back between them.                                     *)
Record ==
  /\ RecordAllowed
  /\ card' = [card EXCEPT ![tip] = Stamp]
  /\ tip' = NextTip
  /\ used' = NextUsed
  /\ mtime' = Stamp
  /\ head' = tip'
  /\ session' = IF session < Capacity THEN session + 1 ELSE session
  /\ ClockAdvances
  /\ UNCHANGED <<phase, knee, time_good, time_proved>>

(* bnapStorageWipe: the whole card is erased and tip goes back to block 0. *)
Wipe ==
  /\ card' = [b \in Blocks |-> Blank]
  /\ tip' = 0
  /\ head' = 0
  /\ session' = 0

(* The log lies too far in the future: it is wiped in place.               *)
RecordWipes ==
  /\ phase = "ready"
  /\ time_good
  /\ ClockWentBack
  /\ mtime > now + VoidLimit
  /\ Wipe
  /\ UNCHANGED <<used, mtime, phase, knee, clock>>

(* "storage wipe" of the shell: the threads are stopped, the card is       *)
(* erased, and MicrosdInit starts the threads again, which mount it.       *)
CliWipe ==
  /\ phase = "ready"
  /\ Wipe
  /\ phase' = "off"
  /\ UNCHANGED <<used, mtime, knee, clock>>

-----------------------------------------------------------------------------
(* Power and card. *)

(* RAM is cleared; the RTC goes on, or lost its time, or is wrong.         *)
Reboot ==
  /\ phase' = "off"
  /\ tip' = 0 /\ used' = 0 /\ mtime' = 0
  /\ p0' = 0 /\ p1' = 0
  /\ now' \in 0 .. MaxTime
  /\ shift' = 0
  /\ time_good' = TimeLooksGood(now')
  /\ time_proved' = FALSE
  /\ session' = 0
  /\ UNCHANGED head

PowerLoss ==
  /\ Reboot
  /\ UNCHANGED card

(* The power fails inside the block write: the block is left without CRC.  *)
(* So it is when the card is pulled out and the chDbgChecks are compiled   *)
(* in, which halts the node.                                               *)
PowerLossInRecord ==
  /\ RecordAllowed
  /\ card' = [card EXCEPT ![tip] = Blank]
  /\ Reboot

(* The power fails inside the erase: any part of the card is left.         *)
PowerLossInWipe ==
  /\ phase = "ready"
  /\ \E erased \in SUBSET Blocks :
       card' = [b \in Blocks |-> IF b \in erased THEN Blank ELSE card[b]]
  /\ Reboot

(* _remove_handler, and a card pulled out during the mount.  What the RAM  *)
(* holds of it is not used again before the next mount overwrites it.      *)
CardRemoved ==
  /\ phase \in {"mounting", "ready"}
  /\ phase' = "off"
  /\ session' = 0
  /\ UNCHANGED <<card, ram, knee, clock, head>>

(* The same with the chDbgChecks compiled out: the node goes on.           *)
CardRemovedInRecord ==
  /\ RecordAllowed
  /\ card' = [card EXCEPT ![tip] = Blank]
  /\ phase' = "off"
  /\ session' = 0
  /\ UNCHANGED <<ram, knee, clock, head>>

-----------------------------------------------------------------------------
WriterStep == MountBegin \/ SearchKnee \/ MountEnd \/ Record \/ RecordWipes

StorageNext ==
  \/ Tick \/ GpsFix
  \/ WriterStep
  \/ CliWipe
  \/ PowerLoss \/ PowerLossInRecord
  \/ CardRemoved \/ CardRemovedInRecord

Next == StorageNext \/ PowerLossInWipe

Spec == Init /\ [][Next]_vars

(***************************************************************************)
(* The postulates the log is built on, storage.c:249-260 and               *)
(* microsd.c:6-13: only the GPS sets the time, and a record is written     *)
(* only with a time known to be right.  As conditions on the environment:  *)
(* a card is searched only while the clock is past its records; while it   *)
(* is mounted, a correction may set the clock behind the last record by no *)
(* more than the limit; no record is written before the time is proved,    *)
(* and no two with the same time.  An erase, once begun, is completed.     *)
(* That the time is proved is no condition for a mount, as it is none for  *)
(* the thread that mounts the card about a second after the boot           *)
(* (microsd.c:149-156), and while the card is not in use the clock may go  *)
(* where it likes.                                                         *)
(***************************************************************************)
ClockIsPast ==
  /\ phase = "mounting" => \A b \in Blocks : card[b] < now
  /\ phase = "ready" =>
       /\ mtime <= now + VoidLimit
       /\ \A b \in Blocks : card[b] < now \/ card[b] <= mtime

Postulates ==
  /\ ClockIsPast'
  /\ Record => time_proved /\ now # mtime

SteadyNext == StorageNext /\ Postulates

SteadySpec == Init /\ [][SteadyNext]_vars

(* The writer thread runs: no one starves a thread of its priority for     *)
(* ever, and a mount that can take a step takes it.                        *)
FairSpec == SteadySpec /\ WF_vars(SearchKnee) /\ WF_vars(MountEnd)

-----------------------------------------------------------------------------
(* _rec2block: the block of record number rec, the oldest one being 0.     *)
Rec2Block(rec) == IF used < Capacity THEN rec ELSE (tip + rec) % Capacity

Records == 0 .. used - 1

Full == \A b \in Blocks : card[b] # Blank

MountDone == phase = "mounting" /\ phase' = "ready"

-----------------------------------------------------------------------------
(* The variables stay in their domains: tip is a block of the card, used   *)
(* is clamped to its capacity (the comment of BnapStorage_t.used), the     *)
(* search never leaves the card.                                           *)
TypeOK ==
  /\ card \in [Blocks -> {Blank, NoTime} \cup (0 .. MaxTime)]
  /\ tip \in Blocks
  /\ used \in 0 .. Capacity
  /\ mtime \in {NoTime} \cup (0 .. MaxTime)
  /\ phase \in {"off", "mounting", "ready"}
  /\ p0 \in Blocks /\ p1 \in Blocks
  /\ now \in 0 .. MaxTime
  /\ shift \in {0} \cup Corrections
  /\ time_good \in BOOLEAN /\ time_proved \in BOOLEAN
  /\ head \in Blocks
  /\ session \in 0 .. Capacity

(* However the GPS moves the clock, the records written since the mount    *)
(* lie behind the tip in the order of their stamps: DoRecord waits while   *)
(* the clock is behind mtime, and the ring wraps at the end of the card.   *)
SessionSorted ==
  phase = "ready" =>
    \A i, j \in 1 .. session :
      i < j => card[(tip + Capacity - j) % Capacity] <= card[(tip + Capacity - i) % Capacity]

(* The log goes on after a restart at the block it was about to write      *)
(* before it: the knee is found.  The exception is the code's: a full card *)
(* whose newest record is in its last block is mounted two blocks early.   *)
(* It needs the postulates: records written before the first GPS fix have  *)
(* the stamp -1, and no later mount finds them; nor does it find what is   *)
(* newer than the clock.                                                   *)
MountResumes ==
  [][MountDone => \/ tip' = head
                  \/ Full /\ head \in {0, Capacity - 2} /\ tip' = Capacity - 2]_vars

(* Every record number a reader may ask for leads to a block that holds a  *)
(* record, never to one that is torn or erased.                            *)
ServedRecordsExist ==
  phase = "ready" => \A rec \in Records : card[Rec2Block(rec)] # Blank

(* What the card holds implements RecordLog: a record is stored without    *)
(* losing another one while there is room, and no step but an erase loses  *)
(* more than one.                                                          *)
Log == INSTANCE RecordLog WITH
         log <- {card[b] : b \in Blocks} \ {Blank},
         Stamps <- 0 .. MaxTime

ImplementsRecordLog == Log!Spec

(* The binary search of the mount ends.                                    *)
MountTerminates == (phase = "mounting") ~> (phase # "mounting")

-----------------------------------------------------------------------------
(***************************************************************************)
(* The inductive invariant of SteadySpec, checked by TLC and proved in     *)
(* BnapStorage_proofs.  Its parts say where the knee is (head), which      *)
(* blocks may be blank, what the search has established, and what the RAM  *)
(* of a mounted log knows.                                                 *)
(***************************************************************************)
Ascending(n) == \A i, j \in 0 .. n - 1 : i < j => card[i] < card[j]

Holds(n) == \A b \in 0 .. n - 1 : card[b] # Blank

(* The records before head ascend, those behind it are older than all of   *)
(* them.  The last block escapes that after a mount two blocks early, and  *)
(* is looked at only when head is there.                                   *)
KneeAt(h) ==
  /\ Holds(h) /\ Ascending(h)
  /\ \A b \in h .. Capacity - 2 : card[b] < card[0]
  /\ h = Capacity - 1 => card[h] < card[h - 1]

FullAscending == Holds(Capacity) /\ Ascending(Capacity)

KneeInv ==
  \/ head > 0 /\ KneeAt(head)
  \/ head = 0 /\ card[0] = Blank
  \/ head \in {0, Capacity - 2} /\ FullAscending

BlankInv ==
  \A b \in Blocks \ {head} :
    card[b] = Blank => b > head /\ \A c \in head .. Capacity - 1 : card[c] = Blank

PastInv ==
  /\ \A b \in Blocks : card[b] # NoTime
  /\ ClockIsPast

MountInv ==
  phase = "mounting" =>
    /\ card[0] = Blank => p0 = 0 /\ p1 \in {0, Capacity - 1}
    /\ head > 0 /\ KneeAt(head) => p0 < head /\ head <= p1
    /\ FullAscending => p0 < p1 /\ p1 = Capacity - 1

ReadyInv ==
  phase = "ready" =>
    /\ tip = head
    /\ used < Capacity => used = tip
    /\ used = Capacity => Full

(* Under the postulates the card always has one knee, where the log        *)
(* stopped (storage.c:170 "Search last record in ring buffer using binary  *)
(* search").                                                               *)
SteadyInv ==
  KneeInv /\ BlankInv /\ PastInv /\ MountInv /\ ReadyInv

-----------------------------------------------------------------------------
(* What comments of the source say and the code does not do.               *)

(* "Search number of first block suitable for writing" (storage.c:308).    *)
MountFindsFirstFreeBlock == [][MountDone => tip' = head]_vars

(* "kill all data in storage and start from clear state" (storage.c:20):   *)
(* a log that was just wiped because of the clock accepts records.         *)
WipedLogStartsOver ==
  (phase = "ready" /\ \A b \in Blocks : card[b] = Blank) => ~ClockWentBack
=============================================================================
