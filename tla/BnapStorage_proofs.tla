------------------------- MODULE BnapStorage_proofs -------------------------
(***************************************************************************)
(* Proofs about what the BNAP board keeps.  The log (BnapStorage), for     *)
(* every capacity, clock bound and set of GPS corrections: the types, the  *)
(* order of the records of a session, and, under the postulates the source *)
(* states, that a mount resumes where the log stopped, that no record      *)
(* number handed to a reader leads to a torn or erased block, and that the *)
(* card implements RecordLog.  The parameters (ParamStore) and the shell's *)
(* command for them (ParamShell), on both boards and for every registry:   *)
(* no verification fails, every value is in its range, a save is whole,    *)
(* and what the shell says is true.                                        *)
(***************************************************************************)
EXTENDS MCBnapStore, FiniteSetTheorems, SequenceTheorems, TLAPS

(* The middle of a search that goes on lies strictly between its ends.     *)
LEMMA MidBetween ==
  ASSUME NEW a \in Nat, NEW b \in Nat, b > a + 1
  PROVE  /\ a + ((b - a) \div 2) \in Nat
         /\ a < a + ((b - a) \div 2)
         /\ a + ((b - a) \div 2) < b
BY SMT

(* A stamp the check of a block returns is -1 or a time already past.      *)
LEMMA CheckBlockRange ==
  ASSUME TypeOK, NEW b \in Blocks
  PROVE  CheckBlock(b) \in {-1} \cup (0 .. MaxTime)
BY StorageAssumption DEF TypeOK, CheckBlock, Blocks, Blank, NoTime

(* What a reboot leaves is well typed.                                     *)
LEMMA RebootType ==
  ASSUME TypeOK, Reboot, card' \in [Blocks -> {Blank, NoTime} \cup (0 .. MaxTime)]
  PROVE  TypeOK'
<1>1. time_good' \in BOOLEAN
  BY Zenon DEF Reboot, TimeLooksGood
<1>2. /\ tip' \in Blocks /\ used' \in 0 .. Capacity
      /\ mtime' \in {NoTime} \cup (0 .. MaxTime)
      /\ p0' \in Blocks /\ p1' \in Blocks
      /\ session' \in 0 .. Capacity
  BY StorageAssumption DEF Reboot, Blocks, NoTime
<1> QED
  BY <1>1, <1>2, Zenon DEF TypeOK, Reboot

(* An erased card in a node that was just switched on is well typed.       *)
LEMMA InitType == Init => TypeOK
<1> SUFFICES ASSUME Init PROVE TypeOK
  OBVIOUS
<1>1. time_good \in BOOLEAN
  BY Zenon DEF Init, TimeLooksGood
<1>2. 0 \in Blocks /\ 0 \in 0 .. Capacity /\ 0 \in 0 .. MaxTime
  BY StorageAssumption DEF Blocks
<1>3. card \in [Blocks -> {Blank, NoTime} \cup (0 .. MaxTime)]
  BY DEF Init
<1> QED
  BY <1>1, <1>2, <1>3, Zenon DEF Init, TypeOK

(* Every step of the log, its mount, the clock and the power keeps the     *)
(* types.                                                                  *)
LEMMA TypeStep == TypeOK /\ [Next]_vars => TypeOK'
<1> SUFFICES ASSUME TypeOK, [Next]_vars PROVE TypeOK'
  OBVIOUS
<1> USE StorageAssumption
<1>1. CASE Tick
  BY <1>1 DEF Tick, ClockAdvances, TypeOK, ram, knee, ghosts
<1>2. CASE GpsFix
  BY <1>2 DEF GpsFix, TypeOK, ram, knee, ghosts
<1>3. CASE MountBegin
  BY <1>3 DEF MountBegin, TypeOK, ram, clock, ghosts, Blocks
<1>4. CASE SearchKnee
  <2> DEFINE mid == p0 + ((p1 - p0) \div 2)
  <2>1. mid \in Blocks
    <3>1. p0 \in Nat /\ p1 \in Nat /\ p1 > p0 + 1 /\ p1 \in Blocks
      BY <1>4 DEF SearchKnee, SearchGoesOn, TypeOK, Blocks
    <3>2. mid \in Nat /\ mid < p1
      BY <3>1, MidBetween
    <3> QED
      BY <3>1, <3>2 DEF Blocks
  <2>2. p0' \in {p0, mid} /\ p1' \in {p0, p1, mid}
    BY <1>4 DEF SearchKnee
  <2>3. p0' \in Blocks /\ p1' \in Blocks
    BY <2>1, <2>2 DEF TypeOK
  <2>4. UNCHANGED <<card, ram, phase, clock, ghosts>>
    BY <1>4 DEF SearchKnee
  <2> QED
    BY <2>3, <2>4 DEF TypeOK, ram, clock, ghosts
<1>5. CASE MountEnd
  <2>1. CheckBlock(p0) \in {-1} \cup (0 .. MaxTime)
    BY CheckBlockRange DEF TypeOK
  <2>2. CheckBlock(p1) \in {-1} \cup (0 .. MaxTime)
    BY CheckBlockRange DEF TypeOK
  <2>3. tip' \in Blocks /\ mtime' \in {NoTime} \cup (0 .. MaxTime)
    BY <1>5, <2>1, <2>2 DEF MountEnd, FoundTip, TypeOK, NoTime
  <2>4. used' \in {tip', Capacity} /\ head' = tip' /\ session' = 0 /\ phase' = "ready"
    BY <1>5 DEF MountEnd
  <2>5. used' \in 0 .. Capacity
    BY <2>3, <2>4 DEF Blocks
  <2> QED
    BY <1>5, <2>3, <2>4, <2>5 DEF MountEnd, TypeOK, knee, clock
<1>6. CASE Record
  <2>1. Stamp \in {Blank, NoTime} \cup (0 .. MaxTime) /\ Stamp \in {NoTime} \cup (0 .. MaxTime)
    BY DEF Stamp, TypeOK
  <2>2. NextTip \in Blocks
    BY DEF NextTip, TypeOK, Blocks
  <2>3. NextUsed \in 0 .. Capacity
    BY DEF NextUsed, TypeOK
  <2>4. card' \in [Blocks -> {Blank, NoTime} \cup (0 .. MaxTime)]
    BY <1>6, <2>1 DEF Record, TypeOK
  <2>5. session' \in 0 .. Capacity
    BY <1>6 DEF Record, TypeOK
  <2> QED
    BY <1>6, <2>1, <2>2, <2>3, <2>4, <2>5 DEF Record, ClockAdvances, TypeOK, knee
<1>7. CASE RecordWipes
  BY <1>7 DEF RecordWipes, Wipe, TypeOK, knee, clock, Blocks
<1>8. CASE CliWipe
  BY <1>8 DEF CliWipe, Wipe, TypeOK, knee, clock, Blocks
<1>9. CASE PowerLoss
  BY <1>9, RebootType DEF PowerLoss, TypeOK
<1>10. CASE PowerLossInRecord
  BY <1>10, RebootType DEF PowerLossInRecord, TypeOK
<1>11. CASE PowerLossInWipe
  BY <1>11, RebootType DEF PowerLossInWipe, TypeOK
<1>12. CASE CardRemoved
  BY <1>12 DEF CardRemoved, TypeOK, ram, knee, clock
<1>13. CASE CardRemovedInRecord
  BY <1>13 DEF CardRemovedInRecord, TypeOK, ram, knee, clock
<1>14. CASE UNCHANGED vars
  BY <1>14 DEF vars, TypeOK, ram, knee, clock, ghosts
<1> QED
  BY <1>1, <1>2, <1>3, <1>4, <1>5, <1>6, <1>7, <1>8, <1>9, <1>10, <1>11, <1>12, <1>13, <1>14
     DEF Next, StorageNext, WriterStep

(* Every variable of the log and of its mount stays in its domain, for any *)
(* clock: bnapStorageDoRecord, bnapStorageMount and bnapStorageWipe keep   *)
(* tip on the card and used within its capacity.                           *)
THEOREM TypeCorrect == Spec => []TypeOK
BY InitType, TypeStep, PTL DEF Spec

-----------------------------------------------------------------------------
(* While a card is searched its records lie in the past, so the check of a *)
(* block returns its stamp, or -1 for a blank one.                         *)
LEMMA CheckBlockPast ==
  ASSUME TypeOK, PastInv, phase = "mounting", NEW b \in Blocks
  PROVE  /\ card[b] \in Int
         /\ card[b] = Blank => CheckBlock(b) = -1
         /\ card[b] # Blank => CheckBlock(b) = card[b] /\ card[b] >= 0 /\ card[b] < now
BY StorageAssumption DEF TypeOK, PastInv, ClockIsPast, CheckBlock, Blocks, Blank, NoTime

(* The card stays as it is, and where the clock may go: so does the knee.  *)
LEMMA CardKept ==
  ASSUME TypeOK, TypeOK', KneeInv, BlankInv, PastInv,
         card' = card, head' = head, ClockIsPast'
  PROVE  KneeInv' /\ BlankInv' /\ PastInv'
<1>1. KneeInv'
  BY DEF KneeInv, KneeAt, FullAscending, Holds, Ascending, Blank
<1>2. BlankInv'
  BY DEF BlankInv, Blocks, Blank
<1>3. PastInv'
  BY DEF PastInv
<1> QED
  BY <1>1, <1>2, <1>3

(* DoRecord waits while the clock is behind the last record, so what it    *)
(* writes is newer than all records.                                       *)
LEMMA RecordIsNewest ==
  ASSUME TypeOK, SteadyInv, Record, Postulates
  PROVE  time_proved /\ now \in Nat /\ \A b \in Blocks : card[b] < now
<1>1. /\ phase = "ready" /\ time_proved /\ now # mtime
      /\ ~ClockWentBack
  BY DEF Record, RecordAllowed, Postulates
<1>2. /\ now \in Nat /\ mtime \in Int
      /\ \A b \in Blocks : card[b] \in Int
  BY DEF TypeOK, Blank, NoTime
<1>3. ~(mtime > now)
  BY <1>1 DEF ClockWentBack
<1>4. \A b \in Blocks : card[b] < now \/ card[b] <= mtime
  BY <1>1 DEF SteadyInv, PastInv, ClockIsPast
<1>5. \A b \in Blocks : card[b] < now
  BY <1>1, <1>2, <1>3, <1>4
<1> QED
  BY <1>1, <1>2, <1>5

(* A record written at the tip moves the knee by one block.                *)
LEMMA RecordMovesKnee ==
  ASSUME TypeOK, TypeOK', KneeInv, BlankInv, PastInv, tip = head,
         card' = [card EXCEPT ![tip] = now], head' = NextTip,
         \A b \in Blocks : card[b] < now, ClockIsPast'
  PROVE  KneeInv' /\ BlankInv' /\ PastInv'
<1> USE StorageAssumption DEF Blocks, Blank
<1>0. now \in Nat /\ card \in [Blocks -> Int] /\ head \in Blocks
  BY DEF TypeOK, NoTime
<1>1. \A b \in Blocks : card[b] < now
  OBVIOUS
<1>2. /\ card'[head] = now
      /\ \A b \in Blocks : b # head => card'[b] = card[b]
  BY <1>0
<1>3. head' = IF head = Capacity - 1 THEN 0 ELSE head + 1
  BY <1>0 DEF NextTip
<1>4. KneeInv'
  <2>1. CASE head = 0
    <3>1. head' = 1
      BY <2>1, <1>3
    <3>2. KneeAt(1)'
      BY <2>1, <1>0, <1>1, <1>2 DEF KneeAt, Holds, Ascending
    <3> QED
      BY <3>1, <3>2 DEF KneeInv
  <2>2. CASE head > 0 /\ KneeAt(head)
    <3>0. PICK h \in Blocks : h = head
      BY <1>0
    <3>1. Holds(h + 1)' /\ Ascending(h + 1)'
      BY <2>2, <3>0, <1>0, <1>1, <1>2 DEF KneeAt, Holds, Ascending
    <3>2. CASE h = Capacity - 1
      <4>1. head' = 0 /\ h + 1 = Capacity
        BY <3>0, <3>2, <1>3
      <4>2. FullAscending'
        BY <3>1, <4>1 DEF FullAscending, Holds, Ascending
      <4> QED
        BY <4>1, <4>2 DEF KneeInv
    <3>3. CASE h < Capacity - 1
      <4>1. \A b \in h + 1 .. Capacity - 2 : card'[b] < card'[0]
        BY <2>2, <3>0, <1>0, <1>2 DEF KneeAt
      <4>2. h + 1 = Capacity - 1 => card'[h + 1] < card'[h]
        BY <3>0, <3>3, <1>0, <1>1, <1>2
      <4>3. KneeAt(h + 1)'
        BY <3>1, <4>1, <4>2 DEF KneeAt, Holds, Ascending
      <4>4. head' = h + 1 /\ head' > 0
        BY <3>0, <3>3, <1>0, <1>3
      <4> QED
        BY <4>3, <4>4 DEF KneeInv, KneeAt, Holds, Ascending
    <3> QED
      BY <3>2, <3>3
  <2>3. CASE head = Capacity - 2 /\ FullAscending
    <3>1. head' = Capacity - 1 /\ head' > 0
      BY <2>3, <1>3
    <3>2. KneeAt(Capacity - 1)'
      BY <2>3, <1>0, <1>1, <1>2 DEF FullAscending, KneeAt, Holds, Ascending
    <3> QED
      BY <3>1, <3>2 DEF KneeInv, KneeAt, Holds, Ascending
  <2> QED
    BY <2>1, <2>2, <2>3 DEF KneeInv
<1>5. BlankInv'
  BY <1>0, <1>2, <1>3 DEF BlankInv
<1>6. PastInv'
  <2>1. \A b \in Blocks : card'[b] # NoTime
    BY <1>0, <1>2 DEF PastInv, NoTime
  <2> QED
    BY <2>1 DEF PastInv
<1> QED
  BY <1>4, <1>5, <1>6

-----------------------------------------------------------------------------
(* One turn of the search keeps the knee between its two blocks.           *)
LEMMA SearchKeepsKnee ==
  ASSUME TypeOK, KneeInv, PastInv, MountInv, phase = "mounting", SearchKnee
  PROVE  MountInv'
<1> USE StorageAssumption DEF Blocks
<1> DEFINE mid == p0 + ((p1 - p0) \div 2)
<1>1. /\ phase = "mounting" /\ phase' = "mounting" /\ p1 > p0 + 1
      /\ card' = card /\ head' = head
  BY DEF SearchKnee, SearchGoesOn, ram, ghosts
<1>2. p0 \in Blocks /\ p1 \in Blocks /\ head \in Blocks
  BY DEF TypeOK
<1>3. mid \in Blocks /\ p0 < mid /\ mid < p1
  <2>1. mid \in Nat /\ p0 < mid /\ mid < p1
    BY <1>1, <1>2, MidBetween
  <2> QED
    BY <2>1, <1>2
<1>4. \/ p0 = 0 /\ CheckBlock(p0) = -1 /\ p1' = p0 /\ p0' = p0
      \/ ~(p0 = 0 /\ CheckBlock(p0) = -1) /\ KneeIsRightOf(mid) /\ p0' = mid /\ p1' = p1
      \/ ~(p0 = 0 /\ CheckBlock(p0) = -1) /\ ~KneeIsRightOf(mid) /\ p1' = mid /\ p0' = p0
  BY DEF SearchKnee
<1>5. ASSUME card[0] = Blank PROVE p0' = 0 /\ p1' \in {0, Capacity - 1}
  <2>1. p0 = 0 /\ CheckBlock(0) = -1
    BY <1>1, <1>5, CheckBlockPast DEF MountInv
  <2> QED
    BY <2>1, <1>4
<1>6. ASSUME head > 0, KneeAt(head) PROVE p0' < head /\ head <= p1'
  <2>1. p0 < head /\ head <= p1
    BY <1>1, <1>6 DEF MountInv
  <2>2. CheckBlock(p0) = card[p0] /\ card[p0] >= 0 /\ card[0] <= card[p0] /\ card[0] >= 0
    <3>1. card[p0] # Blank /\ card[0] # Blank
      BY <1>2, <1>6, <2>1 DEF KneeAt, Holds
    <3>2. p0 > 0 => card[0] < card[p0]
      BY <1>2, <1>6, <2>1 DEF KneeAt, Ascending
    <3> QED
      BY <1>2, <3>1, <3>2, CheckBlockPast
  <2>3. ASSUME mid < head PROVE KneeIsRightOf(mid)
    <3>1. card[mid] # Blank /\ card[p0] < card[mid]
      BY <1>2, <1>3, <1>6, <2>3 DEF KneeAt, Holds, Ascending
    <3> QED
      BY <1>3, <2>2, <3>1, CheckBlockPast DEF KneeIsRightOf
  <2>4. ASSUME mid >= head PROVE ~KneeIsRightOf(mid)
    <3>1. card[mid] < card[0]
      BY <1>2, <1>3, <1>6, <2>4 DEF KneeAt
    <3>2. CheckBlock(mid) \in {-1, card[mid]} /\ card[mid] \in Int /\ card[0] \in Int /\ card[p0] \in Int
      BY <1>2, <1>3, CheckBlockPast
    <3> QED
      BY <2>2, <3>1, <3>2 DEF KneeIsRightOf
  <2> QED
    BY <1>2, <1>3, <1>4, <2>1, <2>2, <2>3, <2>4
<1>7. ASSUME FullAscending PROVE p0' < p1' /\ p1' = Capacity - 1
  <2>1. p1 = Capacity - 1
    BY <1>1, <1>7 DEF MountInv
  <2>2. card[p0] # Blank /\ card[mid] # Blank /\ card[p0] < card[mid]
    BY <1>2, <1>3, <1>7 DEF FullAscending, Holds, Ascending
  <2>3. KneeIsRightOf(mid) /\ CheckBlock(p0) # -1
    BY <1>2, <1>3, <2>2, CheckBlockPast DEF KneeIsRightOf
  <2> QED
    BY <1>3, <1>4, <2>1, <2>3
<1> QED
  BY <1>1, <1>5, <1>6, <1>7 DEF MountInv, KneeAt, FullAscending, Holds, Ascending

(* Where the mount ends: at the knee, but for the full card whose newest   *)
(* record is in its last block.                                            *)
LEMMA MountEndAtKnee ==
  ASSUME TypeOK, KneeInv, BlankInv, PastInv, MountInv, phase = "mounting", MountEnd
  PROVE  /\ \/ tip' = head
            \/ FullAscending /\ head \in {0, Capacity - 2} /\ tip' = Capacity - 2
         /\ used' < Capacity => used' = tip'
         /\ used' = Capacity => Full
<1> USE StorageAssumption DEF Blocks
<1> DEFINE t0 == CheckBlock(p0)
           t1 == CheckBlock(p1)
<1>1. /\ phase = "mounting" /\ ~(p1 > p0 + 1)
      /\ tip' = IF t0 > t1 THEN p1 ELSE p0
      /\ mtime' = IF t0 > t1 THEN t0 ELSE t1
      /\ used' = IF t1 = -1 THEN tip' ELSE Capacity
  BY DEF MountEnd, FoundTip, SearchGoesOn
<1>2. p0 \in Blocks /\ p1 \in Blocks /\ head \in Blocks /\ now \in Nat
  BY DEF TypeOK
<1>4. CASE head = 0 /\ card[0] = Blank
  <2>1. p0 = 0 /\ p1 = 0
    BY <1>1, <1>4 DEF MountInv
  <2>2. t0 = -1 /\ t1 = -1
    BY <1>4, <2>1, CheckBlockPast
  <2> QED
    BY <1>1, <1>4, <2>1, <2>2
<1>5. CASE head > 0 /\ KneeAt(head)
  <2>1. p0 = head - 1 /\ p1 = head
    BY <1>1, <1>2, <1>5 DEF MountInv
  <2>2. card[p0] # Blank /\ card[0] # Blank /\ (p0 > 0 => card[0] < card[p0])
    BY <1>2, <1>5, <2>1 DEF KneeAt, Holds, Ascending
  <2>3. t0 = card[p0] /\ t0 >= 0 /\ card[0] <= t0
    BY <1>2, <2>2, CheckBlockPast
  <2>4. card[p1] < t0
    <3>1. CASE head = Capacity - 1
      BY <1>5, <2>1, <2>3, <3>1 DEF KneeAt
    <3>2. CASE head # Capacity - 1
      <4>1. card[p1] < card[0]
        BY <1>2, <1>5, <2>1, <3>2 DEF KneeAt
      <4> QED
        BY <1>2, <2>3, <4>1, CheckBlockPast
    <3> QED
      BY <3>1, <3>2
  <2>5. t1 = (IF card[p1] = Blank THEN -1 ELSE card[p1])
    BY <1>2, CheckBlockPast
  <2>6. t0 > t1
    BY <1>2, <2>3, <2>4, <2>5, CheckBlockPast
  <2>7. t1 # -1 => Full
    BY <1>2, <2>1, <2>5 DEF BlankInv, Full
  <2> QED
    BY <1>1, <1>2, <2>1, <2>6, <2>7
<1>6. CASE head \in {0, Capacity - 2} /\ FullAscending
  <2>1. p0 = Capacity - 2 /\ p1 = Capacity - 1
    BY <1>1, <1>2, <1>6 DEF MountInv
  <2>2. card[p0] # Blank /\ card[p1] # Blank /\ card[p0] < card[p1]
    BY <1>6, <2>1 DEF FullAscending, Holds, Ascending
  <2>3. t0 < t1 /\ t1 # -1 /\ t0 \in Int /\ t1 \in Int
    BY <1>2, <2>2, CheckBlockPast
  <2>4. Full
    BY <1>6 DEF Full, FullAscending, Holds
  <2> QED
    BY <1>1, <1>6, <2>1, <2>3, <2>4
<1> QED
  BY <1>4, <1>5, <1>6 DEF KneeInv

-----------------------------------------------------------------------------
(* A reboot leaves the card with its knee.                                 *)
LEMMA RebootKeepsInv ==
  ASSUME TypeOK, TypeOK', KneeInv, BlankInv, PastInv, Reboot, card' = card
  PROVE  SteadyInv'
<1>1. ClockIsPast'
  BY DEF Reboot, ClockIsPast
<1>2. KneeInv' /\ BlankInv' /\ PastInv'
  BY <1>1, CardKept DEF Reboot
<1>3. MountInv' /\ ReadyInv'
  BY DEF Reboot, MountInv, ReadyInv
<1> QED
  BY <1>2, <1>3 DEF SteadyInv

(* A torn block is one the log was about to overwrite: the knee stays.     *)
LEMMA TornKeepsInv ==
  ASSUME TypeOK, TypeOK', SteadyInv, RecordAllowed,
         card' = [card EXCEPT ![tip] = Blank], head' = head, phase' = "off"
  PROVE  SteadyInv'
<1> USE StorageAssumption DEF Blocks, Blank
<1>1. /\ card \in [Blocks -> Int] /\ head \in Blocks
      /\ \A b \in Blocks : card[b] = Blank \/ card[b] >= 0
      /\ tip = head /\ head' = head /\ phase' = "off"
      /\ card' = [card EXCEPT ![head] = Blank]
  BY DEF TypeOK, NoTime, SteadyInv, PastInv, ReadyInv, RecordAllowed
<1>2. /\ card'[head] = Blank
      /\ \A b \in Blocks : b # head => card'[b] = card[b]
  BY <1>1
<1>3. KneeInv'
  <2>1. CASE head = 0
    BY <1>1, <1>2, <2>1 DEF KneeInv
  <2>2. CASE head > 0 /\ KneeAt(head)
    <3>0. PICK h \in Blocks : h = head
      BY <1>1
    <3>1. Holds(h)' /\ Ascending(h)'
      BY <1>1, <1>2, <2>2, <3>0 DEF KneeAt, Holds, Ascending
    <3>2. card[0] >= 0 /\ card[h - 1] >= 0 /\ card'[0] = card[0] /\ card'[h - 1] = card[h - 1]
      <4>1. card[0] # Blank /\ card[h - 1] # Blank
        BY <1>1, <2>2, <3>0 DEF KneeAt, Holds
      <4>2. 0 \in Blocks /\ h - 1 \in Blocks /\ 0 # head /\ h - 1 # head
        BY <2>2, <3>0
      <4> QED
        BY <1>1, <1>2, <4>1, <4>2
    <3>3. \A b \in h .. Capacity - 2 : card'[b] < card'[0]
      BY <1>1, <1>2, <2>2, <3>0, <3>2 DEF KneeAt
    <3>4. h = Capacity - 1 => card'[h] < card'[h - 1]
      <4>1. card[h - 1] \in Int
        BY <1>1, <2>2, <3>0
      <4> QED
        BY <1>2, <3>0, <3>2, <4>1
    <3>5. KneeAt(h)'
      BY <3>1, <3>3, <3>4 DEF KneeAt, Holds, Ascending
    <3> QED
      BY <1>1, <2>2, <3>0, <3>5 DEF KneeInv, KneeAt, Holds, Ascending
  <2>3. CASE head = Capacity - 2 /\ FullAscending
    <3>1. KneeAt(Capacity - 2)'
      <4>1. card[0] # Blank
        BY <2>3 DEF FullAscending, Holds
      <4>2. card[0] >= 0
        BY <1>1, <4>1
      <4> QED
        BY <1>1, <1>2, <2>3, <4>2 DEF FullAscending, KneeAt, Holds, Ascending
    <3>2. head' = Capacity - 2 /\ head' > 0
      BY <1>1, <2>3
    <3> QED
      BY <3>1, <3>2 DEF KneeInv, KneeAt, Holds, Ascending
  <2> QED
    BY <2>1, <2>2, <2>3 DEF SteadyInv, KneeInv
<1>4. BlankInv'
  BY <1>1, <1>2 DEF SteadyInv, BlankInv
<1>5. PastInv'
  <2>1. \A b \in Blocks : card'[b] # NoTime
    BY <1>1, <1>2 DEF SteadyInv, PastInv, NoTime
  <2> QED
    BY <1>1, <2>1 DEF PastInv, ClockIsPast
<1>6. MountInv' /\ ReadyInv'
  BY <1>1 DEF MountInv, ReadyInv
<1> QED
  BY <1>3, <1>4, <1>5, <1>6 DEF SteadyInv

(* A record keeps the invariant.                                           *)
LEMMA RecordKeepsInv ==
  ASSUME TypeOK, TypeOK', SteadyInv, Record, Postulates
  PROVE  SteadyInv'
<1> USE StorageAssumption DEF Blocks, Blank
<1>1. phase = "ready" /\ phase' = "ready" /\ time_proved /\ tip = head
  BY DEF Record, RecordAllowed, Postulates, SteadyInv, ReadyInv
<1>2. /\ card' = [card EXCEPT ![tip] = now]
      /\ tip' = NextTip /\ head' = NextTip /\ used' = NextUsed
  BY <1>1 DEF Record, Stamp
<1>3. (\A b \in Blocks : card[b] < now) /\ ClockIsPast'
  BY RecordIsNewest DEF Postulates
<1>4. KneeInv' /\ BlankInv' /\ PastInv'
  BY <1>1, <1>2, <1>3, RecordMovesKnee DEF SteadyInv
<1>5. ReadyInv'
  <2>1. used \in 0 .. Capacity /\ tip \in Blocks /\ card \in [Blocks -> Int] /\ now \in Nat
    BY DEF TypeOK, NoTime
  <2>2. used' < Capacity => used' = tip'
    BY <1>1, <1>2, <2>1 DEF SteadyInv, ReadyInv, NextTip, NextUsed
  <2>3. used' = Capacity => Full'
    <3>1. CASE used = Capacity
      BY <1>1, <1>2, <2>1, <3>1 DEF SteadyInv, ReadyInv, Full
    <3>2. CASE used = Capacity - 1
      <4>1. tip = Capacity - 1 /\ head = Capacity - 1
        BY <1>1, <2>1, <3>2 DEF SteadyInv, ReadyInv
      <4>2. \A b \in Blocks \ {head} : card[b] # Blank
        BY <4>1 DEF SteadyInv, BlankInv
      <4> QED
        BY <1>1, <1>2, <2>1, <4>1, <4>2 DEF Full
    <3>3. CASE used < Capacity - 1
      BY <1>2, <2>1, <3>3 DEF NextUsed
    <3> QED
      BY <2>1, <3>1, <3>2, <3>3
  <2> QED
    BY <1>2, <2>2, <2>3 DEF ReadyInv
<1>6. MountInv'
  BY <1>1 DEF MountInv
<1> QED
  BY <1>4, <1>5, <1>6 DEF SteadyInv

-----------------------------------------------------------------------------
(* SteadyInv is inductive: every step allowed by the postulates keeps it.  *)
LEMMA SteadyStep ==
  ASSUME TypeOK, TypeOK', SteadyInv, [SteadyNext]_vars
  PROVE  SteadyInv'
<1> USE StorageAssumption
<1>0. CASE UNCHANGED vars
  BY <1>0 DEF vars, ram, knee, clock, ghosts, SteadyInv, KneeInv, KneeAt, FullAscending,
     Holds, Ascending, BlankInv, PastInv, ClockIsPast, MountInv, ReadyInv, Full
<1> SUFFICES ASSUME StorageNext, Postulates PROVE SteadyInv'
  BY <1>0 DEF SteadyNext
<1>1. ClockIsPast'
  BY DEF Postulates
<1>2. now \in Int /\ mtime \in Int
  BY DEF TypeOK, NoTime
<1>3. ASSUME card' = card, head' = head PROVE KneeInv' /\ BlankInv' /\ PastInv'
  BY <1>1, <1>3, CardKept DEF SteadyInv
<1>4. CASE Tick \/ GpsFix
  <2>1. /\ card' = card /\ head' = head /\ phase' = phase /\ p0' = p0 /\ p1' = p1
        /\ tip' = tip /\ used' = used
    BY <1>4 DEF Tick, GpsFix, ram, knee, ghosts
  <2>2. MountInv'
    BY <2>1 DEF SteadyInv, MountInv, KneeAt, FullAscending, Holds, Ascending
  <2>3. ReadyInv'
    BY <2>1 DEF SteadyInv, ReadyInv, Full
  <2> QED
    BY <1>3, <2>1, <2>2, <2>3 DEF SteadyInv
<1>5. CASE MountBegin
  <2>1. /\ card' = card /\ head' = head /\ phase' = "mounting"
        /\ p0' = 0 /\ p1' = Capacity - 1
    BY <1>5 DEF MountBegin, ghosts
  <2>2. ReadyInv'
    BY <2>1 DEF ReadyInv
  <2>3. MountInv'
    BY <2>1 DEF MountInv, TypeOK, Blocks
  <2> QED
    BY <1>3, <2>1, <2>2, <2>3 DEF SteadyInv
<1>6. CASE SearchKnee
  <2>1. /\ card' = card /\ head' = head /\ phase = "mounting" /\ phase' = "mounting"
    BY <1>6 DEF SearchKnee, ghosts
  <2>2. ReadyInv'
    BY <2>1 DEF ReadyInv
  <2>3. MountInv'
    BY <1>6, <2>1, SearchKeepsKnee DEF SteadyInv
  <2> QED
    BY <1>3, <2>1, <2>2, <2>3 DEF SteadyInv
<1>7. CASE MountEnd
  <2>1. /\ card' = card /\ phase = "mounting" /\ phase' = "ready" /\ head' = tip'
    BY <1>7 DEF MountEnd
  <2>2. /\ \/ tip' = head
           \/ FullAscending /\ head \in {0, Capacity - 2} /\ tip' = Capacity - 2
        /\ used' < Capacity => used' = tip'
        /\ used' = Capacity => Full
    BY <1>7, <2>1, MountEndAtKnee DEF SteadyInv
  <2>3. CASE head' = head
    <3>1. KneeInv' /\ BlankInv' /\ PastInv'
      BY <1>3, <2>1, <2>3
    <3> QED
      BY <2>1, <2>2, <3>1 DEF SteadyInv, MountInv, ReadyInv, Full
  <2>4. CASE FullAscending /\ head' = Capacity - 2
    <3>1. KneeInv'
      BY <2>1, <2>4 DEF KneeInv, FullAscending, Holds, Ascending
    <3>2. BlankInv'
      BY <2>1, <2>4 DEF BlankInv, FullAscending, Holds, Blocks
    <3>3. PastInv'
      BY <1>1, <2>1 DEF SteadyInv, PastInv
    <3> QED
      BY <2>1, <2>2, <3>1, <3>2, <3>3 DEF SteadyInv, MountInv, ReadyInv, Full
  <2> QED
    BY <2>1, <2>2, <2>3, <2>4
<1>8. CASE Record
  BY <1>8, RecordKeepsInv
<1>9. CASE RecordWipes
  <2>1. mtime <= now + VoidLimit /\ mtime > now + VoidLimit
    BY <1>9 DEF RecordWipes, SteadyInv, PastInv, ClockIsPast
  <2> QED
    BY <1>2, <2>1
<1>10. CASE CliWipe
  <2>1. /\ card' = [b \in Blocks |-> Blank] /\ head' = 0 /\ phase' = "off"
    BY <1>10 DEF CliWipe, Wipe
  <2>2. KneeInv' /\ BlankInv' /\ PastInv'
    BY <1>1, <2>1 DEF KneeInv, BlankInv, PastInv, Blocks, Blank, NoTime
  <2> QED
    BY <2>1, <2>2 DEF SteadyInv, MountInv, ReadyInv
<1>11. CASE PowerLoss
  BY <1>11, RebootKeepsInv DEF PowerLoss, SteadyInv
<1>12. CASE PowerLossInRecord
  BY <1>12, TornKeepsInv DEF PowerLossInRecord, Reboot
<1>13. CASE CardRemoved
  <2>1. /\ card' = card /\ head' = head /\ phase' = "off"
    BY <1>13 DEF CardRemoved
  <2> QED
    BY <1>3, <2>1 DEF SteadyInv, MountInv, ReadyInv
<1>14. CASE CardRemovedInRecord
  BY <1>14, TornKeepsInv DEF CardRemovedInRecord
<1> QED
  BY <1>4, <1>5, <1>6, <1>7, <1>8, <1>9, <1>10, <1>11, <1>12, <1>13, <1>14
     DEF StorageNext, WriterStep

(* An erased card has its knee at block 0.                                 *)
LEMMA SteadyInit == Init => TypeOK /\ SteadyInv
<1> SUFFICES ASSUME Init PROVE TypeOK /\ SteadyInv
  OBVIOUS
<1>1. TypeOK
  BY InitType
<1>2. KneeInv /\ BlankInv /\ PastInv
  BY StorageAssumption DEF Init, KneeInv, BlankInv, PastInv, ClockIsPast, Blocks, Blank, NoTime
<1>3. MountInv /\ ReadyInv
  BY DEF Init, MountInv, ReadyInv
<1> QED
  BY <1>1, <1>2, <1>3 DEF SteadyInv

(* Under Postulates (storage.c:249-260 and microsd.c:6-13: the clock is    *)
(* past the records while a card is searched, records get proved times,    *)
(* and an erase is completed) the card always has one knee, whatever power *)
(* losses, removals and shell wipes happen, before the time is proved or   *)
(* after it, and the RAM of a mounted log agrees with it.                  *)
THEOREM SteadyCorrect == SteadySpec => [](TypeOK /\ SteadyInv)
<1>1. TypeOK /\ [SteadyNext]_vars => TypeOK'
  BY TypeStep DEF SteadyNext, Next
<1>2. TypeOK /\ SteadyInv /\ [SteadyNext]_vars => (TypeOK /\ SteadyInv)'
  BY <1>1, SteadyStep
<1> QED
  BY <1>2, SteadyInit, PTL DEF SteadySpec

(* Under Postulates a mount, with a proved time or without one             *)
(* (microsd.c:149-156), resumes at the block the log was about to write,   *)
(* with the one exception of a full card whose newest record is in its     *)
(* last block (storage.c:310-335).                                         *)
THEOREM MountCorrect == SteadySpec => MountResumes
<1>1. TypeOK /\ SteadyInv /\ [SteadyNext]_vars =>
        (MountDone => \/ tip' = head
                      \/ Full /\ head \in {0, Capacity - 2} /\ tip' = Capacity - 2)
  <2> SUFFICES ASSUME TypeOK, SteadyInv, [SteadyNext]_vars, MountDone
               PROVE  \/ tip' = head
                      \/ Full /\ head \in {0, Capacity - 2} /\ tip' = Capacity - 2
    OBVIOUS
  <2>1. MountEnd
    BY DEF MountDone, SteadyNext, StorageNext, WriterStep, Tick, GpsFix, MountBegin, SearchKnee,
           Record, RecordAllowed, RecordWipes, CliWipe, PowerLoss, PowerLossInRecord, Reboot,
           CardRemoved, CardRemovedInRecord, vars
  <2>2. \/ tip' = head
        \/ FullAscending /\ head \in {0, Capacity - 2} /\ tip' = Capacity - 2
    BY <2>1, MountEndAtKnee DEF SteadyInv, MountDone
  <2> QED
    BY <2>2 DEF FullAscending, Holds, Full, Blocks
<1> QED
  BY <1>1, SteadyCorrect, PTL DEF MountResumes, SteadySpec

(* Under Postulates every record number below used leads a reader to a     *)
(* block that holds a record: a torn or erased block is never served       *)
(* (storage.c:203-211).                                                    *)
THEOREM ServedCorrect == SteadySpec => []ServedRecordsExist
<1>1. TypeOK /\ SteadyInv => ServedRecordsExist
  <2> SUFFICES ASSUME TypeOK, SteadyInv, phase = "ready", NEW rec \in Records
               PROVE  card[Rec2Block(rec)] # Blank
    BY DEF ServedRecordsExist
  <2>1. /\ tip = head /\ (used < Capacity => used = tip) /\ (used = Capacity => Full)
        /\ used \in 0 .. Capacity /\ tip \in Blocks /\ rec \in 0 .. used - 1
    BY DEF TypeOK, SteadyInv, ReadyInv, Records
  <2>2. CASE used < Capacity
    <3>1. rec \in Blocks /\ rec < head
      BY <2>1, <2>2, StorageAssumption DEF Blocks
    <3>2. card[rec] # Blank
      BY <2>1, <3>1 DEF SteadyInv, BlankInv, Blocks
    <3> QED
      BY <2>2, <3>2 DEF Rec2Block
  <2>3. CASE used = Capacity
    <3>1. (tip + rec) % Capacity \in Blocks
      BY <2>1, StorageAssumption DEF Blocks
    <3> QED
      BY <2>1, <2>3, <3>1, StorageAssumption DEF Rec2Block, Full
  <2> QED
    BY <2>1, <2>2, <2>3, StorageAssumption
<1> QED
  BY <1>1, SteadyCorrect, PTL

-----------------------------------------------------------------------------
(* The record written i records ago lies i blocks behind the tip, round    *)
(* the end of the card.                                                    *)
Behind(i) == (tip + Capacity - i) % Capacity

(* What a session of records keeps, whatever the clock does: mtime is the  *)
(* newest stamp, and as long as the time is not proved all stamps are      *)
(* NoTime; a proof of the time is lost only together with the session.     *)
SessionInv ==
  /\ SessionSorted
  /\ session > 0 => phase = "ready" /\ mtime = card[Behind(1)]
  /\ ~time_proved => \A i \in 1 .. session : card[Behind(i)] = NoTime

(* A block behind the tip is found without dividing.                       *)
LEMMA BehindIs ==
  ASSUME NEW t \in Blocks, NEW i \in 1 .. Capacity
  PROVE  (t + Capacity - i) % Capacity = IF i <= t THEN t - i ELSE t + Capacity - i
<1>1. \A x \in Nat : x < Capacity => x % Capacity = x /\ (x + Capacity) % Capacity = x
  BY StorageAssumption
<1>2. CASE i <= t
  <2>1. t - i \in Nat /\ t - i < Capacity /\ t + Capacity - i = (t - i) + Capacity
    BY <1>2, StorageAssumption DEF Blocks
  <2> QED
    BY <1>1, <1>2, <2>1
<1>3. CASE ~(i <= t)
  <2>1. t + Capacity - i \in Nat /\ t + Capacity - i < Capacity
    BY <1>3, StorageAssumption DEF Blocks
  <2> QED
    BY <1>1, <1>3, <2>1
<1> QED
  BY <1>2, <1>3

(* A record is the newest, and pushes every other one a block back.        *)
LEMMA RecordPushesBack ==
  ASSUME TypeOK, Record
  PROVE  /\ Behind(1)' = tip /\ card'[tip] = Stamp
         /\ \A i \in 2 .. Capacity :
              /\ Behind(i)' = Behind(i - 1)
              /\ card'[Behind(i - 1)] = card[Behind(i - 1)]
<1> USE StorageAssumption
<1>1. tip \in Blocks /\ tip' \in Blocks /\ tip' = IF tip + 1 >= Capacity THEN 0 ELSE tip + 1
  BY DEF TypeOK, Record, NextTip, Blocks
<1>2. card' = [card EXCEPT ![tip] = Stamp] /\ card \in [Blocks -> {Blank, NoTime} \cup (0 .. MaxTime)]
  BY DEF TypeOK, Record
<1>3. Behind(1)' = tip
  <2>1. Behind(1)' = IF 1 <= tip' THEN tip' - 1 ELSE tip' + Capacity - 1
    BY <1>1, BehindIs, 1 \in 1 .. Capacity DEF Behind
  <2> QED
    BY <1>1, <2>1 DEF Blocks
<1>4. ASSUME NEW i \in 2 .. Capacity
      PROVE  Behind(i)' = Behind(i - 1) /\ card'[Behind(i - 1)] = card[Behind(i - 1)]
  <2>1. Behind(i)' = IF i <= tip' THEN tip' - i ELSE tip' + Capacity - i
    BY <1>1, BehindIs, i \in 1 .. Capacity DEF Behind
  <2>2. Behind(i - 1) = IF i - 1 <= tip THEN tip - (i - 1) ELSE tip + Capacity - (i - 1)
    BY <1>1, BehindIs, i - 1 \in 1 .. Capacity DEF Behind
  <2>3. Behind(i)' = Behind(i - 1)
    BY <1>1, <2>1, <2>2 DEF Blocks
  <2>4. Behind(i - 1) \in Blocks /\ Behind(i - 1) # tip
    BY <1>1, <2>2 DEF Blocks
  <2> QED
    BY <1>2, <2>3, <2>4
<1> QED
  BY <1>1, <1>2, <1>3, <1>4

(* A record is no older than those of its session.                         *)
LEMMA RecordKeepsOrder ==
  ASSUME TypeOK, SessionInv, Record
  PROVE  SessionInv'
<1> USE StorageAssumption
<1>1. /\ session' \in 0 .. Capacity /\ session' <= session + 1 /\ session \in 0 .. Capacity
      /\ phase = "ready" /\ phase' = "ready" /\ mtime' = Stamp
      /\ time_proved' = time_proved /\ time_proved \in BOOLEAN
  BY DEF TypeOK, Record, RecordAllowed
<1>2. ASSUME NEW i \in 1 .. session PROVE card[Behind(i)] <= Stamp
  <2>1. CASE ~time_proved
    BY <2>1 DEF SessionInv, Stamp, NoTime
  <2>2. CASE time_proved
    <3>1. mtime <= now /\ Stamp = now /\ now \in Int /\ mtime = card[Behind(1)] /\ mtime \in Int
      BY <1>1, <2>2 DEF Record, RecordAllowed, ClockWentBack, Stamp, SessionInv, TypeOK, NoTime
    <3>2. CASE i = 1
      BY <3>1, <3>2
    <3>3. CASE i # 1
      <4>1. card[Behind(i)] <= card[Behind(1)]
        BY <1>1, <3>3 DEF SessionInv, SessionSorted, Behind
      <4>2. Behind(i) \in Blocks /\ card[Behind(i)] \in Int
        <5>1. Behind(i) \in Blocks
          BY <1>1 DEF Behind, Blocks, TypeOK
        <5> QED
          BY <5>1 DEF TypeOK, Blank, NoTime
      <4> QED
        BY <3>1, <4>1, <4>2
    <3> QED
      BY <3>2, <3>3
  <2> QED
    BY <1>1, <2>1, <2>2
<1>3. /\ card'[Behind(1)'] = Stamp
      /\ \A i \in 2 .. session' : card'[Behind(i)'] = card[Behind(i - 1)] /\ i - 1 \in 1 .. session
  BY <1>1, RecordPushesBack
<1>4. ASSUME NEW i \in 1 .. session', NEW j \in 1 .. session', i < j
      PROVE  card'[Behind(j)'] <= card'[Behind(i)']
  <2>1. card'[Behind(j)'] = card[Behind(j - 1)] /\ j - 1 \in 1 .. session
    BY <1>1, <1>3, <1>4
  <2>2. CASE i = 1
    BY <1>2, <1>3, <2>1, <2>2
  <2>3. CASE i # 1
    <3>1. card'[Behind(i)'] = card[Behind(i - 1)] /\ i - 1 \in 1 .. session /\ i - 1 < j - 1
      BY <1>1, <1>3, <1>4, <2>3
    <3>2. card[Behind(j - 1)] <= card[Behind(i - 1)]
      BY <1>1, <2>1, <3>1 DEF SessionInv, SessionSorted, Behind
    <3> QED
      BY <2>1, <3>1, <3>2
  <2> QED
    BY <2>2, <2>3
<1>5. SessionSorted'
  BY <1>4 DEF SessionSorted, Behind
<1>6. ASSUME ~time_proved', NEW i \in 1 .. session' PROVE (card[Behind(i)] = NoTime)'
  <2>1. Stamp = NoTime
    BY <1>1, <1>6 DEF Stamp
  <2>2. CASE i = 1
    BY <1>3, <2>1, <2>2
  <2>3. CASE i # 1
    <3>1. card'[Behind(i)'] = card[Behind(i - 1)] /\ i - 1 \in 1 .. session
      BY <1>1, <1>3, <1>6, <2>3
    <3> QED
      BY <1>1, <1>6, <3>1 DEF SessionInv
  <2> QED
    BY <2>2, <2>3
<1> QED
  BY <1>1, <1>3, <1>5, <1>6 DEF SessionInv

(* What begins no record leaves the session as it is or ends it.           *)
LEMMA SessionStep == TypeOK /\ SessionInv /\ [Next]_vars => SessionInv'
<1> SUFFICES ASSUME TypeOK, SessionInv, [Next]_vars PROVE SessionInv'
  OBVIOUS
<1>1. CASE Record
  BY <1>1, RecordKeepsOrder
<1>2. ASSUME session' = 0 PROVE SessionInv'
  BY <1>2 DEF SessionInv, SessionSorted
<1>3. ASSUME UNCHANGED <<card, tip, mtime, phase, session>>, time_proved' \in {time_proved, TRUE}
      PROVE  SessionInv'
  <2>1. \A i : Behind(i)' = Behind(i)
    BY <1>3 DEF Behind
  <2>2. SessionSorted'
    BY <1>3 DEF SessionInv, SessionSorted
  <2>3. session > 0 => phase' = "ready" /\ mtime' = card'[Behind(1)']
    BY <1>3, <2>1 DEF SessionInv
  <2>4. ~time_proved' => \A i \in 1 .. session' : card'[Behind(i)'] = NoTime
    BY <1>3, <2>1 DEF SessionInv
  <2> QED
    BY <1>3, <2>2, <2>3, <2>4 DEF SessionInv
<1>4. ASSUME phase # "ready", session' = session PROVE session' = 0
  BY <1>4 DEF SessionInv, TypeOK
<1>5. CASE Tick \/ GpsFix \/ UNCHANGED vars
  BY <1>3, <1>5 DEF Tick, GpsFix, vars, ram, ghosts, clock
<1>6. CASE MountBegin
  BY <1>2, <1>4, <1>6 DEF MountBegin, ghosts
<1>7. CASE SearchKnee
  BY <1>2, <1>4, <1>7 DEF SearchKnee, ghosts
<1>8. CASE MountEnd \/ RecordWipes \/ CliWipe
  BY <1>2, <1>8 DEF MountEnd, RecordWipes, CliWipe, Wipe
<1>9. CASE PowerLoss \/ PowerLossInRecord \/ PowerLossInWipe
  BY <1>2, <1>9 DEF PowerLoss, PowerLossInRecord, PowerLossInWipe, Reboot
<1>10. CASE CardRemoved \/ CardRemovedInRecord
  BY <1>2, <1>10 DEF CardRemoved, CardRemovedInRecord
<1> QED
  BY <1>1, <1>5, <1>6, <1>7, <1>8, <1>9, <1>10 DEF Next, StorageNext, WriterStep

(* However the clock is corrected, and whatever the clock of the node      *)
(* shows after a reboot, the records since a mount lie on the card in the  *)
(* order of their stamps.                                                  *)
THEOREM OrderCorrect == Spec => []SessionSorted
<1>1. Init => SessionInv
  BY DEF Init, SessionInv, SessionSorted
<1>2. SessionInv => SessionSorted
  BY DEF SessionInv
<1> QED
  BY <1>1, <1>2, TypeCorrect, SessionStep, PTL DEF Spec

-----------------------------------------------------------------------------
(* No two records have the same stamp.                                     *)
Distinct ==
  \A a, b \in Blocks : a # b /\ card[a] # Blank => card[a] # card[b]

Stored == {card[b] : b \in Blocks} \ {Blank}

(* A block changes to Blank or gets a stamp later than all others.         *)
LEMMA DistinctStep ==
  TypeOK /\ SteadyInv /\ Distinct /\ [SteadyNext]_vars => Distinct'
<1> SUFFICES ASSUME TypeOK, SteadyInv, Distinct, [SteadyNext]_vars PROVE Distinct'
  OBVIOUS
<1>1. CASE UNCHANGED card
  BY <1>1 DEF Distinct
<1>2. CASE Record /\ Postulates
  <2>0. time_proved /\ now \in Nat /\ \A b \in Blocks : card[b] < now
    BY <1>2, RecordIsNewest
  <2>1. card' = [card EXCEPT ![tip] = now] /\ tip \in Blocks
    BY <1>2, <2>0 DEF Record, Stamp, TypeOK
  <2>2. \A b \in Blocks : card[b] # now
    BY <2>0
  <2> QED
    BY <2>1, <2>2 DEF Distinct, TypeOK
<1>3. CASE card' = [card EXCEPT ![tip] = Blank]
  BY <1>3 DEF Distinct, TypeOK
<1>4. CASE card' = [b \in Blocks |-> Blank]
  BY <1>4 DEF Distinct
<1> QED
  BY <1>1, <1>2, <1>3, <1>4 DEF SteadyNext, StorageNext, WriterStep, Tick, GpsFix, MountBegin,
     SearchKnee, MountEnd, RecordWipes, CliWipe, Wipe, PowerLoss, PowerLossInRecord,
     CardRemoved, CardRemovedInRecord, vars

(* Where the next record goes there is a record only if the card is full.  *)
LEMMA OverwritesWhenFull ==
  ASSUME TypeOK, SteadyInv, phase = "ready", card[tip] # Blank
  PROVE  Full
<1>1. tip = head /\ tip \in Blocks
  BY DEF SteadyInv, ReadyInv, TypeOK
<1>2. ASSUME NEW b \in Blocks, card[b] = Blank PROVE FALSE
  <2>1. b # head
    BY <1>1, <1>2
  <2>2. \A c \in head .. Capacity - 1 : card[c] = Blank
    BY <1>2, <2>1 DEF SteadyInv, BlankInv
  <2> QED
    BY <1>1, <2>2, StorageAssumption DEF Blocks
<1> QED
  BY <1>2 DEF Full

(* A full card holds as many stamps as it has blocks, and one with a blank *)
(* block fewer.                                                            *)
LEMMA StoredCardinality ==
  ASSUME TypeOK, Distinct
  PROVE  /\ Full => Cardinality(Stored) = Capacity
         /\ ~Full => Cardinality(Stored) < Capacity
<1> USE StorageAssumption
<1>1. IsFiniteSet(Blocks) /\ Cardinality(Blocks) = Capacity
  BY FS_Interval DEF Blocks
<1>2. ASSUME Full PROVE Cardinality(Stored) = Capacity
  <2>1. card \in Bijection(Blocks, Stored)
    <3>1. Stored = {card[b] : b \in Blocks}
      BY <1>2 DEF Stored, Full
    <3>2. card \in [Blocks -> Stored]
      BY <3>1 DEF TypeOK
    <3>3. \A a, b \in Blocks : card[a] = card[b] => a = b
      BY <1>2 DEF Distinct, Full
    <3> QED
      BY <3>1, <3>2, <3>3 DEF Bijection, Injection, Surjection, IsInjective
  <2> QED
    BY <1>1, <2>1, FS_Bijection DEF ExistsBijection
<1>3. ASSUME NEW e \in Blocks, card[e] = Blank PROVE Cardinality(Stored) < Capacity
  <2> DEFINE T == {card[b] : b \in Blocks \ {e}}
             f == [b \in Blocks \ {e} |-> card[b]]
  <2>1. IsFiniteSet(Blocks \ {e}) /\ Cardinality(Blocks \ {e}) = Capacity - 1
    BY <1>1, FS_RemoveElement
  <2>2. f \in Surjection(Blocks \ {e}, T)
    BY DEF Surjection
  <2>3. IsFiniteSet(T) /\ Cardinality(T) <= Capacity - 1
    BY <2>1, <2>2, FS_Surjection
  <2>4. Stored \in SUBSET T
    BY <1>3 DEF Stored
  <2>5. IsFiniteSet(Stored) /\ Cardinality(Stored) <= Cardinality(T)
    BY <2>3, <2>4, FS_Subset
  <2> QED
    BY <2>3, <2>5, FS_CardinalityType
<1> QED
  BY <1>2, <1>3 DEF Full

(* RecordLog counts with the same operator.                                *)
LEMMA SameCardinality ==
  ASSUME NEW S
  PROVE  Log!Cardinality(S) = Cardinality(S)
BY DEF Log!Cardinality, Cardinality

(* A record adds its stamp, and replaces one only on a full card.          *)
LEMMA RecordAppends ==
  ASSUME TypeOK, SteadyInv, Distinct, Record, Postulates, NEW t \in 0 .. MaxTime, t = now
  PROVE  Log!Append(t)
<1>0. time_proved /\ \A b \in Blocks : card[b] < t
  BY RecordIsNewest
<1>1. card' = [card EXCEPT ![tip] = t] /\ tip \in Blocks /\ t \in Nat /\ phase = "ready"
  BY <1>0 DEF Record, RecordAllowed, Stamp, TypeOK
<1>2. \A s \in Stored : s < t
  BY <1>0 DEF Stored
<1>3. card \in [Blocks -> {Blank, NoTime} \cup (0 .. MaxTime)] /\ t # Blank
  BY <1>1 DEF TypeOK, Blank
<1>4. CASE card[tip] = Blank
  <2>1. Stored' = Stored \cup {t}
    BY <1>1, <1>3, <1>4 DEF Stored
  <2>2. Cardinality(Stored) < Capacity
    BY <1>1, <1>4, StoredCardinality DEF Full
  <2> QED
    BY <1>2, <2>1, <2>2, SameCardinality DEF Log!Append, Stored
<1>5. CASE card[tip] # Blank
  <2>1. Cardinality(Stored) = Capacity
    BY <1>1, <1>5, OverwritesWhenFull, StoredCardinality
  <2>2. ~(Cardinality(Stored) < Capacity)
    BY <2>1, StorageAssumption
  <2>3. card[tip] \in Stored
    BY <1>1, <1>5 DEF Stored
  <2>4. Stored' = (Stored \ {card[tip]}) \cup {t}
    <3>1. \A b \in Blocks : b # tip => card[b] # card[tip]
      BY <1>1, <1>5 DEF Distinct
    <3> QED
      BY <1>1, <1>3, <3>1 DEF Stored
  <2> QED
    BY <1>2, <2>2, <2>3, <2>4, SameCardinality DEF Log!Append, Stored
<1> QED
  BY <1>4, <1>5

(* A torn block is a record less, or none.                                 *)
LEMMA TornLosesOne ==
  ASSUME TypeOK, Distinct, card' = [card EXCEPT ![tip] = Blank]
  PROVE  Log!LoseOne \/ Stored' = Stored
<1>1. tip \in Blocks /\ card \in [Blocks -> {Blank, NoTime} \cup (0 .. MaxTime)]
  BY DEF TypeOK
<1>2. CASE card[tip] = Blank
  BY <1>1, <1>2 DEF Stored
<1>3. CASE card[tip] # Blank
  <2>1. \A b \in Blocks : b # tip => card[b] # card[tip]
    BY <1>1, <1>3 DEF Distinct
  <2>2. card[tip] \in Stored /\ Stored' = Stored \ {card[tip]}
    BY <1>1, <1>3, <2>1 DEF Stored
  <2> QED
    BY <2>2 DEF Log!LoseOne, Stored
<1> QED
  BY <1>2, <1>3

(* Each step of the log is a step of RecordLog, or none.                   *)
LEMMA RecordLogStep ==
  ASSUME TypeOK, SteadyInv, Distinct, [SteadyNext]_vars
  PROVE  Log!Next \/ Stored' = Stored
<1>1. CASE UNCHANGED card
  BY <1>1 DEF Stored
<1>2. CASE Record /\ Postulates
  <2>1. PICK t \in 0 .. MaxTime : t = now
    BY DEF TypeOK
  <2>2. Log!Append(t)
    BY <1>2, <2>1, RecordAppends
  <2> QED
    BY <2>2 DEF Log!Next
<1>3. CASE card' = [card EXCEPT ![tip] = Blank]
  BY <1>3, TornLosesOne DEF Log!Next
<1>4. CASE card' = [b \in Blocks |-> Blank]
  <2>1. Stored' = {}
    BY <1>4 DEF Stored
  <2> QED
    BY <2>1 DEF Log!Next, Log!Erase, Stored
<1> QED
  BY <1>1, <1>2, <1>3, <1>4 DEF SteadyNext, StorageNext, WriterStep, Tick, GpsFix, MountBegin,
     SearchKnee, MountEnd, RecordWipes, CliWipe, Wipe, PowerLoss, PowerLossInRecord,
     CardRemoved, CardRemovedInRecord, vars

(* Under Postulates the card implements RecordLog: a record is newer than  *)
(* all others and never costs another one while there is room, and nothing *)
(* but an erase that is completed costs more than one (storage.c:254-292). *)
THEOREM CardImplementsRecordLog == SteadySpec => ImplementsRecordLog
<1>1. Init => Log!Init /\ Distinct
  BY DEF Init, Log!Init, Distinct
<1>2. TypeOK /\ SteadyInv /\ Distinct /\ [SteadyNext]_vars => [Log!Next]_Stored
  BY RecordLogStep
<1>3. SteadySpec => [](TypeOK /\ SteadyInv /\ Distinct)
  <2>1. SteadySpec => Init /\ [][SteadyNext]_vars
    BY DEF SteadySpec
  <2> QED
    BY <1>1, <2>1, SteadyCorrect, DistinctStep, PTL
<1> QED
  BY <1>1, <1>2, <1>3, PTL DEF SteadySpec, ImplementsRecordLog, Log!Spec, Stored

-----------------------------------------------------------------------------
(* The parameters and their file. *)

(* Who has begun to load or save and has not ended.                        *)
InFile(t) == job[t].step \notin {"none", "acquire"}

(* The steps of a job.                                                     *)
Steps(op) ==
  CASE op = "idle" -> {"none"}
    [] op = "look" -> {"acquire"}
    [] op = "load" -> {"acquire", "read", "set", "end"}
    [] op = "save" -> {"acquire", "write", "verify", "end"}

JobType ==
  [op : {"idle", "look", "load", "save"},
   step : {"none", "acquire", "read", "set", "end", "write", "verify"},
   i : 1 .. Len(Registry) + 1, v : Par!Values, need : BOOLEAN]

ParamTypes ==
  /\ board \in {"bnap", "mpiovd"}
  /\ params_ram \in [Par!Params -> Par!Values]
  /\ ee \in [Par!Params -> Par!Records] /\ eeprombuf \in Par!Records
  /\ position \in Nat
  /\ job \in [Par!Threads -> JobType]
  /\ {ready, panic, moved, crossed} \subseteq BOOLEAN

(* Whose turn it is: the others wait for the boot, and only the boot of    *)
(* MPIOVD looks.                                                           *)
TurnInv ==
  /\ \A t \in Par!Threads :
       /\ job[t].step \in Steps(job[t].op)
       /\ job[t].step \in {"read", "set", "write", "verify"} => job[t].i \in Par!Params
       /\ t # "init" /\ job[t].op # "idle" => ready = TRUE
       /\ job[t].step = "end" => job[t].i = Len(Registry) + 1
       /\ job[t].op = "look" => t = "init" /\ board = "mpiovd"
  /\ ready = TRUE => job["init"].op = "idle"

(* On BNAP only who has the semaphore is in the file; on MPIOVD nobody     *)
(* else is until it is noted.                                              *)
AloneInv ==
  /\ board = "bnap" => \A t \in Par!Threads : InFile(t) => sem = t
  /\ board = "mpiovd" /\ crossed = FALSE =>
       \A t, o \in Par!Threads : InFile(t) /\ InFile(o) => t = o

(* While nobody else is in the file the position is at the record of who   *)
(* is, and what it has written is there until it is verified.              *)
FileInv ==
  board = "bnap" \/ crossed = FALSE =>
    /\ panic = FALSE
    /\ \A t \in Par!Threads :
         /\ job[t].step \in {"read", "write"} => position = job[t].i
         /\ job[t].step \in {"set", "verify"} => position = job[t].i + 1
         /\ job[t].step = "verify" => ee[job[t].i] = eeprombuf

(* A value of a file of this firmware, which it wrote or found erased.     *)
Own(i, r) ==
  \/ r.name = "blank"
  \/ r.name = Registry[i].name /\ r.value \in Par!Allowed(i) \cup {MaxValue}

(* The parameters that the boot has loaded, all once it is through.        *)
Loaded(i) == job["init"].op = "load" => i < job["init"].i /\ job["init"].step # "acquire"

(* MPIOVD starts with the defaults and checks every value. BNAP starts     *)
(* with zeroes, which pass the check unseen if the file has a zero; a      *)
(* file of this firmware has none where it is not allowed.                 *)
RangeInv ==
  /\ board = "mpiovd" => \A i \in Par!Params : params_ram[i] \in Par!Allowed(i)
  /\ \A i \in Par!Params : params_ram[i] \in Par!Allowed(i) \cup {0}
  /\ board = "bnap" /\ moved = FALSE =>
       /\ \A i \in Par!Params : Own(i, ee[i])
       /\ \A i \in Par!Params : ee[i].value \in Par!Allowed(i) \cup {MaxValue}
       /\ \A i \in Par!Params : Loaded(i) => params_ram[i] \in Par!Allowed(i)
       /\ job["init"].op = "load" /\ job["init"].step = "set" =>
            Own(job["init"].i, eeprombuf)

ParamInv == ParamTypes /\ TurnInv /\ AloneInv /\ FileInv /\ RangeInv

Said == {"bad", "help", "wait", "done", "unknown", "inconsistent", "unchanged", "clamped"}

Lines == [line : Said] \cup
  [line : {"value"}, name : {Registry[j].name : j \in Cli!Params}, min : Cli!Values, value : Cli!Values, max : Cli!Values]

ShellTypes ==
  /\ cli_board \in {"bnap", "mpiovd"}
  /\ count \in {0, Len(Registry)}
  /\ cli_ram \in [Cli!Params -> Int]
  /\ \A j \in Cli!Params : cli_ram[j] \in Cli!Allowed(j)
  /\ argv \in Cli!Commands \cup {Cli!None}
  /\ cli_i \in Nat
  /\ said \in Seq(Lines)

Typed == Cli!Scanned(argv.text)

(* The shell has looked a parameter up, has a number for it and has said   *)
(* nothing yet.                                                            *)
Chosen == Cli!Sets /\ cli_i \in Cli!Params /\ cli_ram[cli_i] \in had /\ said = <<>>

(* What the place in param_clicmd says of the arguments, and of the value  *)
(* written there.                                                          *)
WordsInv ==
  /\ at \in {"prompt", "waits", "print", "one", "saving", "two", "bad", "looks", "writes", "ok", "clamped"}
  /\ count = 0 => at \in {"prompt", "waits"}
  /\ count = 0 /\ at = "prompt" => argv = Cli!None
  /\ at = "print" => argv.argc = 0 /\ cli_i \in Cli!Params
  /\ at \in {"one", "saving"} => argv.argc = 1
  /\ at = "two" => argv.argc = 2 /\ said = <<>>
  /\ at = "waits" => said = <<>>
  /\ at = "bad" => argv.argc = 3
  /\ at \in {"looks", "writes", "ok", "clamped"} => Chosen
  /\ at = "looks" => cli_board = "bnap"
  /\ at = "ok" => Typed \in had /\ Typed \in Cli!Allowed(cli_i)
  /\ at = "clamped" =>
       /\ Typed \notin Registry[cli_i].min .. Registry[cli_i].max
       /\ had \cap {Registry[cli_i].min, Registry[cli_i].max} # {}

ShellInv == ShellTypes /\ WordsInv /\ Cli!ConfirmIsTrue /\ Cli!PrintsAllowed

(* The registry is a sequence of parameters that differ in name, each      *)
(* with a default within its range.                                        *)
LEMMA RegistryFacts ==
  /\ Len(Registry) \in Nat /\ Par!Params = 1 .. Len(Registry) /\ 1 \in Par!Params
  /\ MaxValue \in Nat /\ 0 \in Par!Values /\ MaxValue \in Par!Values
  /\ \A i \in Par!Params :
       /\ Registry[i].min \in Nat /\ Registry[i].def \in Nat /\ Registry[i].max \in Nat
       /\ Registry[i].min < Registry[i].max /\ Registry[i].max <= MaxValue
       /\ Registry[i].min <= Registry[i].def /\ Registry[i].def <= Registry[i].max
       /\ Registry[i].off \in BOOLEAN
       /\ Registry[i].name \in Par!Names /\ Registry[i].name # "blank"
       /\ \A j \in Par!Params : Registry[i].name = Registry[j].name => i = j
<1>1. Len(Registry) \in Nat /\ Par!Params = 1 .. Len(Registry)
  BY RegistryConstants DEF Par!RegistryAssumption, Par!RegistryIsSound, Par!Params
<1>2. Registry # <<>>
  BY RegistryConstants DEF Par!RegistryAssumption, Par!RegistryIsSound
<1>3. 1 \in Par!Params
  BY <1>1, <1>2, RegistryConstants, EmptySeq DEF Par!RegistryAssumption, Par!RegistryIsSound
<1>4. MaxValue \in Nat /\ "blank" \notin Par!Names
  BY RegistryConstants DEF Par!RegistryAssumption, Par!RegistryIsSound
<1>5. ASSUME NEW i \in Par!Params
      PROVE  /\ Registry[i].min \in Nat /\ Registry[i].def \in Nat /\ Registry[i].max \in Nat
             /\ Registry[i].min < Registry[i].max /\ Registry[i].max <= MaxValue
             /\ Registry[i].min <= Registry[i].def /\ Registry[i].def <= Registry[i].max
             /\ \A j \in Par!Params : Registry[i].name = Registry[j].name => i = j
  BY RegistryConstants DEF Par!RegistryAssumption, Par!RegistryIsSound, Par!Values
<1>6. ASSUME NEW i \in Par!Params
      PROVE  Registry[i].name \in Par!Names /\ Registry[i].name # "blank"
  BY <1>4, Zenon DEF Par!Names
<1>7. ASSUME NEW i \in Par!Params PROVE Registry[i].off \in BOOLEAN
  BY RegistryConstants, Zenon DEF Par!RegistryAssumption, Par!RegistryIsSound
<1>8. 0 \in Par!Values /\ MaxValue \in Par!Values
  BY <1>4 DEF Par!Values
<1> QED
  BY <1>1, <1>3, <1>4, <1>5, <1>6, <1>7, <1>8

(* What is allowed is a value, and the range and the default are allowed.  *)
LEMMA AllowedIs ==
  ASSUME NEW i \in Par!Params
  PROVE  /\ Par!Allowed(i) \subseteq Par!Values
         /\ Registry[i].min .. Registry[i].max \subseteq Par!Allowed(i)
         /\ Registry[i].def \in Par!Allowed(i)
         /\ Registry[i].off = TRUE => 0 \in Par!Allowed(i)
BY RegistryFacts DEF Par!Allowed, Par!Values

(* A clamped value is allowed.                                             *)
LEMMA ClampedIs ==
  ASSUME NEW i \in Par!Params, NEW v \in Par!Values
  PROVE  Par!Clamped(i, v) \in Par!Allowed(i)
<1>1. Par!Clamped(i, v) \in Registry[i].min .. Registry[i].max
  BY RegistryFacts DEF Par!Clamped, Par!Values
<1> QED
  BY <1>1, AllowedIs

(* Only BNAP lets a value pass unchecked, and only one that is there       *)
(* already; so a value that is off or in range, or what a blank record     *)
(* holds, comes out allowed.                                               *)
LEMMA CheckedIs ==
  ASSUME NEW i \in Par!Params, NEW v \in Par!Values
  PROVE  LET w == Par!Checked(i, v)
         IN  /\ w \in Par!Allowed(i) \/ (board = "bnap" /\ w = v /\ w = params_ram[i])
             /\ w \in Par!Values
             /\ params_ram[i] \in Par!Allowed(i) => w \in Par!Allowed(i)
             /\ params_ram[i] \in Par!Allowed(i) \cup {0} => w \in Par!Allowed(i) \cup {0}
             /\ /\ params_ram[i] \in Par!Allowed(i) \cup {0}
                /\ v \in Par!Allowed(i) \cup {MaxValue}
                => w \in Par!Allowed(i)
<1> DEFINE w == Par!Checked(i, v)
<1>1. w = v \/ w = Par!Clamped(i, v)
  BY DEF Par!Checked
<1>2. w \in Par!Values
  BY <1>1, ClampedIs, AllowedIs
<1>3. w \in Par!Allowed(i) \/ (board = "bnap" /\ w = v /\ w = params_ram[i])
  <2>1. CASE board = "bnap" /\ Registry[i].off = TRUE /\ v = 0
    BY <2>1, AllowedIs DEF Par!Checked
  <2>2. CASE board = "bnap" /\ Registry[i].off = FALSE /\ v = params_ram[i]
    BY <2>2 DEF Par!Checked
  <2>3. CASE ~(board = "bnap" /\ Registry[i].off = TRUE /\ v = 0) /\ ~(board = "bnap" /\ Registry[i].off = FALSE /\ v = params_ram[i])
    BY <2>3, ClampedIs, RegistryFacts DEF Par!Checked
  <2> QED
    BY <2>1, <2>2, <2>3
<1>4. MaxValue # 0
  BY RegistryFacts
<1> QED
  BY <1>2, <1>3, <1>4

(* Records have a value and a name; a blank one is a record.               *)
LEMMA RecordsAre ==
  /\ Par!Blank \in Par!Records
  /\ \A r \in Par!Records : r.value \in Par!Values /\ r.name \in Par!Names \cup {"blank"}
  /\ \A n \in Par!Names, v \in Par!Values : [name |-> n, value |-> v] \in Par!Records
BY RegistryFacts DEF Par!Blank, Par!Records

(* The record a save writes has the name of its parameter and the value    *)
(* of that moment.                                                         *)
LEMMA RecordIs ==
  ASSUME ParamTypes, NEW t \in Par!Threads, job[t].i \in Par!Params
  PROVE  /\ Par!Record(t) \in Par!Records
         /\ Par!Record(t).name = Registry[job[t].i].name
         /\ Par!Record(t).value = params_ram[job[t].i]
<1>1. params_ram[job[t].i] \in Par!Values
  BY DEF ParamTypes
<1>2. Registry[job[t].i].name \in Par!Names
  BY RegistryFacts
<1> QED
  BY <1>1, <1>2, RecordsAre DEF Par!Record

(* What is read at the position is a record, that of the file where the    *)
(* position is in it.                                                      *)
LEMMA HereIs ==
  ASSUME ParamTypes
  PROVE  Par!Here \in Par!Records /\ (position \in Par!Params => Par!Here = ee[position])
BY RecordsAre DEF ParamTypes, Par!Here

(* A step of a thread leaves the others' jobs as they are.                 *)
LEMMA StepIs ==
  ASSUME ParamTypes, NEW t \in Par!Threads, NEW s \in JobType, job' = [job EXCEPT ![t] = s]
  PROVE  /\ job' \in [Par!Threads -> JobType] /\ job'[t] = s
         /\ \A o \in Par!Threads \ {t} : job'[o] = job[o]
BY DEF ParamTypes

(* The fields of a job.                                                    *)
LEMMA JobIs ==
  ASSUME ParamTypes, NEW t \in Par!Threads
  PROVE  /\ job[t] \in JobType
         /\ job[t].op \in {"idle", "look", "load", "save"}
         /\ job[t].step \in {"none", "acquire", "read", "set", "end", "write", "verify"}
         /\ job[t].i \in 1 .. Len(Registry) + 1 /\ job[t].v \in Par!Values
BY DEF ParamTypes, JobType

JobOps == {"idle", "look", "load", "save"}
JobSteps == {"none", "acquire", "read", "set", "end", "write", "verify"}

(* A job with one field set is a job, and its other fields stay.           *)
LEMMA FieldSet ==
  ASSUME NEW r \in JobType
  PROVE  /\ \A x \in JobSteps :
              LET q == [r EXCEPT !.step = x]
              IN  /\ q \in JobType /\ q.step = x
                  /\ q.op = r.op /\ q.i = r.i /\ q.v = r.v /\ q.need = r.need
         /\ \A x \in JobOps :
              LET q == [r EXCEPT !.op = x]
              IN  /\ q \in JobType /\ q.op = x
                  /\ q.step = r.step /\ q.i = r.i /\ q.v = r.v /\ q.need = r.need
         /\ \A x \in 1 .. Len(Registry) + 1 :
              LET q == [r EXCEPT !.i = x]
              IN  /\ q \in JobType /\ q.i = x
                  /\ q.step = r.step /\ q.op = r.op /\ q.v = r.v /\ q.need = r.need
         /\ \A x \in Par!Values :
              LET q == [r EXCEPT !.v = x]
              IN  /\ q \in JobType /\ q.v = x
                  /\ q.step = r.step /\ q.op = r.op /\ q.i = r.i /\ q.need = r.need
         /\ \A x \in BOOLEAN :
              LET q == [r EXCEPT !.need = x]
              IN  /\ q \in JobType /\ q.need = x
                  /\ q.step = r.step /\ q.op = r.op /\ q.i = r.i /\ q.v = r.v
BY DEF JobType, JobOps, JobSteps

(* Idle, and a save that waits for the semaphore, are jobs.                *)
LEMMA IdleIs ==
  /\ Par!Idle \in JobType /\ Par!Idle.op = "idle" /\ Par!Idle.step = "none" /\ Par!Idle.i = 1
  /\ LET q == [Par!Idle EXCEPT !.op = "save", !.step = "acquire"]
     IN  q \in JobType /\ q.op = "save" /\ q.step = "acquire" /\ q.i = 1
<1>1. Par!Idle \in JobType /\ Par!Idle.op = "idle" /\ Par!Idle.step = "none" /\ Par!Idle.i = 1
  BY RegistryFacts DEF Par!Idle, JobType
<1> DEFINE p == [Par!Idle EXCEPT !.op = "save"]
           q == [p EXCEPT !.step = "acquire"]
<1>2. p \in JobType /\ p.op = "save" /\ p.i = 1
  BY <1>1, FieldSet DEF JobOps
<1> HIDE DEF p
<1>3. q \in JobType /\ q.op = "save" /\ q.step = "acquire" /\ q.i = 1
  BY <1>2, FieldSet DEF JobSteps
<1> QED
  BY <1>1, <1>3 DEF p

(* At power up the boot loads (BNAP) or looks (MPIOVD) and the others are  *)
(* idle.                                                                   *)
LEMMA StartingIs ==
  ASSUME NEW b
  PROVE  /\ Par!Starting(b) \in [Par!Threads -> JobType]
         /\ \A t \in Par!Threads \ {"init"} : Par!Starting(b)[t] = Par!Idle
         /\ Par!Starting(b)["init"].op = (IF b = "bnap" THEN "load" ELSE "look")
         /\ Par!Starting(b)["init"].step = "acquire"
<1> DEFINE o == IF b = "bnap" THEN "load" ELSE "look"
           p == [Par!Idle EXCEPT !.op = o]
           q == [p EXCEPT !.step = "acquire"]
<1>0. o \in JobOps
  BY DEF JobOps
<1> HIDE DEF o
<1>1. p \in JobType /\ p.op = o
  BY <1>0, IdleIs, FieldSet
<1> HIDE DEF p
<1>2. q \in JobType /\ q.op = o /\ q.step = "acquire"
  BY <1>1, FieldSet DEF JobSteps
<1>3. Par!Starting(b) = [t \in Par!Threads |-> IF t # "init" THEN Par!Idle ELSE q]
  BY DEF Par!Starting, p, o
<1> HIDE DEF q
<1> QED
  BY <1>2, <1>3, IdleIs DEF o, Par!Threads

(* What a step of a thread does to its job.                                *)
Goes(t, op, step, i) ==
  /\ job' \in [Par!Threads -> JobType]
  /\ job'[t].op = op /\ job'[t].step = step /\ job'[t].i = i
  /\ \A o \in Par!Threads \ {t} : job'[o] = job[o]

(* A load goes to its first record.                                        *)
LEMMA LoadBeginsGoes ==
  ASSUME ParamTypes, NEW t \in Par!Threads, Par!LoadBegins(t)
  PROVE  job[t].op = "load" /\ job[t].step = "acquire" /\ Goes(t, "load", "read", 1)
<1> DEFINE s1 == [job[t] EXCEPT !.step = "read"]
           s2 == [s1 EXCEPT !.i = 1]
           s3 == [s2 EXCEPT !.v = 0]
           s == [s3 EXCEPT !.need = FALSE]
<1>2. job' = [job EXCEPT ![t] = s]
  BY DEF Par!LoadBegins, ParamTypes
<1>3. job[t].op = "load" /\ job[t].step = "acquire"
  BY DEF Par!LoadBegins, Par!At
<1>4. s1 \in JobType /\ s1.op = "load" /\ s1.step = "read"
  BY <1>3, JobIs, FieldSet DEF JobSteps
<1> HIDE DEF s1
<1>5. s2 \in JobType /\ s2.op = "load" /\ s2.step = "read" /\ s2.i = 1
  <2>1. 1 \in 1 .. Len(Registry) + 1
    BY RegistryFacts
  <2> QED
    BY <1>4, <2>1, FieldSet
<1> HIDE DEF s2
<1>6. s3 \in JobType /\ s3.op = "load" /\ s3.step = "read" /\ s3.i = 1
  BY <1>5, FieldSet, RegistryFacts
<1> HIDE DEF s3
<1>7. s \in JobType /\ s.op = "load" /\ s.step = "read" /\ s.i = 1
  BY <1>6, FieldSet
<1> HIDE DEF s
<1> QED
  BY <1>2, <1>3, <1>7, StepIs DEF Goes

(* A step that only goes on keeps its job and its record.                  *)
LEMMA StepGoes ==
  ASSUME ParamTypes, NEW t \in Par!Threads, NEW x \in JobSteps, Par!Step(t, x)
  PROVE  Goes(t, job[t].op, x, job[t].i)
<1> DEFINE s == [job[t] EXCEPT !.step = x]
<1>1. job' = [job EXCEPT ![t] = s]
  BY DEF Par!Step, ParamTypes
<1>2. s \in JobType /\ s.op = job[t].op /\ s.step = x /\ s.i = job[t].i
  BY JobIs, FieldSet
<1> HIDE DEF s
<1> QED
  BY <1>1, <1>2, StepIs DEF Goes

(* What is loaded is a value.                                              *)
LEMMA LoadedIs ==
  ASSUME ParamTypes, NEW t \in Par!Threads, job[t].i \in Par!Params
  PROVE  Par!LoadedValue(t) \in Par!Values
BY JobIs, RecordsAre, AllowedIs DEF Par!LoadedValue, ParamTypes

(* A load goes to the next record or to its end.                           *)
LEMMA LoadSetsGoes ==
  ASSUME ParamTypes, NEW t \in Par!Threads, job[t].i \in Par!Params, Par!LoadSets(t)
  PROVE  /\ job[t].op = "load" /\ job[t].step = "set"
         /\ Goes(t, "load", IF job[t].i = Len(Registry) THEN "end" ELSE "read", job[t].i + 1)
<1> DEFINE s1 == [job[t] EXCEPT !.v = Par!LoadedValue(t)]
           s2 == [s1 EXCEPT !.need = @ \/ ~Par!Known]
           s3 == [s2 EXCEPT !.i = @ + 1]
           x == IF job[t].i = Len(Registry) THEN "end" ELSE "read"
           s == [s3 EXCEPT !.step = x]
<1>3. job[t].op = "load" /\ job[t].step = "set"
  BY DEF Par!LoadSets, Par!At
<1>2. job' = [job EXCEPT ![t] = s]
  BY DEF Par!LoadSets, ParamTypes
<1>4. s1 \in JobType /\ s1.op = "load" /\ s1.i = job[t].i
  BY <1>3, JobIs, LoadedIs, FieldSet
<1> HIDE DEF s1
<1>5. s2 \in JobType /\ s2.op = "load" /\ s2.i = job[t].i
  <2> DEFINE n == s1.need \/ ~Par!Known
  <2>1. s2 = [s1 EXCEPT !.need = n]
    OBVIOUS
  <2>2. n \in BOOLEAN
    BY Zenon
  <2> HIDE DEF n, s2
  <2> QED
    BY <1>4, <2>1, <2>2, FieldSet
<1> HIDE DEF s2
<1>6. s3 \in JobType /\ s3.op = "load" /\ s3.i = job[t].i + 1
  <2>1. s3 = [s2 EXCEPT !.i = s2.i + 1]
    OBVIOUS
  <2>2. s2.i + 1 \in 1 .. Len(Registry) + 1
    BY <1>5, RegistryFacts
  <2> QED
    BY <1>5, <2>1, <2>2, FieldSet
<1> HIDE DEF s3
<1>7. s \in JobType /\ s.op = "load" /\ s.step = x /\ s.i = job[t].i + 1
  <2>1. x \in JobSteps
    BY DEF JobSteps
  <2> HIDE DEF x
  <2> QED
    BY <1>6, <2>1, FieldSet
<1> HIDE DEF s
<1> QED
  BY <1>2, <1>3, <1>7, StepIs DEF Goes

(* A save goes to its first record.                                        *)
LEMMA SaveBeginsGoes ==
  ASSUME ParamTypes, NEW t \in Par!Threads, Par!SaveBegins(t)
  PROVE  job[t].op = "save" /\ job[t].step = "acquire" /\ Goes(t, "save", "write", 1)
<1> DEFINE s1 == [job[t] EXCEPT !.step = "write"]
           s == [s1 EXCEPT !.i = 1]
<1>1. job' = [job EXCEPT ![t] = s]
  BY DEF Par!SaveBegins, ParamTypes
<1>2. job[t].op = "save" /\ job[t].step = "acquire"
  BY DEF Par!SaveBegins, Par!At
<1>3. s1 \in JobType /\ s1.op = "save" /\ s1.step = "write"
  BY <1>2, JobIs, FieldSet DEF JobSteps
<1>4. 1 \in 1 .. Len(Registry) + 1
  BY RegistryFacts
<1> HIDE DEF s1
<1>5. s \in JobType /\ s.op = "save" /\ s.step = "write" /\ s.i = 1
  BY <1>3, <1>4, FieldSet
<1> HIDE DEF s
<1> QED
  BY <1>1, <1>2, <1>5, StepIs DEF Goes

(* A save goes to the next record or to its end.                           *)
LEMMA SaveVerifiesGoes ==
  ASSUME ParamTypes, NEW t \in Par!Threads, job[t].i \in Par!Params, Par!SaveVerifies(t)
  PROVE  /\ job[t].op = "save" /\ job[t].step = "verify"
         /\ Goes(t, "save", IF job[t].i + 1 > Len(Registry) THEN "end" ELSE "write", job[t].i + 1)
<1> DEFINE s1 == [job[t] EXCEPT !.i = job[t].i + 1]
           x == IF job[t].i + 1 > Len(Registry) THEN "end" ELSE "write"
           s == [s1 EXCEPT !.step = x]
<1>1. job' = [job EXCEPT ![t] = s]
  BY DEF Par!SaveVerifies, Par!NextRecord, ParamTypes
<1>2. job[t].op = "save" /\ job[t].step = "verify"
  BY DEF Par!SaveVerifies, Par!At
<1>3. job[t].i + 1 \in 1 .. Len(Registry) + 1
  BY RegistryFacts
<1>4. s1 \in JobType /\ s1.op = "save" /\ s1.i = job[t].i + 1
  BY <1>2, <1>3, JobIs, FieldSet
<1>5. x \in JobSteps
  BY DEF JobSteps
<1> HIDE DEF s1, x
<1>6. s \in JobType /\ s.op = "save" /\ s.step = x /\ s.i = job[t].i + 1
  BY <1>4, <1>5, FieldSet
<1> HIDE DEF s
<1> QED
  BY <1>1, <1>2, <1>6, StepIs DEF Goes, x

(* Who is through is idle, or has to save what it loaded.                  *)
LEMMA FinishedGoes ==
  ASSUME ParamTypes, NEW t \in Par!Threads, NEW need, Par!Finished(t, need)
  PROVE  Goes(t, "idle", "none", 1) \/ (need /\ Goes(t, "save", "acquire", 1))
<1> DEFINE p == [Par!Idle EXCEPT !.op = "save", !.step = "acquire"]
<1>1. job' = [job EXCEPT ![t] = Par!Idle] \/ (need /\ job' = [job EXCEPT ![t] = p])
  BY Zenon DEF Par!Finished
<1>2. p \in JobType /\ p.op = "save" /\ p.step = "acquire" /\ p.i = 1
  BY IdleIs
<1> HIDE DEF p
<1>3. CASE job' = [job EXCEPT ![t] = Par!Idle]
  BY <1>3, IdleIs, StepIs DEF Goes
<1>4. CASE need /\ job' = [job EXCEPT ![t] = p]
  BY <1>4, <1>2, StepIs DEF Goes
<1> QED
  BY <1>1, <1>3, <1>4

(* The boot of MPIOVD goes on to load or to save.                          *)
LEMMA LooksGoes ==
  ASSUME ParamTypes, Par!Looks
  PROVE  /\ job["init"].op = "look" /\ job["init"].step = "acquire"
         /\ \E op \in {"load", "save"} : Goes("init", op, "acquire", job["init"].i)
<1> DEFINE x == IF ee[1].name = Registry[1].name THEN "load" ELSE "save"
           s == [job["init"] EXCEPT !.op = x]
<1>1. job' = [job EXCEPT !["init"] = s]
  BY DEF Par!Looks, ParamTypes
<1>2. job["init"].op = "look" /\ job["init"].step = "acquire"
  BY DEF Par!Looks, Par!At
<1>3. x \in {"load", "save"} /\ x \in JobOps
  BY DEF JobOps
<1> HIDE DEF x
<1>4. "init" \in Par!Threads
  BY DEF Par!Threads
<1>5. s \in JobType /\ s.op = x /\ s.step = "acquire" /\ s.i = job["init"].i
  BY <1>2, <1>3, <1>4, JobIs, FieldSet
<1> HIDE DEF s
<1> QED
  BY <1>1, <1>2, <1>3, <1>4, <1>5, StepIs DEF Goes

(* A request gives an idle thread a job, after the boot.                   *)
LEMMA RequestGoes ==
  ASSUME ParamTypes, NEW t \in Par!Threads, NEW op \in {"load", "save"}, Par!Request(t, op)
  PROVE  /\ job[t].op = "idle" /\ job[t].step = "none" /\ ready = TRUE
         /\ Goes(t, op, "acquire", 1)
<1> DEFINE s1 == [job[t] EXCEPT !.op = op]
           s == [s1 EXCEPT !.step = "acquire"]
<1>1. job' = [job EXCEPT ![t] = s]
  BY DEF Par!Request, ParamTypes
<1>2. job[t] = Par!Idle
  BY DEF Par!Request
<1>3. ready = TRUE
  <2>1. ready \in BOOLEAN
    BY Zenon DEF ParamTypes
  <2>2. ready
    BY Zenon DEF Par!Request
  <2> QED
    BY <2>1, <2>2, Zenon
<1>4. s1 \in JobType /\ s1.op = op /\ s1.i = 1
  <2>1. op \in JobOps
    BY DEF JobOps
  <2> QED
    BY <1>2, <2>1, IdleIs, FieldSet
<1> HIDE DEF s1
<1>5. s \in JobType /\ s.op = op /\ s.step = "acquire" /\ s.i = 1
  BY <1>4, FieldSet DEF JobSteps
<1> HIDE DEF s
<1> QED
  BY <1>1, <1>2, <1>3, <1>5, IdleIs, StepIs DEF Goes

(* The flags stay flags.                                                   *)
LEMMA FlagsStep ==
  ASSUME ParamTypes, Par!Next
  PROVE  {ready, panic, moved, crossed}' \subseteq BOOLEAN
<1>0. ready \in BOOLEAN /\ panic \in BOOLEAN /\ moved \in BOOLEAN /\ crossed \in BOOLEAN
  BY Zenon DEF ParamTypes
<1> DEFINE Flags == ready' \in BOOLEAN /\ panic' \in BOOLEAN /\ moved' \in BOOLEAN /\ crossed' \in BOOLEAN
<1> SUFFICES Flags
  OBVIOUS
<1>1. ASSUME NEW t \in Par!Threads, Par!LoadBegins(t) PROVE Flags
  BY <1>0, <1>1, Zenon DEF Par!LoadBegins, Par!Enters, Par!Finished, Par!SetParam, Par!history
<1>2. ASSUME NEW t \in Par!Threads, Par!LoadReads(t) PROVE Flags
  BY <1>0, <1>2, Zenon DEF Par!LoadReads, Par!Enters, Par!Finished, Par!SetParam, Par!history
<1>3. ASSUME NEW t \in Par!Threads, Par!LoadSets(t) PROVE Flags
  BY <1>0, <1>3, Zenon DEF Par!LoadSets, Par!Enters, Par!Finished, Par!SetParam, Par!history
<1>4. ASSUME NEW t \in Par!Threads, Par!LoadEnds(t) PROVE Flags
  BY <1>0, <1>4, Zenon DEF Par!LoadEnds, Par!Enters, Par!Finished, Par!SetParam, Par!history
<1>5. ASSUME NEW t \in Par!Threads, Par!SaveBegins(t) PROVE Flags
  BY <1>0, <1>5, Zenon DEF Par!SaveBegins, Par!Enters, Par!Finished, Par!SetParam, Par!history
<1>6. ASSUME NEW t \in Par!Threads, Par!SaveWrites(t) PROVE Flags
  BY <1>0, <1>6, Zenon DEF Par!SaveWrites, Par!Enters, Par!Finished, Par!SetParam, Par!history
<1>7. ASSUME NEW t \in Par!Threads, Par!SaveVerifies(t) PROVE Flags
  BY <1>0, <1>7, Zenon DEF Par!SaveVerifies, Par!Enters, Par!Finished, Par!SetParam, Par!history
<1>8. ASSUME NEW t \in Par!Threads, Par!SaveEnds(t) PROVE Flags
  BY <1>0, <1>8, Zenon DEF Par!SaveEnds, Par!Enters, Par!Finished, Par!SetParam, Par!history
<1>9. CASE Par!Looks
  BY <1>0, <1>9, Zenon DEF Par!Looks, Par!SetParam, Par!history
<1>10. CASE Par!Set
  BY <1>0, <1>10, Zenon DEF Par!Set, Par!SetParam, Par!history
<1>11. CASE Par!PowerFails
  BY <1>0, <1>11, Zenon DEF Par!PowerFails, Par!SetParam, Par!history
<1>12. ASSUME NEW t \in Par!Threads, NEW op \in {"load", "save"}, Par!Request(t, op) PROVE Flags
  BY <1>0, <1>12, Zenon DEF Par!Request, Par!history
<1> QED
  BY <1>1, <1>2, <1>3, <1>4, <1>5, <1>6, <1>7, <1>8, <1>9, <1>10, <1>11, <1>12, Zenon DEF Par!Next, Par!JobStep, Par!Threads

(* Setting changes one parameter, to what passed the check.                *)
LEMMA SetIs ==
  ASSUME ParamTypes, NEW i \in Par!Params, NEW v \in Par!Values, Par!SetParam(i, v)
  PROVE  /\ params_ram' \in [Par!Params -> Par!Values]
         /\ params_ram'[i] = Par!Checked(i, v)
         /\ \A j \in Par!Params \ {i} : params_ram'[j] = params_ram[j]
BY CheckedIs DEF ParamTypes, Par!SetParam

(* Every step keeps the types of the parameters, the file and the jobs.    *)
LEMMA DataStep ==
  ASSUME ParamTypes, TurnInv, Par!Next
  PROVE  /\ board' = board
         /\ params_ram' \in [Par!Params -> Par!Values]
         /\ ee' \in [Par!Params -> Par!Records] /\ eeprombuf' \in Par!Records
         /\ position' \in Nat
         /\ job' \in [Par!Threads -> JobType]
<1> DEFINE Goal == /\ board' = board
                   /\ params_ram' \in [Par!Params -> Par!Values]
                   /\ ee' \in [Par!Params -> Par!Records] /\ eeprombuf' \in Par!Records
                   /\ position' \in Nat
                   /\ job' \in [Par!Threads -> JobType]
<1> SUFFICES Goal
  OBVIOUS
<1>0. /\ params_ram \in [Par!Params -> Par!Values]
      /\ ee \in [Par!Params -> Par!Records] /\ eeprombuf \in Par!Records
      /\ position \in Nat /\ position + 1 \in Nat /\ 1 \in Nat /\ 2 \in Nat
      /\ job \in [Par!Threads -> JobType]
  BY DEF ParamTypes
<1>1. ASSUME NEW t \in Par!Threads, Par!LoadBegins(t) PROVE Goal
  BY <1>0, <1>1, LoadBeginsGoes, Zenon DEF Par!LoadBegins, Goes
<1>2. ASSUME NEW t \in Par!Threads, Par!LoadReads(t) PROVE Goal
  <2>1. job' \in [Par!Threads -> JobType]
    BY <1>2, StepGoes DEF Par!LoadReads, Goes, JobSteps
  <2> QED
    BY <1>0, <1>2, <2>1, HereIs, Zenon DEF Par!LoadReads
<1>3. ASSUME NEW t \in Par!Threads, Par!LoadSets(t) PROVE Goal
  <2>1. job[t].i \in Par!Params
    BY <1>3 DEF TurnInv, Par!LoadSets, Par!At
  <2>2. params_ram' \in [Par!Params -> Par!Values]
    BY <1>3, <2>1, LoadedIs, SetIs DEF Par!LoadSets
  <2>3. job' \in [Par!Threads -> JobType]
    BY <1>3, <2>1, LoadSetsGoes DEF Goes
  <2> QED
    BY <1>0, <1>3, <2>2, <2>3, Zenon DEF Par!LoadSets, Par!file
<1>4. ASSUME NEW t \in Par!Threads, Par!LoadEnds(t) PROVE Goal
  <2>1. job' \in [Par!Threads -> JobType]
    BY <1>4, FinishedGoes, Zenon DEF Par!LoadEnds, Goes
  <2> QED
    BY <1>0, <1>4, <2>1, Zenon DEF Par!LoadEnds, Par!file
<1>5. ASSUME NEW t \in Par!Threads, Par!SaveBegins(t) PROVE Goal
  BY <1>0, <1>5, SaveBeginsGoes, Zenon DEF Par!SaveBegins, Goes
<1>6. ASSUME NEW t \in Par!Threads, Par!SaveWrites(t) PROVE Goal
  <2>1. job' \in [Par!Threads -> JobType]
    BY <1>6, StepGoes DEF Par!SaveWrites, Goes, JobSteps
  <2>2. job[t].i \in Par!Params
    BY <1>6 DEF TurnInv, Par!SaveWrites, Par!At
  <2>3. Par!Record(t) \in Par!Records
    BY <2>2, RecordIs
  <2>4. ee' \in [Par!Params -> Par!Records]
    BY <1>0, <1>6, <2>3 DEF Par!SaveWrites
  <2> QED
    BY <1>0, <1>6, <2>1, <2>3, <2>4, Zenon DEF Par!SaveWrites
<1>7. ASSUME NEW t \in Par!Threads, Par!SaveVerifies(t) PROVE Goal
  <2>1. job[t].i \in Par!Params
    BY <1>7 DEF TurnInv, Par!SaveVerifies, Par!At
  <2>2. job' \in [Par!Threads -> JobType]
    BY <1>7, <2>1, SaveVerifiesGoes DEF Goes
  <2> QED
    BY <1>0, <1>7, <2>2, Zenon DEF Par!SaveVerifies, Par!file
<1>8. ASSUME NEW t \in Par!Threads, Par!SaveEnds(t) PROVE Goal
  <2>1. job' \in [Par!Threads -> JobType]
    BY <1>8, FinishedGoes, Zenon DEF Par!SaveEnds, Goes
  <2> QED
    BY <1>0, <1>8, <2>1, Zenon DEF Par!SaveEnds, Par!file
<1>9. CASE Par!Looks
  <2>1. job' \in [Par!Threads -> JobType]
    BY <1>9, LooksGoes, Zenon DEF Goes
  <2> QED
    BY <1>0, <1>9, <2>1, Zenon DEF Par!Looks
<1>10. CASE Par!Set
  <2>1. params_ram' \in [Par!Params -> Par!Values]
    BY <1>10, SetIs DEF Par!Set
  <2> QED
    BY <1>0, <1>10, <2>1, Zenon DEF Par!Set, Par!file
<1>11. ASSUME NEW t \in Par!Threads, NEW op \in {"load", "save"}, Par!Request(t, op) PROVE Goal
  <2>1. job' \in [Par!Threads -> JobType]
    BY <1>11, RequestGoes DEF Goes
  <2> QED
    BY <1>0, <1>11, <2>1, Zenon DEF Par!Request, Par!file
<1>12. CASE Par!PowerFails
  <2>1. params_ram' \in [Par!Params -> Par!Values]
    BY <1>12, RegistryFacts, AllowedIs DEF Par!PowerFails, Par!InitialRam
  <2>2. job' \in [Par!Threads -> JobType]
    BY <1>12, StartingIs, Zenon DEF Par!PowerFails
  <2>3. PICK r \in {Par!Here} \cup UNION {Par!Torn(Par!Here, Par!Record(t)) : t \in {u \in Par!Threads : Par!At(u, "save", "write")}} :
          ee' = [i \in Par!Params |-> IF i = position /\ \E t \in Par!Threads : Par!At(t, "save", "write") THEN r ELSE ee[i]]
    BY <1>12, Zenon DEF Par!PowerFails
  <2>4. r \in Par!Records
    <3>1. CASE r = Par!Here
      BY <3>1, HereIs
    <3>2. ASSUME NEW t \in Par!Threads, Par!At(t, "save", "write"), r \in Par!Torn(Par!Here, Par!Record(t))
          PROVE  r \in Par!Records
      <4>1. job[t].i \in Par!Params
        BY <3>2 DEF TurnInv, Par!At
      <4>2. Par!Record(t) \in Par!Records /\ Par!Record(t).name \in Par!Names
        BY <4>1, RecordIs, RegistryFacts
      <4>3. Par!Here \in Par!Records /\ Par!Here.value \in Par!Values
        BY HereIs, RecordsAre
      <4>4. [name |-> Par!Record(t).name, value |-> Par!Here.value] \in Par!Records
        BY <4>2, <4>3, RecordsAre
      <4> QED
        BY <3>2, <4>2, <4>3, <4>4, Zenon DEF Par!Torn
    <3>3. r = Par!Here \/ \E t \in {u \in Par!Threads : Par!At(u, "save", "write")} : r \in Par!Torn(Par!Here, Par!Record(t))
      BY <2>3, Zenon
    <3> QED
      BY <3>1, <3>2, <3>3, Zenon
  <2>5. ee' \in [Par!Params -> Par!Records]
    BY <1>0, <2>3, <2>4
  <2> QED
    BY <1>0, <1>12, <2>1, <2>2, <2>5, RecordsAre, Zenon DEF Par!PowerFails
<1> HIDE DEF Goal
<1> QED
  BY <1>1, <1>2, <1>3, <1>4, <1>5, <1>6, <1>7, <1>8, <1>9, <1>10, <1>11, <1>12, Zenon
  DEF Par!Next, Par!JobStep, Par!Threads

(* Every step keeps the types.                                             *)
LEMMA TypesStep ==
  ASSUME ParamTypes, TurnInv, Par!Next
  PROVE  ParamTypes'
<1>1. board \in {"bnap", "mpiovd"}
  BY Zenon DEF ParamTypes
<1> QED
  BY <1>1, FlagsStep, DataStep, Zenon DEF ParamTypes

(* Every step keeps whose turn it is: the boot first, then the others,     *)
(* each within the registry.                                               *)
LEMMA TurnStep ==
  ASSUME ParamTypes, TurnInv, Par!Next
  PROVE  TurnInv'
<1> DEFINE Turn(t) ==
         /\ job'[t].step \in Steps(job'[t].op)
         /\ job'[t].step \in {"read", "set", "write", "verify"} => job'[t].i \in Par!Params
         /\ t # "init" /\ job'[t].op # "idle" => ready' = TRUE
         /\ job'[t].step = "end" => job'[t].i = Len(Registry) + 1
         /\ job'[t].op = "look" => t = "init" /\ board' = "mpiovd"
       Idles == ready' = TRUE => job'["init"].op = "idle"
       Goal == (\A t \in Par!Threads : Turn(t)) /\ Idles
<1> SUFFICES Goal
  BY Zenon DEF TurnInv
<1>0. ready \in BOOLEAN
  BY Zenon DEF ParamTypes
<1>b. board \in {"bnap", "mpiovd"} /\ board' = board
  BY DataStep, Zenon DEF ParamTypes
<1> USE <1>b
(* A step of a thread that goes on with the same job. *)
<1>1. ASSUME NEW t \in Par!Threads, NEW step, NEW i,
             Goes(t, job[t].op, step, i), ready' = ready,
             job[t].op # "idle",
             step \in Steps(job[t].op),
             step \in {"read", "set", "write", "verify"} => i \in Par!Params,
             step = "end" => i = Len(Registry) + 1
      PROVE  Goal
  <2>1. ASSUME NEW o \in Par!Threads \ {t} PROVE Turn(o)
    BY <1>1, <2>1 DEF TurnInv, Goes
  <2>2. Turn(t)
    BY <1>1 DEF TurnInv, Goes
  <2>3. Idles
    <3>1. CASE t = "init"
      BY <1>1, <3>1 DEF TurnInv
    <3>2. CASE t # "init"
      <4>1. "init" \in Par!Threads \ {t}
        BY <3>2 DEF Par!Threads
      <4> QED
        BY <1>1, <4>1 DEF TurnInv, Goes
    <3> QED
      BY <3>1, <3>2
  <2> QED
    BY <2>1, <2>2, <2>3
(* A thread that is through with its job.                                  *)
<1>2. ASSUME NEW t \in Par!Threads, job[t].op # "idle", NEW need, Par!Finished(t, need)
      PROVE  Goal
  <2>1. ASSUME NEW o \in Par!Threads \ {t} PROVE Turn(o)
    <3>1. job'[o] = job[o]
      BY <1>2, FinishedGoes DEF Goes
    <3>2. ready = TRUE => ready' = TRUE
      BY <1>0, <1>2, Zenon DEF Par!Finished
    <3> QED
      BY <3>1, <3>2 DEF TurnInv
  <2>2. Turn(t)
    <3>1. Goes(t, "idle", "none", 1) \/ Goes(t, "save", "acquire", 1)
      BY <1>2, FinishedGoes
    <3>2. t # "init" => ready = TRUE /\ job[t].op # "look"
      BY <1>2 DEF TurnInv
    <3>3. ready = TRUE => ready' = TRUE
      BY <1>0, <1>2, Zenon DEF Par!Finished
    <3> QED
      BY <3>1, <3>2, <3>3 DEF Goes, Steps
  <2>3. Idles
    <3>1. CASE t = "init"
      <4>1. ready = FALSE
        BY <1>0, <1>2, <3>1 DEF TurnInv
      <4>2. ready' = TRUE => ~need
        BY <4>1, <1>2, Zenon DEF Par!Finished
      <4> QED
        BY <4>2, <1>2, <3>1, FinishedGoes DEF Goes
    <3>2. CASE t # "init"
      <4>1. ready = TRUE
        BY <1>2, <3>2 DEF TurnInv
      <4>2. "init" \in Par!Threads \ {t}
        BY <3>2 DEF Par!Threads
      <4>3. job'["init"] = job["init"]
        BY <1>2, <4>2, FinishedGoes DEF Goes
      <4> QED
        BY <4>1, <4>3 DEF TurnInv
    <3> QED
      BY <3>1, <3>2
  <2> QED
    BY <2>1, <2>2, <2>3
<1> HIDE DEF Goal
<1>3. ASSUME NEW t \in Par!Threads, Par!LoadBegins(t) PROVE Goal
  <2>1. job[t].op = "load" /\ Goes(t, job[t].op, "read", 1)
    BY <1>3, LoadBeginsGoes
  <2>2. ready' = ready
    BY <1>3 DEF Par!LoadBegins
  <2>3. "read" \in Steps(job[t].op)
    BY <2>1 DEF Steps
  <2> QED
    BY <1>1, <2>1, <2>2, <2>3, RegistryFacts
<1>4. ASSUME NEW t \in Par!Threads, Par!LoadReads(t) PROVE Goal
  <2>1. Goes(t, job[t].op, "set", job[t].i)
    BY <1>4, StepGoes DEF Par!LoadReads, JobSteps
  <2>2. job[t].op = "load" /\ job[t].i \in Par!Params
    BY <1>4 DEF TurnInv, Par!LoadReads, Par!At
  <2> QED
    BY <1>4, <1>1, <2>1, <2>2 DEF Par!LoadReads, Steps
<1>5. ASSUME NEW t \in Par!Threads, Par!LoadSets(t) PROVE Goal
  <2>1. job[t].i \in Par!Params
    BY <1>5 DEF TurnInv, Par!LoadSets, Par!At
  <2>2. ready' = ready
    BY <1>5 DEF Par!LoadSets
  <2>3. job[t].i # Len(Registry) => job[t].i + 1 \in Par!Params
    BY <2>1, RegistryFacts
  <2> QED
    BY <1>5, <1>1, <2>1, <2>2, <2>3, LoadSetsGoes DEF Steps
<1>6. ASSUME NEW t \in Par!Threads, Par!LoadEnds(t) PROVE Goal
  <2>1. job[t].op # "idle"
    BY <1>6 DEF Par!LoadEnds, Par!At
  <2> QED
    BY <1>6, <1>2, <2>1, Zenon DEF Par!LoadEnds
<1>7. ASSUME NEW t \in Par!Threads, Par!SaveBegins(t) PROVE Goal
  <2>1. job[t].op = "save" /\ Goes(t, job[t].op, "write", 1)
    BY <1>7, SaveBeginsGoes
  <2>2. ready' = ready
    BY <1>7 DEF Par!SaveBegins
  <2>3. "write" \in Steps(job[t].op)
    BY <2>1 DEF Steps
  <2> QED
    BY <1>1, <2>1, <2>2, <2>3, RegistryFacts
<1>8. ASSUME NEW t \in Par!Threads, Par!SaveWrites(t) PROVE Goal
  <2>1. Goes(t, job[t].op, "verify", job[t].i)
    BY <1>8, StepGoes DEF Par!SaveWrites, JobSteps
  <2>2. job[t].op = "save" /\ job[t].i \in Par!Params
    BY <1>8 DEF TurnInv, Par!SaveWrites, Par!At
  <2> QED
    BY <1>8, <1>1, <2>1, <2>2 DEF Par!SaveWrites, Steps
<1>9. ASSUME NEW t \in Par!Threads, Par!SaveVerifies(t) PROVE Goal
  <2>1. job[t].i \in Par!Params
    BY <1>9 DEF TurnInv, Par!SaveVerifies, Par!At
  <2>2. ready' = ready
    BY <1>9 DEF Par!SaveVerifies
  <2>3. IF job[t].i + 1 > Len(Registry) THEN job[t].i + 1 = Len(Registry) + 1 ELSE job[t].i + 1 \in Par!Params
    BY <2>1, RegistryFacts
  <2> QED
    BY <1>9, <1>1, <2>1, <2>2, <2>3, SaveVerifiesGoes DEF Steps
<1>10. ASSUME NEW t \in Par!Threads, Par!SaveEnds(t) PROVE Goal
  <2>1. job[t].op # "idle"
    BY <1>10 DEF Par!SaveEnds, Par!At
  <2> QED
    BY <1>10, <1>2, <2>1, Zenon DEF Par!SaveEnds
<1>11. CASE Par!Looks
  <2>1. PICK op \in {"load", "save"} : Goes("init", op, "acquire", job["init"].i)
    BY <1>11, LooksGoes
  <2>2. job["init"].op = "look" /\ ready' = ready
    BY <1>11, LooksGoes DEF Par!Looks
  <2>3. ready = FALSE
    BY <1>0, <2>2 DEF TurnInv
  <2>4. ASSUME NEW o \in Par!Threads \ {"init"} PROVE Turn(o)
    BY <2>1, <2>2, <2>4 DEF TurnInv, Goes
  <2>5. Turn("init")
    BY <2>1 DEF Goes, Steps
  <2>6. Idles
    BY <2>2, <2>3
  <2> QED
    BY <2>4, <2>5, <2>6 DEF Goal
<1>12. CASE Par!Set
  BY <1>12 DEF Par!Set, TurnInv, Goal
<1>13. ASSUME NEW t \in Par!Threads, t # "init", NEW op \in {"load", "save"}, Par!Request(t, op) PROVE Goal
  <2>1. t \in Par!Threads /\ t # "init" /\ "init" \in Par!Threads
    BY <1>13 DEF Par!Threads
  <2>2. ready = TRUE /\ ready' = ready /\ Goes(t, op, "acquire", 1)
    BY <1>13, <2>1, RequestGoes DEF Par!Request
  <2>3. ASSUME NEW o \in Par!Threads \ {t} PROVE Turn(o)
    BY <2>2, <2>3 DEF TurnInv, Goes
  <2>4. Turn(t)
    BY <2>1, <2>2 DEF Goes, Steps
  <2>5. Idles
    BY <2>1, <2>2 DEF Goes, TurnInv
  <2> QED
    BY <2>3, <2>4, <2>5 DEF Goal
<1>14. CASE Par!PowerFails
  <2>1. job' = Par!Starting(board) /\ ready' = FALSE
    BY <1>14 DEF Par!PowerFails
  <2>2. ASSUME NEW o \in Par!Threads \ {"init"} PROVE Turn(o)
    BY <2>1, StartingIs, IdleIs DEF Steps
  <2>3. Turn("init")
    BY <2>1, StartingIs DEF Steps
  <2>4. Idles
    BY <2>1
  <2> QED
    BY <2>2, <2>3, <2>4 DEF Goal
<1>15. CASE Par!Request("command", "load") \/ Par!Request("command", "save") \/ Par!Request("shell", "save")
  <2>1. "command" \in Par!Threads /\ "shell" \in Par!Threads /\ "command" # "init" /\ "shell" # "init"
    BY DEF Par!Threads
  <2> QED
    BY <1>13, <1>15, <2>1, Zenon
<1> QED
  BY <1>3, <1>4, <1>5, <1>6, <1>7, <1>8, <1>9, <1>10, <1>11, <1>12, <1>14, <1>15, Zenon
  DEF Par!Next, Par!JobStep

Boards == {"bnap", "mpiovd"}

(* Who enters the file finds nobody there, or it is noted.                 *)
LEMMA EntersAlone ==
  ASSUME ParamTypes, AloneInv, NEW t \in Par!Threads, Par!Enters(t),
         board' = board, NEW op, NEW step, NEW i, Goes(t, op, step, i)
  PROVE  /\ AloneInv'
         /\ board = "bnap" \/ crossed' = FALSE =>
              crossed = FALSE \/ board = "bnap"
         /\ board = "bnap" \/ crossed' = FALSE =>
              \A o \in Par!Threads \ {t} : ~InFile(o) /\ job'[o] = job[o]
<1>1. board \in Boards /\ crossed \in BOOLEAN
  BY Zenon DEF ParamTypes, Boards
<1>2. \A o \in Par!Threads \ {t} : job'[o] = job[o]
  BY DEF Goes
<1>3. ASSUME board = "bnap"
      PROVE  sem' = t /\ \A o \in Par!Threads \ {t} : ~InFile(o)
  <2>1. sem' = t /\ sem \in {"nobody", t}
    BY <1>3 DEF Par!Enters, Par!MayEnter
  <2>2. \A o \in Par!Threads : InFile(o) => sem = o
    BY <1>3 DEF AloneInv
  <2>3. "nobody" \notin Par!Threads
    BY DEF Par!Threads
  <2> QED
    BY <2>1, <2>2, <2>3
<1>4. ASSUME crossed' = FALSE
      PROVE  crossed = FALSE /\ \A o \in Par!Threads \ {t} : ~InFile(o)
  BY <1>1, <1>4, Zenon DEF Par!Enters, InFile
<1>5. AloneInv'
  <2>1. CASE board = "bnap"
    BY <1>2, <1>3, <2>1 DEF AloneInv, InFile
  <2>2. CASE board = "mpiovd"
    BY <1>2, <1>4, <2>2 DEF AloneInv, InFile
  <2> QED
    BY <1>1, <2>1, <2>2 DEF Boards
<1> QED
  BY <1>2, <1>3, <1>4, <1>5

(* Who does not enter leaves the others alone as they are.                 *)
LEMMA KeepsAlone ==
  ASSUME AloneInv, NEW t \in Par!Threads, board' = board, sem' = sem, crossed' = crossed,
         NEW op, NEW step, NEW i, Goes(t, op, step, i),
         step \in {"none", "acquire"} \/ InFile(t)
  PROVE  AloneInv'
BY DEF AloneInv, InFile, Goes

(* Who leaves the file gives the semaphore to nobody, or to one who is     *)
(* not in it yet.                                                          *)
LEMMA LeavesAlone ==
  ASSUME ParamTypes, AloneInv, NEW t \in Par!Threads, Par!Leaves(t), InFile(t),
         board' = board, crossed' = crossed,
         NEW op, NEW step \in {"none", "acquire"}, NEW i, Goes(t, op, step, i)
  PROVE  AloneInv'
<1>1. \A o \in Par!Threads \ {t} : job'[o] = job[o]
  BY DEF Goes
<1>2. job'[t].step \in {"none", "acquire"}
  BY DEF Goes
<1>3. board = "bnap" => \A o \in Par!Threads \ {t} : ~InFile(o)
  BY DEF AloneInv
<1> QED
  BY <1>1, <1>2, <1>3 DEF AloneInv, InFile

(* Nobody else is in the file with a thread that is.                       *)
LEMMA AloneIs ==
  ASSUME ParamTypes, AloneInv, NEW t \in Par!Threads, InFile(t), board = "bnap" \/ crossed = FALSE
  PROVE  \A o \in Par!Threads \ {t} : ~InFile(o)
BY DEF ParamTypes, AloneInv

(* Every step keeps that on BNAP only who has the semaphore is in the      *)
(* file, and on MPIOVD that two are noted.                                 *)
LEMMA AloneStep ==
  ASSUME ParamTypes, TurnInv, AloneInv, Par!Next
  PROVE  AloneInv'
<1>1. ASSUME NEW t \in Par!Threads, Par!LoadBegins(t) PROVE AloneInv'
  BY <1>1, LoadBeginsGoes, EntersAlone DEF Par!LoadBegins
<1>2. ASSUME NEW t \in Par!Threads, Par!LoadReads(t) PROVE AloneInv'
  <2>1. Goes(t, job[t].op, "set", job[t].i) /\ InFile(t)
    BY <1>2, StepGoes DEF Par!LoadReads, JobSteps, InFile, Par!At
  <2> QED
    BY <1>2, <2>1, KeepsAlone DEF Par!LoadReads, Par!history
<1>3. ASSUME NEW t \in Par!Threads, Par!LoadSets(t) PROVE AloneInv'
  <2>1. job[t].i \in Par!Params /\ InFile(t)
    BY <1>3 DEF TurnInv, Par!LoadSets, Par!At, InFile
  <2>2. board' = board /\ sem' = sem /\ crossed' = crossed
    BY <1>3 DEF Par!LoadSets
  <2> QED
    BY <1>3, <2>1, <2>2, LoadSetsGoes, KeepsAlone
<1>4. ASSUME NEW t \in Par!Threads, Par!LoadEnds(t) PROVE AloneInv'
  <2>1. board' = board /\ crossed' = crossed /\ Par!Leaves(t) /\ InFile(t)
    BY <1>4 DEF Par!LoadEnds, Par!history, Par!At, InFile
  <2>2. Goes(t, "idle", "none", 1) \/ Goes(t, "save", "acquire", 1)
    BY <1>4, FinishedGoes, Zenon DEF Par!LoadEnds
  <2> QED
    BY <2>1, <2>2, LeavesAlone
<1>5. ASSUME NEW t \in Par!Threads, Par!SaveBegins(t) PROVE AloneInv'
  BY <1>5, SaveBeginsGoes, EntersAlone DEF Par!SaveBegins
<1>6. ASSUME NEW t \in Par!Threads, Par!SaveWrites(t) PROVE AloneInv'
  <2>1. Goes(t, job[t].op, "verify", job[t].i) /\ InFile(t)
    BY <1>6, StepGoes DEF Par!SaveWrites, JobSteps, InFile, Par!At
  <2> QED
    BY <1>6, <2>1, KeepsAlone DEF Par!SaveWrites, Par!history
<1>7. ASSUME NEW t \in Par!Threads, Par!SaveVerifies(t) PROVE AloneInv'
  <2>1. job[t].i \in Par!Params /\ InFile(t)
    BY <1>7 DEF TurnInv, Par!SaveVerifies, Par!At, InFile
  <2>2. board' = board /\ sem' = sem /\ crossed' = crossed
    BY <1>7 DEF Par!SaveVerifies, Par!history
  <2> QED
    BY <1>7, <2>1, <2>2, SaveVerifiesGoes, KeepsAlone
<1>8. ASSUME NEW t \in Par!Threads, Par!SaveEnds(t) PROVE AloneInv'
  <2>1. board' = board /\ crossed' = crossed /\ Par!Leaves(t) /\ InFile(t)
    BY <1>8 DEF Par!SaveEnds, Par!history, Par!At, InFile
  <2>2. Goes(t, "idle", "none", 1)
    BY <1>8, FinishedGoes, Zenon DEF Par!SaveEnds
  <2> QED
    BY <2>1, <2>2, LeavesAlone
<1>9. CASE Par!Looks
  <2>1. PICK op \in {"load", "save"} : Goes("init", op, "acquire", job["init"].i)
    BY <1>9, LooksGoes
  <2>2. "init" \in Par!Threads /\ board' = board /\ sem' = sem /\ crossed' = crossed
    BY <1>9 DEF Par!Looks, Par!Threads, Par!history
  <2> QED
    BY <2>1, <2>2, KeepsAlone
<1>10. CASE Par!Set
  BY <1>10 DEF Par!Set, AloneInv, InFile
<1>11. ASSUME NEW t \in Par!Threads, NEW op \in {"load", "save"}, Par!Request(t, op) PROVE AloneInv'
  <2>1. Goes(t, op, "acquire", 1)
    BY <1>11, RequestGoes
  <2>2. board' = board /\ sem' = sem /\ crossed' = crossed
    BY <1>11 DEF Par!Request, Par!history
  <2> QED
    BY <2>1, <2>2, KeepsAlone
<1>12. CASE Par!PowerFails
  <2>1. job' = Par!Starting(board)
    BY <1>12 DEF Par!PowerFails
  <2>2. \A t \in Par!Threads : job'[t].step \in {"none", "acquire"}
    BY <2>1, StartingIs, IdleIs
  <2> QED
    BY <2>2 DEF AloneInv, InFile
<1> QED
  BY <1>1, <1>2, <1>3, <1>4, <1>5, <1>6, <1>7, <1>8, <1>9, <1>10, <1>11, <1>12, Zenon
  DEF Par!Next, Par!JobStep, Par!Threads

(* Only who is in the file has something to say about it.                  *)
LEMMA FileFree ==
  ASSUME NEW t \in Par!Threads, panic' = FALSE,
         \A o \in Par!Threads \ {t} : ~InFile(o) /\ job'[o] = job[o],
         job'[t].step \in {"read", "write"} => position' = job'[t].i,
         job'[t].step \in {"set", "verify"} => position' = job'[t].i + 1,
         job'[t].step = "verify" => ee'[job'[t].i] = eeprombuf'
  PROVE  FileInv'
BY DEF FileInv, InFile

(* A step that leaves the file as it is keeps what is so of the others.    *)
LEMMA FileKept ==
  ASSUME FileInv, NEW t \in Par!Threads, board' = board, crossed' = crossed, panic' = panic,
         position' = position, ee' = ee, eeprombuf' = eeprombuf,
         \A o \in Par!Threads \ {t} : job'[o] = job[o],
         job'[t].step \notin {"read", "write", "set", "verify"}
  PROVE  FileInv'
BY DEF FileInv

(* Every step keeps the position in step with who is in the file, and      *)
(* what it has written unchanged until it has verified it.                 *)
LEMMA FileStep ==
  ASSUME ParamTypes, TurnInv, AloneInv, FileInv, Par!Next
  PROVE  FileInv'
<1>0. /\ board \in {"bnap", "mpiovd"} /\ board' = board /\ position \in Nat
      /\ Len(Registry) \in Nat /\ Par!Params = 1 .. Len(Registry)
  BY DataStep, RegistryFacts, Zenon DEF ParamTypes
<1>e. ASSUME NEW t \in Par!Threads, Par!Enters(t), NEW op, NEW step \in {"read", "write"},
             Goes(t, op, step, 1), position' = 1, panic' = panic
      PROVE  FileInv'
  <2>1. SUFFICES ASSUME board = "bnap" \/ crossed' = FALSE PROVE FileInv'
    BY <1>0 DEF FileInv
  <2>2. /\ crossed = FALSE \/ board = "bnap"
        /\ \A o \in Par!Threads \ {t} : ~InFile(o) /\ job'[o] = job[o]
    BY <1>0, <1>e, <2>1, EntersAlone
  <2>3. panic' = FALSE
    BY <1>e, <2>2 DEF FileInv
  <2>4. job'[t].step = step /\ job'[t].i = 1
    BY <1>e DEF Goes
  <2> QED
    BY <1>e, <2>2, <2>3, <2>4, FileFree
<1>1. ASSUME NEW t \in Par!Threads, Par!LoadBegins(t) PROVE FileInv'
  <2>1. Goes(t, "load", "read", 1)
    BY <1>1, LoadBeginsGoes
  <2> QED
    BY <1>1, <1>e, <2>1 DEF Par!LoadBegins
<1>5. ASSUME NEW t \in Par!Threads, Par!SaveBegins(t) PROVE FileInv'
  <2>1. Goes(t, "save", "write", 1)
    BY <1>5, SaveBeginsGoes
  <2> QED
    BY <1>5, <1>e, <2>1 DEF Par!SaveBegins
(* A step of who is in the file. *)
<1>i. ASSUME NEW t \in Par!Threads, InFile(t), crossed' = crossed, NEW op, NEW step, NEW i,
             Goes(t, op, step, i),
             FileInv /\ (board = "bnap" \/ crossed = FALSE) =>
               /\ panic' = FALSE
               /\ step \in {"read", "write"} => position' = i
               /\ step \in {"set", "verify"} => position' = i + 1
               /\ step = "verify" => ee'[i] = eeprombuf'
      PROVE  FileInv'
  <2>1. SUFFICES ASSUME board = "bnap" \/ crossed = FALSE PROVE FileInv'
    BY <1>0, <1>i DEF FileInv
  <2>2. \A o \in Par!Threads \ {t} : ~InFile(o)
    BY <1>i, <2>1, AloneIs
  <2>3. job'[t].step = step /\ job'[t].i = i /\ \A o \in Par!Threads \ {t} : job'[o] = job[o]
    BY <1>i DEF Goes
  <2>4. /\ panic' = FALSE
        /\ step \in {"read", "write"} => position' = i
        /\ step \in {"set", "verify"} => position' = i + 1
        /\ step = "verify" => ee'[i] = eeprombuf'
    BY <1>i, <2>1
  <2> QED
    BY <2>2, <2>3, <2>4, FileFree
<1>2. ASSUME NEW t \in Par!Threads, Par!LoadReads(t) PROVE FileInv'
  <2>1. Goes(t, job[t].op, "set", job[t].i)
    BY <1>2, StepGoes DEF Par!LoadReads, JobSteps
  <2>2. /\ job[t].step = "read" /\ InFile(t) /\ crossed' = crossed /\ panic' = panic
        /\ position' = position + 1
    BY <1>2 DEF Par!LoadReads, Par!At, InFile, Par!history
  <2>3. FileInv /\ (board = "bnap" \/ crossed = FALSE) => panic = FALSE /\ position = job[t].i
    BY <2>2 DEF FileInv
  <2> QED
    BY <1>i, <2>1, <2>2, <2>3
<1>3. ASSUME NEW t \in Par!Threads, Par!LoadSets(t) PROVE FileInv'
  <2>1. job[t].i \in Par!Params
    BY <1>3 DEF TurnInv, Par!LoadSets, Par!At
  <2>2. PICK step \in {"end", "read"} : Goes(t, "load", step, job[t].i + 1)
    BY <1>3, <2>1, LoadSetsGoes
  <2>3. /\ job[t].step = "set" /\ InFile(t) /\ crossed' = crossed /\ panic' = panic
        /\ position' = position
    BY <1>3 DEF Par!LoadSets, Par!At, InFile, Par!file
  <2>4. FileInv /\ (board = "bnap" \/ crossed = FALSE) => panic = FALSE /\ position = job[t].i + 1
    BY <2>3 DEF FileInv
  <2> QED
    BY <1>i, <2>2, <2>3, <2>4
<1>4. ASSUME NEW t \in Par!Threads, Par!LoadEnds(t) PROVE FileInv'
  <2>1. Goes(t, "idle", "none", 1) \/ Goes(t, "save", "acquire", 1)
    BY <1>4, FinishedGoes, Zenon DEF Par!LoadEnds
  <2>2. /\ crossed' = crossed /\ panic' = panic
        /\ position' = position /\ ee' = ee /\ eeprombuf' = eeprombuf
    BY <1>4 DEF Par!LoadEnds, Par!file, Par!history
  <2>3. /\ job'[t].step \notin {"read", "write", "set", "verify"}
        /\ \A o \in Par!Threads \ {t} : job'[o] = job[o]
    BY <2>1 DEF Goes
  <2> QED
    BY <1>0, <2>2, <2>3, FileKept
<1>6. ASSUME NEW t \in Par!Threads, Par!SaveWrites(t) PROVE FileInv'
  <2>1. Goes(t, job[t].op, "verify", job[t].i)
    BY <1>6, StepGoes DEF Par!SaveWrites, JobSteps
  <2>2. /\ job[t].step = "write" /\ InFile(t) /\ crossed' = crossed /\ panic' = panic
        /\ position' = position + 1 /\ eeprombuf' = Par!Record(t)
        /\ ee' = [i \in Par!Params |-> IF i = position THEN Par!Record(t) ELSE ee[i]]
    BY <1>6 DEF Par!SaveWrites, Par!At, InFile, Par!history
  <2>3. job[t].i \in Par!Params
    BY <2>2 DEF TurnInv
  <2>4. FileInv /\ (board = "bnap" \/ crossed = FALSE) => panic = FALSE /\ position = job[t].i
    BY <2>2 DEF FileInv
  <2>5. position = job[t].i => ee'[job[t].i] = eeprombuf'
    BY <2>2, <2>3
  <2> QED
    BY <1>i, <2>1, <2>2, <2>4, <2>5
<1>7. ASSUME NEW t \in Par!Threads, Par!SaveVerifies(t) PROVE FileInv'
  <2>1. job[t].i \in Par!Params
    BY <1>7 DEF TurnInv, Par!SaveVerifies, Par!At
  <2>2. PICK step \in {"end", "write"} : Goes(t, "save", step, job[t].i + 1)
    BY <1>7, <2>1, SaveVerifiesGoes
  <2>3. /\ job[t].step = "verify" /\ InFile(t) /\ crossed' = crossed
        /\ position' = position
    BY <1>7 DEF Par!SaveVerifies, Par!At, InFile, Par!file, Par!history
  <2>4. FileInv /\ (board = "bnap" \/ crossed = FALSE) => ee[job[t].i] = eeprombuf /\ position = job[t].i + 1
    BY <2>3 DEF FileInv
  <2>5. ee[job[t].i] = eeprombuf /\ position = job[t].i + 1 => Par!Written = eeprombuf
    BY <1>0, <2>1 DEF Par!Written
  <2>6. Par!Written = eeprombuf => panic' = FALSE
    BY <1>7, Zenon DEF Par!SaveVerifies
  <2>7. FileInv /\ (board = "bnap" \/ crossed = FALSE) => panic' = FALSE /\ position = job[t].i + 1
    BY <2>4, <2>5, <2>6, Zenon
  <2> QED
    BY <1>i, <2>2, <2>3, <2>7
<1>8. ASSUME NEW t \in Par!Threads, Par!SaveEnds(t) PROVE FileInv'
  <2>1. Goes(t, "idle", "none", 1)
    BY <1>8, FinishedGoes, Zenon DEF Par!SaveEnds
  <2>2. /\ crossed' = crossed /\ panic' = panic
        /\ position' = position /\ ee' = ee /\ eeprombuf' = eeprombuf
    BY <1>8 DEF Par!SaveEnds, Par!file, Par!history
  <2>3. /\ job'[t].step \notin {"read", "write", "set", "verify"}
        /\ \A o \in Par!Threads \ {t} : job'[o] = job[o]
    BY <2>1 DEF Goes
  <2> QED
    BY <1>0, <2>2, <2>3, FileKept
<1>9. CASE Par!Looks
  <2>1. PICK op \in {"load", "save"} : Goes("init", op, "acquire", job["init"].i)
    BY <1>9, LooksGoes
  <2>2. job["init"].op = "look" /\ ready \in BOOLEAN /\ "init" \in Par!Threads
    BY <1>9, LooksGoes, Zenon DEF ParamTypes, Par!Threads
  <2>3. \A o \in Par!Threads \ {"init"} : job[o].step = "none"
    BY <2>2 DEF TurnInv, Steps
  <2>4. \A o \in Par!Threads \ {"init"} : ~InFile(o) /\ job'[o] = job[o]
    BY <2>1, <2>3 DEF InFile, Goes
  <2>5. job'["init"].step = "acquire"
    BY <2>1 DEF Goes
  <2>6. panic' = panic /\ crossed' = crossed
    BY <1>9 DEF Par!Looks, Par!history
  <2>7. SUFFICES ASSUME board = "bnap" \/ crossed = FALSE PROVE FileInv'
    BY <1>0, <2>6 DEF FileInv
  <2>8. panic' = FALSE
    BY <2>6, <2>7 DEF FileInv
  <2> QED
    BY <2>2, <2>4, <2>5, <2>8, FileFree
<1>10. CASE Par!Set
  BY <1>0, <1>10 DEF Par!Set, Par!file, FileInv
<1>11. ASSUME NEW t \in Par!Threads, NEW op \in {"load", "save"}, Par!Request(t, op) PROVE FileInv'
  <2>1. /\ job'[t].step \notin {"read", "write", "set", "verify"}
        /\ \A o \in Par!Threads \ {t} : job'[o] = job[o]
    BY <1>11, RequestGoes DEF Goes
  <2>2. /\ crossed' = crossed /\ panic' = panic
        /\ position' = position /\ ee' = ee /\ eeprombuf' = eeprombuf
    BY <1>11 DEF Par!Request, Par!file, Par!history
  <2> QED
    BY <1>0, <2>1, <2>2, FileKept
<1>12. CASE Par!PowerFails
  <2>1. job' = Par!Starting(board) /\ panic' = FALSE
    BY <1>12 DEF Par!PowerFails
  <2>2. \A t \in Par!Threads : job'[t].step \in {"none", "acquire"}
    BY <2>1, StartingIs, IdleIs
  <2> QED
    BY <2>1, <2>2 DEF FileInv
<1> QED
  BY <1>1, <1>2, <1>3, <1>4, <1>5, <1>6, <1>7, <1>8, <1>9, <1>10, <1>11, <1>12, Zenon
  DEF Par!Next, Par!JobStep, Par!Threads

Ours == board = "bnap" /\ moved = FALSE

AllAllowed == \A i \in Par!Params : params_ram[i] \in Par!Allowed(i)

(* No other thread has a job while the boot loads.                         *)
LEMMA OthersAfterBoot ==
  ASSUME ParamTypes, TurnInv, RangeInv, NEW t \in Par!Threads, job[t].op # "idle",
         t # "init" \/ job[t].op # "load", Ours
  PROVE  AllAllowed /\ job["init"].op # "load"
<1>1. job["init"].op # "load"
  BY DEF TurnInv
<1> QED
  BY <1>1 DEF RangeInv, Ours, AllAllowed, Loaded

(* A step that sets no parameter and writes no record, of a job that the   *)
(* boot does not load with.                                                *)
LEMMA RangeKept ==
  ASSUME RangeInv, board' = board, moved' = moved, params_ram' = params_ram,
         ee' = ee,
         Ours => /\ AllAllowed \/ (\A i \in Par!Params : Loaded(i)' => Loaded(i))
                 /\ ~(job'["init"].op = "load" /\ job'["init"].step = "set")
                    \/ (job'["init"] = job["init"] /\ eeprombuf' = eeprombuf)
  PROVE  RangeInv'
<1>1. /\ board' = "mpiovd" => \A i \in Par!Params : params_ram'[i] \in Par!Allowed(i)
      /\ \A i \in Par!Params : params_ram'[i] \in Par!Allowed(i) \cup {0}
  BY DEF RangeInv
<1>2. ASSUME Ours
      PROVE  /\ \A i \in Par!Params : Own(i, ee'[i])
             /\ \A i \in Par!Params : ee'[i].value \in Par!Allowed(i) \cup {MaxValue}
             /\ \A i \in Par!Params : (job'["init"].op = "load" => i < job'["init"].i /\ job'["init"].step # "acquire") => params_ram'[i] \in Par!Allowed(i)
             /\ job'["init"].op = "load" /\ job'["init"].step = "set" => Own(job'["init"].i, eeprombuf')
  <2>1. /\ \A i \in Par!Params : Own(i, ee'[i])
        /\ \A i \in Par!Params : ee'[i].value \in Par!Allowed(i) \cup {MaxValue}
    BY <1>2 DEF RangeInv, Ours, Own
  <2>2. \A i \in Par!Params : (job'["init"].op = "load" => i < job'["init"].i /\ job'["init"].step # "acquire") => params_ram'[i] \in Par!Allowed(i)
    BY <1>2 DEF RangeInv, Ours, AllAllowed, Loaded
  <2>3. job'["init"].op = "load" /\ job'["init"].step = "set" => Own(job'["init"].i, eeprombuf')
    BY <1>2 DEF RangeInv, Ours, Own
  <2> QED
    BY <2>1, <2>2, <2>3
<1> QED
  BY <1>1, <1>2 DEF RangeInv, Ours, Loaded, Own, Par!Allowed

(* Setting takes no parameter out of its range, and brings it there from   *)
(* a value a sound file holds.                                             *)
LEMMA SetInRange ==
  ASSUME ParamTypes, RangeInv, board' = board, NEW i \in Par!Params, NEW v \in Par!Values, Par!SetParam(i, v)
  PROVE  /\ board' = "mpiovd" => \A j \in Par!Params : params_ram'[j] \in Par!Allowed(j)
         /\ \A j \in Par!Params : params_ram'[j] \in Par!Allowed(j) \cup {0}
         /\ \A j \in Par!Params : params_ram[j] \in Par!Allowed(j) => params_ram'[j] \in Par!Allowed(j)
         /\ v \in Par!Allowed(i) \cup {MaxValue} => params_ram'[i] \in Par!Allowed(i)
<1>1. /\ params_ram'[i] = Par!Checked(i, v)
      /\ \A j \in Par!Params \ {i} : params_ram'[j] = params_ram[j]
  BY SetIs
<1>2. /\ board = "mpiovd" => \A j \in Par!Params : params_ram[j] \in Par!Allowed(j)
      /\ \A j \in Par!Params : params_ram[j] \in Par!Allowed(j) \cup {0}
  BY DEF RangeInv
<1> DEFINE w == Par!Checked(i, v)
<1>3. /\ w \in Par!Allowed(i) \/ (board = "bnap" /\ w = v /\ w = params_ram[i])
      /\ params_ram[i] \in Par!Allowed(i) => w \in Par!Allowed(i)
      /\ params_ram[i] \in Par!Allowed(i) \cup {0} => w \in Par!Allowed(i) \cup {0}
      /\ params_ram[i] \in Par!Allowed(i) \cup {0} /\ v \in Par!Allowed(i) \cup {MaxValue} => w \in Par!Allowed(i)
  BY CheckedIs
<1> HIDE DEF w
<1>4. params_ram'[i] = w
  BY <1>1 DEF w
<1> QED
  BY <1>1, <1>2, <1>3, <1>4

(* The boot is a thread.                                                   *)
LEMMA InitThread == "init" \in Par!Threads
BY DEF Par!Threads

(* Every step keeps the parameters loaded so far in their ranges, and the  *)
(* file of this firmware fit to load.                                      *)
LEMMA RangeStep ==
  ASSUME ParamTypes, TurnInv, AloneInv, FileInv, RangeInv, Par!Next
  PROVE  RangeInv'
<1>0. /\ board \in {"bnap", "mpiovd"} /\ board' = board /\ "init" \in Par!Threads
  BY DataStep, InitThread, Zenon DEF ParamTypes
(* Another thread's step, and that of the boot where it does not load.     *)
<1>o. ASSUME NEW t \in Par!Threads, job[t].op # "idle", NEW op, NEW step, NEW i, Goes(t, op, step, i),
             t # "init" \/ (job[t].op # "load" /\ op # "load"),
             moved' = moved, params_ram' = params_ram, ee' = ee
      PROVE  RangeInv'
  <2>1. ASSUME Ours PROVE AllAllowed /\ job["init"].op # "load"
    BY <1>o, <2>1, OthersAfterBoot
  <2>2. ASSUME Ours PROVE job'["init"].op # "load"
    BY <1>0, <1>o, <2>1, <2>2 DEF Goes
  <2> QED
    BY <1>0, <1>o, <2>1, <2>2, RangeKept
<1>1. ASSUME NEW t \in Par!Threads, Par!LoadBegins(t) PROVE RangeInv'
  <2>1. job[t].op = "load" /\ Goes(t, "load", "read", 1)
    BY <1>1, LoadBeginsGoes
  <2>2. moved' = moved /\ params_ram' = params_ram /\ ee' = ee
    BY <1>1 DEF Par!LoadBegins
  <2>3. CASE t # "init"
    BY <1>o, <2>1, <2>2, <2>3
  <2>4. CASE t = "init"
    <3>1. job'["init"].op = "load" /\ job'["init"].step = "read" /\ job'["init"].i = 1
      BY <2>1, <2>4 DEF Goes
    <3>2. \A i \in Par!Params : ~(i < 1)
      BY RegistryFacts
    <3>3. \A i \in Par!Params : Loaded(i)' => Loaded(i)
      BY <3>1, <3>2 DEF Loaded
    <3> QED
      BY <1>0, <2>2, <3>1, <3>3, RangeKept
  <2> QED
    BY <2>3, <2>4
<1>2. ASSUME NEW t \in Par!Threads, Par!LoadReads(t) PROVE RangeInv'
  <2>1. job[t].op = "load" /\ job[t].step = "read" /\ Goes(t, "load", "set", job[t].i)
    BY <1>2, StepGoes DEF Par!LoadReads, Par!At, JobSteps
  <2>2. moved' = moved /\ params_ram' = params_ram /\ ee' = ee /\ eeprombuf' = Par!Here
    BY <1>2 DEF Par!LoadReads, Par!history
  <2>3. CASE t # "init"
    BY <1>o, <2>1, <2>2, <2>3
  <2>4. CASE t = "init"
    <3>1. job'["init"].op = "load" /\ job'["init"].step = "set" /\ job'["init"].i = job["init"].i
      BY <2>1, <2>4 DEF Goes
    <3>2. \A i \in Par!Params : Loaded(i)' => Loaded(i)
      BY <2>1, <2>4, <3>1 DEF Loaded
    <3>3. job["init"].i \in Par!Params
      BY <2>1, <2>4 DEF TurnInv
    <3>4. ASSUME Ours PROVE eeprombuf' = ee[job["init"].i] /\ Own(job["init"].i, ee[job["init"].i])
      <4>1. position = job["init"].i
        BY <2>1, <2>4, <3>4 DEF FileInv, Ours
      <4> QED
        BY <2>2, <3>3, <3>4, <4>1, HereIs DEF RangeInv, Ours
    <3>5. /\ board' = "mpiovd" => \A i \in Par!Params : params_ram'[i] \in Par!Allowed(i)
          /\ \A i \in Par!Params : params_ram'[i] \in Par!Allowed(i) \cup {0}
      BY <1>0, <2>2 DEF RangeInv
    <3>6. ASSUME board' = "bnap", moved' = FALSE
          PROVE  /\ \A i \in Par!Params : Own(i, ee[i])
                 /\ \A i \in Par!Params : ee[i].value \in Par!Allowed(i) \cup {MaxValue}
                 /\ \A i \in Par!Params : Loaded(i)' => params_ram[i] \in Par!Allowed(i)
                 /\ eeprombuf' = ee[job["init"].i]
      BY <1>0, <2>2, <3>2, <3>4, <3>6 DEF RangeInv, Ours
    <3> QED
      BY <2>2, <3>1, <3>3, <3>5, <3>6 DEF RangeInv, Own
  <2> QED
    BY <2>3, <2>4
<1>3. ASSUME NEW t \in Par!Threads, Par!LoadSets(t) PROVE RangeInv'
  <2>1. job[t].op = "load" /\ job[t].step = "set" /\ job[t].i \in Par!Params
    BY <1>3 DEF Par!LoadSets, Par!At, TurnInv
  <2>2. PICK step \in {"end", "read"} : Goes(t, "load", step, job[t].i + 1)
    BY <1>3, <2>1, LoadSetsGoes
  <2>3. /\ moved' = moved /\ ee' = ee /\ eeprombuf' = eeprombuf
        /\ Par!SetParam(job[t].i, Par!LoadedValue(t)) /\ Par!LoadedValue(t) \in Par!Values
    BY <1>3, <2>1, LoadedIs DEF Par!LoadSets, Par!file
  <2> DEFINE k == job[t].i
             v == Par!LoadedValue(t)
  <2>4. /\ board' = "mpiovd" => \A j \in Par!Params : params_ram'[j] \in Par!Allowed(j)
        /\ \A j \in Par!Params : params_ram'[j] \in Par!Allowed(j) \cup {0}
        /\ \A j \in Par!Params : params_ram[j] \in Par!Allowed(j) => params_ram'[j] \in Par!Allowed(j)
        /\ v \in Par!Allowed(k) \cup {MaxValue} => params_ram'[k] \in Par!Allowed(k)
    BY <1>0, <2>1, <2>3, SetInRange
  <2>5. ASSUME Ours
        PROVE  /\ \A j \in Par!Params : Loaded(j)' => params_ram'[j] \in Par!Allowed(j)
               /\ job'["init"].op = "load" => job'["init"].step # "set"
    <3>1. CASE t # "init"
      <4>1. AllAllowed /\ job["init"].op # "load"
        BY <2>1, <2>5, <3>1, OthersAfterBoot
      <4>2. job'["init"] = job["init"]
        BY <1>0, <2>2, <3>1 DEF Goes
      <4> QED
        BY <2>4, <4>1, <4>2 DEF AllAllowed
    <3>2. CASE t = "init"
      <4>1. Own(k, eeprombuf)
        BY <2>1, <2>5, <3>2 DEF RangeInv, Ours
      <4>2. v \in Par!Allowed(k) \cup {MaxValue}
        <5>1. CASE Par!Known
          <6>1. eeprombuf.name # "blank"
            BY <5>1, RegistryFacts, Zenon DEF Par!Known
          <6> QED
            BY <4>1, <5>1, <6>1 DEF Own, Par!LoadedValue
        <5>2. CASE ~Par!Known
          BY <2>1, <2>5, <5>2, AllowedIs DEF Par!LoadedValue, Ours
        <5> QED
          BY <5>1, <5>2
      <4>3. params_ram'[k] \in Par!Allowed(k)
        BY <2>4, <4>2
      <4>4. job'["init"].op = "load" /\ job'["init"].step = step /\ job'["init"].i = k + 1
        BY <2>2, <3>2 DEF Goes
      <4>5. ASSUME NEW j \in Par!Params, Loaded(j)' PROVE params_ram'[j] \in Par!Allowed(j)
        <5>1. j < k + 1
          BY <4>4, <4>5 DEF Loaded
        <5>2. j = k \/ j < k
          BY <2>1, <5>1, RegistryFacts
        <5>3. j < k => params_ram[j] \in Par!Allowed(j)
          BY <2>1, <2>5, <3>2 DEF Loaded, RangeInv, Ours
        <5> QED
          BY <2>4, <4>3, <5>2, <5>3
      <4> QED
        BY <4>4, <4>5
    <3> QED
      BY <3>1, <3>2
  <2>6. ASSUME Ours
        PROVE  /\ \A i \in Par!Params : Own(i, ee[i])
               /\ \A i \in Par!Params : ee[i].value \in Par!Allowed(i) \cup {MaxValue}
    BY <2>6 DEF RangeInv, Ours
  <2> HIDE DEF k, v
  <2> QED
    BY <1>0, <2>3, <2>4, <2>5, <2>6 DEF RangeInv, Ours, Own
<1>4. ASSUME NEW t \in Par!Threads, Par!LoadEnds(t) PROVE RangeInv'
  <2>1. /\ moved' = moved /\ params_ram' = params_ram /\ ee' = ee
        /\ job[t].op = "load" /\ job[t].step = "end"
    BY <1>4 DEF Par!LoadEnds, Par!At, Par!file, Par!history
  <2>2. Goes(t, "idle", "none", 1) \/ Goes(t, "save", "acquire", 1)
    BY <1>4, FinishedGoes, Zenon DEF Par!LoadEnds
  <2>3. CASE t # "init"
    BY <1>o, <2>1, <2>2, <2>3
  <2>4. CASE t = "init"
    <3>1. job["init"].i = Len(Registry) + 1
      BY <2>1, <2>4 DEF TurnInv
    <3>2. \A i \in Par!Params : Loaded(i)
      BY <2>1, <2>4, <3>1, RegistryFacts DEF Loaded
    <3>3. job'["init"].op # "load"
      BY <2>2, <2>4 DEF Goes
    <3> QED
      BY <1>0, <2>1, <3>2, <3>3, RangeKept
  <2> QED
    BY <2>3, <2>4
<1>5. ASSUME NEW t \in Par!Threads, Par!SaveBegins(t) PROVE RangeInv'
  <2>1. job[t].op = "save" /\ Goes(t, "save", "write", 1)
    BY <1>5, SaveBeginsGoes
  <2>2. moved' = moved /\ params_ram' = params_ram /\ ee' = ee
    BY <1>5 DEF Par!SaveBegins
  <2> QED
    BY <1>o, <2>1, <2>2
<1>6. ASSUME NEW t \in Par!Threads, Par!SaveWrites(t) PROVE RangeInv'
  <2>1. job[t].op = "save" /\ job[t].step = "write" /\ job[t].i \in Par!Params
    BY <1>6 DEF Par!SaveWrites, Par!At, TurnInv
  <2>2. Goes(t, "save", "verify", job[t].i)
    BY <1>6, <2>1, StepGoes DEF Par!SaveWrites, JobSteps
  <2>3. /\ moved' = moved /\ params_ram' = params_ram
        /\ ee' = [i \in Par!Params |-> IF i = position THEN Par!Record(t) ELSE ee[i]]
    BY <1>6 DEF Par!SaveWrites, Par!history
  <2>4. ASSUME Ours
        PROVE  /\ AllAllowed /\ job'["init"].op # "load"
               /\ \A i \in Par!Params : Own(i, ee'[i]) /\ ee'[i].value \in Par!Allowed(i) \cup {MaxValue}
    <3>1. AllAllowed /\ job["init"].op # "load"
      BY <2>1, <2>4, OthersAfterBoot
    <3>2. job'["init"].op # "load"
      BY <1>0, <2>2, <3>1 DEF Goes
    <3>3. position = job[t].i
      BY <2>1, <2>4 DEF FileInv, Ours
    <3>4. /\ Par!Record(t).name = Registry[job[t].i].name
          /\ Par!Record(t).value \in Par!Allowed(job[t].i)
      BY <2>1, <3>1, RecordIs DEF AllAllowed
    <3>5. \A i \in Par!Params : Own(i, ee[i]) /\ ee[i].value \in Par!Allowed(i) \cup {MaxValue}
      BY <2>4 DEF RangeInv, Ours
    <3> QED
      BY <2>3, <3>1, <3>2, <3>3, <3>4, <3>5 DEF Own
  <2>5. /\ board' = "mpiovd" => \A i \in Par!Params : params_ram'[i] \in Par!Allowed(i)
        /\ \A i \in Par!Params : params_ram'[i] \in Par!Allowed(i) \cup {0}
    BY <1>0, <2>3 DEF RangeInv
  <2> QED
    BY <1>0, <2>3, <2>4, <2>5 DEF RangeInv, Ours, AllAllowed, Own
<1>7. ASSUME NEW t \in Par!Threads, Par!SaveVerifies(t) PROVE RangeInv'
  <2>1. job[t].op = "save" /\ job[t].i \in Par!Params
    BY <1>7 DEF Par!SaveVerifies, Par!At, TurnInv
  <2>2. PICK step \in {"end", "write"} : Goes(t, "save", step, job[t].i + 1)
    BY <1>7, <2>1, SaveVerifiesGoes
  <2>3. moved' = moved /\ params_ram' = params_ram /\ ee' = ee
    BY <1>7 DEF Par!SaveVerifies, Par!file, Par!history
  <2> QED
    BY <1>o, <2>1, <2>2, <2>3
<1>8. ASSUME NEW t \in Par!Threads, Par!SaveEnds(t) PROVE RangeInv'
  <2>1. job[t].op = "save"
    BY <1>8 DEF Par!SaveEnds, Par!At
  <2>2. Goes(t, "idle", "none", 1)
    BY <1>8, FinishedGoes, Zenon DEF Par!SaveEnds
  <2>3. moved' = moved /\ params_ram' = params_ram /\ ee' = ee
    BY <1>8 DEF Par!SaveEnds, Par!file, Par!history
  <2> QED
    BY <1>o, <2>1, <2>2, <2>3
<1>9. CASE Par!Looks
  <2>1. job["init"].op = "look"
    BY <1>9, LooksGoes
  <2>2. board = "mpiovd"
    BY <1>0, <2>1 DEF TurnInv
  <2>3. moved' = moved /\ params_ram' = params_ram /\ ee' = ee
    BY <1>9 DEF Par!Looks, Par!history
  <2> QED
    BY <1>0, <2>2, <2>3, RangeKept DEF Ours
<1>10. CASE Par!Set
  <2>1. PICK i \in Par!Params, v \in Par!Values : Par!SetParam(i, v)
    BY <1>10 DEF Par!Set
  <2>2. ready \in BOOLEAN /\ ready
    BY <1>10, Zenon DEF Par!Set, ParamTypes
  <2>3. job["init"].op = "idle"
    BY <2>2 DEF TurnInv
  <2>4. job' = job /\ ee' = ee /\ moved' = moved
    BY <1>10 DEF Par!Set, Par!file
  <2>5. /\ board' = "mpiovd" => \A j \in Par!Params : params_ram'[j] \in Par!Allowed(j)
        /\ \A j \in Par!Params : params_ram'[j] \in Par!Allowed(j) \cup {0}
        /\ \A j \in Par!Params : params_ram[j] \in Par!Allowed(j) => params_ram'[j] \in Par!Allowed(j)
    BY <1>0, <2>1, SetInRange
  <2>6. ASSUME Ours
        PROVE  /\ AllAllowed
               /\ \A j \in Par!Params : Own(j, ee[j]) /\ ee[j].value \in Par!Allowed(j) \cup {MaxValue}
    BY <2>3, <2>6 DEF RangeInv, Ours, AllAllowed, Loaded
  <2> QED
    BY <1>0, <2>3, <2>4, <2>5, <2>6 DEF RangeInv, Ours, AllAllowed, Own
<1>11. ASSUME NEW t \in Par!Threads, t # "init", NEW op \in {"load", "save"}, Par!Request(t, op) PROVE RangeInv'
  <2>1. ready = TRUE /\ Goes(t, op, "acquire", 1)
    BY <1>11, RequestGoes
  <2>2. moved' = moved /\ params_ram' = params_ram /\ ee' = ee
    BY <1>11 DEF Par!Request, Par!file, Par!history
  <2>3. job'["init"] = job["init"] /\ job["init"].op = "idle"
    BY <1>0, <1>11, <2>1 DEF Goes, TurnInv
  <2>4. \A i \in Par!Params : Loaded(i)' => Loaded(i)
    BY <2>3 DEF Loaded
  <2> QED
    BY <1>0, <2>2, <2>3, <2>4, RangeKept
<1>12. CASE Par!PowerFails
  <2>1. /\ job' = Par!Starting(board) /\ moved' = moved /\ params_ram' = Par!InitialRam(board)
    BY <1>12 DEF Par!PowerFails
  <2>2. /\ board' = "mpiovd" => \A i \in Par!Params : params_ram'[i] \in Par!Allowed(i)
        /\ \A i \in Par!Params : params_ram'[i] \in Par!Allowed(i) \cup {0}
    BY <1>0, <2>1, AllowedIs DEF Par!InitialRam
  <2>3. board = "bnap" => job'["init"].op = "load" /\ job'["init"].step = "acquire"
    BY <2>1, StartingIs
  <2>4. PICK r \in {Par!Here} \cup UNION {Par!Torn(Par!Here, Par!Record(t)) : t \in {u \in Par!Threads : Par!At(u, "save", "write")}} :
          ee' = [i \in Par!Params |-> IF i = position /\ \E t \in Par!Threads : Par!At(t, "save", "write") THEN r ELSE ee[i]]
    BY <1>12, Zenon DEF Par!PowerFails
  <2>5. ASSUME Ours, position \in Par!Params
        PROVE  Own(position, r) /\ r.value \in Par!Allowed(position) \cup {MaxValue}
    <3>1. /\ Own(position, Par!Here) /\ Par!Here.value \in Par!Allowed(position) \cup {MaxValue}
      BY <2>5, HereIs DEF RangeInv, Ours
    <3>2. ASSUME NEW t \in Par!Threads, Par!At(t, "save", "write"), r \in Par!Torn(Par!Here, Par!Record(t))
          PROVE  Own(position, r) /\ r.value \in Par!Allowed(position) \cup {MaxValue}
      <4>1. job[t].op = "save" /\ job[t].step = "write"
        BY <3>2 DEF Par!At
      <4>2. position = job[t].i
        BY <2>5, <4>1 DEF FileInv, Ours
      <4>3. AllAllowed
        BY <2>5, <4>1, OthersAfterBoot
      <4>4. Par!Record(t).name = Registry[position].name /\ Par!Record(t).value \in Par!Allowed(position)
        BY <2>5, <4>2, <4>3, RecordIs DEF AllAllowed
      <4>5. \/ r = Par!Here \/ r = Par!Record(t)
            \/ r = [name |-> Par!Record(t).name, value |-> Par!Here.value]
        BY <3>2, Zenon DEF Par!Torn
      <4> QED
        BY <3>1, <4>4, <4>5 DEF Own
    <3>3. r = Par!Here \/ \E t \in {u \in Par!Threads : Par!At(u, "save", "write")} : r \in Par!Torn(Par!Here, Par!Record(t))
      BY <2>4, Zenon
    <3> QED
      BY <3>1, <3>2, <3>3, Zenon
  <2>6. ASSUME Ours PROVE \A i \in Par!Params : Own(i, ee'[i]) /\ ee'[i].value \in Par!Allowed(i) \cup {MaxValue}
    <3>1. \A i \in Par!Params : Own(i, ee[i]) /\ ee[i].value \in Par!Allowed(i) \cup {MaxValue}
      BY <2>6 DEF RangeInv, Ours
    <3>2. \A i \in Par!Params : ee'[i] = ee[i] \/ (i = position /\ ee'[i] = r)
      BY <2>4
    <3> QED
      BY <2>5, <2>6, <3>1, <3>2
  <2> QED
    BY <1>0, <2>1, <2>2, <2>3, <2>6 DEF RangeInv, Ours, Own, Loaded
<1>13. CASE Par!Request("command", "load") \/ Par!Request("command", "save") \/ Par!Request("shell", "save")
  <2>1. "command" \in Par!Threads /\ "shell" \in Par!Threads /\ "command" # "init" /\ "shell" # "init"
    BY DEF Par!Threads
  <2> QED
    BY <1>11, <1>13, <2>1, Zenon
<1> QED
  BY <1>1, <1>2, <1>3, <1>4, <1>5, <1>6, <1>7, <1>8, <1>9, <1>10, <1>12, <1>13, Zenon
  DEF Par!Next, Par!JobStep

(* A file that this firmware saved holds every parameter under its name,   *)
(* with an allowed value.                                                  *)
LEMMA SavedIs ==
  ASSUME NEW f, f \in Par!Saved(Par!OurNames), Par!Sound(f)
  PROVE  /\ f \in [Par!Params -> Par!Records]
         /\ \A i \in Par!Params : f[i].name = Registry[i].name /\ f[i].value \in Par!Allowed(i)
<1>1. f \in [Par!Params -> Par!Records] /\ \A i \in Par!Params : f[i].name = Registry[i].name
  BY DEF Par!Saved, Par!OurNames
<1>2. ASSUME NEW i \in Par!Params PROVE f[i].value \in Par!Allowed(i)
  <2> DEFINE j == CHOOSE j \in Par!Params : Registry[j].name = f[i].name
  <2>1. j \in Par!Params /\ Registry[j].name = f[i].name
    BY <1>1, Zenon
  <2> HIDE DEF j
  <2>2. j = i
    BY <1>1, <2>1, RegistryFacts
  <2>3. Par!AllowedNamed(f[i].name) = Par!Allowed(j)
    BY <2>1, Zenon DEF Par!AllowedNamed, j
  <2> QED
    BY <2>2, <2>3 DEF Par!Sound
<1> QED
  BY <1>1, <1>2

(* A board that is switched on satisfies the invariant, whatever of the    *)
(* three files it finds.                                                   *)
LEMMA ParamStart == Par!Init => ParamInv
<1> SUFFICES ASSUME Par!Init PROVE ParamInv
  OBVIOUS
<1>0. /\ board \in {"bnap", "mpiovd"} /\ params_ram = Par!InitialRam(board)
      /\ position = 1 /\ eeprombuf = Par!Blank /\ job = Par!Starting(board)
      /\ ready = FALSE /\ panic = FALSE /\ crossed = FALSE
  BY DEF Par!Init
<1>1. \/ ee = [i \in Par!Params |-> Par!Blank] /\ moved = FALSE
      \/ ee \in Par!Saved(Par!OurNames) /\ Par!Sound(ee) /\ moved = FALSE
      \/ ee \in Par!Saved(OldNames) /\ moved = TRUE
  BY Zenon DEF Par!Init
<1>2. /\ ee \in [Par!Params -> Par!Records] /\ moved \in BOOLEAN
  BY <1>1, RecordsAre, SavedIs DEF Par!Saved
<1>3. moved = FALSE => \A i \in Par!Params : Own(i, ee[i]) /\ ee[i].value \in Par!Allowed(i) \cup {MaxValue}
  BY <1>1, SavedIs DEF Own, Par!Blank
<1>4. params_ram \in [Par!Params -> Par!Values]
  BY <1>0, RegistryFacts, AllowedIs DEF Par!InitialRam
<1>5. /\ board = "mpiovd" => \A i \in Par!Params : params_ram[i] \in Par!Allowed(i)
      /\ \A i \in Par!Params : params_ram[i] \in Par!Allowed(i) \cup {0}
  BY <1>0, AllowedIs DEF Par!InitialRam
<1>6. /\ job \in [Par!Threads -> JobType]
      /\ \A t \in Par!Threads \ {"init"} : job[t].op = "idle" /\ job[t].step = "none"
      /\ job["init"].op = (IF board = "bnap" THEN "load" ELSE "look")
      /\ job["init"].step = "acquire"
  BY <1>0, StartingIs, IdleIs
<1>7. ParamTypes
  <2>1. {ready, panic, moved, crossed} \subseteq BOOLEAN
    BY <1>0, <1>2
  <2>2. position \in Nat /\ eeprombuf \in Par!Records
    BY <1>0, RecordsAre
  <2> QED
    BY <1>0, <1>2, <1>4, <1>6, <2>1, <2>2, Zenon DEF ParamTypes
<1>8. TurnInv
  BY <1>0, <1>6 DEF TurnInv, Steps
<1>9. \A t \in Par!Threads : job[t].step \in {"none", "acquire"}
  BY <1>6
<1>10. AloneInv /\ FileInv
  BY <1>0, <1>9 DEF AloneInv, FileInv, InFile
<1>11. RangeInv
  BY <1>0, <1>3, <1>5, <1>6 DEF RangeInv, Loaded
<1> QED
  BY <1>7, <1>8, <1>10, <1>11 DEF ParamInv

(* Every step of the parameters keeps the invariant.                       *)
LEMMA ParamGoes == ParamInv /\ Par!Next => ParamInv'
BY TypesStep, TurnStep, AloneStep, FileStep, RangeStep, Zenon DEF ParamInv

(* So does a step of another unit.                                         *)
LEMMA ParamKept == ParamInv /\ UNCHANGED params => ParamInv'
<1> SUFFICES ASSUME ParamInv, UNCHANGED params PROVE ParamInv'
  OBVIOUS
<1>1. /\ board' = board /\ params_ram' = params_ram /\ ee' = ee /\ position' = position
      /\ eeprombuf' = eeprombuf /\ sem' = sem /\ job' = job /\ ready' = ready /\ panic' = panic
      /\ moved' = moved /\ crossed' = crossed
  BY DEF params
<1>2. ParamTypes'
  BY <1>1, Zenon DEF ParamInv, ParamTypes
<1>3. TurnInv'
  BY <1>1 DEF ParamInv, TurnInv
<1>4. AloneInv'
  BY <1>1 DEF ParamInv, AloneInv, InFile
<1>5. FileInv'
  BY <1>1 DEF ParamInv, FileInv
<1>6. RangeInv'
  BY <1>1 DEF ParamInv, RangeInv, Own, Loaded
<1> QED
  BY <1>2, <1>3, <1>4, <1>5, <1>6 DEF ParamInv

(* The invariant implies that no verification fails and that the           *)
(* parameters are in range.                                                *)
LEMMA ParamShows == ParamInv => Par!NoPanic /\ Par!AlwaysInRange
<1> SUFFICES ASSUME ParamInv PROVE Par!NoPanic /\ Par!AlwaysInRange
  OBVIOUS
<1>0. /\ board \in {"bnap", "mpiovd"} /\ ready \in BOOLEAN /\ panic \in BOOLEAN /\ moved \in BOOLEAN
      /\ crossed \in BOOLEAN
  BY Zenon DEF ParamInv, ParamTypes
<1>1. Par!NoPanic
  BY <1>0, Zenon DEF ParamInv, FileInv, Par!NoPanic, Par!Safe
<1>2. ASSUME ready = TRUE, NEW i \in Par!Params
      PROVE  params_ram[i] \in Par!Allowed(i) \/ (moved = TRUE /\ board = "bnap" /\ params_ram[i] = 0)
  <2>1. job["init"].op = "idle"
    BY <1>2 DEF ParamInv, TurnInv
  <2> QED
    BY <1>0, <1>2, <2>1 DEF ParamInv, RangeInv, Loaded
<1>3. Par!AlwaysInRange
  BY <1>0, <1>2, Zenon DEF Par!AlwaysInRange
<1> QED
  BY <1>1, <1>3

-----------------------------------------------------------------------------
(* The command of the shell. *)

(* The registry as the shell sees it.                                      *)
LEMMA ShellFacts ==
  /\ Cli!Params = 1 .. Len(Registry) /\ Len(Registry) \in Nat /\ Len(Registry) > 0
  /\ MaxValue \in Nat /\ Cli!Values = 0 .. MaxValue
  /\ \A j \in Cli!Params :
       /\ Registry[j].min \in Nat /\ Registry[j].max \in Nat
       /\ Registry[j].min <= Registry[j].max /\ Registry[j].max <= MaxValue
       /\ Registry[j].off \in BOOLEAN
<1>1. Len(Registry) \in Nat /\ Cli!Params = 1 .. Len(Registry)
  BY ShellConstants DEF Cli!ParamShellAssumption, Cli!Params
<1>2. Len(Registry) > 0
  BY RegistryFacts
<1>3. MaxValue \in Nat /\ Cli!Values = 0 .. MaxValue
  BY ShellConstants DEF Cli!ParamShellAssumption, Cli!Values
<1>4. ASSUME NEW j \in Cli!Params
      PROVE  /\ Registry[j].min \in Nat /\ Registry[j].max \in Nat
             /\ Registry[j].min <= Registry[j].max /\ Registry[j].max <= MaxValue
  BY <1>3, ShellConstants DEF Cli!ParamShellAssumption
<1>5. ASSUME NEW j \in Cli!Params PROVE Registry[j].off \in BOOLEAN
  BY ShellConstants, Zenon DEF Cli!ParamShellAssumption
<1> QED
  BY <1>1, <1>2, <1>3, <1>4, <1>5

(* The range is allowed, and so is 0 of a parameter that can be off.       *)
LEMMA ShellAllowed ==
  ASSUME NEW j \in Cli!Params
  PROVE  /\ Cli!Allowed(j) \subseteq Cli!Values
         /\ Registry[j].min .. Registry[j].max \subseteq Cli!Allowed(j)
         /\ Registry[j].off = TRUE => 0 \in Cli!Allowed(j)
BY ShellFacts DEF Cli!Allowed

(* A checker lets only an allowed value pass, and one it changes goes to   *)
(* the end of the range it is beyond.                                      *)
LEMMA ShellChecked ==
  ASSUME NEW j \in Cli!Params, NEW v \in Cli!Values
  PROVE  LET w == Cli!Checked(j, v)
         IN  /\ w \in Cli!Allowed(j)
             /\ w # v => /\ v \notin Registry[j].min .. Registry[j].max
                         /\ w \in {Registry[j].min, Registry[j].max}
<1> DEFINE w == Cli!InRange(j, v)
<1>1. /\ w \in Registry[j].min .. Registry[j].max
      /\ w # v => /\ v \notin Registry[j].min .. Registry[j].max
                  /\ w \in {Registry[j].min, Registry[j].max}
  BY ShellFacts DEF Cli!InRange
<1> HIDE DEF w
<1>2. CASE Cli!Passes(j, v)
  <2>1. Registry[j].off = TRUE /\ v = 0
    BY <1>2, ShellFacts, Zenon DEF Cli!Passes
  <2>2. Cli!Checked(j, v) = v
    BY <1>2, Zenon DEF Cli!Checked
  <2> QED
    BY <2>1, <2>2, ShellAllowed
<1>3. CASE ~Cli!Passes(j, v)
  <2>1. Cli!Checked(j, v) = w
    BY <1>3, Zenon DEF Cli!Checked, w
  <2> QED
    BY <1>1, <2>1, ShellAllowed
<1> QED
  BY <1>2, <1>3

(* What sscanf makes of a number is a value.                               *)
LEMMA ScannedIs ==
  ASSUME NEW text \in Cli!Texts
  PROVE  Cli!Scanned(text) \in Cli!Values
<1>1. text.n \in 0 .. MaxValue
  BY ShellFacts DEF Cli!Texts
<1>2. (MaxValue + 1 - text.n) % (MaxValue + 1) \in 0 .. MaxValue
  BY <1>1, ShellFacts
<1> QED
  BY <1>1, <1>2, ShellFacts DEF Cli!Scanned

(* A command has up to three arguments, one with two a text.               *)
LEMMA CommandIs ==
  ASSUME argv \in Cli!Commands \cup {Cli!None}
  PROVE  /\ argv.argc \in {0, 1, 2, 3}
         /\ argv.argc = 2 => argv.text \in Cli!Texts
BY DEF Cli!Commands, Cli!None

(* A printed line is a line.                                               *)
LEMMA LineIs ==
  ASSUME NEW j \in Cli!Params, ShellTypes
  PROVE  Cli!Line(j) \in Lines
<1>1. cli_ram[j] \in Cli!Values
  BY ShellAllowed DEF ShellTypes
<1>2. Registry[j].min \in Cli!Values /\ Registry[j].max \in Cli!Values
  BY ShellFacts
<1> QED
  BY <1>1, <1>2 DEF Cli!Line, Lines

(* A message adds no value to what was said.                               *)
LEMMA SaysIs ==
  ASSUME said \in Seq(Lines), NEW text \in Said, Cli!Says(text)
  PROVE  /\ said' \in Seq(Lines)
         /\ Cli!PrintsAllowed => Cli!PrintsAllowed'
         /\ said = <<>> => said' = <<Cli!Message(text)>>
<1> DEFINE m == Cli!Message(text)
<1>1. m \in Lines /\ m.line # "value"
  BY DEF Cli!Message, Lines, Said
<1>2. said' = Append(said, m)
  BY DEF Cli!Says
<1> HIDE DEF m
<1>3. /\ said' \in Seq(Lines) /\ Len(said') = Len(said) + 1
      /\ \A k \in 1 .. Len(said) : said'[k] = said[k]
      /\ said'[Len(said) + 1] = m
  BY <1>1, <1>2, AppendProperties
<1>4. said = <<>> => said' = <<m>>
  BY <1>2
<1>5. DOMAIN said = 1 .. Len(said) /\ DOMAIN said' = 1 .. Len(said') /\ Len(said) \in Nat
  BY <1>3
<1>6. Cli!PrintsAllowed => Cli!PrintsAllowed'
  BY <1>1, <1>3, <1>5 DEF Cli!PrintsAllowed
<1> QED
  BY <1>3, <1>4, <1>6 DEF m

(* Whoever sets a parameter leaves all allowed, and the shell takes note.  *)
LEMMA SetToIs ==
  ASSUME ShellTypes, NEW j \in Cli!Params, NEW v \in Cli!Allowed(j), Cli!SetTo(j, v)
  PROVE  /\ cli_ram' \in [Cli!Params -> Int]
         /\ \A k \in Cli!Params : cli_ram'[k] \in Cli!Allowed(k)
         /\ had \subseteq had'
         /\ cli_ram'[j] = v
         /\ cli_i \in Cli!Params /\ cli_ram[cli_i] \in had => cli_ram'[cli_i] \in had'
         /\ j = cli_i => v \in had'
<1>0. \A x \in Cli!Values : x \in Int
  BY ShellFacts
<1>1. \A x \in Cli!Allowed(j) : x \in Int
  BY <1>0, ShellAllowed
<1>2. /\ cli_ram \in [Cli!Params -> Int]
      /\ \A k \in Cli!Params : cli_ram[k] \in Cli!Allowed(k)
  BY Zenon DEF ShellTypes
<1>3. /\ cli_ram' = [cli_ram EXCEPT ![j] = v]
      /\ had' = IF j = cli_i THEN had \cup {v} ELSE had
  BY Zenon DEF Cli!SetTo
<1>4. /\ cli_ram' \in [Cli!Params -> Int] /\ cli_ram'[j] = v
      /\ \A k \in Cli!Params \ {j} : cli_ram'[k] = cli_ram[k]
  BY <1>1, <1>2, <1>3
<1> QED
  BY <1>2, <1>3, <1>4

(* PARAM_SET leaves an allowed value.                                      *)
LEMMA OtherIs ==
  ASSUME ShellTypes, NEW j \in Cli!Params, NEW v \in Cli!Values
  PROVE  (IF Cli!NothingToChange(j, v) THEN v ELSE Cli!Checked(j, v)) \in Cli!Allowed(j)
<1>1. CASE Cli!NothingToChange(j, v)
  <2>1. v = cli_ram[j]
    BY <1>1, Zenon DEF Cli!NothingToChange
  <2>2. cli_ram[j] \in Cli!Allowed(j)
    BY DEF ShellTypes
  <2> QED
    BY <1>1, <2>1, <2>2, Zenon
<1>2. CASE ~Cli!NothingToChange(j, v)
  BY <1>2, ShellChecked
<1> QED
  BY <1>1, <1>2

(* A known name has an index.                                              *)
LEMMA IndexIs ==
  ASSUME ShellTypes, Cli!Known(argv.name), count \in {0, Len(Registry)}
  PROVE  Cli!IndexOf(argv.name) \in Cli!Params /\ Registry[Cli!IndexOf(argv.name)].name = argv.name
<1>1. \E j \in 1 .. count : Registry[j].name = argv.name
  BY Zenon DEF Cli!Known
<1>2. Cli!IndexOf(argv.name) \in 1 .. count /\ Registry[Cli!IndexOf(argv.name)].name = argv.name
  BY <1>1, Zenon DEF Cli!IndexOf
<1>3. 1 .. count \subseteq Cli!Params
  BY ShellFacts
<1> QED
  BY <1>2, <1>3

(* A line more. *)
LEMMA AppendsIs ==
  ASSUME ShellTypes, Cli!PrintsAllowed, NEW j \in Cli!Params, said' = Append(said, Cli!Line(j))
  PROVE  said' \in Seq(Lines) /\ Cli!PrintsAllowed'
<1> DEFINE m == Cli!Line(j)
<1>1. m \in Lines
  BY LineIs
<1>2. m.name = Registry[j].name /\ m.value = cli_ram[j] /\ cli_ram[j] \in Cli!Allowed(j)
  BY DEF Cli!Line, ShellTypes
<1>3. said \in Seq(Lines) /\ said' = Append(said, m)
  BY Zenon DEF ShellTypes
<1> HIDE DEF m
<1>4. /\ said' \in Seq(Lines) /\ Len(said') = Len(said) + 1
      /\ \A k \in 1 .. Len(said) : said'[k] = said[k]
      /\ said'[Len(said) + 1] = m
  BY <1>1, <1>3, AppendProperties
<1>5. DOMAIN said = 1 .. Len(said) /\ DOMAIN said' = 1 .. Len(said') /\ Len(said) \in Nat
  BY <1>3, <1>4
<1>6. Cli!PrintsAllowed'
  BY <1>2, <1>4, <1>5 DEF Cli!PrintsAllowed
<1> QED
  BY <1>4, <1>6

(* Every step of the shell and of PARAM_SET keeps the types, the values    *)
(* in range, and prints only such.                                         *)
LEMMA ShellTypesStep ==
  ASSUME ShellTypes, WordsInv, Cli!PrintsAllowed, Cli!Next
  PROVE  ShellTypes' /\ Cli!PrintsAllowed'
<1> DEFINE Steady == /\ cli_board' \in {"bnap", "mpiovd"}
                     /\ count' \in {0, Len(Registry)}
                     /\ cli_ram' \in [Cli!Params -> Int]
                     /\ \A j \in Cli!Params : cli_ram'[j] \in Cli!Allowed(j)
           Types == /\ Steady
                    /\ argv' \in Cli!Commands \cup {Cli!None}
                    /\ cli_i' \in Nat
                    /\ said' \in Seq(Lines) /\ Cli!PrintsAllowed'
<1> SUFFICES Types
  BY Zenon DEF ShellTypes
<1>0. /\ cli_board \in {"bnap", "mpiovd"}
      /\ count \in {0, Len(Registry)}
      /\ cli_ram \in [Cli!Params -> Int]
      /\ \A j \in Cli!Params : cli_ram[j] \in Cli!Allowed(j)
      /\ argv \in Cli!Commands \cup {Cli!None} /\ cli_i \in Nat /\ said \in Seq(Lines)
  BY Zenon DEF ShellTypes
<1>a. cli_board' = cli_board /\ count' = count /\ cli_ram' = cli_ram => Steady
  BY <1>0, Zenon
<1>s. said' = said => said' \in Seq(Lines) /\ Cli!PrintsAllowed'
  BY <1>0 DEF Cli!PrintsAllowed
<1> HIDE DEF Steady
<1>1. CASE Cli!Boot
  <2>1. Steady
    BY <1>0, <1>1, Zenon DEF Steady, Cli!Boot
  <2> QED
    BY <1>0, <1>1, <1>s, <2>1, Zenon DEF Cli!Boot
<1>2. CASE Cli!Types
  <2>1. said' = <<>>
    BY <1>2 DEF Cli!Types
  <2>2. said' \in Seq(Lines) /\ Cli!PrintsAllowed'
    BY <2>1 DEF Cli!PrintsAllowed
  <2> QED
    BY <1>0, <1>2, <1>a, <2>2, Zenon DEF Cli!Types
<1>3. CASE Cli!Dispatches
  <2>1. 1 \in Nat
    OBVIOUS
  <2> QED
    BY <1>0, <1>3, <1>a, <1>s, <2>1, Zenon DEF Cli!Dispatches
<1>m. ASSUME NEW text \in Said, Cli!Says(text) PROVE said' \in Seq(Lines) /\ Cli!PrintsAllowed'
  BY <1>0, <1>m, SaysIs
<1>4. CASE Cli!BadArguments
  <2>1. "bad" \in Said /\ Cli!Says("bad")
    BY <1>4, Zenon DEF Cli!BadArguments, Said
  <2> QED
    BY <1>0, <1>4, <1>a, <1>m, <2>1, Zenon DEF Cli!BadArguments, Cli!Ends
<1>5. CASE Cli!PrintsAll
  <2>1. cli_i \in Cli!Params /\ said' = Append(said, Cli!Line(cli_i))
    BY <1>5 DEF Cli!PrintsAll, WordsInv
  <2>2. cli_i' \in Nat
    BY <1>0, <1>5 DEF Cli!PrintsAll
  <2>3. said' \in Seq(Lines) /\ Cli!PrintsAllowed'
    BY <2>1, AppendsIs
  <2> QED
    BY <1>0, <1>5, <1>a, <2>2, <2>3, Zenon DEF Cli!PrintsAll
<1>6. CASE Cli!Help
  <2>1. "help" \in Said /\ Cli!Says("help")
    BY <1>6, Zenon DEF Cli!Help, Said
  <2> QED
    BY <1>0, <1>6, <1>a, <1>m, <2>1, Zenon DEF Cli!Help, Cli!Ends
<1>7. CASE Cli!Saves
  <2>1. PICK text \in {"wait", "done"} : Cli!Says(text)
    BY <1>7 DEF Cli!Saves
  <2>2. text \in Said
    BY DEF Said
  <2>3. said' \in Seq(Lines) /\ Cli!PrintsAllowed'
    BY <1>m, <2>1, <2>2
  <2> QED
    BY <1>0, <1>7, <1>a, <2>3, Zenon DEF Cli!Saves
<1>8. CASE Cli!PrintsOne
  <2>1. said' \in Seq(Lines) /\ Cli!PrintsAllowed'
    <3>1. CASE Cli!Known(argv.name)
      <4>1. said' = Append(said, Cli!Line(Cli!IndexOf(argv.name)))
        BY <1>8, <3>1, Zenon DEF Cli!PrintsOne
      <4>2. Cli!IndexOf(argv.name) \in Cli!Params
        BY <1>0, <3>1, IndexIs
      <4> QED
        BY <4>1, <4>2, AppendsIs
    <3>2. CASE ~Cli!Known(argv.name)
      <4>1. "unknown" \in Said /\ Cli!Says("unknown")
        BY <1>8, <3>2, Zenon DEF Cli!PrintsOne, Said
      <4> QED
        BY <1>m, <4>1
    <3> QED
      BY <3>1, <3>2
  <2> QED
    BY <1>0, <1>8, <1>a, <2>1, Zenon DEF Cli!PrintsOne, Cli!Ends
<1>9. CASE Cli!ScansBnap \/ Cli!ScansMpiovd
  <2>1. \/ \E text \in {"unknown", "inconsistent"} : Cli!Says(text) /\ cli_i' = cli_i
        \/ said' = said /\ Cli!Known(argv.name) /\ cli_i' = Cli!IndexOf(argv.name)
    BY <1>9, Zenon DEF Cli!ScansBnap, Cli!ScansMpiovd, Cli!Ends
  <2>2. Cli!Known(argv.name) => Cli!IndexOf(argv.name) \in Nat
    BY <1>0, IndexIs, ShellFacts
  <2>3. {"unknown", "inconsistent"} \subseteq Said
    BY DEF Said
  <2>4. cli_i' \in Nat /\ said' \in Seq(Lines) /\ Cli!PrintsAllowed'
    BY <1>0, <1>m, <1>s, <2>1, <2>2, <2>3, Zenon
  <2>5. argv' = argv /\ cli_board' = cli_board /\ count' = count /\ cli_ram' = cli_ram
    BY <1>9, Zenon DEF Cli!ScansBnap, Cli!ScansMpiovd, Cli!Ends
  <2> QED
    BY <1>0, <1>a, <2>4, <2>5, Zenon
<1>10. CASE Cli!Looks
  <2>1. Cli!Says("unchanged") \/ said' = said
    BY <1>10, Zenon DEF Cli!Looks
  <2>2. "unchanged" \in Said
    BY DEF Said
  <2>3. said' \in Seq(Lines) /\ Cli!PrintsAllowed'
    BY <1>m, <1>s, <2>1, <2>2
  <2> QED
    BY <1>0, <1>10, <1>a, <2>3, Zenon DEF Cli!Looks
<1>11. CASE Cli!Writes
  <2>1. cli_i \in Cli!Params /\ Cli!Scanned(argv.text) \in Cli!Values
    BY <1>0, <1>11, CommandIs, ScannedIs DEF Cli!Writes, WordsInv, Chosen, Cli!Sets
  <2> DEFINE w == Cli!Checked(cli_i, Cli!Scanned(argv.text))
  <2>2. w \in Cli!Allowed(cli_i)
    BY <2>1, ShellChecked
  <2>3. Cli!SetTo(cli_i, w) /\ said' = said /\ argv' = argv /\ cli_i' = cli_i /\ cli_board' = cli_board /\ count' = count
    BY <1>11, Zenon DEF Cli!Writes
  <2> HIDE DEF w
  <2>4. Steady
    BY <1>0, <2>1, <2>2, <2>3, SetToIs DEF Steady
  <2> QED
    BY <1>0, <1>s, <2>3, <2>4, Zenon
<1>12. CASE Cli!Confirms
  <2>1. Cli!Says("clamped") \/ said' = said
    BY <1>12, Zenon DEF Cli!Confirms
  <2>2. "clamped" \in Said
    BY DEF Said
  <2>3. said' \in Seq(Lines) /\ Cli!PrintsAllowed'
    BY <1>m, <1>s, <2>1, <2>2
  <2> QED
    BY <1>0, <1>12, <1>a, <2>3, Zenon DEF Cli!Confirms, Cli!Ends
<1>13. CASE Cli!OtherSets
  <2>1. PICK j \in Cli!Params, v \in Cli!Values :
          Cli!SetTo(j, IF Cli!NothingToChange(j, v) THEN v ELSE Cli!Checked(j, v))
    BY <1>13, Zenon DEF Cli!OtherSets
  <2> DEFINE w == IF Cli!NothingToChange(j, v) THEN v ELSE Cli!Checked(j, v)
  <2>2. w \in Cli!Allowed(j)
    BY OtherIs
  <2>3. Cli!SetTo(j, w) /\ said' = said /\ argv' = argv /\ cli_i' = cli_i /\ cli_board' = cli_board /\ count' = count
    BY <1>13, <2>1, Zenon DEF Cli!OtherSets
  <2> HIDE DEF w
  <2>4. Steady
    BY <1>0, <2>1, <2>2, <2>3, SetToIs DEF Steady
  <2> QED
    BY <1>0, <1>s, <2>3, <2>4, Zenon
<1> QED
  BY <1>1, <1>2, <1>3, <1>4, <1>5, <1>6, <1>7, <1>8, <1>9, <1>10, <1>11, <1>12, <1>13, Zenon
  DEF Cli!Next, Cli!Command

(* Every step keeps the place in param_clicmd in agreement with the        *)
(* arguments, and the value it decides upon within what the parameter has  *)
(* been.                                                                   *)
LEMMA WordsStep ==
  ASSUME ShellTypes, WordsInv, Cli!Next
  PROVE  WordsInv'
<1>0. /\ count \in {0, Len(Registry)} /\ Len(Registry) > 0 /\ Len(Registry) \in Nat
      /\ Cli!Params = 1 .. Len(Registry) /\ cli_board \in {"bnap", "mpiovd"}
      /\ argv.argc \in {0, 1, 2, 3}
  BY CommandIs, ShellFacts DEF ShellTypes
<1>1. CASE Cli!Boot
  BY <1>0, <1>1 DEF Cli!Boot, WordsInv, Chosen, Typed, Cli!Sets, Cli!Known, Cli!IsNumber
<1>2. CASE Cli!Types
  BY <1>0, <1>2 DEF Cli!Types, WordsInv
<1>3. CASE Cli!Dispatches
  BY <1>0, <1>3 DEF Cli!Dispatches, WordsInv
<1>4. CASE Cli!BadArguments
  BY <1>0, <1>4 DEF Cli!BadArguments, Cli!Ends, WordsInv
<1>5. CASE Cli!PrintsAll
  BY <1>0, <1>5 DEF Cli!PrintsAll, WordsInv
<1>6. CASE Cli!Help
  BY <1>0, <1>6 DEF Cli!Help, Cli!Ends, WordsInv
<1>7. CASE Cli!Saves
  BY <1>0, <1>7 DEF Cli!Saves, WordsInv
<1>8. CASE Cli!PrintsOne
  BY <1>0, <1>8 DEF Cli!PrintsOne, Cli!Ends, WordsInv
<1>9. CASE Cli!ScansBnap
  <2>1. /\ at = "two" /\ argv.argc = 2 /\ said = <<>> /\ cli_board = "bnap" /\ count # 0
        /\ argv' = argv /\ count' = count /\ cli_ram' = cli_ram /\ cli_board' = cli_board
    BY <1>9 DEF Cli!ScansBnap, Cli!Ends, WordsInv
  <2>2. \/ at' = "prompt"
        \/ /\ Cli!Known(argv.name) /\ Cli!IsNumber(argv.text) /\ at' = "looks"
           /\ cli_i' = Cli!IndexOf(argv.name) /\ had' = {cli_ram[Cli!IndexOf(argv.name)]} /\ said' = said
    BY <1>9, Zenon DEF Cli!ScansBnap, Cli!Ends
  <2>3. CASE at' = "prompt"
    BY <2>1, <2>3 DEF WordsInv
  <2>4. CASE /\ Cli!Known(argv.name) /\ Cli!IsNumber(argv.text) /\ at' = "looks"
             /\ cli_i' = Cli!IndexOf(argv.name) /\ had' = {cli_ram[Cli!IndexOf(argv.name)]} /\ said' = said
    <3>1. Chosen'
      BY <1>0, <2>1, <2>4, IndexIs DEF Chosen, Cli!Sets, Cli!Known, Cli!IsNumber
    <3> QED
      BY <2>1, <2>4, <3>1 DEF WordsInv
  <2> QED
    BY <2>2, <2>3, <2>4
<1>10. CASE Cli!ScansMpiovd
  <2>1. /\ at = "two" /\ argv.argc = 2 /\ said = <<>> /\ count # 0
        /\ argv' = argv /\ count' = count /\ cli_ram' = cli_ram
    BY <1>10 DEF Cli!ScansMpiovd, Cli!Ends, WordsInv
  <2>2. \/ at' = "prompt"
        \/ /\ Cli!Known(argv.name) /\ Cli!IsNumber(argv.text) /\ at' = "writes"
           /\ cli_i' = Cli!IndexOf(argv.name) /\ had' = {cli_ram[Cli!IndexOf(argv.name)]} /\ said' = said
    BY <1>10, Zenon DEF Cli!ScansMpiovd, Cli!Ends
  <2>3. CASE at' = "prompt"
    BY <2>1, <2>3 DEF WordsInv
  <2>4. CASE /\ Cli!Known(argv.name) /\ Cli!IsNumber(argv.text) /\ at' = "writes"
             /\ cli_i' = Cli!IndexOf(argv.name) /\ had' = {cli_ram[Cli!IndexOf(argv.name)]} /\ said' = said
    <3>1. Chosen'
      BY <1>0, <2>1, <2>4, IndexIs DEF Chosen, Cli!Sets, Cli!Known, Cli!IsNumber
    <3> QED
      BY <2>1, <2>4, <3>1 DEF WordsInv
  <2> QED
    BY <2>2, <2>3, <2>4
<1>11. CASE Cli!Looks
  <2>1. /\ at = "looks" /\ cli_board = "bnap" /\ count # 0 /\ Chosen
        /\ argv' = argv /\ count' = count /\ cli_ram' = cli_ram /\ cli_board' = cli_board
        /\ cli_i' = cli_i /\ had' = had
    BY <1>11 DEF Cli!Looks, WordsInv
  <2>2. at' = "prompt" \/ (at' = "writes" /\ said' = said)
    BY <1>11, Zenon DEF Cli!Looks
  <2>3. said' = said => Chosen'
    BY <2>1 DEF Chosen, Cli!Sets, Cli!Known, Cli!IsNumber
  <2> QED
    BY <2>1, <2>2, <2>3 DEF WordsInv
<1>12. CASE Cli!Writes
  <2> DEFINE v == Typed
             w == Cli!Checked(cli_i, Typed)
  <2>1. /\ at = "writes" /\ count # 0 /\ Chosen
        /\ argv' = argv /\ count' = count /\ cli_i' = cli_i /\ said' = said
        /\ at' = IF w = v THEN "ok" ELSE "clamped"
        /\ Cli!SetTo(cli_i, w)
    BY <1>12 DEF Cli!Writes, Cli!WriteStatus, WordsInv, Typed
  <2>2. cli_i \in Cli!Params /\ v \in Cli!Values
    BY <2>1, CommandIs, ScannedIs DEF Chosen, Cli!Sets, ShellTypes, Typed
  <2>3. /\ w \in Cli!Allowed(cli_i)
        /\ w # v => /\ v \notin Registry[cli_i].min .. Registry[cli_i].max
                    /\ w \in {Registry[cli_i].min, Registry[cli_i].max}
    BY <2>2, ShellChecked
  <2>4. Typed' = Typed
    BY <2>1 DEF Typed, Cli!Scanned
  <2> HIDE DEF w
  <2>5. w \in had' /\ cli_ram'[cli_i] \in had'
    BY <2>1, <2>2, <2>3, SetToIs DEF Chosen
  <2>6. Chosen'
    BY <2>1, <2>5 DEF Chosen, Cli!Sets, Cli!Known, Cli!IsNumber
  <2> HIDE DEF v
  <2>7. at' = "ok" => v \in had' /\ v \in Cli!Allowed(cli_i)
    BY <2>1, <2>3, <2>5
  <2>8. at' = "clamped" =>
          /\ v \notin Registry[cli_i].min .. Registry[cli_i].max
          /\ had' \cap {Registry[cli_i].min, Registry[cli_i].max} # {}
    BY <2>1, <2>3, <2>5
  <2>9. Typed' = v /\ cli_i' = cli_i /\ count' # 0 /\ at' \in {"ok", "clamped"}
    BY <2>1, <2>4 DEF v
  <2>10. at' = "ok" => Typed' \in had' /\ Typed' \in Cli!Allowed(cli_i)'
    BY <2>7, <2>9 DEF Cli!Allowed
  <2>11. at' = "clamped" =>
          /\ Typed' \notin Registry[cli_i'].min .. Registry[cli_i'].max
          /\ had' \cap {Registry[cli_i'].min, Registry[cli_i'].max} # {}
    BY <2>8, <2>9
  <2> QED
    BY <2>6, <2>9, <2>10, <2>11 DEF WordsInv
<1>13. CASE Cli!Confirms
  BY <1>0, <1>13 DEF Cli!Confirms, Cli!Ends, WordsInv
<1>14. CASE Cli!OtherSets
  <2>1. PICK j \in Cli!Params, v \in Cli!Values :
          Cli!SetTo(j, IF Cli!NothingToChange(j, v) THEN v ELSE Cli!Checked(j, v))
    BY <1>14, Zenon DEF Cli!OtherSets
  <2> DEFINE w == IF Cli!NothingToChange(j, v) THEN v ELSE Cli!Checked(j, v)
  <2>2. w \in Cli!Allowed(j)
    BY OtherIs
  <2>3. Cli!SetTo(j, w) /\ said' = said /\ argv' = argv /\ cli_i' = cli_i /\ cli_board' = cli_board /\ count' = count /\ at' = at
    BY <1>14, <2>1, Zenon DEF Cli!OtherSets
  <2> HIDE DEF w
  <2>4. had \subseteq had' /\ (cli_i \in Cli!Params /\ cli_ram[cli_i] \in had => cli_ram'[cli_i] \in had')
    BY <2>2, <2>3, SetToIs
  <2>5. Typed' = Typed
    BY <2>3 DEF Typed, Cli!Scanned
  <2>6. Chosen => Chosen'
    BY <2>3, <2>4 DEF Chosen, Cli!Sets, Cli!Known, Cli!IsNumber
  <2>7. at = "ok" => Typed \in had' /\ Typed \in Cli!Allowed(cli_i)
    BY <2>4 DEF WordsInv
  <2>8. at = "clamped" =>
          /\ Typed \notin Registry[cli_i].min .. Registry[cli_i].max
          /\ had' \cap {Registry[cli_i].min, Registry[cli_i].max} # {}
    BY <2>4 DEF WordsInv
  <2>9. at' = "ok" => Typed' \in had' /\ Typed' \in Cli!Allowed(cli_i)'
    BY <2>3, <2>5, <2>7 DEF Cli!Allowed
  <2>10. at' = "clamped" =>
          /\ Typed' \notin Registry[cli_i'].min .. Registry[cli_i'].max
          /\ had' \cap {Registry[cli_i'].min, Registry[cli_i'].max} # {}
    BY <2>3, <2>5, <2>8
  <2> QED
    BY <2>3, <2>6, <2>9, <2>10 DEF WordsInv
<1> QED
  BY <1>1, <1>2, <1>3, <1>4, <1>5, <1>6, <1>7, <1>8, <1>9, <1>10, <1>11, <1>12, <1>13, <1>14, Zenon
  DEF Cli!Next, Cli!Command

(* What ConfirmIsTrue asks of what was said.                               *)
Answer ==
  \/ said = <<>> /\ Typed \in had /\ Typed \in Cli!Allowed(cli_i)
  \/ said = <<Cli!Message("unchanged")>> /\ Typed \in had
  \/ /\ said = <<Cli!Message("clamped")>>
     /\ Typed \notin Registry[cli_i].min .. Registry[cli_i].max
     /\ had \cap {Registry[cli_i].min, Registry[cli_i].max} # {}

(* Every step that comes back to the prompt has told the truth, and it     *)
(* stays true.                                                             *)
LEMMA AnswerStep ==
  ASSUME ShellTypes, WordsInv, Cli!ConfirmIsTrue, Cli!Next
  PROVE  Cli!ConfirmIsTrue'
<1>0. /\ count \in {0, Len(Registry)} /\ Len(Registry) > 0 /\ Len(Registry) \in Nat
      /\ argv.argc \in {0, 1, 2, 3}
  BY CommandIs, ShellFacts DEF ShellTypes
<1>a. Cli!ConfirmIsTrue <=> (at = "prompt" /\ count > 0 /\ Cli!Sets => Answer)
  BY Zenon DEF Cli!ConfirmIsTrue, Answer, Typed
<1>b. Cli!ConfirmIsTrue' <=> (at' = "prompt" /\ count' > 0 /\ Cli!Sets' => Answer')
  BY Zenon DEF Cli!ConfirmIsTrue, Answer, Typed
<1> SUFFICES ASSUME at' = "prompt", count' > 0, Cli!Sets' PROVE Answer'
  BY <1>b, Zenon
<1>c. argv' = argv /\ count' = count => Cli!Sets /\ argv.argc = 2
  BY DEF Cli!Sets, Cli!Known, Cli!IsNumber
<1>1. CASE Cli!Boot
  BY <1>0, <1>1 DEF Cli!Boot, WordsInv, Cli!Sets, Cli!None
<1>2. CASE Cli!Types
  BY <1>2 DEF Cli!Types
<1>3. CASE Cli!Dispatches
  BY <1>3 DEF Cli!Dispatches
<1>4. CASE Cli!BadArguments \/ Cli!PrintsAll \/ Cli!Help \/ Cli!Saves \/ Cli!PrintsOne
  <2>1. argv' = argv /\ count' = count /\ at \in {"bad", "print", "one", "saving"}
    BY <1>4 DEF Cli!BadArguments, Cli!PrintsAll, Cli!Help, Cli!Saves, Cli!PrintsOne, Cli!Ends
  <2> QED
    BY <1>c, <2>1 DEF WordsInv
<1>5. CASE Cli!ScansBnap \/ Cli!ScansMpiovd
  <2>1. argv' = argv /\ count' = count
    BY <1>5 DEF Cli!ScansBnap, Cli!ScansMpiovd, Cli!Ends
  <2>2. Cli!Known(argv.name) /\ Cli!IsNumber(argv.text)
    BY <1>c, <2>1 DEF Cli!Sets
  <2>3. at' \in {"looks", "writes"}
    BY <1>5, <2>2, Zenon DEF Cli!ScansBnap, Cli!ScansMpiovd
  <2> QED
    BY <2>3
<1>6. CASE Cli!Looks
  <2>1. Cli!NothingToChange(cli_i, Typed) /\ Cli!Says("unchanged") /\ at = "looks"
        /\ argv' = argv /\ had' = had
    BY <1>6, Zenon DEF Cli!Looks, Typed
  <2>2. Typed = cli_ram[cli_i]
    BY <2>1, Zenon DEF Cli!NothingToChange
  <2>3. Typed \in had /\ said = <<>>
    BY <2>1, <2>2 DEF WordsInv, Chosen
  <2>4. said' = <<Cli!Message("unchanged")>>
    BY <2>1, <2>3 DEF Cli!Says
  <2>5. Typed' = Typed
    BY <2>1 DEF Typed, Cli!Scanned
  <2> QED
    BY <2>1, <2>3, <2>4, <2>5 DEF Answer, Cli!Message
<1>7. CASE Cli!Writes
  BY <1>7 DEF Cli!Writes, Cli!WriteStatus
<1>8. CASE Cli!Confirms
  <2>1. /\ at \in {"ok", "clamped"} /\ argv' = argv /\ had' = had /\ cli_i' = cli_i
        /\ IF at = "ok" THEN said' = said ELSE Cli!Says("clamped")
    BY <1>8 DEF Cli!Confirms, Cli!Ends
  <2>2. said = <<>>
    BY <2>1 DEF WordsInv, Chosen
  <2>3. Typed' = Typed /\ Cli!Allowed(cli_i)' = Cli!Allowed(cli_i)
    BY <2>1 DEF Typed, Cli!Scanned, Cli!Allowed
  <2>4. CASE at = "ok"
    <3>1. said' = <<>> /\ Typed \in had /\ Typed \in Cli!Allowed(cli_i)
      BY <2>1, <2>2, <2>4 DEF WordsInv
    <3> QED
      BY <2>1, <2>3, <3>1 DEF Answer
  <2>5. CASE at = "clamped"
    <3>1. /\ said' = <<Cli!Message("clamped")>>
          /\ Typed \notin Registry[cli_i].min .. Registry[cli_i].max
          /\ had \cap {Registry[cli_i].min, Registry[cli_i].max} # {}
      BY <2>1, <2>2, <2>5 DEF WordsInv, Cli!Says
    <3> QED
      BY <2>1, <2>3, <3>1 DEF Answer, Cli!Message
  <2> QED
    BY <2>1, <2>4, <2>5
<1>9. CASE Cli!OtherSets
  <2>1. PICK j \in Cli!Params, v \in Cli!Values :
          Cli!SetTo(j, IF Cli!NothingToChange(j, v) THEN v ELSE Cli!Checked(j, v))
    BY <1>9, Zenon DEF Cli!OtherSets
  <2>2. said' = said /\ argv' = argv /\ cli_i' = cli_i /\ count' = count /\ at' = at
    BY <1>9, Zenon DEF Cli!OtherSets
  <2>3. had \subseteq had'
    BY <2>1 DEF Cli!SetTo
  <2>4. Answer
    BY <1>a, <1>c, <2>2, Zenon
  <2>5. Typed' = Typed /\ Cli!Allowed(cli_i)' = Cli!Allowed(cli_i)
    BY <2>2 DEF Typed, Cli!Scanned, Cli!Allowed
  <2> QED
    BY <2>2, <2>3, <2>4, <2>5 DEF Answer, Cli!Message
<1> QED
  BY <1>1, <1>2, <1>3, <1>4, <1>5, <1>6, <1>7, <1>8, <1>9, Zenon
  DEF Cli!Next, Cli!Command

(* At power up nothing was said.                                           *)
LEMMA ShellStart == Cli!Init => ShellInv
<1> SUFFICES ASSUME Cli!Init PROVE ShellInv
  OBVIOUS
<1>1. /\ cli_board \in {"bnap", "mpiovd"} /\ count = 0
      /\ cli_ram \in [Cli!Params -> Cli!Values] /\ \A j \in Cli!Params : cli_ram[j] \in Cli!Allowed(j)
      /\ at = "prompt" /\ argv = Cli!None /\ cli_i = 1 /\ said = <<>> /\ had = {}
  BY DEF Cli!Init
<1>2. cli_ram \in [Cli!Params -> Int]
  BY <1>1, ShellFacts
<1>3. ShellTypes
  BY <1>1, <1>2 DEF ShellTypes
<1>4. WordsInv
  BY <1>1 DEF WordsInv
<1>5. Cli!ConfirmIsTrue
  BY <1>1 DEF Cli!ConfirmIsTrue
<1>6. Cli!PrintsAllowed
  BY <1>1 DEF Cli!PrintsAllowed
<1> QED
  BY <1>3, <1>4, <1>5, <1>6 DEF ShellInv

(* Every step of the shell keeps its invariant.                            *)
LEMMA ShellGoes == ShellInv /\ Cli!Next => ShellInv'
BY ShellTypesStep, WordsStep, AnswerStep, Zenon DEF ShellInv

(* So does a step of another unit.                                         *)
LEMMA ShellKept == ShellInv /\ UNCHANGED typed => ShellInv'
<1> SUFFICES ASSUME ShellInv, UNCHANGED typed PROVE ShellInv'
  OBVIOUS
<1>1. /\ cli_board' = cli_board /\ count' = count /\ cli_ram' = cli_ram /\ at' = at /\ argv' = argv
      /\ cli_i' = cli_i /\ said' = said /\ had' = had
  BY DEF typed
<1>2. ShellTypes'
  BY <1>1, Zenon DEF ShellInv, ShellTypes, Cli!Allowed
<1>3. WordsInv'
  BY <1>1, Zenon DEF ShellInv, WordsInv, Chosen, Typed, Cli!Sets, Cli!Known, Cli!IsNumber, Cli!Scanned, Cli!Allowed
<1>4. Cli!ConfirmIsTrue'
  BY <1>1, Zenon DEF ShellInv, Cli!ConfirmIsTrue, Cli!Sets, Cli!Known, Cli!IsNumber, Cli!Scanned, Cli!Allowed, Cli!Message
<1>5. Cli!PrintsAllowed'
  BY <1>1, Zenon DEF ShellInv, Cli!PrintsAllowed, Cli!Allowed
<1> QED
  BY <1>2, <1>3, <1>4, <1>5, Zenon DEF ShellInv

(* The records a save has written.                                         *)
Done(t, i) == i < job[t].i \/ (job[t].step = "verify" /\ i = job[t].i)

(* What a save has written it will not have to answer for later: no other  *)
(* thread is in the file, and the history only grows.                      *)
WholeInv ==
  /\ seen \in [Par!Params -> SUBSET Par!Values]
  /\ board = "bnap" \/ crossed = FALSE =>
       \A t \in Par!Threads : job[t].op = "save" /\ InFile(t) =>
         \A i \in Par!Params :
           /\ params_ram[i] \in seen[i]
           /\ Done(t, i) => ee[i].name = Registry[i].name /\ ee[i].value \in seen[i]

(* The history of a save stays a set of values for each parameter.         *)
LEMMA SeenStep ==
  ASSUME ParamTypes, TurnInv, seen \in [Par!Params -> SUBSET Par!Values], Par!Next
  PROVE  seen' \in [Par!Params -> SUBSET Par!Values]
<1>1. ASSUME NEW i \in Par!Params, NEW v \in Par!Values, Par!SetParam(i, v)
      PROVE  seen' \in [Par!Params -> SUBSET Par!Values]
  BY <1>1, CheckedIs DEF Par!SetParam
<1>2. ASSUME NEW t \in Par!Threads, Par!LoadSets(t) PROVE seen' \in [Par!Params -> SUBSET Par!Values]
  <2>1. job[t].i \in Par!Params
    BY <1>2 DEF Par!LoadSets, Par!At, TurnInv
  <2> QED
    BY <1>1, <1>2, <2>1, LoadedIs DEF Par!LoadSets
<1>3. CASE Par!Set
  BY <1>1, <1>3 DEF Par!Set
<1>4. ASSUME NEW t \in Par!Threads, Par!SaveBegins(t) PROVE seen' \in [Par!Params -> SUBSET Par!Values]
  BY <1>4 DEF Par!SaveBegins, ParamTypes
<1>5. CASE Par!PowerFails
  BY <1>5 DEF Par!PowerFails
<1>6. ASSUME NEW t \in Par!Threads,
             Par!LoadBegins(t) \/ Par!LoadReads(t) \/ Par!LoadEnds(t) \/ Par!SaveWrites(t)
             \/ Par!SaveVerifies(t) \/ Par!SaveEnds(t)
      PROVE  seen' = seen
  BY <1>6, Zenon DEF Par!LoadBegins, Par!LoadReads, Par!LoadEnds, Par!SaveWrites, Par!SaveVerifies, Par!SaveEnds, Par!history
<1>7. ASSUME Par!Looks \/ Par!Request("command", "load") \/ Par!Request("command", "save") \/ Par!Request("shell", "save")
      PROVE  seen' = seen
  BY <1>7, Zenon DEF Par!Looks, Par!Request, Par!history
<1> QED
  BY <1>2, <1>3, <1>4, <1>5, <1>6, <1>7, Zenon DEF Par!Next, Par!JobStep

(* Where nobody saves there is nothing to say.                             *)
LEMMA NobodySaves ==
  ASSUME seen' \in [Par!Params -> SUBSET Par!Values],
         board' = "bnap" \/ crossed' = FALSE => \A t \in Par!Threads : job'[t].op = "save" => job'[t].step \in {"none", "acquire"}
  PROVE  WholeInv'
BY DEF WholeInv, InFile

(* Every step keeps that the records a save has written hold values its    *)
(* parameters had meanwhile.                                               *)
LEMMA WholeStep ==
  ASSUME ParamInv, WholeInv, Par!Next
  PROVE  WholeInv'
<1>0. /\ ParamTypes /\ TurnInv /\ AloneInv /\ FileInv
      /\ seen \in [Par!Params -> SUBSET Par!Values] /\ seen' \in [Par!Params -> SUBSET Par!Values]
      /\ board' = board
  BY DataStep, SeenStep DEF ParamInv, WholeInv
<1>i. ASSUME NEW t \in Par!Threads, InFile(t), crossed' = crossed, NEW op, NEW step, NEW i, Goes(t, op, step, i),
             op # "save" \/ step \in {"none", "acquire"}
      PROVE  WholeInv'
  <2>1. ASSUME board = "bnap" \/ crossed = FALSE, NEW o \in Par!Threads, job'[o].op = "save"
        PROVE  job'[o].step \in {"none", "acquire"}
    <3>1. CASE o = t
      BY <1>i, <2>1, <3>1 DEF Goes
    <3>2. CASE o # t
      <4>1. ~InFile(o)
        BY <1>0, <1>i, <2>1, <3>2, AloneIs
      <4> QED
        BY <1>i, <3>2, <4>1 DEF Goes, InFile
    <3> QED
      BY <3>1, <3>2
  <2> QED
    BY <1>0, <1>i, <2>1, NobodySaves
<1>1. ASSUME NEW t \in Par!Threads, Par!LoadBegins(t) PROVE WholeInv'
  <2>1. Goes(t, "load", "read", 1) /\ Par!Enters(t)
    BY <1>0, <1>1, LoadBeginsGoes DEF Par!LoadBegins
  <2>2. ASSUME board = "bnap" \/ crossed' = FALSE, NEW o \in Par!Threads, job'[o].op = "save"
        PROVE  job'[o].step \in {"none", "acquire"}
    <3>1. o # t
      BY <2>1, <2>2 DEF Goes
    <3>2. ~InFile(o) /\ job'[o] = job[o]
      BY <1>0, <2>1, <2>2, <3>1, EntersAlone
    <3> QED
      BY <3>2 DEF InFile
  <2> QED
    BY <1>0, <2>2, NobodySaves
<1>2. ASSUME NEW t \in Par!Threads, Par!LoadReads(t) PROVE WholeInv'
  <2>1. job[t].op = "load" /\ InFile(t) /\ crossed' = crossed
    BY <1>2 DEF Par!LoadReads, Par!At, InFile, Par!history
  <2>2. Goes(t, job[t].op, "set", job[t].i)
    BY <1>0, <1>2, StepGoes DEF Par!LoadReads, JobSteps
  <2> QED
    BY <1>i, <2>1, <2>2
<1>3. ASSUME NEW t \in Par!Threads, Par!LoadSets(t) PROVE WholeInv'
  <2>1. job[t].i \in Par!Params /\ InFile(t) /\ crossed' = crossed
    BY <1>0, <1>3 DEF Par!LoadSets, Par!At, TurnInv, InFile
  <2>2. PICK step \in {"end", "read"} : Goes(t, "load", step, job[t].i + 1)
    BY <1>0, <1>3, <2>1, LoadSetsGoes
  <2> QED
    BY <1>i, <2>1, <2>2
<1>4. ASSUME NEW t \in Par!Threads, Par!LoadEnds(t) PROVE WholeInv'
  <2>1. InFile(t) /\ crossed' = crossed
    BY <1>4 DEF Par!LoadEnds, Par!At, InFile, Par!history
  <2>2. Goes(t, "idle", "none", 1) \/ Goes(t, "save", "acquire", 1)
    BY <1>0, <1>4, FinishedGoes, Zenon DEF Par!LoadEnds
  <2> QED
    BY <1>i, <2>1, <2>2
<1>5. ASSUME NEW t \in Par!Threads, Par!SaveEnds(t) PROVE WholeInv'
  <2>1. InFile(t) /\ crossed' = crossed
    BY <1>5 DEF Par!SaveEnds, Par!At, InFile, Par!history
  <2>2. Goes(t, "idle", "none", 1)
    BY <1>0, <1>5, FinishedGoes, Zenon DEF Par!SaveEnds
  <2> QED
    BY <1>i, <2>1, <2>2
(* One thread saves, the others are not in the file. *)
<1>s. ASSUME NEW t \in Par!Threads,
             board = "bnap" \/ crossed' = FALSE =>
               /\ \A o \in Par!Threads \ {t} : ~InFile(o) /\ job'[o] = job[o]
               /\ \A i \in Par!Params :
                    /\ params_ram'[i] \in seen'[i]
                    /\ i < job'[t].i \/ (job'[t].step = "verify" /\ i = job'[t].i) =>
                         ee'[i].name = Registry[i].name /\ ee'[i].value \in seen'[i]
      PROVE  WholeInv'
  <2>1. ASSUME board' = "bnap" \/ crossed' = FALSE, NEW o \in Par!Threads,
               job'[o].op = "save" /\ job'[o].step \notin {"none", "acquire"}
        PROVE  \A i \in Par!Params :
                 /\ params_ram'[i] \in seen'[i]
                 /\ i < job'[o].i \/ (job'[o].step = "verify" /\ i = job'[o].i) =>
                      ee'[i].name = Registry[i].name /\ ee'[i].value \in seen'[i]
    <3>1. o = t
      BY <1>0, <1>s, <2>1 DEF InFile
    <3> QED
      BY <1>0, <1>s, <2>1, <3>1
  <2> QED
    BY <1>0, <2>1 DEF WholeInv, InFile, Done
<1>6. ASSUME NEW t \in Par!Threads, Par!SaveBegins(t) PROVE WholeInv'
  <2>1. Goes(t, "save", "write", 1) /\ Par!Enters(t) /\ params_ram' = params_ram
        /\ seen' = [i \in Par!Params |-> {params_ram[i]}]
    BY <1>0, <1>6, SaveBeginsGoes DEF Par!SaveBegins
  <2>2. board = "bnap" \/ crossed' = FALSE => \A o \in Par!Threads \ {t} : ~InFile(o) /\ job'[o] = job[o]
    BY <1>0, <2>1, EntersAlone
  <2>3. \A i \in Par!Params : params_ram'[i] \in seen'[i]
    BY <2>1
  <2>4. job'[t].i = 1 /\ job'[t].step = "write" /\ \A i \in Par!Params : ~(i < 1)
    BY <2>1, RegistryFacts DEF Goes
  <2> QED
    BY <1>s, <2>2, <2>3, <2>4
<1>7. ASSUME NEW t \in Par!Threads, Par!SaveWrites(t) PROVE WholeInv'
  <2>1. /\ job[t].op = "save" /\ job[t].step = "write" /\ InFile(t) /\ job[t].i \in Par!Params
        /\ crossed' = crossed /\ params_ram' = params_ram /\ seen' = seen
        /\ ee' = [i \in Par!Params |-> IF i = position THEN Par!Record(t) ELSE ee[i]]
    BY <1>0, <1>7 DEF Par!SaveWrites, Par!At, InFile, TurnInv, Par!history
  <2>2. Goes(t, "save", "verify", job[t].i)
    BY <1>0, <1>7, <2>1, StepGoes DEF Par!SaveWrites, JobSteps
  <2>3. ASSUME board = "bnap" \/ crossed = FALSE
        PROVE  /\ \A o \in Par!Threads \ {t} : ~InFile(o) /\ job'[o] = job[o]
               /\ \A i \in Par!Params :
                    /\ params_ram'[i] \in seen'[i]
                    /\ i < job[t].i \/ i = job[t].i =>
                         ee'[i].name = Registry[i].name /\ ee'[i].value \in seen'[i]
    <3>1. \A o \in Par!Threads \ {t} : ~InFile(o) /\ job'[o] = job[o]
      BY <1>0, <2>1, <2>2, <2>3, AloneIs DEF Goes
    <3>2. \A i \in Par!Params :
            /\ params_ram[i] \in seen[i]
            /\ i < job[t].i => ee[i].name = Registry[i].name /\ ee[i].value \in seen[i]
      BY <2>1, <2>3 DEF WholeInv, Done
    <3>3. position = job[t].i
      BY <1>0, <2>1, <2>3 DEF FileInv
    <3>4. Par!Record(t).name = Registry[job[t].i].name /\ Par!Record(t).value = params_ram[job[t].i]
      BY <1>0, <2>1, RecordIs
    <3>5. ASSUME NEW i \in Par!Params, i < job[t].i PROVE ee'[i] = ee[i]
      BY <2>1, <3>3, <3>5, RegistryFacts
    <3>6. ee'[job[t].i] = Par!Record(t)
      BY <2>1, <3>3
    <3> QED
      BY <2>1, <3>1, <3>2, <3>4, <3>5, <3>6
  <2>4. job'[t].i = job[t].i
    BY <2>2 DEF Goes
  <2> QED
    BY <1>s, <2>1, <2>3, <2>4
<1>8. ASSUME NEW t \in Par!Threads, Par!SaveVerifies(t) PROVE WholeInv'
  <2>1. /\ job[t].op = "save" /\ job[t].step = "verify" /\ InFile(t) /\ job[t].i \in Par!Params
        /\ crossed' = crossed /\ params_ram' = params_ram /\ seen' = seen /\ ee' = ee
    BY <1>0, <1>8 DEF Par!SaveVerifies, Par!At, InFile, TurnInv, Par!file, Par!history
  <2>2. PICK step \in {"end", "write"} : Goes(t, "save", step, job[t].i + 1)
    BY <1>0, <1>8, <2>1, SaveVerifiesGoes
  <2>3. ASSUME board = "bnap" \/ crossed = FALSE
        PROVE  /\ \A o \in Par!Threads \ {t} : ~InFile(o) /\ job'[o] = job[o]
               /\ \A i \in Par!Params :
                    /\ params_ram'[i] \in seen'[i]
                    /\ i < job[t].i + 1 =>
                         ee'[i].name = Registry[i].name /\ ee'[i].value \in seen'[i]
    <3>1. \A o \in Par!Threads \ {t} : ~InFile(o) /\ job'[o] = job[o]
      BY <1>0, <2>1, <2>2, <2>3, AloneIs DEF Goes
    <3>2. \A i \in Par!Params :
            /\ params_ram[i] \in seen[i]
            /\ i < job[t].i \/ i = job[t].i => ee[i].name = Registry[i].name /\ ee[i].value \in seen[i]
      BY <2>1, <2>3 DEF WholeInv, Done
    <3>3. \A i \in Par!Params : i < job[t].i + 1 => i < job[t].i \/ i = job[t].i
      BY <2>1, RegistryFacts
    <3> QED
      BY <2>1, <3>1, <3>2, <3>3
  <2>4. job'[t].i = job[t].i + 1 /\ job'[t].step # "verify"
    BY <2>2 DEF Goes
  <2> QED
    BY <1>s, <2>1, <2>3, <2>4
<1>9. CASE Par!Looks
  <2>1. PICK op \in {"load", "save"} : Goes("init", op, "acquire", job["init"].i)
    BY <1>0, <1>9, LooksGoes
  <2>2. job["init"].op = "look" /\ ready \in BOOLEAN /\ "init" \in Par!Threads
    BY <1>0, <1>9, LooksGoes, Zenon DEF ParamTypes, Par!Threads
  <2>3. \A o \in Par!Threads \ {"init"} : job[o].step = "none"
    BY <1>0, <2>2 DEF TurnInv, Steps
  <2>4. \A o \in Par!Threads : job'[o].step \in {"none", "acquire"}
    BY <2>1, <2>2, <2>3 DEF Goes
  <2> QED
    BY <1>0, <2>4, NobodySaves
<1>10. CASE Par!Set
  <2>1. PICK i \in Par!Params, v \in Par!Values : Par!SetParam(i, v)
    BY <1>10 DEF Par!Set
  <2>2. job' = job /\ ee' = ee /\ crossed' = crossed
    BY <1>10 DEF Par!Set, Par!file
  <2>3. /\ params_ram'[i] \in seen'[i]
        /\ \A j \in Par!Params : seen[j] \subseteq seen'[j]
        /\ \A j \in Par!Params \ {i} : params_ram'[j] = params_ram[j]
    <3> DEFINE w == Par!Checked(i, v)
    <3>1. params_ram' = [params_ram EXCEPT ![i] = w] /\ seen' = [seen EXCEPT ![i] = @ \cup {w}]
      BY <2>1 DEF Par!SetParam
    <3>2. params_ram \in [Par!Params -> Par!Values]
      BY <1>0 DEF ParamTypes
    <3> HIDE DEF w
    <3> QED
      BY <1>0, <3>1, <3>2
  <2>4. ASSUME board = "bnap" \/ crossed = FALSE, NEW t \in Par!Threads, job[t].op = "save", InFile(t), NEW j \in Par!Params
        PROVE  /\ params_ram'[j] \in seen'[j]
               /\ Done(t, j) => ee[j].name = Registry[j].name /\ ee[j].value \in seen'[j]
    <3>1. /\ params_ram[j] \in seen[j]
          /\ Done(t, j) => ee[j].name = Registry[j].name /\ ee[j].value \in seen[j]
      BY <2>4 DEF WholeInv
    <3> QED
      BY <2>3, <3>1
  <2> QED
    BY <1>0, <2>2, <2>4 DEF WholeInv, InFile, Done
<1>11. ASSUME NEW t \in Par!Threads, NEW op \in {"load", "save"}, Par!Request(t, op) PROVE WholeInv'
  <2>1. Goes(t, op, "acquire", 1)
    BY <1>0, <1>11, RequestGoes
  <2>2. /\ crossed' = crossed /\ params_ram' = params_ram /\ seen' = seen /\ ee' = ee
    BY <1>11 DEF Par!Request, Par!file, Par!history
  <2>3. ASSUME NEW o \in Par!Threads, job'[o].step \notin {"none", "acquire"} PROVE job'[o] = job[o]
    BY <2>1, <2>3 DEF Goes
  <2> QED
    BY <1>0, <2>2, <2>3 DEF WholeInv, InFile, Done
<1>12. CASE Par!PowerFails
  <2>1. job' = Par!Starting(board)
    BY <1>12 DEF Par!PowerFails
  <2>2. \A t \in Par!Threads : job'[t].step \in {"none", "acquire"}
    BY <2>1, StartingIs, IdleIs
  <2> QED
    BY <1>0, <2>2, NobodySaves
<1> QED
  BY <1>1, <1>2, <1>3, <1>4, <1>5, <1>6, <1>7, <1>8, <1>9, <1>10, <1>11, <1>12, Zenon
  DEF Par!Next, Par!JobStep, Par!Threads

(* Nobody saves at power up.                                               *)
LEMMA WholeStart == Par!Init => WholeInv
<1> SUFFICES ASSUME Par!Init PROVE WholeInv
  OBVIOUS
<1>1. job = Par!Starting(board) /\ seen = [i \in Par!Params |-> {}]
  BY DEF Par!Init
<1>2. \A t \in Par!Threads : ~InFile(t)
  BY <1>1, StartingIs, IdleIs DEF InFile
<1> QED
  BY <1>1, <1>2 DEF WholeInv

(* A step of another unit changes no record.                               *)
LEMMA WholeKept == WholeInv /\ UNCHANGED params => WholeInv'
<1> SUFFICES ASSUME WholeInv, UNCHANGED params PROVE WholeInv'
  OBVIOUS
<1>1. board' = board /\ params_ram' = params_ram /\ ee' = ee /\ job' = job /\ seen' = seen /\ crossed' = crossed
  BY DEF params
<1> QED
  BY <1>1, Zenon DEF WholeInv, InFile, Done

StoreInv == ParamInv /\ WholeInv /\ ShellInv

(* The initial states satisfy the three invariants.                        *)
LEMMA StoreStart == PickInit => StoreInv
BY ParamStart, WholeStart, ShellStart, Zenon DEF PickInit, StoreInv

(* Every step keeps them.                                                  *)
LEMMA StoreStep == StoreInv /\ [PickNext]_everything => StoreInv'
<1> SUFFICES ASSUME StoreInv, [PickNext]_everything PROVE StoreInv'
  OBVIOUS
<1>1. \/ UNCHANGED <<params, typed>>
      \/ Par!Next /\ UNCHANGED typed
      \/ Cli!Next /\ UNCHANGED params
  BY Zenon DEF PickNext, LogStep, ParamStep, TypedStep, everything
<1>2. Par!Next \/ UNCHANGED params
  BY <1>1, Zenon
<1>3. Cli!Next \/ UNCHANGED typed
  BY <1>1, Zenon
<1>4. ParamInv'
  BY <1>2, ParamGoes, ParamKept, Zenon DEF StoreInv
<1>5. WholeInv'
  BY <1>2, WholeStep, WholeKept, Zenon DEF StoreInv
<1>6. ShellInv'
  BY <1>3, ShellGoes, ShellKept, Zenon DEF StoreInv
<1> QED
  BY <1>4, <1>5, <1>6 DEF StoreInv

(* They hold in every behaviour.                                           *)
LEMMA StoreHolds == PickSpec => []StoreInv
<1> QED
  BY StoreStart, StoreStep, PTL DEF PickSpec

(* param.c:85-171, param_persistant.c:150, param_cli.c:55-120: for every   *)
(* registry that the generator accepts, no verification of a saved record  *)
(* fails, every parameter is off or in its range once they are loaded,     *)
(* and the shell says of a set and prints of a value only what is so.      *)
THEOREM ParamsCorrect == PickSpec => []ParamsAreValid
<1>1. StoreInv => ParamsAreValid
  BY ParamShows, Zenon DEF StoreInv, ShellInv, ParamsAreValid
<1> QED
  BY <1>1, StoreHolds, PTL

(* param_persistant.c:120-158: for every such registry, a save that ends   *)
(* has left each parameter under its name with a value it had while the    *)
(* save went on, whatever power failures and other threads did meanwhile.  *)
THEOREM SaveCorrect == PickSpec => SaveIsWhole
<1> DEFINE Whole == \A t \in Par!Threads : Par!SaveEnds(t) /\ Par!Safe =>
                      \A i \in Par!Params : ee[i].name = Registry[i].name /\ ee[i].value \in seen[i]
<1>1. StoreInv => Whole
  <2> SUFFICES ASSUME StoreInv, NEW t \in Par!Threads, Par!SaveEnds(t), Par!Safe, NEW i \in Par!Params
               PROVE  ee[i].name = Registry[i].name /\ ee[i].value \in seen[i]
    BY Zenon
  <2>1. job[t].op = "save" /\ job[t].step = "end" /\ InFile(t)
    BY DEF Par!SaveEnds, Par!At, InFile
  <2>2. job[t].i = Len(Registry) + 1
    BY <2>1 DEF StoreInv, ParamInv, TurnInv
  <2>3. board = "bnap" \/ crossed = FALSE
    <3>1. crossed \in BOOLEAN
      BY Zenon DEF StoreInv, ParamInv, ParamTypes
    <3> QED
      BY <3>1, Zenon DEF Par!Safe
  <2>4. Done(t, i)
    BY <2>2, RegistryFacts DEF Done
  <2> QED
    BY <2>1, <2>3, <2>4 DEF StoreInv, WholeInv
<1>2. [](StoreInv) => [][Whole]_(Par!vars)
  BY <1>1, PTL
<1>3. SaveIsWhole <=> [][Whole]_(Par!vars)
  BY DEF SaveIsWhole, Par!SaveIsWhole
<1> QED
  BY <1>2, <1>3, StoreHolds, PTL
=============================================================================
