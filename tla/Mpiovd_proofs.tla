--------------------------- MODULE Mpiovd_proofs ---------------------------
(***************************************************************************)
(* Proofs about parts of the MPIOVD board.  TripStore, for any number of   *)
(* slots and any counter range: the inductive invariant TripInv says where *)
(* the newest value lies (NewestAt) and what the RAM knows of it           *)
(* (RamFollows); everything else follows from the fact that fsck stops     *)
(* right behind that slot.  Contacts, for a word of any length, and        *)
(* Telemetry, for any sensors and levels: what they report is made of what *)
(* the inputs were.  UsbShells, for any commands, and UsbCdc, for queues   *)
(* of any room: each port has one owner (ShellsInv), and the board and the *)
(* host agree on what the port is (CdcInv).  And AlphaBeta, at the end.    *)
(***************************************************************************)
EXTENDS MCMpiovd, SequenceTheorems, TLAPS

(* fsck finds the slot of the newest value: the scan ends right behind it, *)
(* or at slot 0 when that one is torn and the newest value is in the last. *)
LEMMA FsckFindsNewest ==
  ASSUME NEW n \in Slot, NewestAt(n),
         NEW tip \in 0 .. Slots, ScanEndsAt(tip)
  PROVE  SlotBefore(tip) = n
<1> USE TripStoreAssumption DEF Slot
<1>1. CASE n < Slots - 1
  <2>1. ScanPasses(n) /\ EndsScan(n + 1)
    BY <1>1 DEF NewestAt
  <2>2. ~(tip <= n)
    BY <1>1, <2>1 DEF ScanEndsAt, ScanPasses
  <2>3. ~(tip > n + 1)
    BY <1>1, <2>1 DEF ScanEndsAt
  <2> QED
    BY <2>2, <2>3 DEF SlotBefore
<1>2. CASE n = Slots - 1 /\ Torn(0)
  <2>1. EndsScan(0)
    BY <1>2 DEF EndsScan
  <2>2. ~(tip > 0)
    BY <2>1 DEF ScanEndsAt
  <2> QED
    BY <1>2, <2>2 DEF SlotBefore
<1>3. CASE n = Slots - 1 /\ ScanPasses(n)
  <2>1. ~(tip < Slots)
    BY <1>3 DEF ScanEndsAt, ScanPasses
  <2> QED
    BY <1>3, <2>1 DEF SlotBefore
<1> QED
  BY <1>1, <1>2, <1>3 DEF NewestAt

(* What __storage_start leaves in the RAM.                                 *)
LEMMA LoadsNewest ==
  ASSUME NEW n \in Slot, NewestAt(n), Load
  PROVE  pos' = n + 1 /\ trip' = durable /\ prev' = durable
<1>1. PICK tip \in 0 .. Slots : /\ ScanEndsAt(tip)
                                /\ pos' = SlotBefore(tip) + 1
                                /\ trip' = word2[SlotBefore(tip)]
  BY DEF Load
<1>2. SlotBefore(tip) = n
  BY <1>1, FsckFindsNewest
<1> QED
  BY <1>1, <1>2 DEF Load, NewestAt

(* Writing the first word tears the slot behind the newest one, and no     *)
(* other: a boot would still find the newest value.                        *)
LEMMA TearKeepsNewest ==
  ASSUME TypeOK, NEW n \in Slot, NewestAt(n),
         NEW w, w # word2[SlotAfter(n)],
         word1' = [word1 EXCEPT ![SlotAfter(n)] = w],
         word2' = word2, durable' = durable
  PROVE  NewestAt(n)' /\ Torn(SlotAfter(n))'
<1> USE TripStoreAssumption DEF Slot
<1> DEFINE m == SlotAfter(n)
<1>1. m \in Slot /\ m # n
  BY DEF SlotAfter
<1>2. word1'[m] = w /\ \A s \in Slot \ {m} : word1'[s] = word1[s]
  BY <1>1 DEF TypeOK
<1>3. Torn(m)'
  BY <1>2 DEF Torn
<1>4. \A s \in Slot \ {m} : Torn(s)' <=> Torn(s)
  BY <1>2 DEF Torn
<1>5. /\ word1'[n] = durable' /\ word2'[n] = durable'
      /\ \A s \in Slot : word2'[s] <= durable'
      /\ \A s \in Slot : Torn(s)' => s = m
  BY <1>1, <1>2, <1>4 DEF NewestAt
<1>6. CASE n < Slots - 1
  <2>1. m = n + 1
    BY <1>6 DEF SlotAfter
  <2>2. \A s \in 0 .. n : s \in Slot \ {m} /\ (s > 0 => s - 1 \in Slot \ {m})
    BY <1>6, <2>1
  <2>3. ScanPasses(n)
    BY <1>6 DEF NewestAt
  <2>4. \A s \in 0 .. n : ~EndsScan(s)'
    BY <1>2, <1>4, <2>2, <2>3 DEF ScanPasses, EndsScan
  <2>5. EndsScan(n + 1)'
    BY <1>3, <2>1 DEF EndsScan
  <2> QED
    BY <1>3, <1>5, <1>6, <2>4, <2>5 DEF NewestAt, ScanPasses
<1>7. CASE n = Slots - 1
  <2>1. m = 0
    BY <1>7 DEF SlotAfter
  <2> QED
    BY <1>3, <1>5, <1>7, <2>1 DEF NewestAt
<1> QED
  BY <1>6, <1>7

(* So does a second word that is cut short.                                *)
LEMMA HalfSecondKeepsNewest ==
  ASSUME TypeOK, NEW n \in Slot, NewestAt(n), durable \in Trips,
         Torn(SlotAfter(n)), word1[SlotAfter(n)] # Half2,
         word2' = [word2 EXCEPT ![SlotAfter(n)] = Half2],
         word1' = word1, durable' = durable
  PROVE  NewestAt(n)'
<1> USE TripStoreAssumption DEF Slot
<1> DEFINE m == SlotAfter(n)
<1>1. m \in Slot /\ m # n
  BY DEF SlotAfter
<1>2. word2'[m] = Half2 /\ \A s \in Slot \ {m} : word2'[s] = word2[s]
  BY <1>1 DEF TypeOK
<1>3. \A s \in Slot : Torn(s)' <=> Torn(s)
  BY <1>2 DEF Torn
<1>4. \A s \in Slot : word2'[s] <= durable'
  BY <1>2 DEF NewestAt, Half2, Trips
<1>5. \A s \in Slot : EndsScan(s)' <=> EndsScan(s)
  BY <1>3 DEF EndsScan
<1>6. word1'[n] = durable' /\ word2'[n] = durable'
  BY <1>1, <1>2 DEF NewestAt
<1>7. n < Slots - 1 => ScanPasses(n)' /\ EndsScan(n + 1)'
  BY <1>5 DEF NewestAt, ScanPasses
<1>8. n = Slots - 1 => Torn(0)' \/ ScanPasses(n)'
  BY <1>3, <1>5 DEF NewestAt, ScanPasses
<1> QED
  BY <1>3, <1>4, <1>6, <1>7, <1>8 DEF NewestAt

(* Writing the second word makes that slot the newest one: what it held,   *)
(* and what follows it, is older.                                          *)
LEMMA SaveMovesNewest ==
  ASSUME TypeOK, NEW n \in Slot, NewestAt(n), RamFollows(n), SaveSecond
  PROVE  NewestAt(SlotAfter(n))'
<1> USE TripStoreAssumption DEF Slot
<1> DEFINE m == SlotAfter(n)
           k == SlotAfter(m)
<1>1. m \in Slot /\ m # n /\ k \in Slot /\ k # m
  BY DEF SlotAfter
<1>2. pos = m /\ word1[m] = t /\ durable < t /\ t \in Int /\ durable \in Int
  BY DEF RamFollows, SaveSecond, TypeOK, Trips
<1>3. /\ word1' = word1 /\ durable' = t
      /\ word2'[m] = t /\ \A s \in Slot \ {m} : word2'[s] = word2[s]
  BY <1>1, <1>2 DEF SaveSecond, TypeOK
<1>4. \A s \in Slot : ~Torn(s)'
  <2> SUFFICES ASSUME NEW s \in Slot PROVE word1'[s] = word2'[s]
    BY DEF Torn
  <2>1. CASE s = m
    BY <1>2, <1>3, <2>1
  <2>2. CASE s # m
    <3>1. ~Torn(s)
      BY <2>2 DEF NewestAt
    <3> QED
      BY <1>3, <2>2, <3>1 DEF Torn
  <2> QED
    BY <2>1, <2>2
<1>5. \A s \in Slot : word2'[s] \in Int /\ word2'[s] <= t /\ (s # m => word2'[s] < t)
  <2> SUFFICES ASSUME NEW s \in Slot
               PROVE  word2'[s] \in Int /\ word2'[s] <= t /\ (s # m => word2'[s] < t)
    OBVIOUS
  <2>1. word2[s] \in Int /\ word2[s] <= durable
    BY DEF NewestAt, TypeOK, Trips, Half2
  <2> QED
    BY <1>2, <1>3, <2>1
<1>6. \A s \in Slot : word1'[s] = word2'[s]
  BY <1>4 DEF Torn
<1>7. ASSUME m < Slots - 1 PROVE EndsScan(m + 1)'
  <2>1. m + 1 \in Slot /\ m + 1 # m
    BY <1>1, <1>7
  <2>2. word1'[m + 1] < word1'[m]
    BY <1>1, <1>3, <1>5, <1>6, <2>1
  <2> QED
    BY <1>1, <2>2 DEF EndsScan
<1>8. ScanPasses(m)'
  <2>1. CASE m = 0
    BY <1>4, <2>1 DEF ScanPasses, EndsScan
  <2>2. CASE m # 0
    <3>1. m = n + 1 /\ n < Slots - 1
      BY <2>2 DEF SlotAfter
    <3>2. ScanPasses(n)
      BY <3>1 DEF NewestAt
    <3>3. ASSUME NEW s \in 0 .. m PROVE ~EndsScan(s)'
      <4>0. s \in Slot
        BY <1>1
      <4>1. CASE s = m
        <5>1. ~(word1'[m] < word1'[m - 1])
          BY <1>1, <1>3, <1>5, <1>6, <3>1
        <5> QED
          BY <1>4, <4>0, <4>1, <5>1 DEF EndsScan
      <4>2. CASE s # m
        <5>1. ~EndsScan(s)
          BY <3>1, <3>2, <4>2 DEF ScanPasses
        <5> QED
          BY <1>3, <1>4, <4>0, <5>1 DEF EndsScan
      <4> QED
        BY <4>1, <4>2
    <3> QED
      BY <3>3 DEF ScanPasses
  <2> QED
    BY <2>1, <2>2
<1> QED
  BY <1>1, <1>3, <1>4, <1>5, <1>6, <1>7, <1>8 DEF NewestAt

(* A file set to zero has its newest value, zero, in the last slot.        *)
LEMMA TripInit == Init => TypeOK /\ TripInv
<1> SUFFICES ASSUME Init PROVE TypeOK /\ TripInv
  OBVIOUS
<1> USE TripStoreAssumption DEF Slot
<1>1. TypeOK
  BY DEF Init, TypeOK, Trips
<1>2. NewestAt(Slots - 1)
  BY DEF Init, NewestAt, Torn, ScanPasses, EndsScan
<1>3. RamFollows(Slots - 1)
  BY DEF Init, RamFollows
<1> QED
  BY <1>1, <1>2, <1>3 DEF TripInv

(* A step that leaves the file alone leaves the newest value where it is.  *)
LEMMA FileKept ==
  ASSUME NEW n, NewestAt(n), UNCHANGED <<file, durable>>
  PROVE  NewestAt(n)'
BY DEF file, NewestAt, Torn, ScanPasses, EndsScan

(* "storage trip N" leaves N in slot 0, or zeros only.                     *)
LEMMA SetMakesNewest ==
  ASSUME CliSet
  PROVE  \E n \in Slot : NewestAt(n)'
<1> USE TripStoreAssumption DEF Slot
<1>1. PICK v \in Trips :
        /\ word1' = [s \in Slot |-> IF s = 0 THEN v ELSE 0]
        /\ word2' = [s \in Slot |-> IF s = 0 THEN v ELSE 0]
        /\ durable' = v
  BY DEF CliSet
<1>2. v \in Int /\ 0 <= v
  BY DEF Trips
<1>3. \A s \in Slot : /\ word1'[s] = IF s = 0 THEN v ELSE 0
                      /\ word2'[s] = IF s = 0 THEN v ELSE 0
                      /\ ~Torn(s)'
  BY <1>1 DEF Torn
<1>4. CASE v = 0
  <2>1. NewestAt(Slots - 1)'
    <3>1. ScanPasses(Slots - 1)'
      BY <1>3, <1>4 DEF ScanPasses, EndsScan
    <3> QED
      BY <1>1, <1>3, <1>4, <3>1 DEF NewestAt
  <2> QED
    BY <2>1
<1>5. CASE v > 0
  <2>1. ScanPasses(0)' /\ EndsScan(1)'
    BY <1>2, <1>3, <1>5 DEF ScanPasses, EndsScan
  <2>2. NewestAt(0)'
    BY <1>1, <1>2, <1>3, <1>5, <2>1 DEF NewestAt
  <2> QED
    BY <2>2
<1> QED
  BY <1>2, <1>4, <1>5

(* Each step of the counter keeps its type and its invariant.              *)
LEMMA TripGoes == TypeOK /\ TripInv /\ [Next]_vars => TypeOK' /\ TripInv'
<1> SUFFICES ASSUME TypeOK, TripInv, [Next]_vars PROVE TypeOK' /\ TripInv'
  OBVIOUS
<1> USE TripStoreAssumption
<1>0. PICK n \in Slot : NewestAt(n) /\ RamFollows(n)
  BY DEF TripInv
<1>a. SlotAfter(n) \in Slot /\ SlotAfter(n) # n
  BY DEF SlotAfter, Slot
<1>b. durable \in Trips /\ durable \in Int /\ trip \in Int /\ t \in Int /\ prev \in Int
  BY DEF TypeOK, Trips
<1>1. CASE Boot \/ Restart
  <2>1. pos' = n + 1 /\ trip' = durable /\ prev' = durable
    BY <1>0, <1>1, LoadsNewest DEF Boot, Restart
  <2>2. UNCHANGED <<file, t, durable>> /\ phase' = "run"
    BY <1>1 DEF Boot, Restart
  <2>3. TypeOK'
    BY <1>b, <2>1, <2>2 DEF TypeOK, file, Slot
  <2>4. NewestAt(n)'
    BY <1>0, <2>2, FileKept
  <2>5. RamFollows(n)'
    BY <1>b, <2>1, <2>2 DEF RamFollows
  <2> QED
    BY <2>3, <2>4, <2>5 DEF TripInv, Slot
<1>2. CASE Count
  <2>1. /\ UNCHANGED <<file, durable>> /\ UNCHANGED <<pos, prev, phase, t>>
        /\ trip' \in Trips /\ trip < trip'
    BY <1>2, <1>b DEF Count, TypeOK, Trips
  <2>2. TypeOK'
    BY <2>1 DEF TypeOK, file
  <2>3. NewestAt(n)'
    BY <1>0, <2>1, FileKept
  <2>4. RamFollows(n)'
    BY <1>0, <1>b, <2>1 DEF RamFollows, Torn, file, Trips
  <2> QED
    BY <2>2, <2>3, <2>4 DEF TripInv, Slot
<1>3. CASE SaveFirst
  <2>1. SaveSlot = SlotAfter(n) /\ durable < trip /\ prev = durable
    BY <1>0, <1>3, <1>b DEF SaveFirst, Changed, SaveSlot, SlotAfter, RamFollows, Slot
  <2>2. /\ word1' = [word1 EXCEPT ![SlotAfter(n)] = trip]
        /\ UNCHANGED <<word2, durable, trip, prev>>
        /\ pos' = SlotAfter(n) /\ t' = trip /\ phase' = "saving"
    BY <1>3, <2>1 DEF SaveFirst
  <2>3. TypeOK'
    BY <1>a, <2>2 DEF TypeOK, Slot
  <2>4. trip # word2[SlotAfter(n)]
    <3>1. word2[SlotAfter(n)] \in Int /\ word2[SlotAfter(n)] <= durable
      BY <1>0, <1>a DEF NewestAt, TypeOK, Trips, Half2
    <3> QED
      BY <1>b, <2>1, <3>1
  <2>5. NewestAt(n)' /\ Torn(SlotAfter(n))'
    BY <1>0, <2>2, <2>4, TearKeepsNewest
  <2>6. Torn(pos)' /\ word1'[pos'] = t'
    BY <1>a, <2>2, <2>5 DEF Torn, TypeOK
  <2>7. RamFollows(n)'
    BY <1>b, <2>1, <2>2, <2>6 DEF RamFollows, SlotAfter
  <2> QED
    BY <2>3, <2>5, <2>7 DEF TripInv, Slot
<1>4. CASE SaveSecond
  <2>1. NewestAt(SlotAfter(n))'
    BY <1>0, <1>4, SaveMovesNewest
  <2>2. pos = SlotAfter(n) /\ t <= trip
    BY <1>0, <1>4 DEF RamFollows, SaveSecond
  <2>3. TypeOK'
    BY <1>4, <1>a, <2>2 DEF SaveSecond, TypeOK, Slot
  <2>4. RamFollows(SlotAfter(n))'
    BY <1>4, <1>b, <2>2 DEF SaveSecond, RamFollows
  <2> QED
    BY <1>a, <2>1, <2>3, <2>4 DEF TripInv, Slot
<1>5. CASE Stop
  <2>1. UNCHANGED <<file, durable>> /\ UNCHANGED <<pos, trip, prev, t>> /\ phase' = "stopped"
    BY <1>5 DEF Stop, ram
  <2>2. TypeOK'
    BY <2>1 DEF TypeOK, file
  <2>3. NewestAt(n)'
    BY <1>0, <2>1, FileKept
  <2>4. RamFollows(n)'
    BY <2>1 DEF RamFollows
  <2> QED
    BY <2>2, <2>3, <2>4 DEF TripInv, Slot
<1>6. CASE CliSet
  <2>1. PICK m \in Slot : NewestAt(m)'
    BY <1>6, SetMakesNewest
  <2>2. phase' = "stopped" /\ UNCHANGED <<pos, trip, prev, t>>
    BY <1>6 DEF CliSet, ram
  <2>3. TypeOK'
    BY <1>6, <2>2 DEF CliSet, TypeOK, Trips
  <2>4. RamFollows(m)'
    BY <2>2 DEF RamFollows
  <2> QED
    BY <2>1, <2>3, <2>4 DEF TripInv, Slot
<1>7. CASE PowerLoss
  <2>1. UNCHANGED <<file, durable>> /\ phase' = "off" /\ pos' = 0 /\ trip' = 0 /\ prev' = 0 /\ t' = 0
    BY <1>7 DEF PowerLoss, Reset
  <2>2. TypeOK'
    BY <2>1 DEF TypeOK, file, Trips
  <2>3. NewestAt(n)'
    BY <1>0, <2>1, FileKept
  <2>4. RamFollows(n)'
    BY <2>1 DEF RamFollows
  <2> QED
    BY <2>2, <2>3, <2>4 DEF TripInv, Slot
<1>8. CASE PowerLossInFirst
  <2>1. SaveSlot = SlotAfter(n)
    BY <1>0, <1>8 DEF PowerLossInFirst, SaveSlot, SlotAfter, RamFollows, Slot
  <2>2. /\ word1' = [word1 EXCEPT ![SlotAfter(n)] = Half1]
        /\ UNCHANGED <<word2, durable>>
        /\ phase' = "off" /\ pos' = 0 /\ trip' = 0 /\ prev' = 0 /\ t' = 0
    BY <1>8, <2>1 DEF PowerLossInFirst, Reset
  <2>3. TypeOK'
    BY <1>a, <2>2 DEF TypeOK, Trips
  <2>4. Half1 # word2[SlotAfter(n)]
    BY <1>a DEF TypeOK, Trips, Half1, Half2
  <2>5. NewestAt(n)'
    BY <1>0, <2>2, <2>4, TearKeepsNewest
  <2>6. RamFollows(n)'
    BY <2>2 DEF RamFollows
  <2> QED
    BY <2>3, <2>5, <2>6 DEF TripInv, Slot
<1>9. CASE PowerLossInSecond
  <2>1. pos = SlotAfter(n) /\ Torn(pos)
    BY <1>0, <1>9 DEF PowerLossInSecond, RamFollows
  <2>2. /\ word2' = [word2 EXCEPT ![SlotAfter(n)] = Half2]
        /\ UNCHANGED <<word1, durable>>
        /\ phase' = "off" /\ pos' = 0 /\ trip' = 0 /\ prev' = 0 /\ t' = 0
    BY <1>9, <2>1 DEF PowerLossInSecond, Reset
  <2>3. TypeOK'
    BY <1>a, <2>2 DEF TypeOK, Trips
  <2>4. word1[SlotAfter(n)] # Half2
    BY <1>a DEF TypeOK, Trips, Half1, Half2
  <2>5. NewestAt(n)'
    BY <1>0, <1>b, <2>1, <2>2, <2>4, HalfSecondKeepsNewest
  <2>6. RamFollows(n)'
    BY <2>2 DEF RamFollows
  <2> QED
    BY <2>3, <2>5, <2>6 DEF TripInv, Slot
<1>10. CASE UNCHANGED vars
  <2>1. UNCHANGED <<file, durable>>
    BY <1>10 DEF vars
  <2>2. TypeOK'
    BY <1>10 DEF vars, file, ram, TypeOK
  <2>3. NewestAt(n)'
    BY <1>0, <2>1, FileKept
  <2>4. RamFollows(n)'
    BY <1>0, <1>10 DEF vars, file, ram, RamFollows, Torn
  <2> QED
    BY <2>2, <2>3, <2>4 DEF TripInv, Slot
<1> QED
  BY <1>1, <1>2, <1>3, <1>4, <1>5, <1>6, <1>7, <1>8, <1>9, <1>10 DEF Next

(* The counter stays in its range, the position in the file, and the file  *)
(* always has its newest value where fsck looks for it.                    *)
THEOREM TripCorrect == Spec => [](TypeOK /\ TripInv)
<1>1. Init => TypeOK /\ TripInv
  BY TripInit
<1>2. TypeOK /\ TripInv /\ [Next]_vars => TypeOK' /\ TripInv'
  BY TripGoes
<1> QED
  BY <1>1, <1>2, PTL DEF Spec

(* After any power failure that did not hit "storage trip N", in or        *)
(* between the two writes of a value included, the counter is loaded with  *)
(* the last value that was written twice.                                  *)
THEOREM LoadCorrect == Spec => LoadRestores
<1>1. TripInv /\ [Next]_vars => (Loaded => trip' = durable)
  <2> SUFFICES ASSUME TripInv, [Next]_vars, Loaded PROVE trip' = durable
    OBVIOUS
  <2>1. PICK n \in Slot : NewestAt(n)
    BY DEF TripInv
  <2>2. Boot \/ Restart
    BY DEF Next, Loaded, Count, SaveFirst, SaveSecond, Stop, CliSet, PowerLoss,
           PowerLossInFirst, PowerLossInSecond, Reset, vars, ram
  <2>3. Load
    BY <2>2 DEF Boot, Restart
  <2> QED
    BY <2>1, <2>3, LoadsNewest
<1>2. TripInv /\ [Next]_vars => [Loaded => trip' = durable]_vars
  BY <1>1
<1> QED
  BY <1>2, TripCorrect, PTL DEF Spec, LoadRestores

(* Each step of the counter is a step of Odometer, or none.                *)
LEMMA OdometerStep ==
  ASSUME TypeOK, TripInv, [Next]_vars
  PROVE  [Abstract!Next]_(Abstract!vars)
<1> USE DEF Abstract!Next, Abstract!vars
<1>0. PICK n \in Slot : NewestAt(n) /\ RamFollows(n)
  BY DEF TripInv
<1>a. durable \in Int /\ durable >= 0 /\ trip \in Int /\ t \in Int
  BY DEF TypeOK, Trips
<1>1. CASE Boot \/ Restart
  <2>1. trip' = durable /\ durable' = durable /\ phase' = "run"
    BY <1>0, <1>1, LoadsNewest DEF Boot, Restart
  <2> QED
    BY <2>1 DEF Abstract!Load
<1>2. CASE Count
  <2>1. phase # "off" /\ phase' = phase /\ durable' = durable /\ trip' >= trip
    BY <1>2, <1>a DEF Count, Trips, TypeOK
  <2> QED
    BY <2>1 DEF Abstract!Count
<1>3. CASE SaveFirst \/ Stop
  BY <1>3 DEF SaveFirst, Stop, ram
<1>4. CASE SaveSecond
  <2>1. phase = "saving" /\ phase' = "run" /\ trip' = trip /\ durable' = t
    BY <1>4 DEF SaveSecond
  <2>2. durable' \in durable .. trip
    BY <1>0, <1>a, <2>1 DEF RamFollows
  <2> QED
    BY <2>1, <2>2 DEF Abstract!Save
<1>5. CASE CliSet
  <2>1. phase = "stopped" /\ phase' = phase /\ trip' = trip /\ durable' >= 0
    BY <1>5 DEF CliSet, ram, Trips
  <2> QED
    BY <2>1 DEF Abstract!SetTo
<1>6. CASE PowerLoss \/ PowerLossInFirst \/ PowerLossInSecond
  <2>1. phase' = "off" /\ phase # "off" /\ durable' = durable
    BY <1>6 DEF PowerLoss, PowerLossInFirst, PowerLossInSecond, Reset
  <2> QED
    BY <2>1 DEF Abstract!PowerLoss
<1>7. CASE UNCHANGED vars
  BY <1>7 DEF vars, ram
<1> QED
  BY <1>1, <1>2, <1>3, <1>4, <1>5, <1>6, <1>7 DEF Next

(* The counter in its ring of slots, with its two words and its scan,      *)
(* implements Odometer.  While the power is off its value is what is       *)
(* stored: a power failure forgets what was counted since the last save.   *)
THEOREM CounterImplementsOdometer == Spec => ImplementsOdometer
<1>1. Init => Abstract!Init
  BY DEF Init, Abstract!Init
<1>2. TypeOK /\ TripInv /\ [Next]_vars => [Abstract!Next]_(Abstract!vars)
  BY OdometerStep
<1> QED
  BY <1>1, <1>2, TripCorrect, PTL DEF Spec, ImplementsOdometer, Abstract!Spec

-----------------------------------------------------------------------------
(* The sensors.  Contacts (Input here), for every width of a word and      *)
(* every wiring: of the sweeps that went on while the check voltage was    *)
(* on, one at most gets into the filters in each cycle of the thread.      *)
(* AlphaBeta (Dsp here), for every rest, sample, length and width of the   *)
(* accumulator with room for them: a filter whose accumulator is in the    *)
(* range of its length stays there, whatever the samples are.              *)
(* While the flag is set no sweep is filtered.  The voltage goes on after  *)
(* the flag is set and off before it is cleared, so that only the sweep    *)
(* that goes on then can still have seen it; once that was filtered the    *)
(* sweep is clean.                                                         *)
GateInv ==
  /\ leaked \in {0, 1}
  /\ pin => step \in {"powered", "read"}
  /\ step \in {"flagged", "powered", "read", "off"} => flag /\ leaked = 0
  /\ leaked = 1 => sweep # "powered"

(* The first sweep of the ADC sees no voltage.                             *)
LEMMA GateInit == Input!Init => GateInv
BY DEF Input!Init, GateInv

(* Neither a step of the thread (spi_local.c:141-160) nor the interrupt of *)
(* the ADC (adc_local.c:134-142) breaks it.                                *)
LEMMA GateStep == GateInv /\ [Input!Next]_(Input!vars) => GateInv'
<1> SUFFICES ASSUME GateInv, [Input!Next]_(Input!vars)
             PROVE  GateInv'
  OBVIOUS
<1> USE DEF GateInv, Input!Goes, Input!inputs, Input!readings, Input!analog
<1>1. CASE Input!SetsFlag
  BY <1>1 DEF Input!SetsFlag
<1>2. CASE Input!SetsPin
  BY <1>2 DEF Input!SetsPin, Input!Powered
<1>3. CASE Input!ReadsPowered
  BY <1>3 DEF Input!ReadsPowered
<1>4. CASE Input!ClearsPin
  BY <1>4 DEF Input!ClearsPin
<1>5. CASE Input!ClearsFlag
  BY <1>5 DEF Input!ClearsFlag
<1>6. CASE Input!ReadsUnpowered
  BY <1>6 DEF Input!ReadsUnpowered
<1>7. CASE Input!Normalize
  BY <1>7 DEF Input!Normalize
<1>8. CASE Input!Sweep
  BY <1>8 DEF Input!Sweep, Input!GateIsOpen
<1>9. CASE Input!Move
  BY <1>9 DEF Input!Move
<1>10. CASE UNCHANGED Input!vars
  BY <1>10 DEF Input!vars
<1> QED
  BY <1>1, <1>2, <1>3, <1>4, <1>5, <1>6, <1>7, <1>8, <1>9, <1>10 DEF Input!Next

(* adc_local.c:136, discrete.h:8-9: wherever the interrupt comes between   *)
(* two steps of the thread, at most one sweep with the check voltage on is *)
(* filtered in a cycle.                                                    *)
THEOREM GateCorrect == Input!Spec => []Input!OnePoweredSweep
<1>1. GateInv => Input!OnePoweredSweep
  BY DEF GateInv, Input!OnePoweredSweep
<1> QED
  BY <1>1, GateInit, GateStep, PTL DEF Input!Spec

-----------------------------------------------------------------------------
(* The contacts.  What is read is what is on the wires: the two turns of   *)
(* the wiring and the lateness of the SPI cancel out.                      *)
(* A quotient is the only one with a rest below the divisor.               *)
LEMMA OneQuotient ==
  ASSUME NEW d \in Nat \ {0}, NEW q \in Int, NEW r \in 0 .. d - 1
  PROVE  (d * q + r) \div d = q /\ (d * q + r) % d = r
<1> DEFINE x == d * q + r
           k == x \div d
           m == x % d
<1>1. x \in Int /\ k \in Int /\ m \in 0 .. d - 1 /\ x = d * k + m
  OBVIOUS
<1>2. d * q + r = d * k + m
  BY <1>1
<1> HIDE DEF k, m
<1>3. k = q
  <2>1. CASE k > q
    <3>1. d * (k - q) >= d
      BY <1>1, <2>1
    <3>2. d * (k - q) = d * k - d * q /\ d * k \in Int /\ d * q \in Int
      BY <1>1
    <3> QED
      BY <1>1, <1>2, <3>1, <3>2
  <2>2. CASE k < q
    <3>1. d * (q - k) >= d
      BY <1>1, <2>2
    <3>2. d * (q - k) = d * q - d * k /\ d * k \in Int /\ d * q \in Int
      BY <1>1
    <3> QED
      BY <1>1, <1>2, <3>1, <3>2
  <2> QED
    BY <1>1, <2>1, <2>2
<1>4. m = r
  <2>1. d * k = d * q /\ d * q \in Int
    BY <1>3
  <2> QED
    BY <1>1, <1>2, <2>1
<1> QED
  BY <1>3, <1>4 DEF k, m

(* The wiring turns each group round, and twice is not at all.             *)
LEMMA MirrorTurns ==
  ASSUME NEW i \in Input!Bits
  PROVE  Input!Mirror(i) \in Input!Bits /\ Input!Mirror(Input!Mirror(i)) = i
<1> DEFINE q == i \div Group
           r == i % Group
           n == Word \div Group
<1>1. Group \in Nat \ {0} /\ Word \in Nat /\ Word % Group = 0
  BY WordConstants DEF Input!WordAssumption
<1>2. i \in Nat /\ i < Word
  BY <1>1 DEF Input!Bits
<1>3. q \in Nat /\ r \in 0 .. Group - 1 /\ i = Group * q + r /\ n \in Nat /\ Word = Group * n
  BY <1>1, <1>2
<1>4. Input!Mirror(i) = Group * q + Group - 1 - r
  BY DEF Input!Mirror
<1> HIDE DEF q, r, n
<1>5. Group - 1 - r \in 0 .. Group - 1
  BY <1>1, <1>3
<1>6. Input!Mirror(i) = Group * q + (Group - 1 - r) /\ Group * q \in Nat
  BY <1>1, <1>3, <1>4
<1>7. Input!Mirror(i) \div Group = q /\ Input!Mirror(i) % Group = Group - 1 - r
  <2> DEFINE low == Group - 1 - r
  <2>1. low \in 0 .. Group - 1
    BY <1>5
  <2> HIDE DEF low
  <2>2. (Group * q + low) \div Group = q /\ (Group * q + low) % Group = low
    <3>1. q \in Int
      BY <1>3
    <3> QED
      BY <1>1, <2>1, <3>1, OneQuotient, Zenon
  <2> QED
    BY <1>6, <2>2, Zenon DEF low
<1>8. Input!Mirror(Input!Mirror(i)) = Group * q + Group - 1 - (Group - 1 - r)
  BY <1>7 DEF Input!Mirror
<1>9. q < n
  <2>1. ASSUME q >= n PROVE FALSE
    <3>1. Group * q >= Group * n
      BY <1>1, <1>3, <2>1
    <3> QED
      BY <1>2, <1>3, <1>6, <3>1
  <2> QED
    BY <1>3, <2>1
<1>10. Group * q + Group <= Word
  <2>1. Group * (q + 1) <= Group * n
    BY <1>1, <1>3, <1>9
  <2>2. Group * (q + 1) = Group * q + Group
    BY <1>1, <1>3
  <2> QED
    BY <1>3, <2>1, <2>2
<1>11. Input!Mirror(i) \in Input!Bits
  BY <1>1, <1>5, <1>6, <1>10 DEF Input!Bits
<1> QED
  BY <1>1, <1>3, <1>6, <1>8, <1>11

LEMMA ReorderedTwice ==
  ASSUME NEW v \in SUBSET Input!Bits
  PROVE  Input!Reordered(v) \subseteq Input!Bits /\ Input!Reordered(Input!Reordered(v)) = v
BY MirrorTurns DEF Input!Reordered

(* No two bits come at one place, though the last of a byte is late.       *)
LEMMA LateIsApart ==
  ASSUME NEW p \in Input!Bits, NEW q \in Input!Bits,
         p + (IF Input!LastOfByte(p) THEN Byte ELSE 0) = q + (IF Input!LastOfByte(q) THEN Byte ELSE 0)
  PROVE  p = q
<1>1. Byte \in Nat \ {0} /\ p \in Nat /\ q \in Nat
  BY WordConstants DEF Input!WordAssumption, Input!Bits
<1>2. ASSUME NEW a \in Nat PROVE (a + Byte) % Byte = a % Byte
  <2> DEFINE k == a \div Byte
             m == a % Byte
  <2>1. k \in Nat /\ m \in 0 .. Byte - 1 /\ a = Byte * k + m
    BY <1>1
  <2> HIDE DEF k, m
  <2>2. a + Byte = Byte * (k + 1) + m
    BY <1>1, <2>1
  <2>3. (Byte * (k + 1) + m) % Byte = m
    BY <1>1, <2>1, OneQuotient
  <2> QED
    BY <2>2, <2>3 DEF m
<1>3. CASE Input!LastOfByte(p) <=> Input!LastOfByte(q)
  BY <1>1, <1>3
<1>4. ASSUME Input!LastOfByte(p), ~Input!LastOfByte(q) PROVE FALSE
  <2>1. q = p + Byte
    BY <1>1, <1>4
  <2> QED
    BY <1>1, <1>2, <1>4, <2>1 DEF Input!LastOfByte
<1>5. ASSUME Input!LastOfByte(q), ~Input!LastOfByte(p) PROVE FALSE
  <2>1. p = q + Byte
    BY <1>1, <1>5
  <2> QED
    BY <1>1, <1>2, <1>5, <2>1 DEF Input!LastOfByte
<1> QED
  BY <1>3, <1>4, <1>5

(* The workaround gives back what the SPI has made of a word.              *)
LEMMA LiftedBack ==
  ASSUME NEW v \in SUBSET Input!Bits
  PROVE  Input!Lifted(Input!Received(v)) = v
<1>1. CASE inputs_settings.late
  <2> DEFINE Place(p) == p + (IF Input!LastOfByte(p) THEN Byte ELSE 0)
  <2>1. \A p, q \in Input!Bits : Place(p) = Place(q) => p = q
    BY LateIsApart
  <2>2. /\ Input!Received(v) = {Place(p) : p \in v}
        /\ \A w : Input!Lifted(w) = {p \in Input!Bits : Place(p) \in w}
    BY <1>1 DEF Input!Received, Input!Lifted
  <2> HIDE DEF Place
  <2> QED
    BY <2>1, <2>2
<1>2. CASE ~inputs_settings.late
  BY <1>2 DEF Input!Received, Input!Lifted
<1> QED
  BY <1>1, <1>2

(* spi_local.c:54-118: what is read is what is on the wires.               *)
LEMMA ReadsTheLine == Input!Reordered(Input!Reading) = Input!Line
<1>1. Input!Line \in SUBSET Input!Bits
  BY DEF Input!Line
<1>2. Input!Reading = Input!Reordered(Input!Line)
  BY <1>1, ReorderedTwice, LiftedBack DEF Input!Reading
<1> QED
  BY <1>1, <1>2, ReorderedTwice

(* What a contact that has not moved in this cycle was read as.            *)
ContactInv ==
  /\ contact \in [Input!Bits -> Input!Positions]
  /\ steady \subseteq Input!Bits
  /\ inputs_settings.test \in 0 .. 3
  /\ pin <=> step \in {"powered", "read"}
  /\ step \in {"read", "off", "cleared", "last"} =>
       \A i \in steady : i \in Input!Reordered(z_off) <=> contact[i] # "gnd"
  /\ step = "last" =>
       \A i \in steady : i \in Input!Reordered(z_on) <=> contact[i] = "vcc"
  /\ Input!OpenContactsAreReported

LEMMA ContactStart == Input!Init => ContactInv
BY DEF Input!Init, ContactInv, Input!OpenContactsAreReported, Input!Judged, Input!Settings

(* discrete.c:62-82: two readings that agree with the contact make the     *)
(* alarm of it.                                                            *)
LEMMA NormalizedRightly ==
  ASSUME inputs_settings.test \in 0 .. 3,
         NEW i \in Input!Bits, contact[i] \in Input!Positions, NEW on, NEW off,
         i \in on <=> contact[i] = "vcc", i \in off <=> contact[i] # "gnd",
         Input!Norm(i) # {},
         inputs_settings.test # 0 \/ Input!Norm(i) = {"open"}
  PROVE  (i \in Input!Normalized(on, off)) <=> (contact[i] \notin Input!Norm(i))
<1> DEFINE m == inputs_settings.masks
<1>1. /\ i \in on \cap off <=> contact[i] = "vcc"
      /\ i \in Input!Bits \ (on \cup off) <=> contact[i] = "gnd"
      /\ i \in Input!SymDiff(on, off) <=> contact[i] = "open"
  BY DEF Input!SymDiff, Input!Positions
<1>2. CASE inputs_settings.test = 0
  <2>1. Input!Norm(i) = {"open"}
    BY <1>2
  <2>2. /\ Input!MasksAreSound(m)
        /\ {p \in Input!Positions :
              i \notin (CASE p = "open" -> m.z [] p = "gnd" -> m.gnd [] p = "vcc" -> m.vcc)} = {"open"}
    BY <1>2, <2>1 DEF Input!Norm
  <2>3. i \notin m.z /\ i \in m.gnd /\ i \in m.vcc
    BY <2>2 DEF Input!Positions
  <2>4. Input!Normalized(on, off) =
          ((on \cap off) \ m.vcc) \cup ((Input!Bits \ (on \cup off)) \ m.gnd)
            \cup (Input!Bits \ (Input!SymDiff(on, off) \ m.z))
    BY <1>2, <2>2 DEF Input!Normalized
  <2> QED
    BY <1>1, <2>1, <2>3, <2>4
<1>3. CASE inputs_settings.test = 1
  <2>1. Input!Norm(i) = {"open"}
    BY <1>3 DEF Input!Norm
  <2>2. Input!Normalized(on, off) = (on \cap off) \cup (Input!Bits \ (on \cup off))
    BY <1>3 DEF Input!Normalized
  <2> QED
    BY <1>1, <2>1, <2>2 DEF Input!Positions
<1>4. CASE inputs_settings.test = 2
  <2>1. Input!Norm(i) = {"vcc"}
    BY <1>4 DEF Input!Norm
  <2>2. Input!Normalized(on, off) = (Input!Bits \ (on \cup off)) \cup Input!SymDiff(on, off)
    BY <1>4 DEF Input!Normalized
  <2> QED
    BY <1>1, <2>1, <2>2 DEF Input!Positions
<1>5. CASE inputs_settings.test = 3
  <2>1. Input!Norm(i) = {"gnd"}
    BY <1>5 DEF Input!Norm
  <2>2. Input!Normalized(on, off) = (on \cap off) \cup Input!SymDiff(on, off)
    BY <1>5 DEF Input!Normalized
  <2> QED
    BY <1>1, <2>1, <2>2 DEF Input!Positions
<1> QED
  BY <1>2, <1>3, <1>4, <1>5

LEMMA ContactStep == ContactInv /\ [Input!Next]_inputs => ContactInv'
<1> SUFFICES ASSUME ContactInv, [Input!Next]_inputs PROVE ContactInv'
  OBVIOUS
<1> USE DEF ContactInv, Input!Goes, Input!OpenContactsAreReported, Input!Judged,
  Input!ReportedRightly
<1>r. ASSUME UNCHANGED <<inputs_settings, z_on>> PROVE Input!Reordered(z_on)' = Input!Reordered(z_on)
  BY <1>r DEF Input!Reordered
<1>s. ASSUME UNCHANGED <<inputs_settings, z_off>> PROVE Input!Reordered(z_off)' = Input!Reordered(z_off)
  BY <1>s DEF Input!Reordered
<1>n. ASSUME UNCHANGED inputs_settings, NEW i PROVE Input!Norm(i)' = Input!Norm(i)
  BY <1>n DEF Input!Norm
<1>1. CASE Input!SetsFlag
  BY <1>1 DEF Input!SetsFlag, Input!readings
<1>2. CASE Input!SetsPin
  BY <1>2 DEF Input!SetsPin, Input!Powered, Input!inputs, Input!readings
<1>3. CASE Input!ReadsPowered
  <2>1. Input!Reordered(z_off)' = Input!Line
    BY <1>3, ReadsTheLine DEF Input!ReadsPowered, Input!Reordered, Input!inputs
  <2>2. \A i \in Input!Bits : i \in Input!Line <=> contact[i] # "gnd"
    BY <1>3 DEF Input!ReadsPowered, Input!Line, Input!Positions
  <2> QED
    BY <1>3, <2>1, <2>2 DEF Input!ReadsPowered, Input!inputs, Input!analog
<1>4. CASE Input!ClearsPin
  BY <1>4, <1>s DEF Input!ClearsPin, Input!inputs, Input!readings
<1>5. CASE Input!ClearsFlag
  BY <1>5, <1>s DEF Input!ClearsFlag, Input!inputs, Input!readings
<1>6. CASE Input!ReadsUnpowered
  <2>1. Input!Reordered(z_on)' = Input!Line
    BY <1>6, ReadsTheLine DEF Input!ReadsUnpowered, Input!Reordered, Input!inputs
  <2>2. \A i \in Input!Bits : i \in Input!Line <=> contact[i] = "vcc"
    BY <1>6 DEF Input!ReadsUnpowered, Input!Line, Input!Positions
  <2> QED
    BY <1>6, <1>s, <2>1, <2>2 DEF Input!ReadsUnpowered, Input!inputs, Input!analog
<1>7. CASE Input!Normalize
  <2>1. /\ step = "last" /\ step' = "sleep" /\ UNCHANGED <<contact, inputs_settings, steady, pin>>
        /\ discrete' = Input!Normalized(Input!Reordered(z_on), Input!Reordered(z_off))
    BY <1>7 DEF Input!Normalize, Input!inputs, Input!analog
  <2>2. Input!OpenContactsAreReported'
    BY <2>1, <1>n, NormalizedRightly
  <2> QED
    BY <2>1, <2>2
<1>8. CASE Input!Sweep
  BY <1>8, <1>r, <1>s, <1>n DEF Input!Sweep, Input!inputs, Input!readings
<1>9. CASE Input!Move
  BY <1>9, <1>r, <1>s, <1>n DEF Input!Move, Input!readings, Input!analog
<1>10. CASE UNCHANGED inputs
  BY <1>10, <1>r, <1>s, <1>n DEF inputs
<1> QED
  BY <1>1, <1>2, <1>3, <1>4, <1>5, <1>6, <1>7, <1>8, <1>9, <1>10 DEF Input!Next

-----------------------------------------------------------------------------
(* The analog inputs.  What there was since the round began is in seen,    *)
(* and what the round has made so far is made of it.                       *)
Inputs == [supply : Supplies, input : [Sensors -> Levels], period : 0 .. 65535]

Made(b) ==
  struct.analog[b] \in {Tlm!Resistance(u.input[b], v.supply) : u \in seen, v \in seen}

VoltageMade ==
  struct.voltage \in {Tlm!Voltage(u.supply, Tlm!Drawn(v)) : u \in seen, v \in seen}

RpmMade == struct.rpm \in {Tlm!get_engine_rpm(u.period) : u \in seen}

CanInv == thread \in [Tlm!Readers -> {"none", "runs", "told"}] /\ Tlm!NoFrameWithoutCan

RoundInv ==
  /\ DOMAIN struct = {"voltage", "analog", "speed", "rpm"} /\ DOMAIN struct.analog = Sensors
  /\ tlm \in {"sleep", "voltage", "sum", "take", "make", "rest"}
  /\ sensor \in Sensors
  /\ seen # {} => Tlm!Sources(raw) \in seen
  /\ tlm # "sleep" => seen # {}
  /\ tlm = "sum" => \E u \in seen : arg = u.supply
  /\ tlm \in {"take", "make", "rest"} => VoltageMade
  /\ tlm \in {"take", "make"} => \A b \in Sensors : b < sensor => Made(b)
  /\ tlm = "make" => \E u \in seen : arg = u.input[sensor]
  /\ tlm = "rest" => \A b \in Sensors : Made(b)
  /\ tlm = "sleep" /\ seen # {} => VoltageMade /\ RpmMade /\ \A b \in Sensors : Made(b)
  /\ CanInv

LEMMA SensorFacts ==
  /\ Tlm!Last \in Nat \ {0} /\ Sensors = 1 .. Tlm!Last /\ 1 \in Sensors /\ Tlm!Last \in Sensors
  /\ Supplies \subseteq Nat /\ Levels \subseteq Nat
<1>1. /\ \E n \in Sensors : n \in Nat \ {0} /\ Sensors = 1 .. n
      /\ Supplies \cup Levels \cup Words \subseteq Nat
  <2>1. Tlm!TelemetryAssumption
    BY TelemetryConstants
  <2>2. \E n \in Sensors : n \in Nat \ {0} /\ Sensors = 1 .. n
    BY <2>1, Zenon DEF Tlm!TelemetryAssumption
  <2>3. Supplies \cup Levels \cup Words \subseteq Nat
    BY <2>1, Zenon DEF Tlm!TelemetryAssumption
  <2> QED
    BY <2>2, <2>3
<1>2. PICK n \in Sensors : n \in Nat \ {0} /\ Sensors = 1 .. n
  BY <1>1
<1>3. Tlm!Last = n
  BY <1>2 DEF Tlm!Last, Tlm!Max
<1> QED
  BY <1>1, <1>2, <1>3

LEMMA RoundStart == Tlm!Init => RoundInv
BY SensorFacts DEF Tlm!Init, RoundInv, CanInv, Tlm!NoFrameWithoutCan, Tlm!Readers

(* An interrupt adds to what there was, and takes nothing away.            *)
LEMMA RawChanges ==
  ASSUME RoundInv, NEW new, Tlm!Changed(new)
  PROVE  RoundInv'
<1>1. /\ raw' = new /\ UNCHANGED <<struct, tlm, sensor, arg, thread, at, can>>
      /\ seen' = IF seen = {} THEN {} ELSE seen \cup {Tlm!Sources(new)}
  BY DEF Tlm!Changed, Tlm!tlmvars, Tlm!readervars
<1>2. CASE seen = {}
  BY <1>1, <1>2 DEF RoundInv, CanInv, Tlm!NoFrameWithoutCan
<1>3. CASE seen # {}
  <2>1. seen \subseteq seen' /\ Tlm!Sources(raw)' \in seen' /\ seen' # {}
    BY <1>1, <1>3 DEF Tlm!Sources
  <2>2. /\ VoltageMade => VoltageMade'
        /\ RpmMade => RpmMade'
        /\ \A b \in Sensors : Made(b) => Made(b)'
    BY <1>1, <2>1 DEF VoltageMade, RpmMade, Made
  <2> HIDE DEF VoltageMade, RpmMade, Made
  <2> QED
    BY <1>1, <1>3, <2>1, <2>2 DEF RoundInv, CanInv, Tlm!NoFrameWithoutCan
<1> QED
  BY <1>2, <1>3

LEMMA SourcesDraw == Tlm!Drawn(Tlm!Sources(raw)) = Tlm!Drawn(raw)
BY DEF Tlm!Drawn, Tlm!Sources

(* mavsender.c:62-72, adc_local.c:140-176: one step of a round.            *)
LEMMA RoundGoes ==
  ASSUME RoundInv, Tlm!Wakes \/ Tlm!TakesSupply \/ Tlm!MakesVoltage \/ Tlm!Takes \/ Tlm!MakesAnalog \/ Tlm!MakesRest
  PROVE  RoundInv'
<1> USE DEF Tlm!readervars
<1>0. CanInv'
  BY DEF RoundInv, CanInv, Tlm!NoFrameWithoutCan, Tlm!Wakes, Tlm!TakesSupply, Tlm!MakesVoltage, Tlm!Takes,
    Tlm!MakesAnalog, Tlm!MakesRest
<1>1. CASE Tlm!Wakes
  BY <1>0, <1>1, SensorFacts DEF RoundInv, Tlm!Wakes, Tlm!Sources
<1>2. CASE Tlm!TakesSupply
  <2>1. arg' = Tlm!Sources(raw).supply
    BY <1>2 DEF Tlm!TakesSupply, Tlm!Sources
  <2> QED
    BY <1>0, <1>2, <2>1 DEF RoundInv, Tlm!TakesSupply, Tlm!Sources
<1>3. CASE Tlm!MakesVoltage
  <2>1. /\ tlm = "sum" /\ tlm' = "take" /\ sensor' = 1
        /\ struct' = [struct EXCEPT !.voltage = Tlm!Voltage(arg, Tlm!Drawn(raw))]
        /\ UNCHANGED <<raw, arg, seen>>
    BY <1>3 DEF Tlm!MakesVoltage
  <2>2. Tlm!Sources(raw) \in seen /\ \E u \in seen : arg = u.supply
    BY <2>1 DEF RoundInv
  <2>3. struct'.voltage = Tlm!Voltage(arg, Tlm!Drawn(raw)) /\ struct'.analog = struct.analog
        /\ DOMAIN struct' = DOMAIN struct
    BY <2>1 DEF RoundInv
  <2>4. VoltageMade'
    <3>1. PICK u \in seen : arg = u.supply
      BY <2>2
    <3>2. struct'.voltage = Tlm!Voltage(u.supply, Tlm!Drawn(Tlm!Sources(raw)))
      BY <2>3, <3>1, SourcesDraw
    <3> QED
      BY <2>1, <2>2, <3>2 DEF VoltageMade
  <2>5. \A b \in Sensors : ~(b < 1)
    BY SensorFacts
  <2>6. UNCHANGED seen /\ UNCHANGED Tlm!Sources(raw)
    BY <2>1 DEF Tlm!Sources
  <2> QED
    BY <1>0, <2>1, <2>2, <2>3, <2>4, <2>5, <2>6, SensorFacts DEF RoundInv
<1>4. CASE Tlm!Takes
  <2>1. /\ tlm = "take" /\ tlm' = "make" /\ arg' = raw.input[sensor]
        /\ UNCHANGED <<raw, struct, sensor, seen>>
    BY <1>4 DEF Tlm!Takes
  <2>2. UNCHANGED Tlm!Sources(raw) /\ Tlm!Sources(raw).input[sensor] = raw.input[sensor]
    BY <2>1 DEF Tlm!Sources
  <2>3. UNCHANGED VoltageMade /\ \A b \in Sensors : Made(b)' <=> Made(b)
    BY <2>1 DEF VoltageMade, Made
  <2> QED
    BY <1>0, <2>1, <2>2, <2>3 DEF RoundInv
<1>5. CASE Tlm!MakesAnalog
  <2> DEFINE r == Tlm!Resistance(arg, raw.supply)
  <2>1. /\ tlm = "make" /\ UNCHANGED <<raw, arg, seen>>
        /\ struct' = [struct EXCEPT !.analog[sensor] = r]
        /\ IF sensor = Tlm!Last THEN tlm' = "rest" /\ sensor' = 1
           ELSE tlm' = "take" /\ sensor' = sensor + 1
    BY <1>5 DEF Tlm!MakesAnalog
  <2>2. sensor \in Sensors /\ sensor \in 1 .. Tlm!Last
    BY SensorFacts DEF RoundInv
  <2> HIDE DEF r
  <2>3. /\ DOMAIN struct' = DOMAIN struct /\ struct'.voltage = struct.voltage
        /\ DOMAIN struct'.analog = Sensors
        /\ struct'.analog[sensor] = r
        /\ \A b \in Sensors : b # sensor => struct'.analog[b] = struct.analog[b]
    BY <2>1, <2>2 DEF RoundInv
  <2>4. Tlm!Sources(raw) \in seen /\ UNCHANGED Tlm!Sources(raw)
        /\ Tlm!Sources(raw).supply = raw.supply
    BY <2>1 DEF RoundInv, Tlm!Sources
  <2>5. \A b \in Sensors : b = sensor => Made(b)'
    <3>1. PICK u \in seen : arg = u.input[sensor]
      BY <2>1 DEF RoundInv
    <3>2. r = Tlm!Resistance(u.input[sensor], Tlm!Sources(raw).supply)
      BY <2>4, <3>1 DEF r
    <3>3. r \in {Tlm!Resistance(w.input[sensor], v.supply) : w \in seen, v \in seen}
      BY <2>4, <3>2
    <3> QED
      BY <2>1, <2>3, <3>3 DEF Made
  <2>6. \A b \in Sensors : b < sensor => Made(b)'
    <3>1. \A b \in Sensors : b < sensor => Made(b) /\ b # sensor
      BY <2>1, <2>2, SensorFacts DEF RoundInv
    <3> QED
      BY <2>1, <2>3, <3>1 DEF Made
  <2>7. VoltageMade'
    <3>1. VoltageMade
      BY <2>1 DEF RoundInv
    <3> QED
      BY <2>1, <2>3, <3>1 DEF VoltageMade
  <2>8. CASE sensor = Tlm!Last
    <3>1. \A b \in Sensors : b < sensor \/ b = sensor
      BY <2>2, <2>8, SensorFacts
    <3>2. \A b \in Sensors : Made(b)'
      BY <2>5, <2>6, <3>1
    <3> QED
      BY <1>0, <2>1, <2>3, <2>4, <2>7, <2>8, <3>2, SensorFacts DEF RoundInv
  <2>9. CASE sensor # Tlm!Last
    <3>1. \A b \in Sensors : b < sensor + 1 => b < sensor \/ b = sensor
      BY <2>2, SensorFacts
    <3>2. \A b \in Sensors : b < sensor + 1 => Made(b)'
      BY <2>5, <2>6, <3>1
    <3>3. sensor + 1 \in Sensors
      BY <2>2, <2>9, SensorFacts
    <3> QED
      BY <1>0, <2>1, <2>3, <2>4, <2>7, <2>9, <3>2, <3>3 DEF RoundInv
  <2> QED
    BY <2>8, <2>9
<1>6. CASE Tlm!MakesRest
  <2>1. /\ tlm = "rest" /\ tlm' = "sleep" /\ UNCHANGED <<raw, sensor, seen>>
        /\ struct' = [struct EXCEPT !.speed = raw.input[Tlm!Last] \div 50,
                                    !.rpm = Tlm!get_engine_rpm(raw.period)]
    BY <1>6 DEF Tlm!MakesRest
  <2>2. struct'.voltage = struct.voltage /\ struct'.analog = struct.analog
        /\ struct'.rpm = Tlm!get_engine_rpm(raw.period) /\ DOMAIN struct' = DOMAIN struct
    BY <2>1 DEF RoundInv
  <2>3. Tlm!Sources(raw) \in seen /\ UNCHANGED Tlm!Sources(raw)
        /\ Tlm!Sources(raw).period = raw.period
    BY <2>1 DEF RoundInv, Tlm!Sources
  <2>4. RpmMade'
    BY <2>1, <2>2, <2>3 DEF RpmMade
  <2>5. VoltageMade' /\ \A b \in Sensors : Made(b)'
    <3>1. VoltageMade /\ \A b \in Sensors : Made(b)
      BY <2>1 DEF RoundInv
    <3> QED
      BY <2>1, <2>2, <3>1 DEF VoltageMade, Made
  <2> QED
    BY <1>0, <2>1, <2>2, <2>3, <2>4, <2>5 DEF RoundInv
<1> QED
  BY <1>1, <1>2, <1>3, <1>4, <1>5, <1>6

(* can_local.c:120-147, sensors_cmd.c:58-80: the readers change nothing of *)
(* what was made; CAN stops after its thread has gone.                     *)
LEMMA ReadersGo ==
  ASSUME RoundInv,
         \/ Tlm!CanInitLocal \/ Tlm!CanStopLocal \/ Tlm!sensors_clicmd
         \/ \E r \in Tlm!Readers :
              Tlm!Terminate(r) \/ Tlm!PutByte(r) \/ Tlm!Transmits(r) \/ Tlm!ThreadEnds(r)
  PROVE  RoundInv'
<1>1. UNCHANGED <<raw, struct, tlm, sensor, arg, seen>>
  BY DEF Tlm!CanInitLocal, Tlm!CanStopLocal, Tlm!sensors_clicmd, Tlm!Terminate, Tlm!PutByte,
    Tlm!Transmits, Tlm!ThreadEnds, Tlm!tlmvars
<1>2. CanInv'
  BY DEF RoundInv, CanInv, Tlm!NoFrameWithoutCan, Tlm!Readers, Tlm!CanInitLocal, Tlm!CanStopLocal,
    Tlm!Gone, Tlm!sensors_clicmd, Tlm!Terminate, Tlm!PutByte, Tlm!Transmits, Tlm!ThreadEnds
<1>3. UNCHANGED <<VoltageMade, RpmMade, Tlm!Sources(raw)>> /\ \A b \in Sensors : Made(b)' <=> Made(b)
  BY <1>1 DEF VoltageMade, RpmMade, Made, Tlm!Sources
<1> QED
  BY <1>1, <1>2, <1>3 DEF RoundInv

LEMMA RoundStep == RoundInv /\ [Tlm!Next]_telemetry => RoundInv'
<1> SUFFICES ASSUME RoundInv, [Tlm!Next]_telemetry PROVE RoundInv'
  OBVIOUS
<1>1. CASE Tlm!adccallback
  BY <1>1, RawChanges DEF Tlm!adccallback
<1>2. CASE Tlm!icuperiodcb_tacho
  BY <1>2, RawChanges DEF Tlm!icuperiodcb_tacho
<1>3. CASE Tlm!icuoverflowcb_tacho
  BY <1>3, RawChanges DEF Tlm!icuoverflowcb_tacho
<1>4. CASE Tlm!NewReading
  BY <1>4, RawChanges DEF Tlm!NewReading
<1>5. CASE UNCHANGED telemetry
  <2>1. UNCHANGED <<raw, struct, tlm, sensor, arg, seen, thread, can>>
    BY <1>5 DEF telemetry
  <2>2. UNCHANGED <<VoltageMade, RpmMade, Tlm!Sources(raw)>> /\ \A b \in Sensors : Made(b)' <=> Made(b)
    BY <2>1 DEF VoltageMade, RpmMade, Made, Tlm!Sources
  <2>3. CanInv'
    BY <2>1 DEF RoundInv, CanInv, Tlm!NoFrameWithoutCan
  <2> QED
    BY <2>1, <2>2, <2>3 DEF RoundInv
<1> QED
  BY <1>1, <1>2, <1>3, <1>4, <1>5, RoundGoes, ReadersGo DEF Tlm!Next

LEMMA RoundSays == RoundInv => Tlm!BytesAreTrue /\ Tlm!NoFrameWithoutCan
<1> SUFFICES ASSUME RoundInv PROVE Tlm!BytesAreTrue /\ Tlm!NoFrameWithoutCan
  OBVIOUS
<1>1. Tlm!NoFrameWithoutCan
  BY DEF RoundInv, CanInv
<1>2. ASSUME tlm = "sleep", seen # {}, NEW b \in Sensors
      PROVE  Tlm!Put(b) \in {Tlm!putinrange(Tlm!Resistance(u.input[b], v.supply)) : u \in seen, v \in seen}
  <2>1. Tlm!Put(b) = Tlm!putinrange(struct.analog[b])
    BY SensorFacts DEF Tlm!Put
  <2>2. Made(b)
    BY <1>2 DEF RoundInv
  <2> QED
    BY <2>1, <2>2 DEF Made
<1>3. ASSUME tlm = "sleep", seen # {} PROVE VoltageMade /\ RpmMade
  BY <1>3 DEF RoundInv
<1> QED
  BY <1>1, <1>2, <1>3 DEF Tlm!BytesAreTrue, VoltageMade, RpmMade

-----------------------------------------------------------------------------
(* A larger share of less is more.                                         *)
LEMMA QuotientOrder ==
  ASSUME NEW n \in Nat, NEW m \in Nat, n <= m, NEW d \in Nat \ {0}, NEW e \in Nat \ {0}, e <= d
  PROVE  n \div d \in Nat /\ n \div d <= m \div e
<1> DEFINE q == n \div d
           k == m \div e
<1>1. q \in Nat /\ q * d <= n
  OBVIOUS
<1>2. k \in Nat /\ m < (k + 1) * e
  OBVIOUS
<1> HIDE DEF q, k
<1>3. q * e <= q * d
  BY <1>1
<1>4. q * e \in Nat /\ q * d \in Nat /\ (k + 1) * e \in Nat
  BY <1>1, <1>2
<1>5. q * e < (k + 1) * e
  BY <1>1, <1>2, <1>3, <1>4
<1>6. q < k + 1
  <2>1. ASSUME k + 1 <= q PROVE FALSE
    <3>1. (k + 1) * e <= q * e
      BY <1>1, <1>2, <2>1
    <3> QED
      BY <1>4, <1>5, <3>1
  <2> QED
    BY <1>1, <1>2, <2>1
<1> QED
  BY <1>1, <1>2, <1>6 DEF q, k

LEMMA ClippedOrder ==
  ASSUME NEW a \in Int, NEW b \in Int, NEW max \in Int, a <= b
  PROVE  Tlm!Clipped(a, max) <= Tlm!Clipped(b, max) /\ Tlm!Clipped(a, max) <= max
BY DEF Tlm!Clipped

LEMMA LevelFacts ==
  /\ \A a \in Levels : a \in Nat /\ U1[a] \in Nat
  /\ \A s \in Supplies : s \in Nat /\ V[s] \in Nat
  /\ \A a, b \in Levels : a < b => U1[a] < U1[b]
  /\ \A s, r \in Supplies : s < r => V[s] < V[r]
  /\ \A p \in Periods : p \in 0 .. Tlm!MaxHalfword
BY TelemetryConstants DEF Tlm!TelemetryAssumption

(* adc_local.c:155-176: the more there is at a sensor, and the less at its *)
(* supply, the larger its resistance.                                      *)
LEMMA ResistanceOrder ==
  ASSUME NEW a \in Levels, NEW b \in Levels, U1[a] <= U1[b],
         NEW s \in Supplies, NEW r \in Supplies, V[r] <= V[s]
  PROVE  Tlm!Resistance(a, s) <= Tlm!Resistance(b, r)
<1> DEFINE u == U1[a]  w == U1[b]  x == V[s]  y == V[r]
<1>1. u \in Nat /\ w \in Nat /\ x \in Nat /\ y \in Nat /\ u <= w /\ y <= x
  BY LevelFacts
<1>2. /\ Tlm!Resistance(a, s) =
           IF x <= u THEN 1000 ELSE Tlm!Clipped((u * 1000) \div (x - u), 1000)
      /\ Tlm!Resistance(b, r) =
           IF y <= w THEN 1000 ELSE Tlm!Clipped((w * 1000) \div (y - w), 1000)
  BY DEF Tlm!Resistance
<1> HIDE DEF u, w, x, y
<1>3. CASE x <= u
  BY <1>1, <1>2, <1>3
<1>4. CASE ~(x <= u) /\ y <= w
  <2>1. (u * 1000) \div (x - u) \in Int
    BY <1>1, <1>4
  <2> QED
    BY <1>2, <1>4, <2>1, ClippedOrder
<1>5. CASE ~(x <= u) /\ ~(y <= w)
  <2>1. x - u \in Nat \ {0} /\ y - w \in Nat \ {0} /\ y - w <= x - u
        /\ u * 1000 \in Nat /\ w * 1000 \in Nat /\ u * 1000 <= w * 1000
    BY <1>1, <1>5
  <2>2. (u * 1000) \div (x - u) <= (w * 1000) \div (y - w)
        /\ (u * 1000) \div (x - u) \in Int /\ (w * 1000) \div (y - w) \in Int
    BY <2>1, QuotientOrder
  <2> QED
    BY <1>2, <1>5, <2>2, ClippedOrder
<1> QED
  BY <1>3, <1>4, <1>5

LEMMA VoltageOrder ==
  ASSUME NEW s \in Nat, NEW r \in Nat, s < r, NEW a \in Int
  PROVE  Tlm!Voltage(s, a) <= Tlm!Voltage(r, a)
<1> DEFINE c == Tlm!Clipped(IF a < 2563 THEN 2563 ELSE a, 41429)
           drop == 1000 * (1660 - ((c - 2563) * 650) \div 38866)
           k == (24000000 - 1012000) \div 2585
<1>1. c \in Int
  BY DEF Tlm!Clipped
<1> HIDE DEF c
<1>2. drop \in Int
  BY <1>1
<1>3. k \in Nat
  OBVIOUS
<1>4. Tlm!Voltage(s, a) = Tlm!Clipped((k * s + drop) \div 1000, 32767)
      /\ Tlm!Voltage(r, a) = Tlm!Clipped((k * r + drop) \div 1000, 32767)
  BY DEF Tlm!Voltage, c
<1> HIDE DEF drop, k
<1>5. k * s <= k * r /\ k * s \in Int /\ k * r \in Int
  BY <1>3
<1>6. (k * s + drop) \div 1000 <= (k * r + drop) \div 1000
      /\ (k * s + drop) \div 1000 \in Int /\ (k * r + drop) \div 1000 \in Int
  BY <1>2, <1>5
<1> QED
  BY <1>4, <1>6, ClippedOrder

LEMMA RpmOrder ==
  ASSUME NEW p \in Periods, NEW q \in Periods
  PROVE  /\ Tlm!get_engine_rpm(p) = 0 <=> p = 0
         /\ 0 < p /\ p < q => Tlm!get_engine_rpm(q) <= Tlm!get_engine_rpm(p)
<1> DEFINE turns(n) == (60 * 200000) \div n
<1>1. p \in 0 .. Tlm!MaxHalfword /\ q \in 0 .. Tlm!MaxHalfword
  BY LevelFacts
<1> DEFINE most == Tlm!MaxHalfword
<1>2. most = 65535
  BY DEF Tlm!MaxHalfword
<1> HIDE DEF most
<1>3. \A n \in Nat \ {0} : n <= most => turns(n) \in Nat /\ turns(n) > 0
  BY <1>2
<1>4. p \in Nat /\ q \in Nat /\ p <= most /\ q <= most
  BY <1>1, <1>2 DEF most
<1>5. ASSUME 0 < p, p < q PROVE turns(q) <= turns(p)
  <2> DEFINE n == 60 * 200000
  <2>1. n \in Nat /\ n <= n /\ p \in Nat \ {0} /\ q \in Nat \ {0} /\ p <= q
    BY <1>4, <1>5
  <2> HIDE DEF n
  <2>2. n \div q <= n \div p
    BY <2>1, QuotientOrder
  <2> QED
    BY <2>2 DEF n
<1> HIDE DEF turns
<1>6. \A n \in Nat \ {0} : Tlm!get_engine_rpm(n) = Tlm!Clipped(turns(n), most)
  BY DEF Tlm!get_engine_rpm, turns, most
<1>7. Tlm!get_engine_rpm(0) = 0
  BY DEF Tlm!get_engine_rpm
<1> QED
  BY <1>2, <1>3, <1>4, <1>5, <1>6, <1>7 DEF Tlm!Clipped

LEMMA OrderSays == Tlm!ValuesAreOrdered
<1>1. ASSUME NEW s \in Supplies, NEW a \in Levels, NEW b \in Levels
      PROVE  /\ a < b => Tlm!Resistance(a, s) <= Tlm!Resistance(b, s)
             /\ V[s] <= U1[a] => Tlm!putinrange(Tlm!Resistance(a, s)) = 255
  <2>1. V[s] \in Nat /\ U1[a] \in Nat /\ U1[b] \in Nat /\ (a < b => U1[a] < U1[b])
    BY LevelFacts
  <2>2. a < b => Tlm!Resistance(a, s) <= Tlm!Resistance(b, s)
    BY <2>1, ResistanceOrder
  <2> QED
    BY <2>2 DEF Tlm!putinrange, Tlm!Resistance, Tlm!Clipped
<1>2. ASSUME NEW a \in Levels, NEW s \in Supplies, NEW r \in Supplies, s < r
      PROVE  Tlm!Resistance(a, r) <= Tlm!Resistance(a, s) /\ Tlm!Voltage(s, a) <= Tlm!Voltage(r, a)
  <2>1. V[s] \in Nat /\ V[r] \in Nat /\ V[s] < V[r] /\ U1[a] \in Nat
    BY <1>2, LevelFacts
  <2>2. Tlm!Resistance(a, r) <= Tlm!Resistance(a, s)
    BY <2>1, ResistanceOrder
  <2> QED
    BY <1>2, <2>2, LevelFacts, VoltageOrder
<1> QED
  BY <1>1, <1>2, RpmOrder DEF Tlm!ValuesAreOrdered

-----------------------------------------------------------------------------
(* The contacts, their gate and the analog inputs of the board.            *)
SensorsInv == ContactInv /\ GateInv /\ RoundInv

LEMMA SensorsHold == PickSpec => []SensorsInv
<1>1. PickInit => SensorsInv
  BY ContactStart, GateInit, RoundStart DEF PickInit, SensorsInv
<1>2. SensorsInv /\ [PickNext]_everything => SensorsInv'
  <2> SUFFICES ASSUME SensorsInv, [PickNext]_everything PROVE SensorsInv'
    OBVIOUS
  <2>1. [Input!Next]_inputs /\ [Tlm!Next]_telemetry
    BY DEF PickNext, TripStep, FilterStep, ShellStep, PortStep, InputStep, TelemetryStep, everything
  <2>2. [Input!Next]_(Input!vars)
    BY <2>1 DEF inputs, Input!vars, Input!inputs, Input!readings, Input!analog
  <2> QED
    BY <2>1, <2>2, ContactStep, GateStep, RoundStep DEF SensorsInv
<1> QED
  BY <1>1, <1>2, PTL DEF PickSpec

(* discrete.c:62-82, adc_local.c:136, mavsender.c:62-72, can_local.c:77-95, *)
(* sensors_cmd.c:58-80: for every width of a word, wiring and fault of the *)
(* SPI, and any number of sensors, a contact that does not move is         *)
(* reported, in the test modes and where the norm is open (norms of ground *)
(* and supply are complemented after their mask, discrete.c:82), at most   *)
(* one powered sweep is filtered, and what is told of the analog inputs is *)
(* made of what they were since the round began.                           *)
THEOREM InputsCorrect == PickSpec => []InputsAreRight
<1>1. SensorsInv => InputsAreRight
  BY RoundSays, OrderSays DEF SensorsInv, ContactInv, GateInv, InputsAreRight, Input!OnePoweredSweep
<1> QED
  BY <1>1, SensorsHold, PTL

-----------------------------------------------------------------------------
(* The shells.  Which of CAN and the shell on USB runs is what the flag    *)
(* says, always.                                                           *)
Tells == {"absent", "start", "loop", "sigint", "dying"}

ShellTypes ==
  /\ lm \in {"boot", "watch", "kill"} /\ um \in {"watch", "term"}
  /\ shell_active \in BOOLEAN /\ can_active \in BOOLEAN
  /\ both \in BOOLEAN /\ careless \in BOOLEAN /\ wild \in BOOLEAN
  /\ shell_tp \in Usb!Shells \cup {Usb!Nobody} /\ victim \in Usb!Shells \cup {Usb!Nobody}
  /\ CurrentCmd_tp \in Commands \cup {Usb!Nobody}
  /\ shells_phase \in [Usb!Shells -> Tells]
  /\ awaited \in [Usb!Shells -> Commands \cup {Usb!Nobody}]

InterruptInv ==
  \/ /\ curr_tp = Usb!Nobody /\ um = "watch"
     /\ "can" \notin Usb!Running /\ "usb_shell" \notin Usb!Running
  \/ curr_tp = "can" /\ can_active = TRUE /\ "usb_shell" \notin Usb!Running
  \/ curr_tp = "usb_shell" /\ can_active = FALSE /\ "can" \notin Usb!Running

(* As long as there was one shell at a time and no command was in the way, *)
(* every pointer is that of a thread on the heap.                          *)
Calm == both = FALSE /\ careless = FALSE

HeapInv ==
  /\ wild = FALSE
  /\ final \subseteq alive /\ terminated \subseteq alive
  /\ curr_tp # Usb!Nobody => curr_tp \in alive

OneShellInv ==
  \A s \in Usb!Shells :
    /\ s \in Usb!Running <=> shells_phase[s] # "absent"
    /\ s \in Usb!Running => shell_tp = s

PointersInv ==
  /\ CurrentCmd_tp # Usb!Nobody => CurrentCmd_tp \in alive
  /\ \A s \in Usb!Shells :
       /\ shells_phase[s] # "dying"
       /\ shells_phase[s] = "sigint" => awaited[s] = CurrentCmd_tp /\ awaited[s] # Usb!Nobody
       /\ s \in Usb!Running /\ s \in terminated => CurrentCmd_tp = Usb!Nobody

UartInv ==
  \/ /\ lm = "boot" /\ shell_active = FALSE
     /\ "uart_shell" \notin alive /\ Usb!Mavlink \cap alive = {}
  \/ /\ lm = "watch" /\ shell_active = TRUE /\ Usb!Mavlink \cap alive = {}
     /\ "uart_shell" \in Usb!Running /\ "uart_shell" \notin terminated
  \/ /\ lm = "kill" /\ shell_active = TRUE /\ Usb!Mavlink \cap alive = {}
     /\ "uart_shell" \in alive /\ victim = "uart_shell"
  \/ /\ lm # "boot" /\ shell_active = FALSE
     /\ Usb!Mavlink \subseteq alive /\ "uart_shell" \notin alive

ShellsInv ==
  /\ ShellTypes /\ InterruptInv
  /\ Calm => HeapInv /\ OneShellInv /\ PointersInv /\ UartInv

LEMMA ShellNames ==
  /\ Usb!Shells = {"uart_shell", "usb_shell"} /\ Usb!Mavlink = {"linkout", "linkin"}
  /\ \A c \in Commands : c \notin {"uart_shell", "usb_shell", "linkout", "linkin", "can"}
                         /\ c # Usb!Nobody
  /\ Usb!Nobody \notin {"uart_shell", "usb_shell", "linkout", "linkin", "can"}
BY ShellsConstants DEF Usb!CommandsAssumption, Usb!Shells, Usb!Mavlink, Usb!Nobody

LEMMA ShellsStart == Usb!Init => ShellsInv
BY ShellNames DEF Usb!Init, ShellsInv, ShellTypes, Tells, InterruptInv, Usb!Running, Calm,
   HeapInv, OneShellInv, PointersInv, UartInv

LEMMA LmBootKeeps ==
  ASSUME ShellsInv, Usb!LmBoot
  PROVE  ShellsInv'
<1> USE ShellNames DEF ShellsInv, Calm, Usb!Running, Tells
<1>1. ShellTypes'
  BY DEF ShellTypes, Usb!LmBoot, Usb!Replaced, Usb!ShellForked, Usb!shellvars
<1>2. InterruptInv'
  BY DEF ShellTypes, InterruptInv, Usb!LmBoot, Usb!Replaced, Usb!ShellForked,
     Usb!shellvars
<1>3. ASSUME Calm' PROVE Calm
  BY <1>3 DEF ShellTypes, Usb!LmBoot, Usb!Replaced, Usb!ShellForked, Usb!shellvars
<1>4. ASSUME Calm' PROVE HeapInv'
  BY <1>3, <1>4 DEF ShellTypes, InterruptInv, HeapInv, OneShellInv, PointersInv, UartInv,
     Usb!LmBoot, Usb!Replaced, Usb!ShellForked, Usb!shellvars
<1>5. ASSUME Calm' PROVE OneShellInv'
  <2>1. CASE sh_enable = 0
    BY <1>3, <1>5, <2>1 DEF ShellTypes, OneShellInv, HeapInv, UartInv, Usb!LmBoot,
       Usb!Replaced, Usb!shellvars
  <2>2. CASE sh_enable # 0
    <3>1. /\ alive' = alive \cup {"uart_shell"} /\ final' = final \ {"uart_shell"}
          /\ shell_tp' = "uart_shell" /\ "usb_shell" \notin alive \ final
          /\ shells_phase' = [shells_phase EXCEPT !["uart_shell"] = "start"]
      BY <1>3, <1>5, <2>2 DEF ShellTypes, Usb!LmBoot, Usb!Replaced, Usb!ShellForked
    <3> QED
      BY <1>3, <1>5, <3>1 DEF ShellTypes, OneShellInv
  <2> QED
    BY <2>1, <2>2
<1>6. ASSUME Calm' PROVE PointersInv'
  BY <1>3, <1>6 DEF ShellTypes, InterruptInv, HeapInv, OneShellInv, PointersInv, UartInv,
     Usb!LmBoot, Usb!Replaced, Usb!ShellForked, Usb!shellvars
<1>7. ASSUME Calm' PROVE UartInv'
  BY <1>3, <1>7 DEF ShellTypes, InterruptInv, HeapInv, OneShellInv, PointersInv, UartInv,
     Usb!LmBoot, Usb!Replaced, Usb!ShellForked, Usb!shellvars
<1> QED
  BY <1>1, <1>2, <1>4, <1>5, <1>6, <1>7

LEMMA LmKillShellKeeps ==
  ASSUME ShellsInv, Usb!LmKillShell
  PROVE  ShellsInv'
<1> USE ShellNames DEF ShellsInv, Calm, Usb!Running, Tells
<1>1. ShellTypes'
  BY DEF ShellTypes, Usb!LmKillShell, Usb!Terminate, Usb!KillsOneWithCommand,
     Usb!shellvars
<1>2. InterruptInv'
  BY DEF ShellTypes, InterruptInv, Usb!LmKillShell, Usb!Terminate,
     Usb!KillsOneWithCommand, Usb!shellvars
<1>3. ASSUME Calm' PROVE Calm
  BY <1>3 DEF ShellTypes, Usb!LmKillShell, Usb!Terminate, Usb!KillsOneWithCommand,
     Usb!shellvars
<1>4. ASSUME Calm' PROVE HeapInv'
  BY <1>3, <1>4 DEF ShellTypes, InterruptInv, HeapInv, OneShellInv, PointersInv, UartInv,
     Usb!LmKillShell, Usb!Terminate, Usb!KillsOneWithCommand, Usb!shellvars
<1>5. ASSUME Calm' PROVE OneShellInv'
  BY <1>3, <1>5 DEF ShellTypes, InterruptInv, HeapInv, OneShellInv, PointersInv, UartInv,
     Usb!LmKillShell, Usb!Terminate, Usb!KillsOneWithCommand, Usb!shellvars
<1>6. ASSUME Calm' PROVE PointersInv'
  BY <1>3, <1>6 DEF ShellTypes, InterruptInv, HeapInv, OneShellInv, PointersInv, UartInv,
     Usb!LmKillShell, Usb!Terminate, Usb!KillsOneWithCommand, Usb!shellvars
<1>7. ASSUME Calm' PROVE UartInv'
  BY <1>3, <1>7 DEF ShellTypes, InterruptInv, HeapInv, OneShellInv, PointersInv, UartInv,
     Usb!LmKillShell, Usb!Terminate, Usb!KillsOneWithCommand, Usb!shellvars
<1> QED
  BY <1>1, <1>2, <1>4, <1>5, <1>6, <1>7

LEMMA LmShellKilledKeeps ==
  ASSUME ShellsInv, Usb!LmShellKilled
  PROVE  ShellsInv'
<1> USE ShellNames DEF ShellsInv, Calm, Usb!Running, Tells
<1>1. ShellTypes'
  BY DEF ShellTypes, Usb!LmShellKilled, Usb!Waited, Usb!Replaced, Usb!shellvars
<1>2. InterruptInv'
  BY DEF ShellTypes, InterruptInv, Usb!LmShellKilled, Usb!Waited, Usb!Replaced,
     Usb!shellvars
<1>3. ASSUME Calm' PROVE Calm
  BY <1>3 DEF ShellTypes, Usb!LmShellKilled, Usb!Waited, Usb!Replaced, Usb!shellvars
<1>4. ASSUME Calm' PROVE HeapInv'
  BY <1>3, <1>4 DEF ShellTypes, InterruptInv, HeapInv, OneShellInv, PointersInv, UartInv,
     Usb!LmShellKilled, Usb!Waited, Usb!Replaced, Usb!shellvars
<1>5. ASSUME Calm' PROVE OneShellInv'
  BY <1>3, <1>5 DEF ShellTypes, InterruptInv, HeapInv, OneShellInv, PointersInv, UartInv,
     Usb!LmShellKilled, Usb!Waited, Usb!Replaced, Usb!shellvars
<1>6. ASSUME Calm' PROVE PointersInv'
  BY <1>3, <1>6 DEF ShellTypes, InterruptInv, HeapInv, OneShellInv, PointersInv, UartInv,
     Usb!LmShellKilled, Usb!Waited, Usb!Replaced, Usb!shellvars
<1>7. ASSUME Calm' PROVE UartInv'
  BY <1>3, <1>7 DEF ShellTypes, InterruptInv, HeapInv, OneShellInv, PointersInv, UartInv,
     Usb!LmShellKilled, Usb!Waited, Usb!Replaced, Usb!shellvars
<1> QED
  BY <1>1, <1>2, <1>4, <1>5, <1>6, <1>7

LEMMA LmKillMavlinkKeeps ==
  ASSUME ShellsInv, Usb!LmKillMavlink
  PROVE  ShellsInv'
<1> USE ShellNames DEF ShellsInv, Calm, Usb!Running, Tells
<1>1. ShellTypes'
  BY DEF ShellTypes, Usb!LmKillMavlink, Usb!Terminate, Usb!shellvars
<1>2. InterruptInv'
  BY DEF ShellTypes, InterruptInv, Usb!LmKillMavlink, Usb!Terminate, Usb!shellvars
<1>3. ASSUME Calm' PROVE Calm
  BY <1>3 DEF ShellTypes, Usb!LmKillMavlink, Usb!Terminate, Usb!shellvars
<1>4. ASSUME Calm' PROVE HeapInv'
  BY <1>3, <1>4 DEF ShellTypes, InterruptInv, HeapInv, OneShellInv, PointersInv, UartInv,
     Usb!LmKillMavlink, Usb!Terminate, Usb!shellvars
<1>5. ASSUME Calm' PROVE OneShellInv'
  BY <1>3, <1>5 DEF ShellTypes, InterruptInv, HeapInv, OneShellInv, PointersInv, UartInv,
     Usb!LmKillMavlink, Usb!Terminate, Usb!shellvars
<1>6. ASSUME Calm' PROVE PointersInv'
  BY <1>3, <1>6 DEF ShellTypes, InterruptInv, HeapInv, OneShellInv, PointersInv, UartInv,
     Usb!LmKillMavlink, Usb!Terminate, Usb!shellvars
<1>7. ASSUME Calm' PROVE UartInv'
  BY <1>3, <1>7 DEF ShellTypes, InterruptInv, HeapInv, OneShellInv, PointersInv, UartInv,
     Usb!LmKillMavlink, Usb!Terminate, Usb!shellvars
<1> QED
  BY <1>1, <1>2, <1>4, <1>5, <1>6, <1>7

LEMMA LmMavlinkKilledKeeps ==
  ASSUME ShellsInv, Usb!LmMavlinkKilled
  PROVE  ShellsInv'
<1> USE ShellNames DEF ShellsInv, Calm, Usb!Running, Tells
<1>1. ShellTypes'
  BY DEF ShellTypes, Usb!LmMavlinkKilled, Usb!Waited, Usb!Replaced, Usb!ShellForked
<1>2. InterruptInv'
  BY DEF ShellTypes, InterruptInv, Usb!LmMavlinkKilled, Usb!Waited, Usb!Replaced,
     Usb!ShellForked
<1>3. ASSUME Calm' PROVE Calm
  BY <1>3 DEF ShellTypes, Usb!LmMavlinkKilled, Usb!Waited, Usb!Replaced, Usb!ShellForked
<1>4. ASSUME Calm' PROVE HeapInv'
  BY <1>3, <1>4 DEF ShellTypes, InterruptInv, HeapInv, OneShellInv, PointersInv, UartInv,
     Usb!LmMavlinkKilled, Usb!Waited, Usb!Replaced, Usb!ShellForked
<1>5. ASSUME Calm' PROVE OneShellInv'
  BY <1>3, <1>5 DEF ShellTypes, InterruptInv, HeapInv, OneShellInv, PointersInv, UartInv,
     Usb!LmMavlinkKilled, Usb!Waited, Usb!Replaced, Usb!ShellForked
<1>6. ASSUME Calm' PROVE PointersInv'
  BY <1>3, <1>6 DEF ShellTypes, InterruptInv, HeapInv, OneShellInv, PointersInv, UartInv,
     Usb!LmMavlinkKilled, Usb!Waited, Usb!Replaced, Usb!ShellForked
<1>7. ASSUME Calm' PROVE UartInv'
  BY <1>3, <1>7 DEF ShellTypes, InterruptInv, HeapInv, OneShellInv, PointersInv, UartInv,
     Usb!LmMavlinkKilled, Usb!Waited, Usb!Replaced, Usb!ShellForked
<1> QED
  BY <1>1, <1>2, <1>4, <1>5, <1>6, <1>7

LEMMA UmForkKeeps ==
  ASSUME ShellsInv, Usb!UmFork
  PROVE  ShellsInv'
<1> USE ShellNames DEF ShellsInv, Calm, Usb!Running, Tells
<1>1. ShellTypes'
  BY DEF ShellTypes, Usb!UmFork, Usb!Replaced, Usb!ShellForked, Usb!shellvars
<1>2. InterruptInv'
  BY DEF ShellTypes, InterruptInv, Usb!UmFork, Usb!Replaced, Usb!ShellForked,
     Usb!shellvars
<1>3. ASSUME Calm' PROVE Calm
  BY <1>3 DEF ShellTypes, Usb!UmFork, Usb!Replaced, Usb!ShellForked, Usb!shellvars
<1>4. ASSUME Calm' PROVE HeapInv'
  BY <1>3, <1>4 DEF ShellTypes, InterruptInv, HeapInv, OneShellInv, PointersInv, UartInv,
     Usb!UmFork, Usb!Replaced, Usb!ShellForked, Usb!shellvars
<1>5. ASSUME Calm' PROVE OneShellInv'
  BY <1>3, <1>5 DEF ShellTypes, InterruptInv, HeapInv, OneShellInv, PointersInv, UartInv,
     Usb!UmFork, Usb!Replaced, Usb!ShellForked, Usb!shellvars
<1>6. ASSUME Calm' PROVE PointersInv'
  BY <1>3, <1>6 DEF ShellTypes, InterruptInv, HeapInv, OneShellInv, PointersInv, UartInv,
     Usb!UmFork, Usb!Replaced, Usb!ShellForked, Usb!shellvars
<1>7. ASSUME Calm' PROVE UartInv'
  BY <1>3, <1>7 DEF ShellTypes, InterruptInv, HeapInv, OneShellInv, PointersInv, UartInv,
     Usb!UmFork, Usb!Replaced, Usb!ShellForked, Usb!shellvars
<1> QED
  BY <1>1, <1>2, <1>4, <1>5, <1>6, <1>7

LEMMA UmTermKeeps ==
  ASSUME ShellsInv, Usb!UmTerm
  PROVE  ShellsInv'
<1> USE ShellNames DEF ShellsInv, Calm, Usb!Running, Tells
<1>1. ShellTypes'
  BY DEF ShellTypes, Usb!UmTerm, Usb!Changed, Usb!Terminate, Usb!KillsOneWithCommand,
     Usb!shellvars
<1>2. InterruptInv'
  BY DEF ShellTypes, InterruptInv, Usb!UmTerm, Usb!Changed, Usb!Terminate,
     Usb!KillsOneWithCommand, Usb!shellvars
<1>3. ASSUME Calm' PROVE Calm
  BY <1>3 DEF ShellTypes, Usb!UmTerm, Usb!Changed, Usb!Terminate, Usb!KillsOneWithCommand,
     Usb!shellvars
<1>4. ASSUME Calm' PROVE HeapInv'
  BY <1>3, <1>4 DEF ShellTypes, InterruptInv, HeapInv, OneShellInv, PointersInv, UartInv,
     Usb!UmTerm, Usb!Changed, Usb!Terminate, Usb!KillsOneWithCommand, Usb!shellvars
<1>5. ASSUME Calm' PROVE OneShellInv'
  BY <1>3, <1>5 DEF ShellTypes, InterruptInv, HeapInv, OneShellInv, PointersInv, UartInv,
     Usb!UmTerm, Usb!Changed, Usb!Terminate, Usb!KillsOneWithCommand, Usb!shellvars
<1>6. ASSUME Calm' PROVE PointersInv'
  BY <1>3, <1>6 DEF ShellTypes, InterruptInv, HeapInv, OneShellInv, PointersInv, UartInv,
     Usb!UmTerm, Usb!Changed, Usb!Terminate, Usb!KillsOneWithCommand, Usb!shellvars
<1>7. ASSUME Calm' PROVE UartInv'
  BY <1>3, <1>7 DEF ShellTypes, InterruptInv, HeapInv, OneShellInv, PointersInv, UartInv,
     Usb!UmTerm, Usb!Changed, Usb!Terminate, Usb!KillsOneWithCommand, Usb!shellvars
<1> QED
  BY <1>1, <1>2, <1>4, <1>5, <1>6, <1>7

LEMMA UmCanTermedKeeps ==
  ASSUME ShellsInv, Usb!UmCanTermed
  PROVE  ShellsInv'
<1> USE ShellNames DEF ShellsInv, Calm, Usb!Running, Tells
<1>1. ShellTypes'
  BY DEF ShellTypes, Usb!UmCanTermed, Usb!Waited, Usb!Replaced, Usb!ShellForked
<1>2. InterruptInv'
  BY DEF ShellTypes, InterruptInv, Usb!UmCanTermed, Usb!Waited, Usb!Replaced,
     Usb!ShellForked
<1>3. ASSUME Calm' PROVE Calm
  BY <1>3 DEF ShellTypes, Usb!UmCanTermed, Usb!Waited, Usb!Replaced, Usb!ShellForked
<1>4. ASSUME Calm' PROVE HeapInv'
  BY <1>3, <1>4 DEF ShellTypes, InterruptInv, HeapInv, OneShellInv, PointersInv, UartInv,
     Usb!UmCanTermed, Usb!Waited, Usb!Replaced, Usb!ShellForked
<1>5. ASSUME Calm' PROVE OneShellInv'
  BY <1>3, <1>5 DEF ShellTypes, InterruptInv, HeapInv, OneShellInv, PointersInv, UartInv,
     Usb!UmCanTermed, Usb!Waited, Usb!Replaced, Usb!ShellForked
<1>6. ASSUME Calm' PROVE PointersInv'
  BY <1>3, <1>6 DEF ShellTypes, InterruptInv, HeapInv, OneShellInv, PointersInv, UartInv,
     Usb!UmCanTermed, Usb!Waited, Usb!Replaced, Usb!ShellForked
<1>7. ASSUME Calm' PROVE UartInv'
  BY <1>3, <1>7 DEF ShellTypes, InterruptInv, HeapInv, OneShellInv, PointersInv, UartInv,
     Usb!UmCanTermed, Usb!Waited, Usb!Replaced, Usb!ShellForked
<1> QED
  BY <1>1, <1>2, <1>4, <1>5, <1>6, <1>7

LEMMA UmUsbTermedKeeps ==
  ASSUME ShellsInv, Usb!UmUsbTermed
  PROVE  ShellsInv'
<1> USE ShellNames DEF ShellsInv, Calm, Usb!Running, Tells
<1>1. ShellTypes'
  BY DEF ShellTypes, Usb!UmUsbTermed, Usb!SetsTheFlag, Usb!Waited, Usb!Replaced,
     Usb!shellvars
<1>2. InterruptInv'
  BY DEF ShellTypes, InterruptInv, Usb!UmUsbTermed, Usb!SetsTheFlag, Usb!Waited,
     Usb!Replaced, Usb!shellvars
<1>3. ASSUME Calm' PROVE Calm
  BY <1>3 DEF ShellTypes, Usb!UmUsbTermed, Usb!SetsTheFlag, Usb!Waited, Usb!Replaced,
     Usb!shellvars
<1>4. ASSUME Calm' PROVE HeapInv'
  BY <1>3, <1>4 DEF ShellTypes, InterruptInv, HeapInv, OneShellInv, PointersInv, UartInv,
     Usb!UmUsbTermed, Usb!SetsTheFlag, Usb!Waited, Usb!Replaced, Usb!shellvars
<1>5. ASSUME Calm' PROVE OneShellInv'
  BY <1>3, <1>5 DEF ShellTypes, InterruptInv, HeapInv, OneShellInv, PointersInv, UartInv,
     Usb!UmUsbTermed, Usb!SetsTheFlag, Usb!Waited, Usb!Replaced, Usb!shellvars
<1>6. ASSUME Calm' PROVE PointersInv'
  BY <1>3, <1>6 DEF ShellTypes, InterruptInv, HeapInv, OneShellInv, PointersInv, UartInv,
     Usb!UmUsbTermed, Usb!SetsTheFlag, Usb!Waited, Usb!Replaced, Usb!shellvars
<1>7. ASSUME Calm' PROVE UartInv'
  BY <1>3, <1>7 DEF ShellTypes, InterruptInv, HeapInv, OneShellInv, PointersInv, UartInv,
     Usb!UmUsbTermed, Usb!SetsTheFlag, Usb!Waited, Usb!Replaced, Usb!shellvars
<1> QED
  BY <1>1, <1>2, <1>4, <1>5, <1>6, <1>7

LEMMA StartsKeeps ==
  ASSUME ShellsInv, NEW s \in Usb!Shells, Usb!Starts(s)
  PROVE  ShellsInv'
<1> USE ShellNames DEF ShellsInv, Calm, Usb!Running, Tells
<1>1. ShellTypes'
  BY DEF ShellTypes, Usb!Starts, Usb!managers, Usb!threads
<1>2. InterruptInv'
  BY DEF ShellTypes, InterruptInv, Usb!Starts, Usb!managers, Usb!threads
<1>3. ASSUME Calm' PROVE Calm
  BY <1>3 DEF ShellTypes, Usb!Starts, Usb!managers, Usb!threads
<1>4. ASSUME Calm' PROVE HeapInv'
  BY <1>3, <1>4 DEF ShellTypes, InterruptInv, HeapInv, OneShellInv, PointersInv, UartInv,
     Usb!Starts, Usb!managers, Usb!threads
<1>5. ASSUME Calm' PROVE OneShellInv'
  BY <1>3, <1>5 DEF ShellTypes, InterruptInv, HeapInv, OneShellInv, PointersInv, UartInv,
     Usb!Starts, Usb!managers, Usb!threads
<1>6. ASSUME Calm' PROVE PointersInv'
  BY <1>3, <1>6 DEF ShellTypes, InterruptInv, HeapInv, OneShellInv, PointersInv, UartInv,
     Usb!Starts, Usb!managers, Usb!threads
<1>7. ASSUME Calm' PROVE UartInv'
  BY <1>3, <1>7 DEF ShellTypes, InterruptInv, HeapInv, OneShellInv, PointersInv, UartInv,
     Usb!Starts, Usb!managers, Usb!threads
<1> QED
  BY <1>1, <1>2, <1>4, <1>5, <1>6, <1>7

LEMMA CommandWaitedKeeps ==
  ASSUME ShellsInv, NEW s \in Usb!Shells, Usb!CommandWaited(s)
  PROVE  ShellsInv'
<1> USE ShellNames DEF ShellsInv, Calm, Usb!Running, Tells
<1>1. ShellTypes'
  BY DEF ShellTypes, Usb!CommandWaited, Usb!Waited, Usb!Replaced, Usb!Forgets,
     Usb!managers
<1>2. InterruptInv'
  BY DEF ShellTypes, InterruptInv, Usb!CommandWaited, Usb!Waited, Usb!Replaced,
     Usb!Forgets, Usb!managers
<1>3. ASSUME Calm' PROVE Calm
  BY <1>3 DEF ShellTypes, Usb!CommandWaited, Usb!Waited, Usb!Replaced, Usb!Forgets,
     Usb!managers
<1>4. ASSUME Calm' PROVE HeapInv'
  BY <1>3, <1>4 DEF ShellTypes, InterruptInv, HeapInv, OneShellInv, PointersInv, UartInv,
     Usb!CommandWaited, Usb!Waited, Usb!Replaced, Usb!Forgets, Usb!managers
<1>5. ASSUME Calm' PROVE OneShellInv'
  BY <1>3, <1>5 DEF ShellTypes, InterruptInv, HeapInv, OneShellInv, PointersInv, UartInv,
     Usb!CommandWaited, Usb!Waited, Usb!Replaced, Usb!Forgets, Usb!managers
<1>6. ASSUME Calm' PROVE PointersInv'
  BY <1>3, <1>6 DEF ShellTypes, InterruptInv, HeapInv, OneShellInv, PointersInv, UartInv,
     Usb!CommandWaited, Usb!Waited, Usb!Replaced, Usb!Forgets, Usb!managers
<1>7. ASSUME Calm' PROVE UartInv'
  BY <1>3, <1>7 DEF ShellTypes, InterruptInv, HeapInv, OneShellInv, PointersInv, UartInv,
     Usb!CommandWaited, Usb!Waited, Usb!Replaced, Usb!Forgets, Usb!managers
<1> QED
  BY <1>1, <1>2, <1>4, <1>5, <1>6, <1>7

LEMMA DeadKeeps ==
  ASSUME ShellsInv, NEW s \in Usb!Shells, Usb!Dead(s)
  PROVE  ShellsInv'
<1> USE ShellNames DEF ShellsInv, Calm, Usb!Running, Tells
<1>1. ShellTypes'
  BY DEF ShellTypes, Usb!Dead, Usb!Waited, Usb!managers
<1>2. InterruptInv'
  BY DEF ShellTypes, InterruptInv, Usb!Dead, Usb!Waited, Usb!managers
<1>3. ASSUME Calm' PROVE Calm
  BY <1>3 DEF ShellTypes, Usb!Dead, Usb!Waited, Usb!managers
<1>4. ASSUME Calm' PROVE HeapInv'
  BY <1>3, <1>4 DEF ShellTypes, InterruptInv, HeapInv, OneShellInv, PointersInv, UartInv,
     Usb!Dead, Usb!Waited, Usb!managers
<1>5. ASSUME Calm' PROVE OneShellInv'
  BY <1>3, <1>5 DEF ShellTypes, InterruptInv, HeapInv, OneShellInv, PointersInv, UartInv,
     Usb!Dead, Usb!Waited, Usb!managers
<1>6. ASSUME Calm' PROVE PointersInv'
  BY <1>3, <1>6 DEF ShellTypes, InterruptInv, HeapInv, OneShellInv, PointersInv, UartInv,
     Usb!Dead, Usb!Waited, Usb!managers
<1>7. ASSUME Calm' PROVE UartInv'
  BY <1>3, <1>7 DEF ShellTypes, InterruptInv, HeapInv, OneShellInv, PointersInv, UartInv,
     Usb!Dead, Usb!Waited, Usb!managers
<1> QED
  BY <1>1, <1>2, <1>4, <1>5, <1>6, <1>7

LEMMA DiesKeeps ==
  ASSUME ShellsInv, NEW s \in Usb!Shells, Usb!Dies(s)
  PROVE  ShellsInv'
<1> USE ShellNames DEF ShellsInv, Calm, Usb!Running, Tells
<1>1. ShellTypes'
  BY DEF ShellTypes, Usb!Dies, Usb!Reads, Usb!SeenRunning, Usb!SeenFinal,
     Usb!Terminate, Usb!managers
<1>2. InterruptInv'
  BY DEF ShellTypes, InterruptInv, Usb!Dies, Usb!Reads, Usb!SeenRunning, Usb!SeenFinal,
     Usb!Terminate, Usb!managers
<1>3. ASSUME Calm' PROVE Calm
  BY <1>3 DEF ShellTypes, Usb!Dies, Usb!Reads, Usb!SeenRunning, Usb!SeenFinal,
     Usb!Terminate, Usb!managers
<1>4. ASSUME Calm' PROVE HeapInv'
  BY <1>3, <1>4 DEF ShellTypes, InterruptInv, HeapInv, OneShellInv, PointersInv, UartInv,
     Usb!Dies, Usb!Reads, Usb!SeenRunning, Usb!SeenFinal, Usb!Terminate,
     Usb!managers
<1>5. ASSUME Calm' PROVE OneShellInv'
  BY <1>3, <1>5 DEF ShellTypes, InterruptInv, HeapInv, OneShellInv, PointersInv, UartInv,
     Usb!Dies, Usb!Reads, Usb!SeenRunning, Usb!SeenFinal, Usb!Terminate,
     Usb!managers
<1>6. ASSUME Calm' PROVE PointersInv'
  BY <1>3, <1>6 DEF ShellTypes, InterruptInv, HeapInv, OneShellInv, PointersInv, UartInv,
     Usb!Dies, Usb!Reads, Usb!SeenRunning, Usb!SeenFinal, Usb!Terminate,
     Usb!managers
<1>7. ASSUME Calm' PROVE UartInv'
  BY <1>3, <1>7 DEF ShellTypes, InterruptInv, HeapInv, OneShellInv, PointersInv, UartInv,
     Usb!Dies, Usb!Reads, Usb!SeenRunning, Usb!SeenFinal, Usb!Terminate,
     Usb!managers
<1> QED
  BY <1>1, <1>2, <1>4, <1>5, <1>6, <1>7

LEMMA SigintKeeps ==
  ASSUME ShellsInv, NEW s \in Usb!Shells, Usb!Sigint(s)
  PROVE  ShellsInv'
<1> USE ShellNames DEF ShellsInv, Calm, Usb!Running, Tells
<1>1. ShellTypes'
  BY DEF ShellTypes, Usb!Sigint, Usb!Reads, Usb!Terminate, Usb!managers
<1>2. InterruptInv'
  BY DEF ShellTypes, InterruptInv, Usb!Sigint, Usb!Reads, Usb!Terminate, Usb!managers
<1>3. ASSUME Calm' PROVE Calm
  BY <1>3 DEF ShellTypes, Usb!Sigint, Usb!Reads, Usb!Terminate, Usb!managers
<1>4. ASSUME Calm' PROVE HeapInv'
  BY <1>3, <1>4 DEF ShellTypes, InterruptInv, HeapInv, OneShellInv, PointersInv, UartInv,
     Usb!Sigint, Usb!Reads, Usb!Terminate, Usb!managers
<1>5. ASSUME Calm' PROVE OneShellInv'
  BY <1>3, <1>5 DEF ShellTypes, InterruptInv, HeapInv, OneShellInv, PointersInv, UartInv,
     Usb!Sigint, Usb!Reads, Usb!Terminate, Usb!managers
<1>6. ASSUME Calm' PROVE PointersInv'
  BY <1>3, <1>6 DEF ShellTypes, InterruptInv, HeapInv, OneShellInv, PointersInv, UartInv,
     Usb!Sigint, Usb!Reads, Usb!Terminate, Usb!managers
<1>7. ASSUME Calm' PROVE UartInv'
  BY <1>3, <1>7 DEF ShellTypes, InterruptInv, HeapInv, OneShellInv, PointersInv, UartInv,
     Usb!Sigint, Usb!Reads, Usb!Terminate, Usb!managers
<1> QED
  BY <1>1, <1>2, <1>4, <1>5, <1>6, <1>7

LEMMA ExecuteKeeps ==
  ASSUME ShellsInv, NEW s \in Usb!Shells, NEW e, Usb!Execute(s, e)
  PROVE  ShellsInv'
<1> USE ShellNames DEF ShellsInv, Calm, Usb!Running, Tells
<1>1. ShellTypes'
  BY DEF ShellTypes, Usb!Execute, Usb!Reads, Usb!Crowded, Usb!managers, Usb!threads
<1>2. InterruptInv'
  BY DEF ShellTypes, InterruptInv, Usb!Execute, Usb!Reads, Usb!Crowded, Usb!managers,
     Usb!threads
<1>3. ASSUME Calm' PROVE Calm
  BY <1>3 DEF ShellTypes, Usb!Execute, Usb!Reads, Usb!Crowded, Usb!managers, Usb!threads
<1>4. ASSUME Calm' PROVE HeapInv'
  BY <1>3, <1>4 DEF ShellTypes, InterruptInv, HeapInv, OneShellInv, PointersInv, UartInv,
     Usb!Execute, Usb!Reads, Usb!Crowded, Usb!managers, Usb!threads
<1>5. ASSUME Calm' PROVE OneShellInv'
  BY <1>3, <1>5 DEF ShellTypes, InterruptInv, HeapInv, OneShellInv, PointersInv, UartInv,
     Usb!Execute, Usb!Reads, Usb!Crowded, Usb!managers, Usb!threads
<1>6. ASSUME Calm' PROVE PointersInv'
  BY <1>3, <1>6 DEF ShellTypes, InterruptInv, HeapInv, OneShellInv, PointersInv, UartInv,
     Usb!Execute, Usb!Reads, Usb!Crowded, Usb!managers, Usb!threads
<1>7. ASSUME Calm' PROVE UartInv'
  BY <1>3, <1>7 DEF ShellTypes, InterruptInv, HeapInv, OneShellInv, PointersInv, UartInv,
     Usb!Execute, Usb!Reads, Usb!Crowded, Usb!managers, Usb!threads
<1> QED
  BY <1>1, <1>2, <1>4, <1>5, <1>6, <1>7

LEMMA ExecuteForksKeeps ==
  ASSUME ShellsInv, NEW s \in Usb!Shells, NEW c \in Commands, Usb!ExecuteForks(s, c)
  PROVE  ShellsInv'
<1> USE ShellNames DEF ShellsInv, Calm, Usb!Running, Tells
<1>1. ShellTypes'
  BY DEF ShellTypes, Usb!ExecuteForks, Usb!Reads, Usb!Crowded, Usb!Replaced,
     Usb!managers
<1>2. InterruptInv'
  BY DEF ShellTypes, InterruptInv, Usb!ExecuteForks, Usb!Reads, Usb!Crowded,
     Usb!Replaced, Usb!managers
<1>3. ASSUME Calm' PROVE Calm
  BY <1>3 DEF ShellTypes, Usb!ExecuteForks, Usb!Reads, Usb!Crowded, Usb!Replaced,
     Usb!managers
<1>4. ASSUME Calm' PROVE HeapInv'
  BY <1>3, <1>4 DEF ShellTypes, InterruptInv, HeapInv, OneShellInv, PointersInv, UartInv,
     Usb!ExecuteForks, Usb!Reads, Usb!Crowded, Usb!Replaced, Usb!managers
<1>5. ASSUME Calm' PROVE OneShellInv'
  BY <1>3, <1>5 DEF ShellTypes, InterruptInv, HeapInv, OneShellInv, PointersInv, UartInv,
     Usb!ExecuteForks, Usb!Reads, Usb!Crowded, Usb!Replaced, Usb!managers
<1>6. ASSUME Calm' PROVE PointersInv'
  <2>1. /\ s \notin terminated /\ CurrentCmd_tp = Usb!Nobody /\ shells_phase[s] = "loop"
        /\ c \notin alive /\ alive' = alive \cup {c} /\ CurrentCmd_tp' = c
        /\ terminated' = terminated \ {c} /\ final' = final \ {c}
        /\ UNCHANGED <<shells_phase, awaited>>
    BY <1>3, <1>6 DEF ShellTypes, PointersInv, Usb!ExecuteForks, Usb!Reads, Usb!Crowded,
       Usb!Replaced
  <2>2. \A r \in Usb!Shells : shells_phase[r] # "sigint" /\ shells_phase[r] # "dying"
    BY <1>3, <1>6, <2>1 DEF PointersInv
  <2>3. \A r \in Usb!Shells : r \in alive \ final => r = s
    BY <1>3, <1>6, <2>1 DEF OneShellInv
  <2> QED
    BY <2>1, <2>2, <2>3 DEF PointersInv
<1>7. ASSUME Calm' PROVE UartInv'
  BY <1>3, <1>7 DEF ShellTypes, InterruptInv, HeapInv, OneShellInv, PointersInv, UartInv,
     Usb!ExecuteForks, Usb!Reads, Usb!Crowded, Usb!Replaced, Usb!managers
<1> QED
  BY <1>1, <1>2, <1>4, <1>5, <1>6, <1>7

LEMMA EndsKeeps ==
  ASSUME ShellsInv, NEW c \in Usb!Others, Usb!Ends(c)
  PROVE  ShellsInv'
<1> USE ShellNames DEF ShellsInv, Calm, Usb!Running, Tells
<1>1. ShellTypes'
  BY DEF ShellTypes, Usb!Ends, Usb!Others, Usb!managers, Usb!shellvars
<1>2. InterruptInv'
  BY DEF ShellTypes, InterruptInv, Usb!Ends, Usb!Others, Usb!managers, Usb!shellvars
<1>3. ASSUME Calm' PROVE Calm
  BY <1>3 DEF ShellTypes, Usb!Ends, Usb!Others, Usb!managers, Usb!shellvars
<1>4. ASSUME Calm' PROVE HeapInv'
  BY <1>3, <1>4 DEF ShellTypes, InterruptInv, HeapInv, OneShellInv, PointersInv, UartInv,
     Usb!Ends, Usb!Others, Usb!managers, Usb!shellvars
<1>5. ASSUME Calm' PROVE OneShellInv'
  BY <1>3, <1>5 DEF ShellTypes, InterruptInv, HeapInv, OneShellInv, PointersInv, UartInv,
     Usb!Ends, Usb!Others, Usb!managers, Usb!shellvars
<1>6. ASSUME Calm' PROVE PointersInv'
  BY <1>3, <1>6 DEF ShellTypes, InterruptInv, HeapInv, OneShellInv, PointersInv, UartInv,
     Usb!Ends, Usb!Others, Usb!managers, Usb!shellvars
<1>7. ASSUME Calm' PROVE UartInv'
  BY <1>3, <1>7 DEF ShellTypes, InterruptInv, HeapInv, OneShellInv, PointersInv, UartInv,
     Usb!Ends, Usb!Others, Usb!managers, Usb!shellvars
<1> QED
  BY <1>1, <1>2, <1>4, <1>5, <1>6, <1>7

LEMMA ShellsGo ==
  ASSUME ShellsInv, [Usb!Next]_shells
  PROVE  ShellsInv'
<1>1. CASE Usb!SetEnable \/ Usb!Plug \/ Usb!Undefined \/ UNCHANGED shells
  <2>1. UNCHANGED <<lm, shell_active, victim, um, can_active, curr_tp, shell_tp, shell_sdp,
                    CurrentCmd_tp, shells_phase, awaited, alive, final, terminated, wild,
                    both, careless>>
    BY <1>1 DEF Usb!SetEnable, Usb!Plug, Usb!Undefined, Usb!vars, Usb!managers,
       Usb!shellvars, Usb!threads, shells
  <2> QED
    BY <2>1 DEF ShellsInv, ShellTypes, InterruptInv, Calm, HeapInv, OneShellInv,
       PointersInv, UartInv, Usb!Running
<1>2. ASSUME NEW s \in Usb!Shells, Usb!Switches(s) PROVE ShellsInv'
  BY <1>2, ExecuteKeeps DEF Usb!Switches
<1> QED
  BY <1>1, <1>2, LmBootKeeps, LmKillShellKeeps, LmShellKilledKeeps, LmKillMavlinkKeeps,
     LmMavlinkKilledKeeps, UmForkKeeps, UmTermKeeps, UmCanTermedKeeps, UmUsbTermedKeeps,
     StartsKeeps, CommandWaitedKeeps, DeadKeeps, DiesKeeps, SigintKeeps,
     ExecuteForksKeeps, EndsKeeps
  DEF Usb!Next, Usb!LinkMgr, Usb!UsbCanMgr, Usb!ShellStep

LEMMA ShellsSay ==
  ASSUME ShellsInv
  PROVE  Usb!NoFreedThread /\ Usb!UartHasOneOwner /\ Usb!InterruptHasItsHandler
<1>1. Usb!NoFreedThread
  BY DEF ShellsInv, ShellTypes, Calm, HeapInv, Usb!NoFreedThread
<1>2. Usb!UartHasOneOwner
  BY ShellNames DEF ShellsInv, ShellTypes, Calm, OneShellInv, UartInv, Usb!UartHasOneOwner,
     Usb!Running
<1>3. Usb!InterruptHasItsHandler
  BY ShellNames DEF ShellsInv, ShellTypes, InterruptInv, Usb!InterruptHasItsHandler,
     Usb!Running
<1> QED
  BY <1>1, <1>2, <1>3

-----------------------------------------------------------------------------
(* The port on USB.  What the configuration is made of, item by item; a    *)
(* host that asks for nine bytes gets its first item, and one that asks    *)
(* for as many as that says gets all of it.                                *)
Conf == Cdc!Configuration
Kinds == <<"configuration", "interface", "header", "call_management", "abstract_control",
           "union", "endpoint", "interface", "endpoint", "endpoint">>
Sizes == <<9, 9, 5, 5, 4, 5, 7, 9, 7, 7>>
Sums == <<9, 18, 23, 28, 32, 37, 44, 53, 60, 67>>

LEMMA ConfLen == DOMAIN Conf = 1 .. 10 /\ Len(Conf) = 10
BY DEF Conf, Cdc!Configuration

LEMMA ConfSizes == \A k \in 1 .. 10 : Conf[k].bLength = Sizes[k]
BY DEF Conf, Cdc!Configuration, Sizes

LEMMA ConfKinds == \A k \in 1 .. 10 : Conf[k].kind = Kinds[k]
BY DEF Conf, Cdc!Configuration, Kinds

LEMMA ConfSome ==
  /\ Conf[1].total = 67 /\ Conf[1].interfaces = 2
  /\ Conf[2].number = 0 /\ Conf[2].endpoints = 1
  /\ Conf[6].master = 0 /\ Conf[6].slave = 1
  /\ Conf[8].number = 1 /\ Conf[8].endpoints = 2
BY DEF Conf, Cdc!Configuration

LEMMA ConfEnds ==
  /\ Conf[7].ep = 2 /\ Conf[7].dir = "in" /\ Conf[7].type = "intr" /\ Conf[7].size = 8
  /\ Conf[9].ep = 3 /\ Conf[9].dir = "out" /\ Conf[9].type = "bulk" /\ Conf[9].size = 64
  /\ Conf[10].ep = 1 /\ Conf[10].dir = "in" /\ Conf[10].type = "bulk" /\ Conf[10].size = 64
BY DEF Conf, Cdc!Configuration

At(k) == IF k = 0 THEN 0 ELSE Sums[k]

LEMMA SumUp == \A k \in 1 .. 10 : At(k) = At(k - 1) + Sizes[k]
BY DEF At, Sums, Sizes

LEMMA SumsOf ==
  /\ \A k \in 0 .. 10 : At(k) \in Nat
  /\ \A k \in 0 .. 10 : At(k) <= 9 => k <= 1
  /\ \A k \in 0 .. 10 : At(k) <= 67
  /\ At(0) = 0 /\ At(1) = 9 /\ At(10) = 67
BY DEF At, Sums

LEMMA EndsOf == \A k \in 0 .. 10 : Cdc!Ends(Conf)[k] = At(k)
<1> DEFINE Is(e) ==
      e = [k \in 0 .. Len(Conf) |-> IF k = 0 THEN 0 ELSE e[k - 1] + Conf[k].bLength]
<1>1. \E e : Is(e)
  <2> DEFINE e == [k \in 0 .. Len(Conf) |-> At(k)]
             g == [k \in 0 .. Len(Conf) |-> IF k = 0 THEN 0 ELSE e[k - 1] + Conf[k].bLength]
  <2>1. \A k \in 0 .. Len(Conf) : g[k] = At(k)
    <3> SUFFICES ASSUME NEW k \in 0 .. 10 PROVE g[k] = At(k)
      BY ConfLen
    <3>1. CASE k = 0
      BY <3>1, ConfLen, SumsOf
    <3>2. CASE k # 0
      <4>1. k \in 1 .. 10 /\ k - 1 \in 0 .. 10
        BY <3>2
      <4>2. e[k - 1] = At(k - 1) /\ Conf[k].bLength = Sizes[k]
        BY <4>1, ConfLen, ConfSizes
      <4>3. g[k] = e[k - 1] + Conf[k].bLength
        BY <3>2, ConfLen
      <4> QED
        BY <4>1, <4>2, <4>3, SumUp
    <3> QED
      BY <3>1, <3>2
  <2>2. e = g
    BY <2>1, Zenon
  <2>3. Is(e)
    BY <2>2, Zenon
  <2> QED
    BY <2>3, Zenon
<1>2. Is(Cdc!Ends(Conf))
  BY <1>1, Zenon DEF Cdc!Ends
<1> DEFINE e == Cdc!Ends(Conf)
<1> HIDE DEF e
<1>3. e = [k \in 0 .. 10 |-> IF k = 0 THEN 0 ELSE e[k - 1] + Conf[k].bLength]
  BY <1>2, ConfLen, Zenon DEF e
<1> HIDE DEF Is
<1>4. e[0] = 0 /\ \A k \in 1 .. 10 : e[k] = e[k - 1] + Sizes[k]
  BY <1>3, ConfSizes
<1>5. /\ e[0] = At(0)
      /\ \A k \in 1 .. 10 : e[k - 1] = At(k - 1) => e[k] = At(k)
  BY <1>4, SumUp, SumsOf
<1>6. /\ e[1] = At(1) /\ e[2] = At(2) /\ e[3] = At(3) /\ e[4] = At(4) /\ e[5] = At(5)
      /\ e[6] = At(6) /\ e[7] = At(7) /\ e[8] = At(8) /\ e[9] = At(9) /\ e[10] = At(10)
  BY <1>5
<1>7. \A k \in 0 .. 10 : e[k] = At(k)
  BY <1>5, <1>6
<1> QED
  BY <1>7 DEF e

Entries == {Conf[k] : k \in 1 .. 10}

LEMMA ConfIsSeq == Conf \in Seq(Entries)
<1>1. Conf = [k \in 1 .. 10 |-> Conf[k]]
  BY DEF Conf, Cdc!Configuration
<1>2. \A E : [1 .. 10 -> E] \subseteq Seq(E)
  <2>1. 10 \in Nat
    OBVIOUS
  <2> QED
    BY <2>1, SeqDef, Zenon
<1>3. \A k \in 1 .. 10 : Conf[k] \in Entries
  BY DEF Entries
<1>4. [k \in 1 .. 10 |-> Conf[k]] \in [1 .. 10 -> Entries]
  BY <1>3
<1> QED
  BY <1>1, <1>2, <1>4, Zenon

LEMMA FirstItem == Cdc!FirstBytes(Conf, 9) = <<Conf[1]>>
<1> DEFINE Fits == {k \in 0 .. Len(Conf) : Cdc!Ends(Conf)[k] <= 9}
<1>1. Fits = {0, 1}
  BY ConfLen, EndsOf, SumsOf
<1>2. Cdc!Max(Fits) = 1
  <2> HIDE DEF Fits
  <2>1. Cdc!Max(Fits) = CHOOSE x \in {0, 1} : \A y \in {0, 1} : x >= y
    BY <1>1, Zenon DEF Cdc!Max
  <2> QED
    BY <2>1
<1>3. Cdc!FirstBytes(Conf, 9) = SubSeq(Conf, 1, Cdc!Max(Fits))
  BY DEF Cdc!FirstBytes
<1>4. SubSeq(Conf, 1, 1) = <<Conf[1]>>
  <2> DEFINE one == SubSeq(Conf, 1, 1)
  <2>1. 1 \in 0 .. Len(Conf)
    BY ConfLen
  <2>2. one = [k \in 1 .. 1 |-> Conf[k]]
    BY <2>1, ConfIsSeq, SubSeqRestrict, Zenon DEF Restrict
  <2> HIDE DEF one
  <2>3. one = <<Conf[1]>>
    BY <2>2
  <2> QED
    BY <2>3 DEF one
<1> QED
  BY <1>2, <1>3, <1>4, Zenon

LEMMA AllItems == Cdc!FirstBytes(Conf, 67) = Conf
<1> DEFINE Fits == {k \in 0 .. Len(Conf) : Cdc!Ends(Conf)[k] <= 67}
<1>1. Fits = 0 .. 10
  BY ConfLen, EndsOf, SumsOf
<1>2. Cdc!Max(Fits) = 10
  <2> HIDE DEF Fits
  <2>1. Cdc!Max(Fits) = CHOOSE x \in 0 .. 10 : \A y \in 0 .. 10 : x >= y
    BY <1>1, Zenon DEF Cdc!Max
  <2> QED
    BY <2>1
<1>3. Cdc!FirstBytes(Conf, 67) = SubSeq(Conf, 1, Cdc!Max(Fits))
  BY DEF Cdc!FirstBytes
<1>4. SubSeq(Conf, 1, 10) = Conf
  BY ConfIsSeq, ConfLen, SubSeqFull
<1> QED
  BY <1>2, <1>3, <1>4, Zenon

(* What the parts of the configuration say of their number is true.        *)
LEMMA Counted ==
  /\ \A x : Cdc!ExistsBijection(1 .. 1, {x})
  /\ \A x, y : x # y => Cdc!ExistsBijection(1 .. 2, {x, y})
<1>1. ASSUME NEW x PROVE Cdc!ExistsBijection(1 .. 1, {x})
  <2> DEFINE f == [k \in 1 .. 1 |-> x]
  <2>1. f \in [1 .. 1 -> {x}]
    OBVIOUS
  <2>2. Cdc!IsInjective(f)
    BY DEF Cdc!IsInjective
  <2>3. \A z \in {x} : \E k \in 1 .. 1 : f[k] = z
    OBVIOUS
  <2> HIDE DEF f
  <2>4. f \in Cdc!Bijection(1 .. 1, {x})
    BY <2>1, <2>2, <2>3, Zenon DEF Cdc!Bijection, Cdc!Injection, Cdc!Surjection
  <2> QED
    BY <2>4, Zenon DEF Cdc!ExistsBijection
<1>2. ASSUME NEW x, NEW y, x # y PROVE Cdc!ExistsBijection(1 .. 2, {x, y})
  <2> DEFINE f == [k \in 1 .. 2 |-> IF k = 1 THEN x ELSE y]
  <2>1. f \in [1 .. 2 -> {x, y}]
    OBVIOUS
  <2>2. Cdc!IsInjective(f)
    BY <1>2 DEF Cdc!IsInjective
  <2>3. \A z \in {x, y} : \E k \in 1 .. 2 : f[k] = z
    <3>1. 1 \in 1 .. 2 /\ 2 \in 1 .. 2 /\ f[1] = x /\ f[2] = y
      OBVIOUS
    <3> HIDE DEF f
    <3> QED
      BY <3>1, Zenon
  <2> HIDE DEF f
  <2>4. f \in Cdc!Bijection(1 .. 2, {x, y})
    BY <2>1, <2>2, <2>3, Zenon DEF Cdc!Bijection, Cdc!Injection, Cdc!Surjection
  <2> QED
    BY <2>4, Zenon DEF Cdc!ExistsBijection
<1> QED
  BY <1>1, <1>2, Zenon

LEMMA Parts ==
  /\ {k \in DOMAIN Conf : Conf[k].kind = "interface"} = {2, 8}
  /\ {k \in DOMAIN Conf : Conf[k].kind = "endpoint"} = {7, 9, 10}
  /\ {k \in DOMAIN Conf : Conf[k].kind = "union"} = {6}
<1> DEFINE parts(kind) == {k \in DOMAIN Conf : Conf[k].kind = kind}
<1>1. \A kind : parts(kind) = {k \in 1 .. 10 : Kinds[k] = kind}
  BY ConfLen, ConfKinds
<1>2. {k \in 1 .. 10 : Kinds[k] = "interface"} = {2, 8}
  BY DEF Kinds
<1>3. {k \in 1 .. 10 : Kinds[k] = "endpoint"} = {7, 9, 10}
  BY DEF Kinds
<1>4. {k \in 1 .. 10 : Kinds[k] = "union"} = {6}
  BY DEF Kinds
<1> QED
  BY <1>1, <1>2, <1>3, <1>4

LEMMA StringLengths ==
  \A s \in 1 .. 3 : /\ Cdc!get_descriptor("string", s)[1].bLength =
                         2 + 2 * Cdc!get_descriptor("string", s)[1].chars
                    /\ Cdc!get_descriptor("string", s)[1].kind = "string"
<1>1. ASSUME NEW s \in 1 .. 3
      PROVE  Cdc!get_descriptor("string", s) = <<Cdc!Strings[s]>>
  BY <1>1 DEF Cdc!get_descriptor
<1>2. ASSUME NEW s \in 1 .. 3
      PROVE  /\ Cdc!Strings[s].bLength = <<4, 38, 56, 8>>[s + 1]
             /\ Cdc!Strings[s].chars = <<1, 18, 27, 3>>[s + 1]
             /\ Cdc!Strings[s].kind = "string"
  BY <1>2 DEF Cdc!Strings
<1>3. ASSUME NEW s \in 1 .. 3
      PROVE  <<4, 38, 56, 8>>[s + 1] = 2 + 2 * <<1, 18, 27, 3>>[s + 1]
  BY <1>3
<1> QED
  BY <1>1, <1>2, <1>3

LEMMA Describes ==
  ASSUME known = Conf
  PROVE  Cdc!DescribesItself
<1> DEFINE parts(kind) == {k \in DOMAIN known : known[k].kind = kind}
           between(i, k) == {j \in parts("interface") : i < j /\ j < k}
           owned(i) == {k \in parts("endpoint") : i < k /\ between(i, k) = {}}
<1>1. parts("interface") = {2, 8} /\ parts("endpoint") = {7, 9, 10} /\ parts("union") = {6}
  BY Parts, Zenon
<1>2. Cdc!Ends(known)[Len(known)] = known[1].total
  <2>1. Cdc!Ends(Conf)[10] = 67
    BY EndsOf, SumsOf
  <2> QED
    BY <2>1, ConfLen, ConfSome, Zenon
<1>3. Cdc!ExistsBijection(1 .. known[1].interfaces, parts("interface"))
  <2>1. 2 # 8
    OBVIOUS
  <2> HIDE DEF parts
  <2>2. Cdc!ExistsBijection(1 .. 2, {2, 8})
    BY <2>1, Counted, Zenon
  <2>3. known[1].interfaces = 2
    BY ConfSome, Zenon
  <2> QED
    BY <1>1, <2>2, <2>3, Zenon
<1>4. owned(2) = {7} /\ owned(8) = {9, 10}
  <2> HIDE DEF parts
  <2>1. /\ \A k \in {7, 9, 10} : between(2, k) = IF k = 7 THEN {} ELSE {8}
        /\ \A k \in {7, 9, 10} : between(8, k) = {}
    BY <1>1
  <2> HIDE DEF between
  <2> QED
    BY <1>1, <2>1
<1>5. \A i \in parts("interface") :
        Cdc!ExistsBijection(1 .. known[i].endpoints, owned(i))
  <2> HIDE DEF parts
  <2>1. 9 # 10
    OBVIOUS
  <2> HIDE DEF owned
  <2>2. Cdc!ExistsBijection(1 .. known[2].endpoints, owned(2))
    BY <1>4, Counted, ConfSome, Zenon
  <2>3. Cdc!ExistsBijection(1 .. known[8].endpoints, owned(8))
    BY <1>4, <2>1, Counted, ConfSome, Zenon
  <2> QED
    BY <1>1, <2>2, <2>3, Zenon
<1>6. \E u \in parts("union") :
        {known[u].master, known[u].slave} = {known[k].number : k \in parts("interface")}
  <2> HIDE DEF parts
  <2>1. known[6].master = 0 /\ known[6].slave = 1 /\ known[2].number = 0 /\ known[8].number = 1
    BY ConfSome, Zenon
  <2>2. {known[k].number : k \in {2, 8}} = {0, 1}
    BY <2>1
  <2> QED
    BY <1>1, <2>1, <2>2, Zenon
<1> QED
  BY <1>2, <1>3, <1>5, <1>6, StringLengths, Zenon DEF Cdc!DescribesItself

(* The device and the host step by step: the host is at the bus only while *)
(* the board shows its pull-up, ...                                        *)
Stages == {"off", "default", "addressed", "sized", "described", "configured"}

BusInv ==
  /\ mgr \in {"can", "up", "term", "drain", "hack"} /\ host \in Stages
  /\ pullup <=> mgr \in {"up", "term"}
  /\ host # "off" => mgr \in {"up", "term"}

(* ... the driver is where the host has led it, and is idle when it is     *)
(* stopped, ...                                                            *)
DriverInv ==
  /\ ~panicked
  /\ mgr = "hack" => driver \in {"stop", "ready"}
  /\ host \in {"addressed", "sized", "described"} => driver = "selected"
  /\ host = "configured" => driver = "active"
  /\ host \in {"default", "addressed", "sized", "described"} => epc = {}
  /\ host = "configured" => epc = {Cdc!ep1config, Cdc!ep2config, Cdc!ep3config}

(* ... the host knows of the configuration what it has read, ...           *)
KnownInv ==
  /\ host = "sized" => known = <<Conf[1]>>
  /\ host \in {"described", "configured"} => known = Conf

(* ... and what is in the queues is of this run.                           *)
QueueInv == iqueue \in Seq({starts}) /\ oqueue \in Seq({starts})

CdcInv == BusInv /\ DriverInv /\ KnownInv /\ QueueInv

LEMMA PortStarts == Cdc!Init => CdcInv
<1> SUFFICES ASSUME Cdc!Init PROVE CdcInv
  OBVIOUS
<1>1. /\ mgr = "can" /\ host = "off" /\ pullup = FALSE /\ panicked = FALSE
      /\ iqueue = <<>> /\ oqueue = <<>>
  BY DEF Cdc!Init
<1>2. BusInv /\ DriverInv /\ KnownInv
  BY <1>1 DEF BusInv, DriverInv, KnownInv, Stages
<1>3. QueueInv
  BY <1>1 DEF QueueInv
<1> QED
  BY <1>2, <1>3 DEF CdcInv

LEMMA SizeIsKnown ==
  /\ Cdc!get_descriptor("configuration", 0) = Conf
  /\ Cdc!FirstBytes(Cdc!get_descriptor("configuration", 0), 9) = <<Conf[1]>>
  /\ \A x : x = <<Conf[1]>> =>
       Cdc!FirstBytes(Cdc!get_descriptor("configuration", 0), x[1].total) = Conf
<1>1. Cdc!get_descriptor("configuration", 0) = Conf
  BY DEF Cdc!get_descriptor, Conf
<1>2. \A x : x = <<Conf[1]>> => x[1].total = 67
  BY ConfSome
<1> QED
  BY <1>1, <1>2, FirstItem, AllItems, Zenon

LEMMA BusGoes ==
  ASSUME CdcInv, Cdc!Next
  PROVE  BusInv' /\ DriverInv'
<1>0. BusInv /\ DriverInv
  BY DEF CdcInv
<1>1. CASE Cdc!UsbInitLocal
  BY <1>0, <1>1 DEF Cdc!UsbInitLocal, BusInv, DriverInv, Stages
<1>2. CASE Cdc!TerminatesShell
  BY <1>0, <1>2 DEF Cdc!TerminatesShell, BusInv, DriverInv, Stages
<1>3. CASE Cdc!DisconnectBus
  BY <1>0, <1>3 DEF Cdc!DisconnectBus, BusInv, DriverInv, Stages
<1>4. CASE Cdc!DirtyHack
  BY <1>0, <1>4 DEF Cdc!DirtyHack, BusInv, DriverInv, Stages
<1>5. CASE Cdc!SduStop
  <2>1. driver \in {"stop", "ready"}
    BY <1>0, <1>5 DEF Cdc!SduStop, DriverInv
  <2>2. ~panicked'
    BY <1>5, <2>1, Zenon DEF Cdc!SduStop
  <2> QED
    BY <1>0, <1>5, <2>2 DEF Cdc!SduStop, BusInv, DriverInv, Stages
<1>6. CASE Cdc!ShellReads
  BY <1>0, <1>6 DEF Cdc!ShellReads, BusInv, DriverInv, Stages
<1>7. CASE Cdc!ShellWrites
  BY <1>0, <1>7 DEF Cdc!ShellWrites, BusInv, DriverInv, Stages
<1>8. CASE Cdc!BusReset
  BY <1>0, <1>8 DEF Cdc!BusReset, BusInv, DriverInv, Stages
<1>9. CASE Cdc!SetAddress
  BY <1>0, <1>9 DEF Cdc!SetAddress, BusInv, DriverInv, Stages
<1>10. CASE Cdc!ReadSize
  BY <1>0, <1>10 DEF Cdc!ReadSize, BusInv, DriverInv, Stages, Cdc!dev
<1>11. CASE Cdc!ReadConfiguration
  BY <1>0, <1>11 DEF Cdc!ReadConfiguration, BusInv, DriverInv, Stages, Cdc!dev
<1>12. CASE Cdc!SetConfiguration
  BY <1>0, <1>12 DEF Cdc!SetConfiguration, BusInv, DriverInv, Stages, Cdc!Initialised
<1>13. CASE Cdc!HostSends
  BY <1>0, <1>13 DEF Cdc!HostSends, BusInv, DriverInv, Stages
<1>14. CASE Cdc!HostReceives
  BY <1>0, <1>14 DEF Cdc!HostReceives, BusInv, DriverInv, Stages
<1>15. CASE Cdc!Plug
  BY <1>0, <1>15 DEF Cdc!Plug, BusInv, DriverInv, Stages, Cdc!dev
<1> QED
  BY <1>1, <1>2, <1>3, <1>4, <1>5, <1>6, <1>7, <1>8, <1>9, <1>10, <1>11, <1>12, <1>13, <1>14, <1>15, Zenon DEF Cdc!Next

LEMMA KnownGoes ==
  ASSUME CdcInv, Cdc!Next
  PROVE  KnownInv'
<1>0. KnownInv /\ host \in Stages
  BY DEF CdcInv, BusInv
<1>1. CASE Cdc!UsbInitLocal
  BY <1>0, <1>1 DEF Cdc!UsbInitLocal, KnownInv, Stages
<1>2. CASE Cdc!TerminatesShell
  BY <1>0, <1>2 DEF Cdc!TerminatesShell, KnownInv, Stages
<1>3. CASE Cdc!DisconnectBus
  BY <1>0, <1>3 DEF Cdc!DisconnectBus, KnownInv, Stages
<1>4. CASE Cdc!DirtyHack
  BY <1>0, <1>4 DEF Cdc!DirtyHack, KnownInv, Stages
<1>5. CASE Cdc!SduStop
  BY <1>0, <1>5 DEF Cdc!SduStop, KnownInv, Stages
<1>6. CASE Cdc!ShellReads
  BY <1>0, <1>6 DEF Cdc!ShellReads, KnownInv, Stages
<1>7. CASE Cdc!ShellWrites
  BY <1>0, <1>7 DEF Cdc!ShellWrites, KnownInv, Stages
<1>8. CASE Cdc!BusReset
  BY <1>0, <1>8 DEF Cdc!BusReset, KnownInv, Stages
<1>9. CASE Cdc!SetAddress
  BY <1>0, <1>9 DEF Cdc!SetAddress, KnownInv, Stages
<1>10. CASE Cdc!ReadSize
  BY <1>0, <1>10, SizeIsKnown DEF Cdc!ReadSize, KnownInv, Stages
<1>11. CASE Cdc!ReadConfiguration
  BY <1>0, <1>11, SizeIsKnown DEF Cdc!ReadConfiguration, KnownInv, Stages
<1>12. CASE Cdc!SetConfiguration
  BY <1>0, <1>12 DEF Cdc!SetConfiguration, KnownInv, Stages
<1>13. CASE Cdc!HostSends
  BY <1>0, <1>13 DEF Cdc!HostSends, KnownInv, Stages
<1>14. CASE Cdc!HostReceives
  BY <1>0, <1>14 DEF Cdc!HostReceives, KnownInv, Stages
<1>15. CASE Cdc!Plug
  BY <1>0, <1>15 DEF Cdc!Plug, KnownInv, Stages
<1> QED
  BY <1>1, <1>2, <1>3, <1>4, <1>5, <1>6, <1>7, <1>8, <1>9, <1>10, <1>11, <1>12, <1>13, <1>14, <1>15, Zenon DEF Cdc!Next

LEMMA QueuesGo ==
  ASSUME CdcInv, Cdc!Next
  PROVE  QueueInv'
<1>0. QueueInv
  BY DEF CdcInv
<1>1. CASE Cdc!UsbInitLocal
  BY <1>0, <1>1 DEF Cdc!UsbInitLocal, QueueInv
<1>2. CASE Cdc!TerminatesShell
  BY <1>0, <1>2 DEF Cdc!TerminatesShell, QueueInv
<1>3. CASE Cdc!DisconnectBus
  BY <1>0, <1>3 DEF Cdc!DisconnectBus, QueueInv
<1>4. CASE Cdc!DirtyHack
  BY <1>0, <1>4 DEF Cdc!DirtyHack, QueueInv
<1>5. CASE Cdc!SduStop
  BY <1>0, <1>5 DEF Cdc!SduStop, QueueInv
<1>6. CASE Cdc!ShellReads
  BY <1>0, <1>6 DEF Cdc!ShellReads, QueueInv
<1>7. CASE Cdc!ShellWrites
  BY <1>0, <1>7 DEF Cdc!ShellWrites, QueueInv
<1>8. CASE Cdc!BusReset
  BY <1>0, <1>8 DEF Cdc!BusReset, QueueInv
<1>9. CASE Cdc!SetAddress
  BY <1>0, <1>9 DEF Cdc!SetAddress, QueueInv
<1>10. CASE Cdc!ReadSize
  BY <1>0, <1>10 DEF Cdc!ReadSize, QueueInv, Cdc!dev
<1>11. CASE Cdc!ReadConfiguration
  BY <1>0, <1>11 DEF Cdc!ReadConfiguration, QueueInv, Cdc!dev
<1>12. CASE Cdc!SetConfiguration
  BY <1>0, <1>12 DEF Cdc!SetConfiguration, QueueInv
<1>13. CASE Cdc!HostSends
  BY <1>0, <1>13 DEF Cdc!HostSends, QueueInv
<1>14. CASE Cdc!HostReceives
  BY <1>0, <1>14 DEF Cdc!HostReceives, QueueInv
<1>15. CASE Cdc!Plug
  BY <1>0, <1>15 DEF Cdc!Plug, QueueInv, Cdc!dev
<1> QED
  BY <1>1, <1>2, <1>3, <1>4, <1>5, <1>6, <1>7, <1>8, <1>9, <1>10, <1>11, <1>12, <1>13, <1>14, <1>15, Zenon DEF Cdc!Next

LEMMA PortGoes == CdcInv /\ [Cdc!Next]_port => CdcInv'
<1>1. ASSUME CdcInv, Cdc!Next PROVE CdcInv'
  BY <1>1, BusGoes, KnownGoes, QueuesGo, Zenon DEF CdcInv
<1>2. ASSUME CdcInv, UNCHANGED port PROVE CdcInv'
  BY <1>2, Zenon DEF CdcInv, BusInv, DriverInv, KnownInv, QueueInv, port
<1> QED
  BY <1>1, <1>2, Zenon

LEMMA Moves ==
  ASSUME epc = {Cdc!ep1config, Cdc!ep2config, Cdc!ep3config}
  PROVE  /\ Cdc!Moves("in") = {Cdc!ep1config}
         /\ Cdc!Moves("out") = {Cdc!ep3config}
         /\ {c.ep : c \in epc} = {1, 2, 3}
         /\ Cdc!ep1config.ep = 1 /\ Cdc!ep1config.size = 64
         /\ Cdc!ep3config.ep = 3 /\ Cdc!ep3config.size = 64
BY DEF Cdc!Moves, Cdc!ep1config, Cdc!ep2config, Cdc!ep3config

LEMMA DescribedParts ==
  ASSUME known = Conf
  PROVE  /\ Cdc!Bulk("in") = {Conf[10]}
         /\ Cdc!Bulk("out") = {Conf[9]}
         /\ {d.ep : d \in Cdc!Described} = {1, 2, 3}
<1>1. Cdc!Described = {Conf[7], Conf[9], Conf[10]}
  <2>1. Cdc!Described = {Conf[k] : k \in {7, 9, 10}}
    BY Parts, Zenon DEF Cdc!Described
  <2> QED
    BY <2>1
<1> QED
  BY <1>1, ConfEnds DEF Cdc!Bulk

LEMMA PortSays == CdcInv => Cdc!NeverPanics /\ Cdc!NothingLeftOver /\ Cdc!DescribesItself /\ Cdc!HostAgrees
<1> SUFFICES ASSUME CdcInv
             PROVE  Cdc!NeverPanics /\ Cdc!NothingLeftOver /\ Cdc!DescribesItself /\ Cdc!HostAgrees
  OBVIOUS
<1>1. Cdc!NeverPanics
  BY Zenon DEF CdcInv, DriverInv, Cdc!NeverPanics
<1>2. Cdc!NothingLeftOver
  BY DEF CdcInv, QueueInv, Cdc!NothingLeftOver
<1>3. Cdc!DescribesItself
  <2>1. CASE host \in {"described", "configured"}
    BY <2>1, Describes, Zenon DEF CdcInv, KnownInv
  <2>2. CASE ~(host \in {"described", "configured"})
    BY <2>2, Zenon DEF Cdc!DescribesItself
  <2> QED
    BY <2>1, <2>2
<1>4. Cdc!HostAgrees
  <2> SUFFICES ASSUME host = "configured"
               PROVE  /\ driver = "active" /\ pullup
                      /\ \A dir \in {"in", "out"} :
                           {<<d.ep, d.size>> : d \in Cdc!Bulk(dir)} =
                             {<<c.ep, c.size>> : c \in Cdc!Moves(dir)}
                      /\ {d.ep : d \in Cdc!Described} = {c.ep : c \in epc}
    BY Zenon DEF Cdc!HostAgrees
  <2>1. driver = "active" /\ pullup
    BY DEF CdcInv, BusInv, DriverInv
  <2>2. known = Conf /\ epc = {Cdc!ep1config, Cdc!ep2config, Cdc!ep3config}
    BY DEF CdcInv, KnownInv, DriverInv
  <2>3. /\ {<<d.ep, d.size>> : d \in Cdc!Bulk("in")} = {<<1, 64>>}
        /\ {<<d.ep, d.size>> : d \in Cdc!Bulk("out")} = {<<3, 64>>}
    BY <2>2, DescribedParts, ConfEnds
  <2>4. /\ {<<c.ep, c.size>> : c \in Cdc!Moves("in")} = {<<1, 64>>}
        /\ {<<c.ep, c.size>> : c \in Cdc!Moves("out")} = {<<3, 64>>}
    BY <2>2, Moves
  <2> QED
    BY <2>1, <2>2, <2>3, <2>4, DescribedParts, Moves, Zenon
<1> QED
  BY <1>1, <1>2, <1>3, <1>4

-----------------------------------------------------------------------------
OwnersInv == ShellsInv /\ CdcInv

LEMMA OwnersHold == PickSpec => []OwnersInv
<1>1. PickInit => OwnersInv
  BY ShellsStart, PortStarts DEF PickInit, OwnersInv
<1>2. OwnersInv /\ [PickNext]_everything => OwnersInv'
  <2> SUFFICES ASSUME OwnersInv, [PickNext]_everything PROVE OwnersInv'
    OBVIOUS
  <2>1. [Usb!Next]_shells /\ [Cdc!Next]_port
    BY DEF PickNext, TripStep, FilterStep, ShellStep, PortStep, InputStep, TelemetryStep, everything
  <2> QED
    BY <2>1, ShellsGo, PortGoes DEF OwnersInv
<1> QED
  BY <1>1, <1>2, PTL DEF PickSpec

(* cli.c:305-327, linkmgr.c:46-73, can_usb.c:171-189, usb_local.c:353-364: *)
(* for any commands a shell forks and any room of the queues, however the  *)
(* managers, the shells, the plug and the host interleave, no freed thread *)
(* is waited for unless two shells shared their pointers or a command was  *)
(* careless, each port and interrupt has one owner, the driver is never    *)
(* stopped in use, nothing is left over in its queues, and a host that has *)
(* configured the board agrees with it.                                    *)
THEOREM OwnersCorrect == PickSpec => []PortsHaveOwners
<1>1. OwnersInv => PortsHaveOwners
  BY ShellsSay, PortSays DEF OwnersInv, PortsHaveOwners
<1> QED
  BY <1>1, OwnersHold, PTL

-----------------------------------------------------------------------------
(* A product grows with its factor.                                        *)
LEMMA Grows ==
  ASSUME NEW a \in Nat, NEW b \in Nat, NEW c \in Nat, a <= b
  PROVE  a * c <= b * c
OBVIOUS

(* What a shift to the right leaves.                                       *)
LEMMA Quotient ==
  ASSUME NEW x \in Nat, NEW n \in Nat \ {0}
  PROVE  /\ x \div n \in Nat
         /\ (x \div n) * n <= x /\ x <= (x \div n) * n + n - 1
OBVIOUS

(* The quotient of a number in a range of multiples.                       *)
LEMMA QuotientBounds ==
  ASSUME NEW x \in Nat, NEW n \in Nat \ {0}, NEW a \in Nat, NEW b \in Nat,
         a * n <= x, x <= (b + 1) * n - 1
  PROVE  a <= x \div n /\ x \div n <= b
OBVIOUS

(* A number below the modulus is its own rest.                             *)
LEMMA ModSmall ==
  ASSUME NEW m \in Nat, NEW x \in 0 .. m - 1
  PROVE  x % m = x
OBVIOUS

(* dsp.c:50-53: what is taken off the accumulator and what is added to it  *)
(* are both between the rest and the greatest sample, and near an end of   *)
(* the range the difference points inwards.                                *)
LEMMA StepStaysBetween ==
  ASSUME NEW n \in Nat \ {0}, NEW a \in Nat, NEW b \in Nat,
         NEW x \in a * n .. (b + 1) * n - 1, NEW v \in a .. b
  PROVE  x - (x \div n) + v \in a * n .. (b + 1) * n - 1
<1> DEFINE q == x \div n
<1>1. a * n \in Nat /\ b * n \in Nat /\ (b + 1) * n = b * n + n
  OBVIOUS
<1>2. x \in Nat
  BY <1>1
<1>3. q \in Nat /\ a <= q /\ q <= b
  BY <1>1, <1>2, Quotient, QuotientBounds
<1>4. q * n <= x /\ x <= q * n + n - 1
  BY <1>2, Quotient
<1>5. q * n = q * (n - 1) + q /\ q * (n - 1) \in Nat /\ n - 1 \in Nat
  BY <1>3
<1> HIDE DEF q
<1>6. x - q + v >= a * n
  <2>1. CASE q = a
    BY <1>1, <1>2, <2>1
  <2>2. CASE a + 1 <= q
    <3>1. (a + 1) * (n - 1) <= q * (n - 1)
      BY <1>3, <1>5, <2>2, Grows
    <3>2. (a + 1) * (n - 1) = a * n - a + n - 1
      OBVIOUS
    <3> QED
      BY <1>1, <1>2, <1>3, <1>4, <1>5, <3>1, <3>2
  <2> QED
    BY <1>3, <2>1, <2>2
<1>7. x - q + v <= (b + 1) * n - 1
  <2>1. CASE q = b
    BY <1>1, <1>2, <2>1
  <2>2. CASE q + 1 <= b
    <3>1. (q + 1) * (n - 1) <= b * (n - 1)
      BY <1>3, <1>5, <2>2, Grows
    <3>2. (q + 1) * (n - 1) = q * (n - 1) + n - 1 /\ b * (n - 1) = b * n - b
      BY <1>3
    <3> QED
      BY <1>1, <1>2, <1>3, <1>4, <1>5, <3>1, <3>2
  <2> QED
    BY <1>3, <2>1, <2>2
<1> QED
  BY <1>1, <1>2, <1>3, <1>6, <1>7 DEF q

-----------------------------------------------------------------------------
Typed == sample \in Dsp!Samples /\ flen \in Dsp!Lengths

(* Samples and lengths are those the parameters allow.                     *)
LEMMA TypedStep == Typed /\ [Dsp!Next]_(Dsp!vars) => Typed'
BY DEF Typed, Dsp!Next, Dsp!Filter, Dsp!Changes, Dsp!SetLength, Dsp!vars

(* One sweep: the accumulator stays in range, and so does not wrap.        *)
LEMMA FilterStays ==
  ASSUME Dsp!FilterAssumption, Dsp!RoomAssumption, Typed, Dsp!InRange, Dsp!Filter
  PROVE  Dsp!InRange'
<1> DEFINE n == 2^flen
           v == sample + Rest
           x == S - (S \div n) + v
<1>1. /\ n \in Nat \ {0} /\ (Rest + MaxSample + 1) * n <= Half
      /\ Rest \in Nat /\ MaxSample \in Nat /\ Half \in Nat /\ sample \in 0 .. MaxSample
  BY DEF Dsp!FilterAssumption, Dsp!RoomAssumption, Typed, Dsp!Lengths, Dsp!Samples
<1>2. flen' = flen /\ S' = Dsp!Wrapped(x)
  BY DEF Dsp!Filter, Dsp!Accumulated, Dsp!Shifted
<1>3. S \in Rest * n .. (Rest + MaxSample + 1) * n - 1
  BY DEF Dsp!InRange
<1> HIDE DEF n
<1>4. x \in Rest * n .. (Rest + MaxSample + 1) * n - 1
  BY <1>1, <1>3, StepStaysBetween
<1>5. Rest * n \in Nat
  BY <1>1
<1> HIDE DEF x
<1>6. x + Half \in 0 .. 2 * Half - 1 /\ 2 * Half \in Nat
  BY <1>1, <1>4, <1>5
<1>7. Dsp!Wrapped(x) = x
  BY <1>1, <1>4, <1>5, <1>6, ModSmall DEF Dsp!Wrapped
<1> QED
  BY <1>2, <1>4, <1>7 DEF Dsp!InRange, n

(* adc_local.c:37, "the rest": neither end of the range is ever overrun,   *)
(* for every width of the accumulator that has room for the lengths used.  *)
THEOREM RangeCorrect ==
  ASSUME Dsp!FilterAssumption, Dsp!RoomAssumption
  PROVE  Dsp!Spec => Dsp!StaysInRange
<1>1. Dsp!Init => Typed
  BY DEF Dsp!Init, Typed
<1>2. ASSUME Typed, [Dsp!Next]_(Dsp!vars)
      PROVE  [Dsp!InRange /\ flen' = flen => Dsp!InRange']_(Dsp!vars)
  <2>1. CASE Dsp!Filter
    BY <1>2, <2>1, FilterStays
  <2>2. CASE Dsp!Changes \/ Dsp!SetLength
    BY <2>2 DEF Dsp!Changes, Dsp!SetLength, Dsp!MayChange, Dsp!InRange
  <2> QED
    BY <1>2, <2>1, <2>2 DEF Dsp!Next
<1> QED
  BY <1>1, <1>2, TypedStep, PTL DEF Dsp!Spec, Dsp!StaysInRange
=============================================================================
