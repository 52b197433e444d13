-------------------------- MODULE TimeSync_proofs --------------------------
(***************************************************************************)
(* Proofs about what runs by time on BNAP (MCTime), for every period,      *)
(* timeout and error of the RTC: with a healthy receiver (HealthySpec) the *)
(* corrected clock is exact, and a sentence is used for the pulse it       *)
(* belongs to; noise puts nothing false into a message (Gps); the RTC      *)
(* shows what it was set to (Rtc); the load is a share (CpuLoad);          *)
(* heartbeats keep their rate (Broadcast); a LED blinks for what it heard  *)
(* (Leds).                                                                 *)
(*                                                                         *)
(* The argument about the clock: a sentence that waits to be used is of    *)
(* the second that goes on, whose pulse was stamped, since the thread      *)
(* either waits for it, or has the pulse still before it, or keeps the bus *)
(* for less than a second; and the clock has not been corrected since that *)
(* pulse.                                                                  *)
(***************************************************************************)
EXTENDS MCTime, SequenceTheorems, TLAPS

SyncType ==
  /\ slot \in 0 .. Period - 1
  /\ err \in Int /\ shift \in Int /\ rtc \in Int
  /\ ppsAge \in 0 .. MaxAge /\ ppsErr \in Int
  /\ timp \in 0 .. MaxAge \cup {NoTimp}
  /\ pc \in {"pps", "nmea", "rtc"} /\ waited \in 0 .. MaxBus
  /\ lag \in 0 .. MaxBus + Period

(* gps_timp holds a time as long as nobody used it: that of this second,   *)
(* whose pulse was stamped.                                                *)
SentenceInv ==
  /\ event <=> timp # NoTimp
  /\ event => timp = 0 /\ ppsAge = 0 /\ said /\ slot > 0 /\ slot < Timeout

(* Until the sentence of a stamped second has been used the clock is that  *)
(* of the stamp.                                                           *)
StampInv == ppsAge = 0 /\ (~said \/ event) => ppsErr = err /\ shift = 0

(* Who waits for the pulse has it before it, or the time for the sentence  *)
(* of this second is over.                                                 *)
PpsInv ==
  pc = "pps" => /\ event => sem
                /\ ~sem /\ ppsAge = 0 => said \/ slot >= Timeout

(* Who waits for the sentence did so from the stamped pulse on, or later.  *)
NmeaInv == pc = "nmea" /\ ~sem /\ ppsAge = 0 => said \/ waited <= slot

(* The bus is kept since slot lag - waited, of this second or the one      *)
(* before.  Only in the second case there may be a sentence, and if there  *)
(* was a pulse it is still to be taken.                                    *)
BusInv ==
  pc = "rtc" => /\ waited < Period
                /\ lag - waited > 0 /\ lag - waited < Timeout
                /\ \/ lag = slot /\ said /\ ~event
                   \/ lag = slot + Period /\ (ppsAge = 0 => sem)

ClockInv ==
  /\ time_proved => time_good
  /\ time_proved => err + shift = 0

SyncInv ==
  SyncType /\ SentenceInv /\ StampInv /\ PpsInv /\ NmeaInv /\ BusInv /\ ClockInv

-----------------------------------------------------------------------------
(* The slots of a second go round.                                         *)
LEMMA NextSlot ==
  ASSUME TimeSyncAssumption, NEW s \in 0 .. Period - 1
  PROVE  (s + 1) % Period = IF s + 1 = Period THEN 0 ELSE s + 1
<1>1. Period \in Nat /\ Period > 1
  BY DEF TimeSyncAssumption
<1>2. CASE s + 1 = Period
  BY <1>1, <1>2
<1>3. CASE s + 1 # Period
  BY <1>1, <1>3
<1> QED
  BY <1>2, <1>3

(* TimekeeperInit reads a time, whatever the chip holds.                   *)
LEMMA BootTime ==
  ASSUME TimeSyncAssumption, slot \in 0 .. Period - 1, rtc \in Int
  PROVE  TimeAtBoot \in Int
<1>1. Period \in Nat /\ Period > 0
  BY DEF TimeSyncAssumption
<1>2. slot + rtc \in Int
  BY <1>1
<1>3. (slot + rtc) % Period \in Int
  BY <1>1, <1>2
<1> QED
  BY <1>3 DEF TimeAtBoot

(* A node that was just switched on has no proved time to be wrong about.  *)
LEMMA SyncInit ==
  ASSUME TimeSyncAssumption, Init
  PROVE  SyncInv
<1> USE DEF TimeSyncAssumption, Init, NoTimp
<1>1. rtc \in Int /\ slot \in 0 .. Period - 1
  OBVIOUS
<1>2. err \in Int
  BY <1>1, BootTime
<1>3. SyncType
  BY <1>1, <1>2 DEF SyncType
<1> QED
  BY <1>3 DEF SyncInv, SentenceInv, StampInv, PpsInv, NmeaInv, BusInv, ClockInv

-----------------------------------------------------------------------------
(* A slot passes: what time does to the thread and to the sentence.        *)
LEMMA SlotKeeps ==
  ASSUME TimeSyncAssumption, SyncInv, SlotPasses, HealthyStep
  PROVE  /\ slot' = (IF slot + 1 = Period THEN 0 ELSE slot + 1)
         /\ slot' \in 0 .. Period - 1 /\ waited' \in 0 .. MaxBus
         /\ lag' \in 0 .. MaxBus + Period
         /\ pc = "pps" => ~sem
         /\ event => pc = "rtc"
         /\ pc = "rtc" => waited' = waited + 1 /\ lag' = lag + 1 /\ waited' < Period
         /\ pc = "nmea" => waited' <= waited + 1
<1> USE DEF TimeSyncAssumption, SyncInv, SyncType
<1>1. slot' = (IF slot + 1 = Period THEN 0 ELSE slot + 1)
  BY NextSlot DEF SlotPasses
<1>2. pc = "pps" => ~sem
  BY DEF SlotPasses, ThreadReady
<1>3. event => pc = "rtc"
  BY <1>2 DEF SlotPasses, ThreadReady, PpsInv
<1>4. pc' = pc /\ waited' \in 0 .. MaxBus /\ (pc = "nmea" => waited' <= waited + 1)
  BY DEF SlotPasses
<1>5. pc = "rtc" => waited' = waited + 1 /\ lag' = lag + 1 /\ waited' < Period
  BY <1>4 DEF SlotPasses, HealthyStep
<1>6. lag' \in 0 .. MaxBus + Period
  BY <1>4, <1>5 DEF SlotPasses, BusInv
<1> QED
  BY <1>1, <1>2, <1>3, <1>4, <1>5, <1>6

(* Within a second nothing gets old, and the thread waits.                 *)
LEMMA WithinKeeps ==
  ASSUME TimeSyncAssumption, SyncInv, WithinSecond, HealthyStep
  PROVE  SyncInv'
<1> USE DEF TimeSyncAssumption, SyncInv, SyncType
<1>1. SlotPasses /\ slot' # 0 /\ UNCHANGED <<said, clock, pulse, timp>>
  BY DEF WithinSecond
<1>2. UNCHANGED <<said, err, shift, ppsAge, ppsErr, sem, timp, pc, event, rtc, time_good, time_proved>>
  BY <1>1 DEF clock, pulse, SlotPasses, flags
<1>3. slot' = slot + 1
  BY <1>1, SlotKeeps
<1>4. SyncType'
  BY <1>1, <1>2, SlotKeeps
<1>5. BusInv'
  BY <1>1, <1>2, <1>3, SlotKeeps DEF BusInv
<1>6. NmeaInv' /\ PpsInv'
  BY <1>1, <1>2, <1>3, SlotKeeps DEF NmeaInv, PpsInv
<1>7. SentenceInv'
  <2>1. event' => pc' = "rtc"
    BY <1>1, <1>2, SlotKeeps
  <2>2. ASSUME event'
        PROVE  slot' < Timeout
    <3>1. waited' < Period /\ lag' - waited' < Timeout /\ lag' = slot' + Period
      BY <1>5, <2>1, <2>2 DEF BusInv
    <3>2. \A a, b, c, d, e \in Int : a < d /\ b - a < e /\ b = c + d => c < e
      OBVIOUS
    <3>3. waited' \in Int /\ lag' \in Int /\ slot' \in Int /\ Period \in Int /\ Timeout \in Int
      BY <1>4
    <3> QED
      BY <3>1, <3>2, <3>3
  <2> QED
    BY <1>2, <1>3, <2>2 DEF SentenceInv
<1>8. StampInv' /\ ClockInv'
  BY <1>2 DEF StampInv, ClockInv
<1> QED
  BY <1>4, <1>5, <1>6, <1>7, <1>8

(* When a second begins no sentence waits.                                 *)
LEMMA BeginKeeps ==
  ASSUME TimeSyncAssumption, SyncInv, SecondBegins, HealthyStep
  PROVE  /\ slot = Period - 1 /\ slot' = 0 /\ said' = FALSE
         /\ ~event /\ ~event' /\ timp = NoTimp /\ timp' = NoTimp
         /\ pc' = pc /\ rtc' = rtc /\ time_good' = time_good /\ time_proved' = time_proved
         /\ pc = "rtc" => lag = slot
<1> USE DEF TimeSyncAssumption, SyncInv, SyncType
<1>1. SlotPasses /\ slot' = 0 /\ said' = FALSE /\ timp' = Older(timp)
  BY DEF SecondBegins
<1>2. slot = Period - 1
  BY <1>1, SlotKeeps
<1>3. pc = "rtc" => lag = slot /\ ~event
  BY <1>1, <1>2, SlotKeeps DEF BusInv
<1>4. ~event /\ timp = NoTimp
  BY <1>1, <1>3, SlotKeeps DEF SentenceInv
<1>5. UNCHANGED <<pc, event, rtc, time_good, time_proved>>
  BY <1>1 DEF SlotPasses, flags
<1>6. timp' = NoTimp
  BY <1>1, <1>4 DEF Older, NoTimp
<1> QED
  BY <1>1, <1>2, <1>3, <1>4, <1>5, <1>6

(* A pulse is stamped with the clock as it is (timekeeper.c:210-217).      *)
LEMMA PulseKeeps ==
  ASSUME TimeSyncAssumption, SyncInv, Pulse, HealthyStep
  PROVE  SyncInv'
<1> USE DEF TimeSyncAssumption, SyncInv, SyncType
<1>1. SecondBegins /\ SlotPasses
  BY DEF Pulse, SecondBegins
<1>2. ppsAge' = 0 /\ ppsErr' = err /\ sem' = TRUE /\ err' = err /\ shift' = shift
  BY DEF Pulse, StampOfPulse, clock
<1>3. /\ slot = Period - 1 /\ slot' = 0 /\ said' = FALSE
      /\ ~event' /\ timp' = NoTimp
      /\ pc' = pc /\ rtc' = rtc /\ time_good' = time_good /\ time_proved' = time_proved
      /\ pc = "rtc" => lag = slot
  BY <1>1, BeginKeeps
<1>4. /\ waited' \in 0 .. MaxBus /\ lag' \in 0 .. MaxBus + Period
      /\ pc = "rtc" => waited' = waited + 1 /\ lag' = lag + 1 /\ waited' < Period
  BY <1>1, SlotKeeps
<1>5. shift = 0
  BY <1>2, <1>3 DEF HealthyStep
<1>6. SyncType'
  BY <1>2, <1>3, <1>4
<1>7. BusInv'
  BY <1>2, <1>3, <1>4 DEF BusInv
<1>8. SentenceInv' /\ StampInv' /\ ClockInv'
  BY <1>2, <1>3, <1>5 DEF SentenceInv, StampInv, ClockInv
<1>9. PpsInv' /\ NmeaInv'
  BY <1>2, <1>3 DEF PpsInv, NmeaInv
<1> QED
  BY <1>6, <1>7, <1>8, <1>9

(* Without a pulse the last one gets older.                                *)
LEMMA LossKeeps ==
  ASSUME TimeSyncAssumption, SyncInv, PulseLost, HealthyStep
  PROVE  SyncInv'
<1> USE DEF TimeSyncAssumption, SyncInv, SyncType
<1>1. SecondBegins /\ SlotPasses
  BY DEF PulseLost, SecondBegins
<1>2. ppsAge' \in 1 .. MaxAge /\ UNCHANGED <<ppsErr, sem, err, shift>>
  BY DEF PulseLost, Older, clock
<1>3. /\ slot = Period - 1 /\ slot' = 0 /\ said' = FALSE
      /\ ~event' /\ timp' = NoTimp
      /\ pc' = pc /\ rtc' = rtc /\ time_good' = time_good /\ time_proved' = time_proved
      /\ pc = "rtc" => lag = slot
  BY <1>1, BeginKeeps
<1>4. /\ waited' \in 0 .. MaxBus /\ lag' \in 0 .. MaxBus + Period
      /\ pc = "rtc" => waited' = waited + 1 /\ lag' = lag + 1 /\ waited' < Period
  BY <1>1, SlotKeeps
<1>5. SyncType'
  BY <1>2, <1>3, <1>4
<1>6. BusInv'
  BY <1>2, <1>3, <1>4 DEF BusInv
<1>7. SentenceInv' /\ StampInv' /\ ClockInv'
  BY <1>2, <1>3 DEF SentenceInv, StampInv, ClockInv
<1>8. PpsInv' /\ NmeaInv'
  BY <1>2, <1>3 DEF PpsInv, NmeaInv
<1> QED
  BY <1>5, <1>6, <1>7, <1>8

(* A sentence comes where somebody will take it for this pulse             *)
(* (gps.c:364-373).                                                        *)
LEMMA SentenceKeeps ==
  ASSUME TimeSyncAssumption, SyncInv, Sentence, HealthyStep
  PROVE  SyncInv'
<1> USE DEF TimeSyncAssumption, SyncInv, SyncType
<1>1. /\ ~said /\ said' = TRUE /\ timp' = 0 /\ event' = TRUE
      /\ UNCHANGED <<slot, err, shift, ppsAge, ppsErr, sem, pc, waited, lag, rtc, time_good, time_proved>>
  BY DEF Sentence, clock, pulse, thread, flags
<1>2. ppsAge = 0 /\ slot < Timeout
  BY <1>1 DEF HealthyStep
<1>3. pc # "pps"
  BY <1>1, <1>2 DEF Sentence, ThreadReady, PpsInv
<1>4. BusInv'
  BY <1>1, <1>2 DEF BusInv
<1>5. SyncType'
  BY <1>1
<1>6. SentenceInv'
  <2>1. slot > 0
    BY DEF Sentence
  <2> QED
    BY <1>1, <1>2, <2>1 DEF SentenceInv, NoTimp
<1>7. StampInv' /\ ClockInv'
  BY <1>1, <1>2 DEF StampInv, ClockInv
<1>8. PpsInv' /\ NmeaInv'
  BY <1>1, <1>3 DEF PpsInv, NmeaInv
<1> QED
  BY <1>4, <1>5, <1>6, <1>7, <1>8

-----------------------------------------------------------------------------
(* The correction is that of the stamped pulse, from a clock nobody        *)
(* corrected since (timekeeper.c:116-141).                                 *)
LEMMA CorrectUses ==
  ASSUME TimeSyncAssumption, SyncInv, Correct
  PROVE  /\ timp = 0 /\ ppsAge = 0 /\ said
         /\ shift' = -err /\ lag' = slot
         /\ slot > 0 /\ slot < Timeout
<1> USE DEF TimeSyncAssumption, SyncInv, SyncType
<1>1. event
  BY DEF Correct
<1>2. timp = 0 /\ ppsAge = 0 /\ said /\ slot > 0 /\ slot < Timeout /\ ppsErr = err
  BY <1>1 DEF SentenceInv, StampInv
<1>3. 0 * Period = 0 /\ (0 - 0) * Period = 0
  OBVIOUS
<1>4. shift' = (ppsAge - timp) * Period - ppsErr /\ lag' = slot + timp * Period
  BY DEF Correct, Correction
<1> QED
  BY <1>2, <1>3, <1>4

(* The thread clears the event when it takes it, and goes to the bus in    *)
(* the second of the sentence (timekeeper.c:110-143).                      *)
LEMMA ThreadKeeps ==
  ASSUME TimeSyncAssumption, SyncInv, ThreadStep
  PROVE  SyncInv'
<1> USE DEF TimeSyncAssumption, SyncInv, SyncType
<1>1. CASE TakePulse
  <2>1. /\ sem' = FALSE /\ pc = "pps" /\ pc' = "nmea" /\ waited' = 0
        /\ UNCHANGED <<slot, said, err, shift, ppsAge, ppsErr, timp, event, lag, rtc, time_good, time_proved>>
    BY <1>1 DEF TakePulse, gps, clock, nmea, flags
  <2> QED
    BY <2>1 DEF SentenceInv, StampInv, PpsInv, NmeaInv, BusInv, ClockInv
<1>2. CASE GivesUp
  <2>1. /\ pc = "nmea" /\ ~event /\ waited >= Timeout /\ pc' = "pps" /\ waited' = 0
        /\ UNCHANGED <<slot, said, err, shift, ppsAge, ppsErr, sem, timp, event, lag, rtc, time_good, time_proved>>
    BY <1>2 DEF GivesUp, TimedOut, gps, clock, pulse, nmea, flags
  <2> QED
    BY <2>1 DEF SentenceInv, StampInv, PpsInv, NmeaInv, BusInv, ClockInv
<1>3. CASE Correct
  <2>1. /\ pc' = "rtc" /\ waited' = 0 /\ event' = FALSE /\ timp' = NoTimp
        /\ time_good' = TRUE /\ time_proved' = TRUE
        /\ UNCHANGED <<slot, said, err, ppsAge, ppsErr, sem, rtc>>
    BY <1>3 DEF Correct, Pending, gps, pulse
  <2>2. shift' \in Int /\ lag' \in 0 .. MaxBus + Period
    BY <1>3, CorrectUses
  <2>3. /\ ppsAge = 0 /\ said /\ shift' = -err /\ lag' = slot /\ slot > 0 /\ slot < Timeout
    BY <1>3, CorrectUses
  <2>4. SyncType'
    BY <2>1, <2>2
  <2>5. SentenceInv' /\ PpsInv' /\ NmeaInv' /\ BusInv'
    BY <2>1, <2>3 DEF SentenceInv, PpsInv, NmeaInv, BusInv
  <2>6. StampInv'
    BY <2>1, <2>3 DEF StampInv
  <2>7. ClockInv'
    BY <2>1, <2>3 DEF ClockInv
  <2> QED
    BY <2>4, <2>5, <2>6, <2>7
<1> QED
  BY <1>1, <1>2, <1>3 DEF ThreadStep

(* So do the tick that applies the correction (timekeeper.c:91-98), the    *)
(* write to the RTC, the command date, and a boot (156-175).               *)
LEMMA OthersKeep ==
  ASSUME TimeSyncAssumption, SyncInv, ShiftApplied \/ SetRtc \/ DateCommand \/ Reboot
  PROVE  SyncInv'
<1> USE DEF TimeSyncAssumption, SyncInv, SyncType
<1>1. CASE ShiftApplied
  <2>1. /\ shift # 0 /\ err' = err + shift /\ shift' = 0
        /\ UNCHANGED <<slot, said, ppsAge, ppsErr, sem, timp, event, pc, waited, lag, rtc, time_good, time_proved>>
    BY <1>1 DEF ShiftApplied, gps, pulse, nmea, thread, flags
  <2> QED
    BY <2>1 DEF SentenceInv, StampInv, PpsInv, NmeaInv, BusInv, ClockInv
<1>2. CASE SetRtc
  <2>1. /\ pc = "rtc" /\ rtc' = -lag /\ pc' = "pps" /\ waited' = 0 /\ lag' = 0
        /\ UNCHANGED <<slot, said, err, shift, ppsAge, ppsErr, sem, timp, event, time_good, time_proved>>
    BY <1>2 DEF SetRtc, Written, gps, clock, pulse, nmea, flags
  <2>2. PpsInv'
    BY <2>1 DEF PpsInv, BusInv, SentenceInv
  <2> QED
    BY <2>1, <2>2 DEF SentenceInv, StampInv, NmeaInv, BusInv, ClockInv
<1>3. CASE DateCommand
  <2>1. /\ rtc' \in Int
        /\ UNCHANGED <<slot, said, err, shift, ppsAge, ppsErr, sem, timp, event, pc, waited, lag, time_good, time_proved>>
    BY <1>3 DEF DateCommand, gps, clock, pulse, nmea, thread, flags
  <2> QED
    BY <2>1 DEF SentenceInv, StampInv, PpsInv, NmeaInv, BusInv, ClockInv
<1>4. CASE Reboot
  <2>1. err' \in Int
    BY <1>4, BootTime DEF Reboot
  <2>2. /\ shift' = 0 /\ ppsAge' = MaxAge /\ ppsErr' = 0 /\ sem' = FALSE
        /\ timp' = NoTimp /\ event' = FALSE /\ pc' = "pps" /\ waited' = 0 /\ lag' = 0
        /\ time_proved' = FALSE /\ UNCHANGED <<slot, said, rtc>>
    BY <1>4 DEF Reboot, gps
  <2>3. SyncType'
    BY <2>1, <2>2
  <2>4. SentenceInv' /\ StampInv' /\ PpsInv' /\ NmeaInv' /\ BusInv'
    BY <2>2 DEF SentenceInv, StampInv, PpsInv, NmeaInv, BusInv
  <2>5. ClockInv'
    BY <2>2 DEF ClockInv
  <2> QED
    BY <2>3, <2>4, <2>5
<1> QED
  BY <1>1, <1>2, <1>3, <1>4

(* Every step of time, receiver and thread keeps all of it.                *)
LEMMA SyncGoes ==
  ASSUME TimeSyncAssumption, SyncInv, [Next /\ HealthyStep]_vars
  PROVE  SyncInv'
<1>1. CASE Next /\ HealthyStep
  BY <1>1, WithinKeeps, PulseKeeps, LossKeeps, SentenceKeeps, ThreadKeeps, OthersKeep
  DEF Next, TimePasses
<1>2. CASE UNCHANGED vars
  BY <1>2 DEF vars, gps, clock, pulse, nmea, thread, flags, SyncInv, SyncType, SentenceInv,
    StampInv, PpsInv, NmeaInv, BusInv, ClockInv
<1> QED
  BY <1>1, <1>2

-----------------------------------------------------------------------------
(* timekeeper.c:90-146: with a receiver that keeps the rules, the clock    *)
(* that was corrected once is exact whenever no correction is pending.     *)
THEOREM ClockCorrect ==
  ASSUME TimeSyncAssumption
  PROVE  HealthySpec => []ClockExact
<1>1. SyncInv => ClockExact
  BY DEF SyncInv, SyncType, ClockInv, ClockExact
<1> QED
  BY <1>1, SyncInit, SyncGoes, PTL DEF HealthySpec

(* The thread leaves the wait for the sentence only with it.               *)
LEMMA StepMatches ==
  ASSUME TimeSyncAssumption, SyncInv, [Next /\ HealthyStep]_vars
  PROVE  [pc = "nmea" /\ pc' = "rtc" => timp = ppsAge]_vars
<1>1. CASE Correct
  BY <1>1, CorrectUses
<1>2. CASE ~Correct /\ Next
  <2>1. ~(pc = "nmea" /\ pc' = "rtc")
    BY <1>2 DEF Next, ShiftApplied, TimePasses, WithinSecond, Pulse, PulseLost, SecondBegins,
      SlotPasses, Sentence, ThreadStep, TakePulse, GivesUp, SetRtc, DateCommand, Reboot, thread
  <2> QED
    BY <2>1
<1> QED
  BY <1>1, <1>2

(* timekeeper.c:116-117: as long as a sentence comes only for a pulse that *)
(* was seen, within the timeout, and the bus is free within a second       *)
(* (HealthyStep), the sentence the thread takes is that of the second      *)
(* whose pulse was stamped, however late the thread is.                    *)
LEMMA SentenceMatches ==
  ASSUME TimeSyncAssumption
  PROVE  HealthySpec => SentenceMatchesPulse
BY SyncInit, SyncGoes, StepMatches, PTL DEF HealthySpec, SentenceMatchesPulse

-----------------------------------------------------------------------------
(* The receiver.  Only the last token of a sentence has its checksum, and  *)
(* noise is none; so that what matches was said by the receiver in this    *)
(* second, wherever the parser began.  What a message shows is of this     *)
(* second, of the last one, or of none.                                    *)
Tokens(sec, f) ==
  {Rx!Dollar, Rx!Star, Rx!Token("GP", <<>>)}
    \cup {Rx!Token(w, <<>>) : w \in {"GGA", "GSV", "RMC"}}
    \cup {Rx!Token("sec", <<sec>>), Rx!Token("fix", <<IF f THEN 1 ELSE 0>>)}
    \cup {Rx!Sum(w, Rx!Fields(sec, f)) : w \in {"GGA", "GSV", "RMC"}}

Shows(m) ==
  /\ m.sec \in {gps_now, Rx!Before(gps_now), Seconds}
  /\ m.fix = TRUE /\ m.sec = gps_now => fix.now = TRUE
  /\ m.fix = TRUE /\ m.sec = Rx!Before(gps_now) => fix.before = TRUE

Messages == [sec : 0 .. Seconds, fix : BOOLEAN]

GpsTypes ==
  /\ gps_now \in 0 .. Seconds - 1
  /\ fix \in [now : BOOLEAN, before : BOOLEAN]
  /\ gga \in Messages /\ rmc \in Messages /\ gps_valid \in BOOLEAN
  /\ gps_pc \in {"dollar", "talker", "type", "body", "sum"}

GpsInv ==
  /\ GpsTypes
  /\ sending \in Seq(Tokens(gps_now, fix.now))
  /\ gps_pc \in {"body", "sum"} => type \in {"GGA", "RMC"}
  /\ Shows(gga) /\ Shows(rmc)

LEMMA GpsConstant == Seconds \in Nat /\ Seconds > 3
BY GpsConstants DEF Rx!GpsAssumption

(* The seconds go round.                                                   *)
LEMMA SecondsGoRound ==
  ASSUME NEW k \in 0 .. Seconds - 1
  PROVE  /\ (k + 1) % Seconds \in 0 .. Seconds - 1
         /\ Rx!Before(k) \in 0 .. Seconds - 1 /\ Rx!Before(k) # k
         /\ Rx!Before((k + 1) % Seconds) = k
         /\ (k + 1) % Seconds # Rx!Before(k) /\ (k + 1) % Seconds # k
<1> USE GpsConstant
<1>1. CASE k = 0
  <2>1. (k + 1) % Seconds = 1 /\ Rx!Before(k) = Seconds - 1
    BY <1>1 DEF Rx!Before
  <2>2. Rx!Before(1) = 0
    BY DEF Rx!Before
  <2> QED
    BY <1>1, <2>1, <2>2
<1>2. CASE k \in 1 .. Seconds - 2
  <2>1. (k + 1) % Seconds = k + 1 /\ Rx!Before(k) = k - 1
    BY <1>2 DEF Rx!Before
  <2>2. Rx!Before(k + 1) = k
    BY <1>2 DEF Rx!Before
  <2> QED
    BY <1>2, <2>1, <2>2
<1>3. CASE k = Seconds - 1
  <2>1. (k + 1) % Seconds = 0 /\ Rx!Before(k) = k - 1
    BY <1>3 DEF Rx!Before
  <2>2. Rx!Before(0) = Seconds - 1
    BY DEF Rx!Before
  <2> QED
    BY <1>3, <2>1, <2>2
<1> QED
  BY <1>1, <1>2, <1>3

(* What the receiver sends in a second.                                    *)
LEMMA BurstTokens ==
  ASSUME NEW sec, NEW f
  PROVE  Rx!Burst(sec, f) \in Seq(Tokens(sec, f))
<1>1. ASSUME NEW w \in {"GGA", "GSV", "RMC"} PROVE Rx!Line(w, sec, f) \in Seq(Tokens(sec, f))
  <2>1. <<Rx!Dollar, Rx!Token("GP", <<>>), Rx!Token(w, <<>>)>> \in Seq(Tokens(sec, f))
    BY DEF Tokens
  <2>2. Rx!Fields(sec, f) \in Seq(Tokens(sec, f))
    BY DEF Tokens, Rx!Fields
  <2>3. <<Rx!Star, Rx!Sum(w, Rx!Fields(sec, f))>> \in Seq(Tokens(sec, f))
    BY DEF Tokens
  <2> QED
    BY <2>1, <2>2, <2>3, ConcatProperties DEF Rx!Line
<1> QED
  BY <1>1, ConcatProperties DEF Rx!Burst

(* A checksum that matches is of the sentence that was read.               *)
LEMMA MatchIsSaid ==
  ASSUME NEW sec, NEW f, NEW t \in Tokens(sec, f), Rx!Matches(t)
  PROVE  body = Rx!Fields(sec, f)
<1>1. t.what = "sum" /\ t.of = <<type, body>>
  BY DEF Rx!Matches, Rx!Sum, Rx!Token
<1>2. PICK w \in {"GGA", "GSV", "RMC"} : t = Rx!Sum(w, Rx!Fields(sec, f))
  BY <1>1 DEF Tokens, Rx!Dollar, Rx!Star, Rx!Token
<1>3. <<type, body>> = <<w, Rx!Fields(sec, f)>>
  BY <1>1, <1>2 DEF Rx!Sum, Rx!Token
<1> QED
  BY <1>3

LEMMA FieldsSay ==
  ASSUME NEW f \in BOOLEAN, body = Rx!Fields(gps_now, f)
  PROVE  Rx!Said = [sec |-> gps_now, fix |-> f]
<1>1. /\ Len(body) = 2 /\ body[1] = Rx!Token("sec", <<gps_now>>)
      /\ body[2] = Rx!Token("fix", <<IF f THEN 1 ELSE 0>>)
  BY DEF Rx!Fields
<1>2. /\ body[1].what = "sec" /\ body[1].of[1] = gps_now
      /\ body[2].what = "fix" /\ body[2].of[1] = IF f THEN 1 ELSE 0
  BY <1>1 DEF Rx!Token
<1>3. Rx!Second(body) = gps_now /\ Rx!Fix(body) = f
  BY <1>2 DEF Rx!Second, Rx!Fix
<1> QED
  BY <1>1, <1>2, <1>3 DEF Rx!Said

LEMMA GpsStarts == Rx!Init => GpsInv
<1> SUFFICES ASSUME Rx!Init PROVE GpsInv
  OBVIOUS
<1>1. /\ gps_now = 0 /\ fix \in [now : BOOLEAN, before : {FALSE}] /\ sending = Rx!Burst(0, fix.now)
      /\ gps_pc = "dollar" /\ gps_valid = FALSE
      /\ gga = [sec |-> Seconds, fix |-> FALSE] /\ rmc = gga
  BY DEF Rx!Init, Rx!Blank
<1>2. GpsTypes
  <2>1. gps_now \in 0 .. Seconds - 1 /\ Seconds \in 0 .. Seconds
    BY <1>1, GpsConstant
  <2>2. gga \in Messages /\ rmc \in Messages
    BY <1>1, <2>1 DEF Messages
  <2>3. fix \in [now : BOOLEAN, before : BOOLEAN] /\ gps_valid \in BOOLEAN
    BY <1>1
  <2> QED
    BY <1>1, <2>1, <2>2, <2>3 DEF GpsTypes
<1>3. sending \in Seq(Tokens(gps_now, fix.now))
  BY <1>1, BurstTokens
<1>4. Shows(gga) /\ Shows(rmc)
  BY <1>1 DEF Shows
<1> QED
  BY <1>1, <1>2, <1>3, <1>4 DEF GpsInv

(* Whatever the parser gets, what it shows is what the receiver had.       *)
LEMMA ParserShows ==
  ASSUME GpsInv, NEW t, Rx!Get(t), UNCHANGED <<gps_now, fix>>,
         Rx!Matches(t) => t \in Tokens(gps_now, fix.now)
  PROVE  /\ GpsTypes'
         /\ gps_pc' \in {"body", "sum"} => type' \in {"GGA", "RMC"}
         /\ Shows(gga)' /\ Shows(rmc)'
<1>1. CASE gps_pc = "body"
  <2>1. /\ gps_pc' \in {"sum", "body", "dollar"}
        /\ UNCHANGED <<type, gga, rmc, gps_valid>>
    BY <1>1 DEF Rx!Get, Rx!Body, Rx!Await, Rx!Keeps, Rx!messages
  <2> QED
    BY <1>1, <2>1 DEF GpsInv, GpsTypes, Shows
<1>2. CASE gps_pc = "sum"
  <2>1. Rx!Checksum(t)
    BY <1>2 DEF Rx!Get
  <2>2. gps_pc' = "dollar"
    BY <2>1 DEF Rx!Checksum, Rx!Await
  <2>3. CASE Rx!Matches(t)
    <3>1. body = Rx!Fields(gps_now, fix.now)
      BY <2>3, MatchIsSaid
    <3>2. fix.now \in BOOLEAN /\ gps_now \in 0 .. Seconds - 1
      BY DEF GpsInv, GpsTypes
    <3>3. Rx!Said = [sec |-> gps_now, fix |-> fix.now]
      BY <3>1, <3>2, FieldsSay
    <3>4. type \in {"GGA", "RMC"}
      BY <1>2 DEF GpsInv
    <3>5. /\ gga \in Messages /\ rmc \in Messages /\ gps_valid \in BOOLEAN
          /\ Shows(gga) /\ Shows(rmc)
      BY DEF GpsInv, GpsTypes
    <3>6. gps_now \in 0 .. Seconds /\ gps_now # Rx!Before(gps_now)
      BY <3>2, GpsConstant, SecondsGoRound
    <3>7. CASE type = "GGA"
      <4>1. /\ gga' = [sec |-> gps_now, fix |-> fix.now /\ gps_valid]
            /\ UNCHANGED <<gps_valid, rmc>>
        BY <2>1, <2>3, <3>3, <3>7 DEF Rx!Checksum, Rx!Parse_gga
      <4>2. (fix.now /\ gps_valid) \in BOOLEAN /\ ((fix.now /\ gps_valid) = TRUE => fix.now = TRUE)
        BY <3>2, <3>5
      <4>3. gga' \in Messages /\ gga'.sec = gps_now /\ (gga'.fix = TRUE => fix.now = TRUE)
        BY <3>6, <4>1, <4>2 DEF Messages
      <4>4. Shows(gga)' /\ Shows(rmc)'
        BY <3>5, <3>6, <4>1, <4>3 DEF Shows
      <4> QED
        BY <2>2, <3>2, <3>5, <4>1, <4>3, <4>4 DEF GpsInv, GpsTypes
    <3>8. CASE type = "RMC"
      <4>1. gps_valid' = fix.now /\ rmc' = [sec |-> gps_now, fix |-> fix.now] /\ gga' = gga
        BY <2>1, <2>3, <3>3, <3>8 DEF Rx!Checksum, Rx!Parse_rmc
      <4>2. rmc' \in Messages /\ rmc'.sec = gps_now /\ rmc'.fix = fix.now
        BY <3>2, <3>6, <4>1 DEF Messages
      <4>3. Shows(gga)' /\ Shows(rmc)'
        BY <3>5, <3>6, <4>1, <4>2 DEF Shows
      <4> QED
        BY <2>2, <3>2, <3>5, <4>1, <4>2, <4>3 DEF GpsInv, GpsTypes
    <3> QED
      BY <3>4, <3>7, <3>8
  <2>4. CASE ~Rx!Matches(t)
    BY <2>1, <2>2, <2>4 DEF Rx!Checksum, GpsInv, GpsTypes, Shows
  <2> QED
    BY <2>3, <2>4
<1>3. CASE gps_pc \in {"dollar", "talker", "type"}
  <2>1. Rx!Hunt(t)
    BY <1>3 DEF Rx!Get
  <2>2. /\ UNCHANGED <<gga, rmc, gps_valid>>
        /\ gps_pc' \in {"dollar", "talker", "type", "body"}
        /\ gps_pc' = "body" => type' \in {"GGA", "RMC"}
    BY <1>3, <2>1 DEF Rx!Hunt, Rx!Await, Rx!Keeps, Rx!messages
  <2> QED
    BY <2>2 DEF GpsInv, GpsTypes, Shows
<1> QED
  BY <1>1, <1>2, <1>3 DEF GpsInv, GpsTypes

LEMMA TokensGo ==
  ASSUME GpsInv, Rx!Sends
  PROVE  /\ sending[1] \in Tokens(gps_now, fix.now)
         /\ sending' \in Seq(Tokens(gps_now, fix.now))
BY HeadTailProperties DEF GpsInv, Rx!Sends

LEMMA GpsGoes ==
  ASSUME GpsInv, [Rx!Next]_receiver
  PROVE  GpsInv'
<1>1. CASE Rx!Arrives
  <2>1. Rx!Sends /\ Rx!Get(sending[1]) /\ UNCHANGED <<gps_now, fix>>
    BY <1>1 DEF Rx!Arrives, Rx!Sends
  <2> QED
    BY <2>1, TokensGo, ParserShows DEF GpsInv
<1>2. CASE Rx!Lost
  <2>1. Rx!Sends /\ UNCHANGED <<gps_now, fix, gps_pc, type, gps_valid, gga, rmc>>
    BY <1>2 DEF Rx!Lost, Rx!Sends, Rx!parser, Rx!messages
  <2> QED
    BY <2>1, TokensGo DEF GpsInv, GpsTypes, Shows
<1>3. CASE Rx!Garbled
  <2>1. Rx!Sends /\ UNCHANGED <<gps_now, fix>>
    BY <1>3 DEF Rx!Garbled, Rx!Sends
  <2>2. PICK t \in {Rx!Junk, Rx!Dollar, Rx!Star, Rx!Token("fix", <<1>>)} : Rx!Get(t)
    BY <1>3 DEF Rx!Garbled
  <2>3. ~Rx!Matches(t)
    BY <2>2 DEF Rx!Matches, Rx!Sum, Rx!Token, Rx!Junk, Rx!Dollar, Rx!Star
  <2> QED
    BY <2>1, <2>2, <2>3, TokensGo, ParserShows DEF GpsInv
<1>4. CASE Rx!NextSecond
  <2>1. PICK f \in BOOLEAN :
          fix' = [now |-> f, before |-> fix.now] /\ sending' = Rx!Burst(gps_now', f)
    BY <1>4 DEF Rx!NextSecond
  <2>2. /\ gps_now' = (gps_now + 1) % Seconds /\ UNCHANGED <<gps_pc, type, gps_valid>>
        /\ gga' = Rx!Aged(gga) /\ rmc' = Rx!Aged(rmc)
    BY <1>4 DEF Rx!NextSecond, Rx!parser
  <2>3. gps_now \in 0 .. Seconds - 1 /\ fix.now \in BOOLEAN /\ gga \in Messages /\ rmc \in Messages
    BY DEF GpsInv, GpsTypes
  <2>4. /\ gps_now' \in 0 .. Seconds - 1 /\ Rx!Before(gps_now') = gps_now
        /\ gps_now' # Rx!Before(gps_now) /\ gps_now' # gps_now
    BY <2>2, <2>3, SecondsGoRound
  <2>5. ASSUME NEW m \in Messages, Shows(m)
        PROVE  /\ Rx!Aged(m) \in Messages
               /\ Rx!Aged(m).sec \in {gps_now, Seconds}
               /\ Rx!Aged(m).fix = TRUE /\ Rx!Aged(m).sec = gps_now => fix.now = TRUE
    BY <2>3, <2>5, GpsConstant DEF Rx!Aged, Rx!Before, Messages, Shows
  <2>6. fix' \in [now : BOOLEAN, before : BOOLEAN] /\ fix'.before = fix.now /\ fix'.now = f
    BY <2>1, <2>3
  <2>7. GpsTypes'
    BY <2>2, <2>4, <2>5, <2>6 DEF GpsInv, GpsTypes
  <2>8. sending' \in Seq(Tokens(gps_now', fix'.now))
    <3>1. Rx!Burst(gps_now', f) \in Seq(Tokens(gps_now', f))
      BY BurstTokens
    <3> QED
      BY <2>1, <2>6, <3>1
  <2>9. Seconds # gps_now'
    BY <2>4, GpsConstant
  <2>10. Shows(gga)' /\ Shows(rmc)'
    <3>1. ASSUME NEW m, m \in {gga', rmc'}
          PROVE  m.sec \in {gps_now, Seconds} /\ (m.fix = TRUE /\ m.sec = gps_now => fix.now = TRUE)
      BY <2>2, <2>3, <2>5, <3>1 DEF GpsInv
    <3>2. ASSUME NEW m, m \in {gga', rmc'}
          PROVE  /\ m.sec \in {gps_now', Rx!Before(gps_now'), Seconds}
                 /\ m.fix = TRUE /\ m.sec = gps_now' => fix'.now = TRUE
                 /\ m.fix = TRUE /\ m.sec = Rx!Before(gps_now') => fix'.before = TRUE
      <4>1. m.sec \in {gps_now, Seconds} /\ (m.fix = TRUE /\ m.sec = gps_now => fix.now = TRUE)
        BY <3>1, <3>2
      <4>2. m.sec # gps_now'
        BY <2>4, <2>9, <4>1
      <4>3. m.sec = Rx!Before(gps_now') => m.sec = gps_now
        BY <2>4
      <4>4. m.sec \in {gps_now', Rx!Before(gps_now'), Seconds}
        BY <2>4, <4>1
      <4> QED
        BY <2>6, <4>1, <4>2, <4>3, <4>4
    <3> QED
      BY <3>2 DEF Shows
  <2> QED
    BY <2>2, <2>7, <2>8, <2>10 DEF GpsInv
<1>5. CASE UNCHANGED receiver
  BY <1>5 DEF receiver, GpsInv, GpsTypes, Shows
<1> QED
  BY <1>1, <1>2, <1>3, <1>4, <1>5 DEF Rx!Next

LEMMA GpsShows ==
  ASSUME GpsInv
  PROVE  Rx!ShownIsTrue
<1> SUFFICES ASSUME NEW m \in {gga, rmc}, m.fix, Rx!Recent(m)
             PROVE  Rx!WasFix(m)
  BY DEF Rx!ShownIsTrue
<1>1. Shows(m) /\ m.fix = TRUE
  BY DEF GpsInv, GpsTypes, Messages
<1>2. m.sec = gps_now \/ m.sec = Rx!Before(gps_now)
  BY DEF Rx!Recent
<1> QED
  BY <1>1, <1>2 DEF Shows, Rx!WasFix

-----------------------------------------------------------------------------
(* The LEDs.                                                               *)
LedInv ==
  /\ blink \in [Led!Leds -> {0, 1}]
  /\ pending \in [Led!Leds -> BOOLEAN] /\ lit \in [Led!Leds -> BOOLEAN]
  /\ led_pc \in [Led!Leds -> {"wait", "decide", "on", "sleep"}]
  /\ heard \in [Led!Leds -> Nat] /\ blinks \in [Led!Leds -> Nat]
  /\ Led!EachBlinkHasItsEvent

LEMMA LedsStart == Led!Init => LedInv
BY DEF Led!Init, LedInv, Led!EachBlinkHasItsEvent

LEMMA LedsGo ==
  ASSUME LedInv, [Led!Next]_leds
  PROVE  LedInv'
<1> USE DEF LedInv, Led!EachBlinkHasItsEvent, Led!Goes
<1>1. CASE Led!Moves
  BY <1>1 DEF Led!Moves
<1>2. ASSUME NEW l \in Led!Leds, Led!Event(l) PROVE LedInv'
  BY <1>2 DEF Led!Event
<1>3. ASSUME NEW l \in Led!Leds, Led!Takes(l) PROVE LedInv'
  BY <1>3 DEF Led!Takes
<1>4. ASSUME NEW l \in Led!Leds, Led!Decides(l) PROVE LedInv'
  BY <1>4 DEF Led!Decides
<1>5. ASSUME NEW l \in Led!Leds, Led!On(l) PROVE LedInv'
  BY <1>5 DEF Led!On
<1>6. ASSUME NEW l \in Led!Leds, Led!Off(l) PROVE LedInv'
  BY <1>6 DEF Led!Off
<1>7. CASE UNCHANGED leds
  BY <1>7 DEF leds
<1> QED
  BY <1>1, <1>2, <1>3, <1>4, <1>5, <1>6, <1>7 DEF Led!Next

(* What the thread sets the RTC to is less than two seconds old: the slots *)
(* of the sentence and of the bus.                                         *)
RtcInv == rtc \in RtcErrors \/ rtc \in -(2 * Period) + 1 .. 0

LEMMA RtcStarts == Init => RtcInv
BY DEF Init, RtcInv

LEMMA RtcGoes ==
  ASSUME TimeSyncAssumption, SyncInv, RtcInv, [Next /\ HealthyStep]_vars
  PROVE  RtcInv'
<1>1. CASE SetRtc
  <2>1. pc = "rtc" /\ rtc' = -lag
    BY <1>1 DEF SetRtc, Written
  <2>2. lag \in 1 .. 2 * Period - 1
    BY <2>1 DEF TimeSyncAssumption, SyncInv, SyncType, BusInv
  <2>3. -lag \in -(2 * Period) + 1 .. 0
    BY <2>2 DEF TimeSyncAssumption
  <2> QED
    BY <2>1, <2>3 DEF RtcInv
<1>2. CASE DateCommand
  BY <1>2 DEF DateCommand, RtcInv
<1>3. CASE UNCHANGED rtc
  BY <1>3 DEF RtcInv
<1>4. SetRtc \/ DateCommand \/ UNCHANGED rtc
  <2>1. CASE Next
    BY <2>1 DEF Next, ShiftApplied, TimePasses, WithinSecond, Pulse, PulseLost, SecondBegins,
      SlotPasses, Sentence, ThreadStep, TakePulse, GivesUp, Correct, Reboot
  <2>2. CASE UNCHANGED vars
    BY <2>2 DEF vars
  <2> QED
    BY <2>1, <2>2
<1> QED
  BY <1>1, <1>2, <1>3, <1>4

(* A boot loses up to a second more, the fraction it does not know.        *)
LEMMA BootIsBehind ==
  ASSUME TimeSyncAssumption, SyncInv, RtcInv, Reboot, rtc \notin RtcErrors
  PROVE  err' \in -(3 * Period) + 1 .. 0
<1>1. Period \in Nat /\ Period > 1 /\ slot \in 0 .. Period - 1
  BY DEF TimeSyncAssumption, SyncInv, SyncType
<1>2. rtc \in -(2 * Period) + 1 .. 0
  BY DEF RtcInv
<1>3. (slot + rtc) % Period \in 0 .. Period - 1
  BY <1>1, <1>2
<1>4. err' = rtc - ((slot + rtc) % Period)
  BY DEF Reboot, TimeAtBoot
<1> QED
  BY <1>1, <1>2, <1>3, <1>4

-----------------------------------------------------------------------------
(* The RTC.  A register gives back what it was set to; who meets nobody    *)
(* fills and sends its own bytes, and the bus has one sender.              *)
LEMMA BcdGivesBack ==
  ASSUME NEW n \in 0 .. 99, NEW tens \in Nat, n < 10 * tens, tens > 0
  PROVE  Chip!Decimal(Chip!Bcd(n), tens) = n
<1> DEFINE q == n \div 10
           r == n % 10
<1>1. q \in 0 .. 9 /\ r \in 0 .. 9 /\ n = 10 * q + r
  BY SMT
<1>2. q < tens
  BY <1>1
<1> HIDE DEF q, r
<1>3. (r + q * 16) \div 16 = q /\ (r + q * 16) % 16 = r
  BY <1>1
<1>4. q % tens = q
  BY <1>1, <1>2
<1>5. Chip!Bcd(n) = r + q * 16
  BY DEF Chip!Bcd, q, r
<1>6. Chip!Decimal(Chip!Bcd(n), tens) = (((r + q * 16) \div 16) % tens) * 10 + ((r + q * 16) % 16)
  BY <1>5 DEF Chip!Decimal
<1> QED
  BY <1>1, <1>3, <1>4, <1>6

Registers == 1 .. 7

LEMMA TimesAreTimes ==
  ASSUME NEW t \in Times
  PROVE  /\ t[1] \in 0 .. 59 /\ t[2] \in 0 .. 59 /\ t[3] \in 0 .. 23 /\ t[4] \in 0 .. 6
         /\ t[5] \in 1 .. 31 /\ t[6] \in 0 .. 11 /\ t[7] \in 100 .. 199
<1>1. Chip!Size = 7
  BY DEF Chip!Size, Chip!Fields
<1>2. \A i \in 1 .. 7 : t[i] \in Chip!Fields[i]
  BY RtcConstants, <1>1 DEF Chip!RtcAssumption
<1> QED
  BY <1>2 DEF Chip!Fields

LEMMA ChipGivesBack ==
  ASSUME NEW t \in Times, NEW b, \A i \in Registers : b[i] = Chip!ToBcd(t)[i]
  PROVE  Chip!ToTm(b) = Chip!WithoutDay(t)
<1>1. /\ b[1] = Chip!Bcd(t[1]) /\ b[2] = Chip!Bcd(t[2]) /\ b[3] = Chip!Bcd(t[3])
      /\ b[5] = Chip!Bcd(t[5]) /\ b[6] = Chip!Bcd(t[6] + 1) /\ b[7] = Chip!Bcd(t[7] - 100)
  BY DEF Registers, Chip!ToBcd
<1>2. /\ Chip!Decimal(b[1], 8) = t[1] /\ Chip!Decimal(b[2], 8) = t[2]
      /\ Chip!Decimal(b[3], 4) = t[3] /\ Chip!Decimal(b[5], 4) = t[5]
  BY <1>1, TimesAreTimes, BcdGivesBack
<1>3. Chip!Decimal(b[6], 2) = t[6] + 1
  BY <1>1, TimesAreTimes, BcdGivesBack
<1>4. Chip!Decimal(b[7], 16) = t[7] - 100
  BY <1>1, TimesAreTimes, BcdGivesBack
<1>5. Chip!Decimal(b[6], 2) - 1 = t[6] /\ Chip!Decimal(b[7], 16) + 100 = t[7]
  BY <1>3, <1>4, TimesAreTimes
<1> QED
  BY <1>2, <1>5 DEF Chip!ToTm, Chip!WithoutDay

(* What an undisturbed call has filled and sent so far, and what the chip  *)
(* has when nobody is sending.                                             *)
CallInv(s) ==
  Chip!Busy(s) /\ met[s] = FALSE =>
    /\ \A i \in Registers :
         ds1338_pc[s] # "fill" \/ i <= done[s] => txbuf[i] = Chip!ToBcd(time[s])[i]
    /\ ds1338_pc[s] = "send" =>
         \A i \in Registers : i <= done[s] => cell[i] = Chip!ToBcd(time[s])[i]

ChipTypes ==
  /\ DOMAIN txbuf = Registers /\ DOMAIN cell = Registers
  /\ ds1338_pc \in [Chip!Setters -> {"idle", "fill", "wait", "send", "ask"}]
  /\ time \in [Chip!Setters -> Times] /\ last \in Times
  /\ done \in [Chip!Setters -> 0 .. 7] /\ met \in [Chip!Setters -> BOOLEAN]

ChipInv ==
  /\ ChipTypes
  /\ \A s \in Chip!Setters : ds1338_pc[s] = "send" <=> bus = s
  /\ \A s \in Chip!Setters : ds1338_pc[s] = "fill" => done[s] < 7
  /\ \A s \in Chip!Setters : ds1338_pc[s] = "wait" => done[s] = 0
  /\ Chip!Busy("date") /\ Chip!Busy("timekeeper") => met["date"] /\ met["timekeeper"]
  /\ \A s \in Chip!Setters : CallInv(s)
  /\ alone /\ bus \notin Chip!Setters =>
       \A i \in Registers : cell[i] = Chip!ToBcd(last)[i]

LEMMA ChipSize == Chip!Size = 7
BY DEF Chip!Size, Chip!Fields

LEMMA ChipStarts == Chip!Init => ChipInv
<1> SUFFICES ASSUME Chip!Init PROVE ChipInv
  OBVIOUS
<1>1. DOMAIN cell = Registers /\ \A i \in Registers : cell[i] = Chip!ToBcd(last)[i]
  BY DEF Chip!Init, Chip!ToBcd, Registers
<1>2. ChipTypes
  BY <1>1, ChipSize DEF Chip!Init, ChipTypes, Registers
<1>3. \A s \in Chip!Setters : ds1338_pc[s] = "idle" /\ bus # s
  BY DEF Chip!Init, Chip!Setters, Chip!Free
<1> QED
  BY <1>1, <1>2, <1>3 DEF ChipInv, CallInv, Chip!Busy, Chip!Setters

(* A call begins: whoever is under way has met it, and it them.            *)
LEMMA SetsKeeps ==
  ASSUME ChipInv, NEW s \in Chip!Setters, Chip!Sets(s)
  PROVE  ChipInv'
<1> USE DEF Chip!Setters
<1>1. /\ ds1338_pc[s] = "idle" /\ ds1338_pc' = [ds1338_pc EXCEPT ![s] = "fill"]
      /\ done' = [done EXCEPT ![s] = 0]
      /\ UNCHANGED <<txbuf, cell, bus, last, alone>>
  BY DEF Chip!Sets, Chip!Goes, Chip!chip, Chip!ended
<1>2. PICK t \in Times : time' = [time EXCEPT ![s] = t]
  BY DEF Chip!Sets
<1>3. met' = [o \in {"timekeeper", "date"} |-> IF o = s THEN \E p \in {"timekeeper", "date"} : Chip!Busy(p)
                               ELSE met[o] \/ Chip!Busy(o)]
  BY DEF Chip!Sets
<1>4. ChipTypes'
  <2>1. met' \in [{"timekeeper", "date"} -> BOOLEAN]
    <3> SUFFICES ASSUME NEW o \in {"timekeeper", "date"}
                 PROVE  (IF o = s THEN \E p \in {"timekeeper", "date"} : Chip!Busy(p)
                               ELSE met[o] \/ Chip!Busy(o)) \in BOOLEAN
      BY <1>3, Zenon
    <3> QED
      BY Zenon
  <2> QED
    BY <1>1, <1>2, <2>1 DEF ChipInv, ChipTypes
<1>5. \A o \in {"timekeeper", "date"} \ {s} :
        /\ Chip!Busy(o) => met'[o] = TRUE /\ met'[s] = TRUE
        /\ ds1338_pc'[o] = ds1338_pc[o] /\ time'[o] = time[o] /\ done'[o] = done[o]
  <2> TAKE o \in {"timekeeper", "date"} \ {s}
  <2>1. ds1338_pc'[o] = ds1338_pc[o] /\ time'[o] = time[o] /\ done'[o] = done[o]
    BY <1>1, <1>2 DEF ChipInv, ChipTypes
  <2>2. ASSUME Chip!Busy(o) PROVE met'[o] = TRUE /\ met'[s] = TRUE
    <3>1. met'[o] = (met[o] \/ Chip!Busy(o))
      BY <1>3, Zenon
    <3>2. met'[s] = (\E p \in {"timekeeper", "date"} : Chip!Busy(p))
      BY <1>3, Zenon
    <3>3. (met[o] \/ Chip!Busy(o)) = TRUE
      BY <2>2, Zenon
    <3>4. (\E p \in {"timekeeper", "date"} : Chip!Busy(p)) = TRUE
      BY <2>2, Zenon
    <3> QED
      BY <3>1, <3>2, <3>3, <3>4, Zenon
  <2> QED
    BY <2>1, <2>2, Zenon
<1>6. ds1338_pc'[s] = "fill" /\ done'[s] = 0
  BY <1>1 DEF ChipInv, ChipTypes
<1>7. \A o \in Chip!Setters : CallInv(o)'
  <2> TAKE o \in Chip!Setters
  <2>1. CASE o = s
    BY <1>6, <2>1 DEF CallInv, Registers
  <2>2. CASE o # s
    BY <1>5, <2>2 DEF CallInv, Chip!Busy
  <2> QED
    BY <2>1, <2>2
<1>8. (Chip!Busy("date") /\ Chip!Busy("timekeeper"))' => met'["date"] = TRUE /\ met'["timekeeper"] = TRUE
  BY <1>5 DEF Chip!Busy
<1>9. \A o \in Chip!Setters : ds1338_pc'[o] = "send" <=> ds1338_pc[o] = "send"
  BY <1>1, <1>5, <1>6
<1>10. \A o \in Chip!Setters : /\ ds1338_pc'[o] = "fill" => done'[o] < 7
                               /\ ds1338_pc'[o] = "wait" => done'[o] = 0
  BY <1>5, <1>6 DEF ChipInv
<1> QED
  BY <1>1, <1>4, <1>7, <1>8, <1>9, <1>10 DEF ChipInv

(* The steps of a call that is under way.  Who else is under way has met   *)
(* it, so that only its own bytes count.                                   *)
LEMMA CallKeeps ==
  ASSUME ChipInv, NEW s \in Chip!Setters,
         Chip!FillByte(s) \/ Chip!Acquire(s) \/ Chip!SendByte(s) \/ Chip!Release(s)
  PROVE  ChipInv'
<1> USE ChipSize DEF Chip!Setters
<1>1. Chip!Busy(s) /\ time' = time /\ met' = met
  BY DEF Chip!FillByte, Chip!Acquire, Chip!SendByte, Chip!Release, Chip!Busy
<1>2. \A o \in {"timekeeper", "date"} \ {s} :
        ds1338_pc'[o] = ds1338_pc[o] /\ done'[o] = done[o]
  BY DEF ChipInv, ChipTypes, Chip!FillByte, Chip!Acquire, Chip!SendByte, Chip!Release, Chip!Goes
<1>3. \A o \in {"timekeeper", "date"} \ {s} : CallInv(o)'
  <2> TAKE o \in {"timekeeper", "date"} \ {s}
  <2>1. Chip!Busy(o)' => met[o] = TRUE
    BY <1>1, <1>2 DEF ChipInv, ChipTypes, Chip!Busy
  <2> QED
    BY <1>1, <2>1 DEF CallInv
<1>4. ChipTypes' /\ CallInv(s)'
  <2>1. CASE Chip!FillByte(s)
    <3>1. /\ ds1338_pc[s] = "fill" /\ txbuf' = [txbuf EXCEPT ![done[s] + 1] = Chip!ToBcd(time[s])[done[s] + 1]]
          /\ done' = [done EXCEPT ![s] = IF done[s] + 1 = 7 THEN 0 ELSE done[s] + 1]
          /\ ds1338_pc' = [ds1338_pc EXCEPT ![s] = IF done[s] + 1 = 7 THEN "wait" ELSE "fill"]
          /\ UNCHANGED <<cell, bus, last, alone>>
      BY <2>1 DEF Chip!FillByte, Chip!Goes, Chip!ended
    <3>2. done[s] \in 0 .. 6 /\ DOMAIN txbuf = Registers
      BY <3>1 DEF ChipInv, ChipTypes
    <3>3. ChipTypes'
      BY <1>1, <3>1, <3>2 DEF ChipInv, ChipTypes, Registers
    <3>4. \A i \in Registers : txbuf'[i] = IF i = done[s] + 1 THEN Chip!ToBcd(time[s])[i] ELSE txbuf[i]
      BY <3>1, <3>2
    <3>5. /\ ds1338_pc'[s] = IF done[s] + 1 = 7 THEN "wait" ELSE "fill"
          /\ done'[s] = IF done[s] + 1 = 7 THEN 0 ELSE done[s] + 1
      BY <3>1 DEF ChipInv, ChipTypes
    <3>6. met[s] = FALSE => \A i \in Registers : i <= done[s] => txbuf[i] = Chip!ToBcd(time[s])[i]
      BY <1>1, <3>1 DEF ChipInv, CallInv
    <3>7. CallInv(s)'
      BY <1>1, <3>2, <3>4, <3>5, <3>6 DEF CallInv, Registers
    <3> QED
      BY <3>3, <3>7
  <2>2. CASE Chip!Acquire(s)
    <3>1. /\ ds1338_pc[s] = "wait" /\ ds1338_pc' = [ds1338_pc EXCEPT ![s] = "send"]
          /\ UNCHANGED <<txbuf, cell, done, last, alone>>
      BY <2>2 DEF Chip!Acquire, Chip!Goes, Chip!ended, Chip!chip
    <3>2. ChipTypes'
      BY <1>1, <3>1 DEF ChipInv, ChipTypes
    <3>3. ds1338_pc'[s] = "send" /\ done'[s] = 0
      BY <3>1 DEF ChipInv, ChipTypes
    <3>4. CallInv(s)
      BY DEF ChipInv
    <3> QED
      BY <1>1, <3>1, <3>2, <3>3, <3>4 DEF CallInv, Registers
  <2>3. CASE Chip!SendByte(s)
    <3>1. /\ ds1338_pc[s] = "send" /\ done[s] < 7
          /\ cell' = [cell EXCEPT ![done[s] + 1] = txbuf[done[s] + 1]]
          /\ done' = [done EXCEPT ![s] = done[s] + 1]
          /\ UNCHANGED <<txbuf, ds1338_pc, last, alone>>
      BY <2>3 DEF Chip!SendByte, Chip!ended
    <3>2. ChipTypes'
      BY <1>1, <3>1 DEF ChipInv, ChipTypes
    <3>3. done'[s] = done[s] + 1 /\ done[s] \in Nat
      BY <3>1 DEF ChipInv, ChipTypes
    <3>4. \A i \in Registers : cell'[i] = IF i = done[s] + 1 THEN txbuf[i] ELSE cell[i]
      BY <3>1, <3>3 DEF ChipInv, ChipTypes
    <3>5. CallInv(s)
      BY DEF ChipInv
    <3> QED
      BY <1>1, <3>1, <3>2, <3>3, <3>4, <3>5 DEF CallInv, Registers
  <2>4. CASE Chip!Release(s)
    <3>1. /\ ds1338_pc' = [ds1338_pc EXCEPT ![s] = IF s = "date" THEN "ask" ELSE "idle"]
          /\ last' = time[s] /\ UNCHANGED <<txbuf, cell, done>>
      BY <2>4 DEF Chip!Release, Chip!Goes, Chip!chip
    <3>2. ChipTypes'
      BY <1>1, <3>1 DEF ChipInv, ChipTypes
    <3>3. ds1338_pc'[s] \in {"ask", "idle"}
      BY <3>1 DEF ChipInv, ChipTypes
    <3> QED
      BY <3>2, <3>3 DEF CallInv, Chip!Busy
  <2> QED
    BY <2>1, <2>2, <2>3, <2>4
<1>5. \A o \in Chip!Setters : CallInv(o)'
  BY <1>3, <1>4
<1>6. (Chip!Busy("date") /\ Chip!Busy("timekeeper"))' => met'["date"] /\ met'["timekeeper"]
  <2>1. \A o \in {"timekeeper", "date"} : Chip!Busy(o)' => Chip!Busy(o)
    BY <1>1, <1>2 DEF Chip!Busy
  <2>2. Chip!Busy("date") /\ Chip!Busy("timekeeper") => met["date"] /\ met["timekeeper"]
    BY DEF ChipInv
  <2> QED
    BY <1>1, <2>1, <2>2, Zenon
<1>7. \A o \in Chip!Setters : ds1338_pc'[o] = "send" <=> bus' = o
  <2>0. \A o \in Chip!Setters : ds1338_pc[o] = "send" <=> bus = o
    BY DEF ChipInv
  <2>1. CASE Chip!FillByte(s)
    BY <2>0, <2>1, <1>2 DEF ChipInv, ChipTypes, Chip!FillByte, Chip!Goes
  <2>2. CASE Chip!Acquire(s)
    BY <2>0, <2>2, <1>2 DEF ChipInv, ChipTypes, Chip!Acquire, Chip!Goes, Chip!Free
  <2>3. CASE Chip!SendByte(s)
    BY <2>0, <2>3 DEF Chip!SendByte
  <2>4. CASE Chip!Release(s)
    BY <2>0, <2>4, <1>2 DEF ChipInv, ChipTypes, Chip!Release, Chip!Goes, Chip!Free
  <2> QED
    BY <2>1, <2>2, <2>3, <2>4
<1>8. \A o \in Chip!Setters : /\ ds1338_pc'[o] = "fill" => done'[o] < 7
                              /\ ds1338_pc'[o] = "wait" => done'[o] = 0
  <2>1. \A o \in {"timekeeper", "date"} : /\ ds1338_pc[o] = "fill" => done[o] < 7
                                          /\ ds1338_pc[o] = "wait" => done[o] = 0
    BY DEF ChipInv
  <2>2. /\ ds1338_pc'[s] = "fill" => done'[s] < 7
        /\ ds1338_pc'[s] = "wait" => done'[s] = 0
    BY DEF ChipInv, ChipTypes, Chip!FillByte, Chip!Acquire, Chip!SendByte, Chip!Release, Chip!Goes
  <2> QED
    BY <1>2, <2>1, <2>2
<1>9. (alone /\ bus \notin Chip!Setters)' => \A i \in Registers : cell'[i] = Chip!ToBcd(last')[i]
  <2>1. CASE Chip!FillByte(s)
    BY <2>1 DEF ChipInv, Chip!FillByte, Chip!ended
  <2>2. CASE Chip!Acquire(s)
    BY <2>2 DEF Chip!Acquire
  <2>3. CASE Chip!SendByte(s)
    BY <2>3 DEF Chip!SendByte
  <2>4. CASE Chip!Release(s)
    <3>1. /\ ds1338_pc[s] = "send" /\ done[s] = 7 /\ cell' = cell /\ last' = time[s]
      BY <2>4 DEF Chip!Release, Chip!chip
    <3>2. alone' = ~met[s]
      BY <2>4, Zenon DEF Chip!Release
    <3>3. ASSUME alone' PROVE met[s] = FALSE
      <4>1. met[s] \in BOOLEAN
        BY DEF ChipInv, ChipTypes
      <4> QED
        BY <3>2, <3>3, <4>1, Zenon
    <3>4. CallInv(s)
      BY DEF ChipInv
    <3>5. ASSUME alone' PROVE \A i \in Registers : cell[i] = Chip!ToBcd(time[s])[i]
      <4>1. met[s] = FALSE
        BY <3>3, <3>5, Zenon
      <4> QED
        BY <3>1, <3>4, <4>1, <1>1 DEF CallInv, Registers
    <3> QED
      BY <3>1, <3>5, Zenon
  <2> QED
    BY <2>1, <2>2, <2>3, <2>4
<1> QED
  BY <1>4, <1>5, <1>6, <1>7, <1>8, <1>9 DEF ChipInv

LEMMA ChipGoes ==
  ASSUME ChipInv, [Chip!Next]_ds1338
  PROVE  ChipInv'
<1>1. ASSUME NEW s \in Chip!Setters, Chip!Call(s) PROVE ChipInv'
  BY <1>1, SetsKeeps, CallKeeps DEF Chip!Call
<1>2. CASE Chip!Asks \/ Chip!Shows
  <2>1. /\ UNCHANGED <<txbuf, cell, bus, time, done, met, last, alone>>
        /\ ds1338_pc["date"] \in {"idle", "ask"}
        /\ \E x \in {"idle", "ask"} : ds1338_pc' = [ds1338_pc EXCEPT !["date"] = x]
    BY <1>2 DEF Chip!Asks, Chip!Shows, Chip!Goes, Chip!chip, Chip!ended
  <2>2. ChipTypes'
    BY <2>1 DEF ChipInv, ChipTypes, Chip!Setters
  <2>3. /\ ds1338_pc'["date"] \in {"idle", "ask"}
        /\ ds1338_pc'["timekeeper"] = ds1338_pc["timekeeper"]
    BY <2>1 DEF ChipInv, ChipTypes, Chip!Setters
  <2>4. \A s \in Chip!Setters : CallInv(s)'
    <3> TAKE s \in Chip!Setters
    <3>1. CallInv(s)
      BY DEF ChipInv
    <3> QED
      BY <2>1, <2>3, <3>1 DEF CallInv, Chip!Busy, Chip!Setters
  <2>5. ~Chip!Busy("date")'
    BY <2>3 DEF Chip!Busy
  <2>6. \A s \in Chip!Setters : /\ ds1338_pc'[s] = "send" <=> ds1338_pc[s] = "send"
                                /\ ds1338_pc'[s] = "fill" <=> ds1338_pc[s] = "fill"
                                /\ ds1338_pc'[s] = "wait" <=> ds1338_pc[s] = "wait"
    BY <2>1, <2>3 DEF Chip!Setters
  <2> QED
    BY <2>1, <2>2, <2>4, <2>5, <2>6 DEF ChipInv
<1>3. CASE Chip!Eeprom
  <2>1. /\ UNCHANGED <<txbuf, cell, ds1338_pc, time, done, met, last, alone>>
        /\ bus \notin Chip!Setters /\ bus' \notin Chip!Setters
    BY <1>3 DEF Chip!Eeprom, Chip!chip, Chip!call, Chip!ended, Chip!Free, Chip!Setters
  <2>2. \A s \in Chip!Setters : bus' = s <=> bus = s
    BY <2>1
  <2> QED
    BY <2>1, <2>2 DEF ChipInv, ChipTypes, CallInv, Chip!Busy
<1>4. CASE UNCHANGED ds1338
  BY <1>4 DEF ds1338, ChipInv, ChipTypes, CallInv, Chip!Busy
<1> QED
  BY <1>1, <1>2, <1>3, <1>4 DEF Chip!Next

LEMMA ChipShows ==
  ASSUME ChipInv, Chip!Shows, alone
  PROVE  shown' = Chip!WithoutDay(last)
<1>1. bus \notin Chip!Setters /\ shown' = Chip!ToTm(cell)
  BY DEF Chip!Shows, Chip!MayRead, Chip!Free, Chip!Setters
<1> QED
  BY <1>1, ChipGivesBack DEF ChipInv, ChipTypes

(* timekeeper.c:116, 150-180, ds1338.c:105: with a healthy receiver a      *)
(* sentence is used for its pulse, a boot starts less than three seconds   *)
(* behind what the thread wrote, and date shows what the clock was set to  *)
(* last: for every time, period and error, and however often the two       *)
(* setters call.                                                           *)
THEOREM KeptCorrect == PickSpec => TimeIsKept
<1> DEFINE Inv == SyncInv /\ RtcInv /\ ChipInv
<1>1. PickInit => Inv
  BY SyncConstants, SyncInit, RtcStarts, ChipStarts DEF PickInit
<1>2. ASSUME Inv, [PickNext]_everything PROVE Inv'
  <2>1. [Next /\ HealthyStep]_sync /\ [Chip!Next]_ds1338
    BY <1>2 DEF PickNext, SyncStep, GpsStep, RtcStep, LoadStep, TextStep, LedStep, everything
  <2>2. [Next /\ HealthyStep]_vars
    BY <2>1 DEF sync, vars, gps, clock, pulse, nmea, thread, flags
  <2> QED
    BY <1>2, <2>1, <2>2, SyncConstants, SyncGoes, RtcGoes, ChipGoes
<1>3. Inv => TypeOK
  BY DEF SyncInv, SyncType, SentenceInv, ClockInv, TypeOK
<1>4. ASSUME Inv, [PickNext]_everything
      PROVE  /\ [pc = "nmea" /\ pc' = "rtc" => timp = ppsAge]_vars
             /\ [Reboot /\ rtc \notin RtcErrors => err' \in -(3 * Period) + 1 .. 0]_vars
             /\ [Chip!Shows /\ alone => shown' = Chip!WithoutDay(last)]_(Chip!vars)
  <2>1. [Next /\ HealthyStep]_sync
    BY <1>4 DEF PickNext, SyncStep, GpsStep, RtcStep, LoadStep, TextStep, LedStep, everything
  <2>2. [Next /\ HealthyStep]_vars
    BY <2>1 DEF sync, vars, gps, clock, pulse, nmea, thread, flags
  <2>3. [pc = "nmea" /\ pc' = "rtc" => timp = ppsAge]_vars
    BY <1>4, <2>2, SyncConstants, StepMatches
  <2>4. [Reboot /\ rtc \notin RtcErrors => err' \in -(3 * Period) + 1 .. 0]_vars
    BY <1>4, SyncConstants, BootIsBehind
  <2>5. [Chip!Shows /\ alone => shown' = Chip!WithoutDay(last)]_(Chip!vars)
    BY <1>4, ChipShows
  <2> QED
    BY <2>3, <2>4, <2>5
<1> HIDE DEF Inv
<1>5. PickSpec => []TypeOK
  BY <1>1, <1>2, <1>3, PTL DEF PickSpec
<1>6. PickSpec => SentenceMatchesPulse /\ BootBehind /\ Chip!ShownIsSet
  BY <1>1, <1>2, <1>4, PTL DEF PickSpec, SentenceMatchesPulse, BootBehind, Chip!ShownIsSet
<1> QED
  BY <1>5, <1>6, PTL DEF TimeIsKept

-----------------------------------------------------------------------------
(* The load.  Until a counter begins again the difference of two readings  *)
(* is what went by between them; the idle thread stands still while        *)
(* get_cpu_load runs, so that it is no more than what the clock counts.    *)
LoadTypes ==
  /\ cpu_now \in 0 .. Ticks - 1 /\ idle \in 0 .. Ticks - 1
  /\ last_sys_ticks \in 0 .. Ticks - 1 /\ last_idle_ticks \in 0 .. Ticks - 1
  /\ cpu_pc \in {"sleep", "compare", "subtract", "refresh"}
  /\ cpu_i \in Int /\ cpu_s \in Int
  /\ cpu_since \in 0 .. LoadPeriod + MaxLate /\ idled \in 0 .. cpu_since
  /\ truth \in [ticks : Nat, idle : Nat]
  /\ cpu_pc # "sleep" => idled = 0 /\ idle = last_idle_ticks /\ truth.idle <= cpu_since /\ cpu_since >= LoadPeriod
  /\ cpu_pc = "refresh" => truth.ticks \in LoadPeriod .. cpu_since /\ truth.idle <= truth.ticks

LoadInv ==
  /\ LoadTypes
  /\ ~wrapped =>
       /\ cpu_now = last_sys_ticks + cpu_since /\ idle = last_idle_ticks + idled
       /\ cpu_pc # "sleep" => cpu_i = truth.idle
       /\ cpu_pc = "subtract" => ~over
       /\ cpu_pc = "refresh" => cpu_s = truth.ticks

(* A counter that does not begin again goes on by one.                     *)
LEMMA WrapsOrNot ==
  ASSUME NEW w \in Nat, w > 1, NEW c \in 0 .. w - 1, NEW n \in {0, 1}
  PROVE  /\ (c + n) % w \in 0 .. w - 1
         /\ (c + n) % w < c \/ (c + n) % w = c + n
<1>1. CASE c + n = w
  <2>1. (c + n) % w = 0
    BY <1>1
  <2> QED
    BY <1>1, <2>1
<1>2. CASE c + n # w
  <2>1. (c + n) % w = c + n
    BY <1>2
  <2> QED
    BY <1>2, <2>1
<1> QED
  BY <1>1, <1>2

LEMMA ProductOrder ==
  ASSUME NEW a \in Nat, NEW b \in Nat, NEW c \in Nat, a <= b
  PROVE  a * c \in Nat /\ a * c <= b * c
<1>1. b * c = a * c + (b - a) * c
  BY Z3
<1>2. a * c \in Nat /\ (b - a) * c \in Nat
  BY Z3
<1> QED
  BY <1>1, <1>2

LEMMA LoadRoom ==
  /\ {Ticks, Full, LoadPeriod} \subseteq Nat \ {0} /\ MaxLate \in Nat
  /\ LoadPeriod + MaxLate < Ticks
  /\ \A n \in 0 .. LoadPeriod + MaxLate : n * Full \in 0 .. Ticks - 1
<1>1. /\ {Ticks, Full, LoadPeriod} \subseteq Nat \ {0} /\ MaxLate \in Nat
      /\ Full * (LoadPeriod + 2 * MaxLate) < Ticks
  BY LoadConstants DEF Cpu!CpuLoadAssumption
<1> DEFINE m == LoadPeriod + 2 * MaxLate
<1>2. m \in Nat /\ LoadPeriod + MaxLate <= m
  BY <1>1
<1>3. m * Full < Ticks
  BY <1>1, Z3
<1> HIDE DEF m
<1>4. ASSUME NEW n \in 0 .. LoadPeriod + MaxLate PROVE n * Full \in 0 .. Ticks - 1
  <2>1. n * Full \in Nat /\ n * Full <= m * Full
    BY <1>1, <1>2, ProductOrder
  <2>2. m * Full \in Nat
    BY <1>1, <1>2, ProductOrder
  <2> QED
    BY <1>1, <1>3, <2>1, <2>2
<1>5. LoadPeriod + MaxLate < Ticks
  <2> DEFINE k == LoadPeriod + MaxLate
  <2>1. k \in Nat /\ Full \in Nat /\ 1 <= Full
    BY <1>1
  <2> HIDE DEF k
  <2>2. 1 * k <= Full * k
    BY <2>1, ProductOrder
  <2>3. Full * k = k * Full /\ 1 * k = k
    BY <2>1
  <2>4. k \in 0 .. LoadPeriod + MaxLate
    BY <2>1 DEF k
  <2>5. k * Full \in 0 .. Ticks - 1
    BY <1>4, <2>4
  <2> QED
    BY <1>1, <2>1, <2>2, <2>3, <2>5 DEF k
<1> QED
  BY <1>1, <1>4, <1>5

LEMMA LoadWidth ==
  /\ Ticks \in Nat /\ LoadPeriod \in Nat /\ MaxLate \in Nat
  /\ Ticks > 1 /\ LoadPeriod > 0 /\ LoadPeriod + MaxLate < Ticks
BY LoadRoom

LEMMA LoadStarts == Cpu!Init => LoadInv
<1> SUFFICES ASSUME Cpu!Init PROVE LoadInv
  OBVIOUS
<1>1. /\ cpu_now = 0 /\ idle = 0 /\ last_sys_ticks = 0 /\ last_idle_ticks = 0
      /\ cpu_pc = "sleep" /\ cpu_i = 0 /\ cpu_s = 0
      /\ cpu_since = 0 /\ idled = 0 /\ truth = [ticks |-> 0, idle |-> 0]
  BY DEF Cpu!Init
<1>2. truth \in [ticks : Nat, idle : Nat]
  BY <1>1
<1> QED
  BY <1>1, <1>2, LoadWidth DEF LoadInv, LoadTypes

(* A tick that does not begin a counter again adds one to it.              *)
LEMMA TickKeeps ==
  ASSUME LoadInv, Cpu!Tick
  PROVE  LoadInv'
<1> USE LoadWidth
<1>1. PICK n \in {0, 1} :
        /\ idle' = (idle + n) % Ticks /\ idled' = idled + n /\ (n = 1 => cpu_pc = "sleep")
        /\ (n = 0 => idle' = idle)
  <2>1. idle \in 0 .. Ticks - 1
    BY DEF LoadInv, LoadTypes
  <2>2. (idle + 0) % Ticks = idle
    BY <2>1
  <2> QED
    BY <2>2 DEF Cpu!Tick, Cpu!Mod
<1>2. /\ cpu_since < LoadPeriod + MaxLate /\ cpu_since' = cpu_since + 1
      /\ cpu_now' = (cpu_now + 1) % Ticks
      /\ UNCHANGED <<last_sys_ticks, last_idle_ticks, cpu_pc, over, cpu_i, cpu_s, truth>>
  BY DEF Cpu!Tick, Cpu!Mod, Cpu!lasts, Cpu!call
<1>3. wrapped' = (wrapped \/ cpu_now' < cpu_now \/ idle' < idle)
  BY DEF Cpu!Tick
<1>5. /\ cpu_now' \in 0 .. Ticks - 1 /\ (cpu_now' < cpu_now \/ cpu_now' = cpu_now + 1)
      /\ idle' \in 0 .. Ticks - 1 /\ (idle' < idle \/ idle' = idle + n)
  <2>1. cpu_now \in 0 .. Ticks - 1 /\ idle \in 0 .. Ticks - 1
    BY DEF LoadInv, LoadTypes
  <2> QED
    BY <1>1, <1>2, <2>1, WrapsOrNot
<1>7. LoadTypes'
  BY <1>1, <1>2, <1>5 DEF LoadInv, LoadTypes
<1>8. ~wrapped' => ~wrapped /\ ~(cpu_now' < cpu_now) /\ ~(idle' < idle)
  BY <1>3, Zenon
<1>9. ~wrapped' => ~wrapped /\ cpu_now' = cpu_now + 1 /\ idle' = idle + n
  BY <1>5, <1>8
<1> QED
  BY <1>1, <1>2, <1>7, <1>9 DEF LoadInv, LoadTypes

(* The readings, and the load they give.                                   *)
LEMMA ReadingKeeps ==
  ASSUME LoadInv, Cpu!ReadIdle \/ Cpu!Compare \/ Cpu!Subtract \/ Cpu!Refresh
  PROVE  LoadInv'
<1> USE LoadWidth
<1>1. CASE Cpu!ReadIdle
  <2>1. /\ cpu_pc = "sleep" /\ cpu_since >= LoadPeriod /\ cpu_pc' = "compare"
        /\ last_idle_ticks' = idle /\ truth' = [truth EXCEPT !.idle = idled] /\ idled' = 0
        /\ UNCHANGED <<cpu_now, idle, last_sys_ticks, over, cpu_s, cpu_since, wrapped>>
    BY <1>1 DEF Cpu!ReadIdle, Cpu!counters
  <2>2. cpu_i' = Cpu!Difference(idle, last_idle_ticks)
    BY <1>1 DEF Cpu!ReadIdle
  <2>3. truth'.idle = idled /\ truth' \in [ticks : Nat, idle : Nat]
    BY <2>1 DEF LoadInv, LoadTypes
  <2>4. cpu_i' \in Int
    BY <2>2 DEF Cpu!Difference, LoadInv, LoadTypes
  <2>5. LoadTypes'
    BY <2>1, <2>3, <2>4 DEF LoadInv, LoadTypes
  <2>6. ~wrapped => cpu_i' = idled
    BY <2>2 DEF Cpu!Difference, LoadInv, LoadTypes
  <2> QED
    BY <2>1, <2>3, <2>5, <2>6 DEF LoadInv, LoadTypes
<1>2. CASE Cpu!Compare
  <2>1. /\ cpu_pc = "compare" /\ cpu_pc' = "subtract"
        /\ UNCHANGED <<cpu_now, idle, last_sys_ticks, last_idle_ticks, cpu_i, cpu_s, cpu_since,
             idled, truth, wrapped>>
    BY <1>2 DEF Cpu!Compare, Cpu!counters, Cpu!lasts, Cpu!ghosts
  <2>2. over' = (cpu_now < last_sys_ticks)
    BY <1>2 DEF Cpu!Compare
  <2>4. ~wrapped => ~over'
    <3>1. ~wrapped => ~(cpu_now < last_sys_ticks)
      BY DEF LoadInv, LoadTypes
    <3> QED
      BY <2>2, <3>1, Zenon
  <2> QED
    BY <2>1, <2>4 DEF LoadInv, LoadTypes
<1>3. CASE Cpu!Subtract
  <2>1. /\ cpu_pc = "subtract" /\ cpu_pc' = "refresh"
        /\ truth' = [truth EXCEPT !.ticks = cpu_since]
        /\ UNCHANGED <<cpu_now, idle, last_sys_ticks, last_idle_ticks, over, cpu_i, cpu_since,
             idled, wrapped>>
    BY <1>3 DEF Cpu!Subtract, Cpu!counters, Cpu!lasts
  <2>2. cpu_s' = (IF over THEN cpu_now + (Ticks - 1 - last_sys_ticks) ELSE cpu_now - last_sys_ticks) % Ticks
    BY <1>3 DEF Cpu!Subtract, Cpu!Mod
  <2>3. truth'.ticks = cpu_since /\ truth'.idle = truth.idle /\ truth' \in [ticks : Nat, idle : Nat]
    BY <2>1 DEF LoadInv, LoadTypes
  <2>4. cpu_s' \in Int
    <3> DEFINE d == IF over THEN cpu_now + (Ticks - 1 - last_sys_ticks) ELSE cpu_now - last_sys_ticks
    <3>1. d \in Int
      BY DEF LoadInv, LoadTypes
    <3> HIDE DEF d
    <3>2. d % Ticks \in Int
      BY <3>1
    <3> QED
      BY <2>2, <3>2 DEF d
  <2>5. ASSUME ~wrapped PROVE cpu_s' = cpu_since
    <3>1. ~over /\ cpu_now - last_sys_ticks = cpu_since /\ cpu_since \in 0 .. Ticks - 1
      BY <2>1, <2>5 DEF LoadInv, LoadTypes
    <3>2. cpu_s' = cpu_since % Ticks
      BY <2>2, <3>1
    <3> QED
      BY <3>1, <3>2
  <2> QED
    BY <2>1, <2>3, <2>4, <2>5 DEF LoadInv, LoadTypes
<1>4. CASE Cpu!Refresh
  <2>1. /\ cpu_pc = "refresh" /\ cpu_pc' = "sleep" /\ last_sys_ticks' = cpu_now
        /\ cpu_since' = 0
        /\ UNCHANGED <<cpu_now, idle, last_idle_ticks, over, cpu_i, cpu_s, idled, truth>>
    BY <1>4 DEF Cpu!Refresh, Cpu!counters
  <2>2. idled = 0 /\ idle = last_idle_ticks /\ cpu_now \in 0 .. Ticks - 1
    BY <2>1 DEF LoadInv, LoadTypes
  <2> QED
    BY <2>1, <2>2 DEF LoadInv, LoadTypes
<1> QED
  BY <1>1, <1>2, <1>3, <1>4

LEMMA LoadGoes ==
  ASSUME LoadInv, [Cpu!Next]_cpu
  PROVE  LoadInv'
<1>1. CASE UNCHANGED cpu
  BY <1>1 DEF cpu, LoadInv, LoadTypes
<1> QED
  BY <1>1, TickKeeps, ReadingKeeps DEF Cpu!Next

LEMMA LoadIsRight ==
  ASSUME LoadInv, Cpu!Refresh, ~wrapped
  PROVE  load' = Cpu!Share(truth)
<1>1. cpu_pc = "refresh" /\ load' = Cpu!Load(cpu_s, cpu_i)
  BY DEF Cpu!Refresh, LoadInv, LoadTypes
<1> DEFINE t == truth.ticks
           d == truth.ticks - truth.idle
<1>2. /\ cpu_s = t /\ cpu_s - cpu_i = d /\ d \in 0 .. LoadPeriod + MaxLate
  BY <1>1, LoadRoom DEF LoadInv, LoadTypes
<1> HIDE DEF d, t
<1>3. d % Ticks = d
  BY <1>2, LoadRoom
<1>4. d * Full \in 0 .. Ticks - 1
  BY <1>2, LoadRoom
<1>5. (d * Full) % Ticks = d * Full
  <2> DEFINE e == d * Full
  <2>1. e \in 0 .. Ticks - 1
    BY <1>4
  <2> HIDE DEF e
  <2>2. e % Ticks = e
    BY <2>1, LoadRoom
  <2> QED
    BY <2>2 DEF e
<1>6. Cpu!Load(cpu_s, cpu_i) = (d * Full) \div t
  BY <1>2, <1>3, <1>5, Zenon DEF Cpu!Load, Cpu!Mod
<1>7. Cpu!Share(truth) = (d * Full) \div t
  BY DEF Cpu!Share, d, t
<1> QED
  BY <1>1, <1>6, <1>7

(* sanity.c:122-141: wherever ticks come between the readings, and for     *)
(* every width of the counters, period and delay they have room for, the   *)
(* load is the share of the ticks that were not idle, until a counter      *)
(* begins again.                                                           *)
THEOREM ShareCorrect == PickSpec => LoadIsShare
<1>1. PickInit => LoadInv
  BY LoadStarts DEF PickInit
<1>2. LoadInv /\ [PickNext]_everything => LoadInv'
  <2> SUFFICES ASSUME LoadInv, [PickNext]_everything PROVE LoadInv'
    OBVIOUS
  <2>1. [Cpu!Next]_cpu
    BY DEF PickNext, SyncStep, GpsStep, RtcStep, LoadStep, TextStep, LedStep, everything
  <2> QED
    BY <2>1, LoadGoes
<1>3. LoadInv /\ [PickNext]_everything =>
        [Cpu!Refresh /\ ~wrapped => load' = Cpu!Share(truth)]_(Cpu!vars)
  BY LoadIsRight
<1> QED
  BY <1>1, <1>2, <1>3, PTL DEF PickSpec, LoadIsShare, Cpu!LoadIsShare

-----------------------------------------------------------------------------
(* The rate.  As long as less than the longest period has gone by since a  *)
(* heartbeat was sent the clock tells how much, across its end too.        *)
RateInv ==
  /\ texts_now \in 0 .. TextTicks - 1 /\ lastsent \in 0 .. TextTicks - 1
  /\ period \in 0 .. MaxPeriod /\ texts_since \in 0 .. MaxPeriod
  /\ texts_since < MaxPeriod => (texts_now - lastsent) % TextTicks = texts_since

LEMMA TextWidth == TextTicks \in Nat /\ MaxPeriod \in Nat /\ MaxPeriod < TextTicks
BY TextConstants DEF Tlm!BroadcastAssumption

LEMMA RateStarts == Tlm!Init => RateInv
BY TextWidth DEF Tlm!Init, RateInv

(* Both sides of a difference may lie on either side of the clock's end.   *)
LEMMA ClockDifference ==
  ASSUME NEW w \in Nat, NEW a \in 0 .. w - 1, NEW b \in 0 .. w - 1
  PROVE  (a - b) % w = IF a >= b THEN a - b ELSE a - b + w
<1>1. CASE a >= b
  BY <1>1
<1>2. CASE a < b
  BY <1>2
<1> QED
  BY <1>1, <1>2

LEMMA RateGoes ==
  ASSUME RateInv, [Tlm!Next]_texts
  PROVE  RateInv' /\ [texts_since' < texts_since => texts_since >= period]_(Tlm!vars)
<1> USE TextWidth
<1>1. CASE Tlm!Tick
  <2>1. /\ texts_now' = (texts_now + 1) % TextTicks /\ UNCHANGED <<period, lastsent>>
        /\ texts_since' = IF texts_since < MaxPeriod THEN texts_since + 1 ELSE texts_since
    BY <1>1 DEF Tlm!Tick
  <2>2. texts_now' = IF texts_now + 1 = TextTicks THEN 0 ELSE texts_now + 1
    <3>1. CASE texts_now + 1 = TextTicks
      BY <2>1, <3>1
    <3>2. CASE texts_now + 1 # TextTicks
      BY <2>1, <3>2 DEF RateInv
    <3> QED
      BY <3>1, <3>2
  <2>3. /\ texts_now \in 0 .. TextTicks - 1 /\ lastsent \in 0 .. TextTicks - 1
        /\ texts_now' \in 0 .. TextTicks - 1
    BY <2>2 DEF RateInv
  <2>4. (texts_now - lastsent) % TextTicks
          = IF texts_now >= lastsent THEN texts_now - lastsent ELSE texts_now - lastsent + TextTicks
    BY <2>3, ClockDifference
  <2>5. (texts_now' - lastsent) % TextTicks
          = IF texts_now' >= lastsent THEN texts_now' - lastsent ELSE texts_now' - lastsent + TextTicks
    BY <2>3, ClockDifference
  <2> QED
    BY <2>1, <2>2, <2>3, <2>4, <2>5 DEF RateInv
<1>2. CASE Tlm!PacksHeartbeat
  <2>1. UNCHANGED <<texts_now, period>>
    BY <1>2 DEF Tlm!PacksHeartbeat
  <2>2. CASE period # 0 /\ Tlm!PeriodIsOver
    <3>1. lastsent' = texts_now /\ texts_since' = 0
      BY <1>2, <2>2 DEF Tlm!PacksHeartbeat
    <3>2. (texts_now - lastsent) % TextTicks >= period
      BY <2>2 DEF Tlm!PeriodIsOver
    <3>3. texts_now - texts_now = 0 /\ 0 % TextTicks = 0
      BY DEF RateInv
    <3> QED
      BY <2>1, <3>1, <3>2, <3>3 DEF RateInv
  <2>3. CASE ~(period # 0 /\ Tlm!PeriodIsOver)
    BY <1>2, <2>1, <2>3 DEF Tlm!PacksHeartbeat, RateInv
  <2> QED
    BY <2>2, <2>3
<1>3. CASE Tlm!SetPeriod
  BY <1>3 DEF Tlm!SetPeriod, RateInv
<1>4. CASE UNCHANGED <<texts_now, period, lastsent, texts_since>>
  BY <1>4 DEF RateInv
<1>5. Tlm!Tick \/ Tlm!PacksHeartbeat \/ Tlm!SetPeriod
        \/ UNCHANGED <<texts_now, period, lastsent, texts_since>>
  <2>1. CASE Tlm!Next
    BY <2>1 DEF Tlm!Next, Tlm!Printed, Tlm!AnalogAlarm, Tlm!Press, Tlm!Poll, Tlm!Repeat, Tlm!Beat,
      Tlm!PortChanges, Tlm!TakesEvent, Tlm!Pack, Tlm!PacksText, Tlm!Writes, Tlm!timing
  <2>2. CASE UNCHANGED texts
    BY <2>2 DEF texts
  <2> QED
    BY <2>1, <2>2
<1> QED
  BY <1>1, <1>2, <1>3, <1>4, <1>5

(* link.c:117-124: for every width of the clock and every longest period   *)
(* below it, at least the period goes by between two heartbeats, also when *)
(* the clock begins again meanwhile or the period was just changed.        *)
THEOREM RateCorrect == PickSpec => Tlm!RateIsKept
<1>1. PickInit => RateInv
  BY RateStarts DEF PickInit
<1>2. RateInv /\ [PickNext]_everything =>
        RateInv' /\ [texts_since' < texts_since => texts_since >= period]_(Tlm!vars)
  <2> SUFFICES ASSUME RateInv, [PickNext]_everything
               PROVE  RateInv' /\ [texts_since' < texts_since => texts_since >= period]_(Tlm!vars)
    OBVIOUS
  <2>1. [Tlm!Next]_texts
    BY DEF PickNext, SyncStep, GpsStep, RtcStep, LoadStep, TextStep, LedStep, everything
  <2> QED
    BY <2>1, RateGoes
<1> QED
  BY <1>1, <1>2, PTL DEF PickSpec, Tlm!RateIsKept

(* gps.c:250, 324, bnap_ui.c:125-157: whatever the line does to the        *)
(* sentences a place and a speed are shown only for a second in which the  *)
(* receiver had one, for every length of a sentence and of the day; and a  *)
(* LED is lit at most once for each event, and is put out by its thread.   *)
THEOREM ShownCorrect == PickSpec => []ShownIsTrue
<1>1. PickInit => GpsInv /\ LedInv
  BY GpsStarts, LedsStart DEF PickInit
<1>2. GpsInv /\ LedInv /\ [PickNext]_everything => (GpsInv /\ LedInv)'
  <2> SUFFICES ASSUME GpsInv, LedInv, [PickNext]_everything PROVE (GpsInv /\ LedInv)'
    OBVIOUS
  <2>1. [Rx!Next]_receiver /\ [Led!Next]_leds
    BY DEF PickNext, SyncStep, GpsStep, RtcStep, LoadStep, TextStep, LedStep, everything
  <2> QED
    BY <2>1, GpsGoes, LedsGo
<1>3. GpsInv /\ LedInv => ShownIsTrue
  BY GpsShows DEF ShownIsTrue, LedInv
<1> QED
  BY <1>1, <1>2, <1>3, PTL DEF PickSpec
=============================================================================
