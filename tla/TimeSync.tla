------------------------------ MODULE TimeSync ------------------------------
(***************************************************************************)
(* The system time of the BNAP node (src/soft/bnap/src/time/timekeeper.c,  *)
(* gps.c, ds1338.c).  A pulse of the GPS receiver (PPS) marks the begin of *)
(* each second, a sentence (RMC) that follows it says which second it was. *)
(* TimekeeperThread waits for the pulse, then for the sentence, corrects   *)
(* the clock and writes the time to the real time clock (RTC), from which  *)
(* the next boot takes it.                                                 *)
(*                                                                         *)
(* All times are relative to GPS time, so nothing grows: a clock is its    *)
(* error, a time stamp is its age.  A second has Period slots; a system    *)
(* tick is much shorter than a slot.                                       *)
(***************************************************************************)
EXTENDS Integers

CONSTANTS
  Period,     (* slots in a second                                          *)
  Timeout,    (* GPS_TIME_TMO, in slots                                     *)
  MaxBus,     (* bound on the slots the I2C bus may keep the thread waiting *)
  MaxAge,     (* bound on the seconds a parsed sentence stays unused        *)
  RtcErrors   (* errors the RTC may have at first                           *)

(* GPS_TIME_TMO "Must be less than second" (timekeeper.c:41). *)
TimeSyncAssumption ==
  /\ Period \in Nat /\ Timeout \in 1 .. Period - 1
  /\ MaxBus \in Nat /\ MaxBus >= Timeout /\ MaxAge \in Nat \ {0}
  /\ RtcErrors \subseteq Int

VARIABLES
  slot,       (* the current slot of the second                             *)
  said,       (* the sentence of this second has been parsed                *)
  err,        (* SysTimeUsec, minus GPS time                                *)
  shift,      (* SysTimeShift                                               *)
  ppsAge,     (* PpsTimeStamp: how many seconds ago that pulse came ...     *)
  ppsErr,     (* ... and the error of the clock it was taken from           *)
  timp,       (* gps_timp: how many seconds ago that second began           *)
  sem, event, (* pps_sem and the pending EVMSK_GPS_TIME_GOT                 *)
  pc,         (* TimekeeperThread waits for "pps", "nmea" or the bus ("rtc") *)
  waited,     (* slots it has waited                                        *)
  lag,        (* how far the time it writes to the RTC is behind            *)
  rtc,        (* time of the RTC, minus GPS time                            *)
  time_good, time_proved

gps    == <<slot, said>>
clock  == <<err, shift>>
pulse  == <<ppsAge, ppsErr, sem>>
nmea   == <<timp, event>>
thread == <<pc, waited, lag>>
flags  == <<time_good, time_proved>>
vars   == <<gps, clock, pulse, nmea, thread, rtc, flags>>

(* What gps_timp holds after ds1338_tm2bcd has turned its month and year   *)
(* into those of the RTC, in place, or before the first sentence.          *)
NoTimp == -1

Older(age) == IF age \in 0 .. MaxAge - 1 THEN age + 1 ELSE age

TimedOut == waited >= Timeout

(* The thread has the highest priority of those used here: when it can run *)
(* it does, before the GPS thread or the next slot.                        *)
ThreadReady ==
  \/ pc = "pps" /\ sem
  \/ pc = "nmea" /\ (event \/ TimedOut)

(* TimekeeperInit takes the whole seconds of the RTC.                      *)
TimeAtBoot == rtc - ((slot + rtc) % Period)

Init ==
  /\ slot = 0 /\ said = FALSE
  /\ rtc \in RtcErrors
  /\ err = TimeAtBoot /\ shift = 0
  /\ ppsAge = MaxAge /\ ppsErr = 0 /\ sem = FALSE
  /\ timp = NoTimp /\ event = FALSE
  /\ pc = "pps" /\ waited = 0 /\ lag = 0
  /\ time_good \in BOOLEAN /\ time_proved = FALSE

-----------------------------------------------------------------------------
(* Time and the GPS receiver. *)

(* timekeeper_vt_cb applies the shift. *)
ShiftApplied ==
  /\ shift # 0
  /\ err' = err + shift /\ shift' = 0
  /\ UNCHANGED <<gps, pulse, nmea, thread, rtc, flags>>

SlotPasses ==
  /\ ~ThreadReady
  /\ pc = "rtc" => waited < MaxBus
  /\ slot' = (slot + 1) % Period
  /\ waited' = IF pc = "pps" THEN 0 ELSE IF waited < MaxBus THEN waited + 1 ELSE MaxBus
  /\ lag' = IF pc = "rtc" THEN lag + 1 ELSE 0
  /\ UNCHANGED <<pc, event, rtc, flags>>

WithinSecond ==
  /\ SlotPasses
  /\ shift = 0
  /\ slot' # 0
  /\ UNCHANGED <<said, clock, pulse, timp>>

SecondBegins ==
  /\ SlotPasses
  /\ slot' = 0
  /\ event => timp < MaxAge
  /\ said' = FALSE
  /\ timp' = Older(timp)

StampOfPulse == [age |-> 0, err |-> err]

(* exti_pps_cb.  The pulse may come before the tick that applies a shift.  *)
Pulse ==
  /\ SecondBegins
  /\ ppsAge' = StampOfPulse.age /\ ppsErr' = StampOfPulse.err
  /\ sem' = TRUE
  /\ UNCHANGED clock

PulseLost ==
  /\ SecondBegins
  /\ shift = 0
  /\ ppsAge' = Older(ppsAge)
  /\ UNCHANGED <<ppsErr, sem, clock>>

(* parse_rmc of a valid sentence, gps_get_time.  A sentence that is lost,  *)
(* or says that there is no fix, changes nothing.                          *)
Sentence ==
  /\ ~ThreadReady
  /\ ~said /\ slot # 0
  /\ said' = TRUE
  /\ timp' = 0
  /\ event' = TRUE
  /\ UNCHANGED <<slot, clock, pulse, thread, rtc, flags>>

-----------------------------------------------------------------------------
(* TimekeeperThread. *)

TakePulse ==
  /\ pc = "pps" /\ sem
  /\ sem' = FALSE
  /\ pc' = "nmea" /\ waited' = 0
  /\ UNCHANGED <<gps, clock, ppsAge, ppsErr, nmea, lag, rtc, flags>>

GivesUp ==
  /\ pc = "nmea" /\ ~event /\ TimedOut
  /\ pc' = "pps" /\ waited' = 0
  /\ UNCHANGED <<gps, clock, pulse, nmea, lag, rtc, flags>>

CorrectionFromNow == -(slot + timp * Period) - err

(* gps_time - PpsTimeStamp *)
Correction == (ppsAge - timp) * Period - ppsErr

(* chEvtWaitOneTimeout takes the event it reports.                         *)
Pending == FALSE

(* The correction, and ds1338SetTimeTm as far as the bus. *)
Correct ==
  /\ pc = "nmea" /\ event
  /\ event' = Pending
  /\ shift' = Correction
  /\ time_good' = TRUE /\ time_proved' = TRUE
  /\ lag' = slot + timp * Period
  /\ timp' = NoTimp
  /\ pc' = "rtc" /\ waited' = 0
  /\ UNCHANGED <<gps, err, pulse, rtc>>

WrittenAhead == Period - lag

Written == -lag

(* ds1338_set_time_bcd gets the bus. *)
SetRtc ==
  /\ pc = "rtc"
  /\ rtc' = Written
  /\ pc' = "pps" /\ waited' = 0 /\ lag' = 0
  /\ UNCHANGED <<gps, clock, pulse, nmea, flags>>

(* The node boots.  From TimekeeperInit to ExtiEnablePps main waits for    *)
(* nothing, so no sentence is parsed before the pulse is switched on.      *)
Reboot ==
  /\ err' = TimeAtBoot /\ shift' = 0
  /\ ppsAge' = MaxAge /\ ppsErr' = 0 /\ sem' = FALSE
  /\ timp' = NoTimp /\ event' = FALSE
  /\ pc' = "pps" /\ waited' = 0 /\ lag' = 0
  /\ time_good' \in BOOLEAN /\ time_proved' = FALSE
  /\ UNCHANGED <<gps, rtc>>

(* date_clicmd: somebody sets the RTC by hand.                             *)
DateCommand ==
  /\ rtc' \in RtcErrors
  /\ UNCHANGED <<gps, clock, pulse, nmea, thread, flags>>

ThreadStep == TakePulse \/ GivesUp \/ Correct

TimePasses == WithinSecond \/ Pulse \/ PulseLost

Next ==
  \/ ShiftApplied \/ TimePasses \/ Sentence
  \/ ThreadStep \/ SetRtc
  \/ DateCommand \/ Reboot

Spec == Init /\ [][Next]_vars

(***************************************************************************)
(* What the GPS receiver and the bus have to respect for the clock to be   *)
(* right, none of which the code can see: a sentence comes only in a       *)
(* second whose pulse was seen, and within the timeout; no pulse falls     *)
(* into the tick between a correction and its application; the bus is free *)
(* within a second.                                                        *)
(***************************************************************************)
HealthyStep ==
  /\ said' /\ ~said => ppsAge = 0 /\ slot < Timeout
  /\ ppsAge' = 0 /\ slot' # slot => shift = 0
  /\ pc' = "rtc" => waited' < Period

HealthySpec == Init /\ [][Next /\ HealthyStep]_vars

(* Time goes on, the thread runs, and the bus becomes free.                *)
FairSpec ==
  /\ HealthySpec
  /\ WF_vars((TimePasses \/ ShiftApplied) /\ HealthyStep)
  /\ WF_vars(ThreadStep) /\ WF_vars(SetRtc)

-----------------------------------------------------------------------------
(* Errors and ages stay in their ranges; an event is pending exactly while *)
(* gps_timp holds a time nobody has used.                                  *)
TypeOK ==
  /\ slot \in 0 .. Period - 1
  /\ ppsAge \in 0 .. MaxAge
  /\ timp \in 0 .. MaxAge \cup {NoTimp}
  /\ event <=> timp # NoTimp
  /\ pc \in {"pps", "nmea", "rtc"}
  /\ waited \in 0 .. MaxBus /\ lag \in 0 .. MaxBus + Period
  /\ time_proved => time_good

(* timekeeper.c:116, "now wait until time been parsed from NMEA message":  *)
(* the second the sentence names is the one the stamped pulse began.       *)
SentenceMatchesPulse ==
  [][pc = "nmea" /\ pc' = "rtc" => timp = ppsAge]_vars

(* Once corrected, the clock that stamps the records is exact, however     *)
(* late the thread got to the pulse and the sentence.                      *)
ClockExact == time_proved /\ shift = 0 => err = 0

(* If the thread set the RTC, the next boot starts not ahead of GPS time   *)
(* and less than three seconds behind: one for the sentence, one for the   *)
(* bus, one for the missing fraction.  Behind is dangerous too: the newest *)
(* record is then stamped in the future (_check_block, storage.c:163).     *)
BootBehind ==
  [][Reboot /\ rtc \notin RtcErrors => err' \in -(3 * Period) + 1 .. 0]_vars

(* A receiver that falls silent leaves the thread waiting for neither a    *)
(* sentence nor the bus: it is back at the pulse.                          *)
ThreadComesBack == pc # "pps" ~> pc = "pps"
=============================================================================
