------------------------------- MODULE MCTime -------------------------------
(* Six programs that live by the clock and share no state, each explored   *)
(* by itself: the system time of BNAP (time/timekeeper.c), the parser of   *)
(* the GPS receiver (gps.c), the real time clock (time/ds1338.c), the load *)
(* of the processor (sanity.c), what is sent every so often (link.c,       *)
(* mavlink_dbg.c, bnap_ui.c) and the LEDs (bnap_ui.c).  A behaviour picks  *)
(* one of them and leaves the others where they start.                     *)
EXTENDS TimeSync, Sequences

CONSTANTS
  Seconds, GPS_MSG_LEN, MaxNoise,            (* of Gps                     *)
  Times, MaxSets,                            (* of Rtc                     *)
  Ticks, Full, LoadPeriod, MaxLate,          (* of CpuLoad                 *)
  TextTicks, MaxPeriod, MaxTexts,            (* of Broadcast               *)
  MaxEvents                                  (* of Leds                    *)

VARIABLE unit

MCRtcErrors == {0, -6, 5}

(* The first second of the year 2000, a Saturday, and the last one of      *)
(* 2099.                                                                   *)
MCTimes == {<<0, 0, 0, 4, 1, 0, 100>>, <<59, 58, 23, 6, 31, 11, 199>>}

(* timekeeper.c, in the variables of TimeSync; an RTC that is right,       *)
(* behind and ahead.                                                       *)
sync == <<slot, said, err, shift, ppsAge, ppsErr, timp, sem, event, pc,
  waited, lag, rtc, time_good, time_proved>>
ASSUME SyncConstants == TimeSyncAssumption

(* gps.c: the two sentences of a second on a noisy line. *)
VARIABLES
  gps_now, fix, sending, noise, gps_pc, type, body, gps_n, gps_valid, gga, rmc
receiver == <<gps_now, fix, sending, noise, gps_pc, type, body, gps_n, gps_valid, gga,
  rmc>>
Rx == INSTANCE Gps WITH now <- gps_now, pc <- gps_pc, n <- gps_n
ASSUME GpsConstants == Rx!GpsAssumption

(* ds1338.c: two setters and the bus. *)
VARIABLES
  txbuf, cell, bus, ds1338_pc, time, done, shown, met, last, alone, sets
ds1338 == <<txbuf, cell, bus, ds1338_pc, time, done, shown, met, last, alone, sets>>
Chip == INSTANCE Rtc WITH pc <- ds1338_pc
ASSUME RtcConstants == Chip!RtcAssumption

(* sanity.c: the ticks and the idle ticks. *)
VARIABLES
  cpu_now, idle, last_sys_ticks, last_idle_ticks, cpu_pc, over, cpu_i, cpu_s, load,
  cpu_since, idled, truth, wrapped
cpu == <<cpu_now, idle, last_sys_ticks, last_idle_ticks, cpu_pc, over, cpu_i, cpu_s,
  load, cpu_since, idled, truth, wrapped>>
Cpu == INSTANCE CpuLoad WITH
  Wrap <- Ticks, Period <- LoadPeriod, now <- cpu_now, pc <- cpu_pc, since <- cpu_since,
  i <- cpu_i, s <- cpu_s
ASSUME LoadConstants == Cpu!CpuLoadAssumption

(* link.c, mavlink_dbg.c, bnap_ui.c: heartbeats, texts, the button. *)
VARIABLES
  texts_now, period, lastsent, texts_since, events, packer, port_ready,
  text, printing, sent, pin, cur, button, quick, count
texts == <<texts_now, period, lastsent, texts_since, events, packer, port_ready,
  text, printing, sent, pin, cur, button, quick, count>>
Tlm == INSTANCE Broadcast WITH
  Wrap <- TextTicks, MaxEvents <- MaxTexts, now <- texts_now, since <- texts_since
ASSUME TextConstants == Tlm!BroadcastAssumption

(* bnap_ui.c: the LEDs. *)
VARIABLES
  blink, gps_seen, pending, led_pc, lit, heard, blinks, moved
leds == <<blink, gps_seen, pending, led_pc, lit, heard, blinks, moved>>
Led == INSTANCE Leds WITH gps_valid <- gps_seen
ASSUME LedConstants == Led!LedsAssumption

(* One unit runs; the others stay in an initial state. *)
PickInit ==
  /\ unit \in {"sync", "gps", "rtc", "load", "texts", "leds"}
  /\ unit # "sync" => rtc = 0 /\ time_good = TRUE
  /\ unit # "gps" => fix = [now |-> TRUE, before |-> FALSE]
  /\ unit # "rtc" => last = CHOOSE some \in Times : TRUE
  /\ unit # "texts" => period = 0 /\ port_ready = TRUE
  /\ Led!Init
  /\ unit # "leds" => blink["gsm"] = 0 /\ blink["gps"] = 0 /\ gps_seen = TRUE
  /\ Init
  /\ Rx!Init
  /\ Chip!Init
  /\ Cpu!Init
  /\ Tlm!Init

SyncStep ==
  /\ unit = "sync" /\ Next /\ HealthyStep
  /\ UNCHANGED <<unit, receiver, ds1338, cpu, texts, leds>>

GpsStep ==
  /\ unit = "gps" /\ Rx!Next
  /\ UNCHANGED <<unit, sync, ds1338, cpu, texts, leds>>

RtcStep ==
  /\ unit = "rtc" /\ Chip!Next
  /\ UNCHANGED <<unit, sync, receiver, cpu, texts, leds>>

LoadStep ==
  /\ unit = "load" /\ Cpu!Next
  /\ UNCHANGED <<unit, sync, receiver, ds1338, texts, leds>>

TextStep ==
  /\ unit = "texts" /\ Tlm!Next
  /\ UNCHANGED <<unit, sync, receiver, ds1338, cpu, leds>>

LedStep ==
  /\ unit = "leds" /\ Led!Next
  /\ UNCHANGED <<unit, sync, receiver, ds1338, cpu, texts>>

PickNext == SyncStep \/ GpsStep \/ RtcStep \/ LoadStep \/ TextStep \/ LedStep

everything == <<unit, sync, receiver, ds1338, cpu, texts, leds>>

PickSpec == PickInit /\ [][PickNext]_everything

(* The fairness of the specification that runs; that of the others asks    *)
(* for nothing, for none of their steps is possible.                       *)
On(u, A) == unit = u /\ A

PickFairness ==
  /\ WF_sync(On("sync", (TimePasses \/ ShiftApplied) /\ HealthyStep))
  /\ WF_sync(On("sync", ThreadStep)) /\ WF_sync(On("sync", SetRtc))
  /\ WF_receiver(On("gps", Rx!Arrives)) /\ WF_receiver(On("gps", Rx!NextSecond))
  /\ WF_texts(On("texts", Tlm!Printed)) /\ WF_texts(On("texts", Tlm!Poll))
  /\ WF_texts(On("texts", Tlm!Repeat)) /\ WF_texts(On("texts", Tlm!Pack))
  /\ WF_texts(On("texts", Tlm!TakesEvent))
  /\ SF_texts(On("texts", Tlm!TakesEvent /\ packer' = "text"))
  /\ \A l \in Led!Leds : WF_leds(On("leds", Led!Steps(l)))

FairPickSpec == PickSpec /\ PickFairness

-----------------------------------------------------------------------------
(* ClockExact is that of TimeSync.                                         *)

(* timekeeper.c:116, 150-180, ds1338.c:105: the second a sentence names is *)
(* the one the stamped pulse began, the next boot starts at most three     *)
(* seconds behind, and the RTC shows what it was set to last.              *)
TimeIsKept == []TypeOK /\ SentenceMatchesPulse /\ BootBehind /\ Chip!ShownIsSet

(* timekeeper.c:110-125, gps.c:152-157: a receiver that falls silent does  *)
(* not hold the thread, and the parser is back in step once the line is    *)
(* quiet.                                                                  *)
NoiseHoldsNothing ==
  /\ unit = "sync" => ThreadComesBack
  /\ unit = "gps" => Rx!GoesOnAfterNoise

(* gps.c:250, 324: no place or speed is shown that the receiver did not    *)
(* have in that second; bnap_ui.c:125-157: each time a LED is lit stands   *)
(* for an event of its own.                                                *)
ShownIsTrue ==
  /\ unit = "gps" => Rx!ShownIsTrue
  /\ unit = "leds" => Led!EachBlinkHasItsEvent

(* sanity.c:122-141: the load is the share of the ticks that were not      *)
(* idle.                                                                   *)
LoadIsShare == Cpu!LoadIsShare

(* link.c:117-124, mavlink_dbg.c:59-66: heartbeats keep their period, and  *)
(* the last text goes out; bnap_ui.c:125-157: an event that is to be shown *)
(* is, and no LED stays lit.                                               *)
BroadcastsGoOut ==
  /\ Tlm!RateIsKept
  /\ unit = "texts" => Tlm!LastTextGoesOut
  /\ unit = "leds" => Led!EventsAreShown
=============================================================================
