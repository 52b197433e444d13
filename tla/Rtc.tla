-------------------------------- MODULE Rtc --------------------------------
(***************************************************************************)
(* The real time clock of the BNAP node (src/soft/bnap/src/time/ds1338.c)  *)
(* on the I2C bus it shares with the EEPROM.  TimekeeperThread sets it     *)
(* after each correction, the shell command date sets it and shows it.     *)
(* All build what they send in one static buffer, before they have the     *)
(* bus.  The time in the chip stands still: what counts is which time it   *)
(* was set to.  A time is the seven fields of struct tm, in its order.     *)
(***************************************************************************)
EXTENDS Integers, Sequences

CONSTANTS
  Times,   (* what the clock may be set to                                 *)
  MaxSets  (* a bound: how often somebody sets it                          *)

Fields == <<0 .. 59, 0 .. 59, 0 .. 23, 0 .. 6, 1 .. 31, 0 .. 11, 100 .. 199>>
Size == Len(Fields)  (* DS1338_TIME_SIZE                                   *)

RtcAssumption ==
  /\ \A t \in Times : Len(t) = Size /\ \A i \in 1 .. Size : t[i] \in Fields[i]
  /\ MaxSets \in Nat

Setters == {"timekeeper", "date"}
Free == "nobody"

VARIABLES
  txbuf,      (* the bytes after the address, which is always that of the time *)
  cell,       (* the registers of the chip                                 *)
  bus,        (* who has it: Free, a setter or the "eeprom"                *)
  pc, time,   (* of a setter: idle, fill, wait, send, ask; and what it sets *)
  done,       (* how many bytes it has filled or sent                      *)
  shown,      (* what date has said                                        *)
  met,        (* the call of a setter met one of the other                 *)
  last,       (* the time of the last call that came to its end, and       *)
  alone,      (* whether it met another                                    *)
  sets

chip == <<txbuf, cell>>
call == <<pc, time, done, met>>
ended == <<last, alone>>
vars == <<chip, bus, call, shown, ended, sets>>

-----------------------------------------------------------------------------
(* What a register holds. *)

Bcd(n) == (n % 10) + (n \div 10) * 16

(* ds1338_tm2bcd *)
ToBcd(t) ==
  <<Bcd(t[1]), Bcd(t[2]), Bcd(t[3]), t[4] + 1, Bcd(t[5]), Bcd(t[6] + 1), Bcd(t[7] - 100)>>

(* Decimal digits: the high ones are cut to as many bits as they need.     *)
Decimal(b, tens) == ((b \div 16) % tens) * 10 + (b % 16)

(* ds1338_bcd2tm, which leaves the day of the week as it was.              *)
ToTm(b) ==
  <<Decimal(b[1], 8), Decimal(b[2], 8), Decimal(b[3], 4),
    Decimal(b[5], 4), Decimal(b[6], 2) - 1, Decimal(b[7], 16) + 100>>

WithoutDay(t) == <<t[1], t[2], t[3], t[5], t[6], t[7]>>

Init ==
  /\ last \in Times /\ cell = ToBcd(last) /\ alone = TRUE
  /\ txbuf = [i \in 1 .. Size |-> 0] /\ bus = Free
  /\ pc = [s \in Setters |-> "idle"]
  /\ time = [s \in Setters |-> last]
  /\ done = [s \in Setters |-> 0]
  /\ met = [s \in Setters |-> FALSE]
  /\ shown = WithoutDay(last) /\ sets = 0

-----------------------------------------------------------------------------
Goes(s, to) == pc' = [pc EXCEPT ![s] = to]

Busy(s) == pc[s] \in {"fill", "wait", "send"}

(* ds1338SetTimeTm is called. *)
Sets(s) ==
  /\ pc[s] = "idle" /\ sets < MaxSets /\ sets' = sets + 1
  /\ time' \in {[time EXCEPT ![s] = t] : t \in Times}
  /\ done' = [done EXCEPT ![s] = 0]
  /\ met' = [o \in Setters |-> IF o = s THEN \E p \in Setters : Busy(p)
                               ELSE met[o] \/ Busy(o)]
  /\ Goes(s, "fill")
  /\ UNCHANGED <<chip, bus, shown, ended>>

(* memcpy of ds1338_set_time_bcd, in which the shell may be interrupted.   *)
FillByte(s) ==
  /\ pc[s] = "fill"
  /\ LET n == done[s] + 1
     IN /\ txbuf' = [txbuf EXCEPT ![n] = ToBcd(time[s])[n]]
        /\ done' = [done EXCEPT ![s] = IF n = Size THEN 0 ELSE n]
        /\ Goes(s, IF n = Size THEN "wait" ELSE "fill")
  /\ UNCHANGED <<cell, bus, time, met, shown, ended, sets>>

(* i2cAcquireBus *)
Acquire(s) ==
  /\ pc[s] = "wait" /\ bus = Free
  /\ bus' = s /\ Goes(s, "send")
  /\ UNCHANGED <<chip, time, done, met, shown, ended, sets>>

(* The driver takes the bytes from the buffer as it sends them.            *)
SendByte(s) ==
  /\ pc[s] = "send" /\ bus = s /\ done[s] < Size
  /\ LET n == done[s] + 1
     IN cell' = [cell EXCEPT ![n] = txbuf[n]] /\ done' = [done EXCEPT ![s] = n]
  /\ UNCHANGED <<txbuf, bus, pc, time, met, shown, ended, sets>>

(* i2cReleaseBus; date then reads the clock.                               *)
Release(s) ==
  /\ pc[s] = "send" /\ done[s] = Size
  /\ bus' = Free /\ Goes(s, IF s = "date" THEN "ask" ELSE "idle")
  /\ last' = time[s] /\ alone' = ~met[s]
  /\ UNCHANGED <<chip, time, done, met, shown, sets>>

(* date_clicmd without a time to set. *)
Asks ==
  /\ pc["date"] = "idle" /\ Goes("date", "ask")
  /\ UNCHANGED <<chip, bus, time, done, met, shown, ended, sets>>

MayRead == bus = Free

(* ds1338_get_time_bcd: the chip stops its registers while they are read.  *)
Shows ==
  /\ pc["date"] = "ask" /\ MayRead
  /\ shown' = ToTm(cell) /\ Goes("date", "idle")
  /\ UNCHANGED <<chip, bus, time, done, met, ended, sets>>

(* Parameters or the settings of the modem are saved or loaded.            *)
Eeprom ==
  /\ bus' = IF bus = Free THEN "eeprom" ELSE Free
  /\ bus \in {Free, "eeprom"}
  /\ UNCHANGED <<chip, call, shown, ended, sets>>

(* Nothing interrupts TimekeeperThread that would set the clock.           *)
Runs(s) == s = "date" => pc["timekeeper"] # "fill"

Call(s) ==
  /\ Runs(s)
  /\ Sets(s) \/ FillByte(s) \/ Acquire(s) \/ SendByte(s) \/ Release(s)

Next == (\E s \in Setters : Call(s)) \/ Asks \/ Shows \/ Eeprom

Spec == Init /\ [][Next]_vars

-----------------------------------------------------------------------------
(* What date shows is what the clock was set to last, through BCD and the  *)
(* bus it shares, also while the other setter has begun and waits, unless  *)
(* the last call met another: the buffer, which is filled before the bus   *)
(* is taken (ds1338.c:105-107), loses nothing else.                        *)
ShownIsSet ==
  [][Shows /\ alone => shown' = WithoutDay(last)]_vars
=============================================================================
