------------------------------ MODULE Telemetry ------------------------------
(***************************************************************************)
(* What MPIOVD tells of its analog inputs and its tachometer.  Interrupts  *)
(* write raw_data (sensors/adc_local.c, freq.c), the thread TLM_Sender     *)
(* makes mpiovd_sensors_struct of it (sensors/mavsender.c), and two        *)
(* threads of lower priority read that: CanTx (link/can_local.c) and the   *)
(* command "sensors" of the shell (sensors/sensors_cmd.c).  The filters    *)
(* before are AlphaBeta, the mail of the message is MpiovdMail.            *)
(***************************************************************************)
EXTENDS Integers, FiniteSetsExt

CONSTANTS
  Sensors,    (* inputs with a sensor: 1 .. 15; the last is the speed too  *)
  Supplies, Levels,  (* what the ADC gives for the supply and for a sensor *)
  U1,         (* millivolts at a sensor for its level: what _supply_       *)
              (* compensate computes with a logarithm                      *)
  V,          (* millivolts at its resistor, for the level of the supply   *)
  Words,      (* readings of the contacts                                  *)
  Periods,    (* readings of the timer                                     *)
  MaxChanges  (* how often an interrupt brings something new               *)

MaxHalfword == 65535

TelemetryAssumption ==
  /\ \E n \in Sensors : n \in Nat \ {0} /\ Sensors = 1 .. n
  /\ Supplies \cup Levels \cup Words \subseteq Nat /\ Periods \subseteq 0 .. MaxHalfword
  /\ U1 \in [Levels -> Nat] /\ V \in [Supplies -> Nat] /\ MaxChanges \in Nat
  /\ \A a, b \in Levels : a < b => U1[a] < U1[b]
  /\ \A a, b \in Supplies : a < b => V[a] < V[b]

Readers == {"CanTx", "SensorsCmd"}

VARIABLES
  raw,        (* raw_data: supply, input, discrete, period                 *)
  struct,     (* mpiovd_sensors_struct: voltage, analog, speed, rpm        *)
  tlm,        (* where TLM_Sender is: sleep, voltage, sum, take, make,     *)
              (* rest                                                      *)
  sensor, arg,   (* the sensor it is at, and the level it has passed       *)
  thread,     (* of each reader: none, runs, told to end                   *)
  at,         (* the byte it puts next                                     *)
  can,        (* CAND1 is started                                          *)
  changes,
  seen        (* history: what the analog part of raw_data was since the    *)
              (* last round began; nothing before the first                *)

tlmvars == <<struct, tlm, sensor, arg>>
readervars == <<thread, at, can>>
vars == <<raw, tlmvars, readervars, changes, seen>>

Last == Max(Sensors)
Bytes == 1 .. Last + 1

-----------------------------------------------------------------------------
Clipped(v, max) == IF v > max THEN max ELSE v

(* _supply_compensate: ohms; 1000 when nothing is connected.               *)
Resistance(in, supply) ==
  IF V[supply] <= U1[in] THEN 1000
  ELSE Clipped((U1[in] * 1000) \div (V[supply] - U1[in]), 1000)

(* get_board_voltage: millivolts; the more current all inputs draw, the    *)
(* less is lost before them.                                               *)
Voltage(supply, sum) ==
  LET s == Clipped(IF sum < 2563 THEN 2563 ELSE sum, 41429)
      drop == 1000 * (1660 - ((s - 2563) * 650) \div 38866)
      k == (24000000 - 1012000) \div 2585 IN
    Clipped((k * supply + drop) \div 1000, 32767)

Sum(levels) == MapThenSumSet(LAMBDA s : levels[s], Sensors)

Drawn(r) == r.supply + Sum(r.input)

(* get_engine_rpm.  The period is 0 when the engine stands, and the        *)
(* division of this processor gives 0 for it.                              *)
get_engine_rpm(period) ==
  IF period = 0 THEN 0 ELSE Clipped((60 * 200000) \div period, MaxHalfword)

(* A byte of a frame, and the one of the contacts without its dead bit.    *)
putinrange(v) == Clipped(v, 255)
Contact(d) == (d \div 2) % 256

-----------------------------------------------------------------------------
Start(level, supply) ==
  [supply |-> supply, input |-> [s \in Sensors |-> level], discrete |-> 0, period |-> 0]

Init ==
  /\ \E a \in Levels, b \in Supplies : raw = Start(a, b)
  /\ struct = [voltage |-> 0, analog |-> [s \in Sensors |-> 0], speed |-> 0, rpm |-> 0]
  /\ tlm = "sleep" /\ sensor = 1 /\ arg = Min(Levels)
  /\ thread = [r \in Readers |-> "none"] /\ can = FALSE
  /\ at = [r \in Readers |-> 1]
  /\ changes = 0 /\ seen = {}

-----------------------------------------------------------------------------
(* The interrupts, which come between any two steps of a thread.           *)

Sources(r) == [supply |-> r.supply, input |-> r.input, period |-> r.period]

Changed(new) ==
  /\ changes < MaxChanges /\ new # raw
  /\ raw' = new /\ changes' = changes + 1
  /\ seen' = IF seen = {} THEN {} ELSE seen \cup {Sources(new)}
  /\ UNCHANGED <<tlmvars, readervars>>

adccallback ==
  \E a \in [Sensors -> Levels], b \in Supplies :
    Changed([raw EXCEPT !.supply = b, !.input = a])

icuperiodcb_tacho == \E p \in Periods \ {0} : Changed([raw EXCEPT !.period = p])
icuoverflowcb_tacho == Changed([raw EXCEPT !.period = 0])

(* SPI_IN (Contacts).                                                      *)
NewReading == \E d \in Words : Changed([raw EXCEPT !.discrete = d])

-----------------------------------------------------------------------------
(* TLM_SenderThread, with adc_process.                                     *)

Wakes ==
  /\ tlm = "sleep" /\ tlm' = "voltage" /\ seen' = {Sources(raw)}
  /\ UNCHANGED <<raw, struct, sensor, arg, readervars, changes>>

TakesSupply ==
  /\ tlm = "voltage" /\ tlm' = "sum" /\ arg' = raw.supply
  /\ UNCHANGED <<raw, struct, sensor, readervars, changes, seen>>

(* The sum of all inputs; it is taken at once here.                        *)
MakesVoltage ==
  /\ tlm = "sum" /\ tlm' = "take"
  /\ sensor' = 1
  /\ struct' = [struct EXCEPT !.voltage = Voltage(arg, Drawn(raw))]
  /\ UNCHANGED <<raw, arg, readervars, changes, seen>>

(* The level of the sensor is passed before that of the supply is read.    *)
Takes ==
  /\ tlm = "take" /\ tlm' = "make" /\ arg' = raw.input[sensor]
  /\ UNCHANGED <<raw, struct, sensor, readervars, changes, seen>>

MakesAnalog ==
  /\ tlm = "make"
  /\ struct' = [struct EXCEPT !.analog[sensor] = Resistance(arg, raw.supply)]
  /\ IF sensor = Last THEN tlm' = "rest" /\ sensor' = 1
     ELSE tlm' = "take" /\ sensor' = sensor + 1
  /\ UNCHANGED <<raw, arg, readervars, changes, seen>>

MakesRest ==
  /\ tlm = "rest" /\ tlm' = "sleep"
  /\ struct' = [struct EXCEPT !.speed = raw.input[Last] \div 50,
                              !.rpm = get_engine_rpm(raw.period)]
  /\ UNCHANGED <<raw, sensor, arg, readervars, changes, seen>>

-----------------------------------------------------------------------------
(* The readers.  They run while TLM_Sender sleeps; the manager that starts *)
(* and stops CAN has a higher priority.                                    *)

CanInitLocal ==
  /\ thread["CanTx"] = "none" /\ ~can
  /\ can' = TRUE /\ thread' = [thread EXCEPT !["CanTx"] = "runs"]
  /\ UNCHANGED <<raw, tlmvars, at, changes, seen>>

(* term_can_tread (can_usb.c) tells the thread, and waits for it, ...      *)
Terminate(r) ==
  /\ thread[r] = "runs"
  /\ thread' = [thread EXCEPT ![r] = "told"]
  /\ UNCHANGED <<raw, tlmvars, at, can, changes, seen>>

Gone == thread["CanTx"] = "none"

(* ... before it stops the driver.                                         *)
CanStopLocal ==
  /\ can /\ Gone
  /\ can' = FALSE
  /\ UNCHANGED <<raw, tlmvars, thread, at, changes, seen>>

sensors_clicmd ==
  /\ tlm = "sleep" /\ thread["SensorsCmd"] = "none"
  /\ thread' = [thread EXCEPT !["SensorsCmd"] = "runs"]
  /\ UNCHANGED <<raw, tlmvars, at, can, changes, seen>>

(* The bytes of a frame one after the other.  Nothing of a frame is read   *)
(* again, so that only what there is to be put is kept, in struct and raw. *)
Put(b) == IF b = Last + 1 THEN Contact(raw.discrete) ELSE putinrange(struct.analog[b])

PutByte(r) ==
  /\ tlm = "sleep" /\ thread[r] # "none" /\ at[r] \in Bytes
  /\ at[r] = 1 => thread[r] = "runs"
  /\ at' = [at EXCEPT ![r] = @ + 1]
  /\ UNCHANGED <<raw, tlmvars, thread, can, changes, seen>>

(* canTransmit, cli_println.                                               *)
Transmits(r) ==
  /\ tlm = "sleep" /\ at[r] = Last + 2
  /\ at' = [at EXCEPT ![r] = 1]
  /\ UNCHANGED <<raw, tlmvars, thread, can, changes, seen>>

ThreadEnds(r) ==
  /\ tlm = "sleep" /\ thread[r] = "told" /\ at[r] = 1
  /\ thread' = [thread EXCEPT ![r] = "none"]
  /\ UNCHANGED <<raw, tlmvars, at, can, changes, seen>>

Next ==
  \/ adccallback \/ icuperiodcb_tacho \/ icuoverflowcb_tacho \/ NewReading
  \/ Wakes \/ TakesSupply \/ MakesVoltage \/ Takes \/ MakesAnalog \/ MakesRest
  \/ CanInitLocal \/ CanStopLocal \/ sensors_clicmd
  \/ \E r \in Readers : Terminate(r) \/ PutByte(r) \/ Transmits(r) \/ ThreadEnds(r)

Spec == Init /\ [][Next]_vars

-----------------------------------------------------------------------------
(* mavsender.c:62-72, can_local.c:77-95, sensors_cmd.c:58-80: whatever the *)
(* interrupts do during a round, and wherever it comes between two bytes   *)
(* of a frame, each byte that is put, and each field of the message, is    *)
(* made of levels there were since the last round began, taken in any      *)
(* combination: never of older ones, nor of those of another input.        *)
BytesAreTrue ==
  tlm = "sleep" /\ seen # {} =>
    /\ \A b \in Sensors :
         Put(b) \in {putinrange(Resistance(u.input[b], v.supply)) : u \in seen, v \in seen}
    /\ struct.voltage \in {Voltage(u.supply, Drawn(v)) : u \in seen, v \in seen}
    /\ struct.rpm \in {get_engine_rpm(u.period) : u \in seen}

(* can_usb.c:73-79, can_local.c:131: nothing is sent on a driver that was  *)
(* stopped.                                                                *)
NoFrameWithoutCan == thread["CanTx"] # "none" => can

(* adc_local.c:155-176, freq.c:73-77: a larger resistance is shown for a   *)
(* higher level and a lower supply, a missing sensor as the largest; the   *)
(* tachometer shows no turns exactly when the engine stands.               *)
ValuesAreOrdered ==
  /\ \A s \in Supplies, a, b \in Levels :
       /\ a < b => Resistance(a, s) <= Resistance(b, s)
       /\ V[s] <= U1[a] => putinrange(Resistance(a, s)) = 255
  /\ \A a \in Levels, s, t \in Supplies :
       s < t => /\ Resistance(a, t) <= Resistance(a, s)
                /\ Voltage(s, a) <= Voltage(t, a)
  /\ \A p, q \in Periods :
       /\ get_engine_rpm(p) = 0 <=> p = 0
       /\ 0 < p /\ p < q => get_engine_rpm(q) <= get_engine_rpm(p)
=============================================================================
