------------------------------ MODULE MCMpiovd ------------------------------
(* Six programs of the MPIOVD board, each explored by itself: the counter  *)
(* of trips (storage.c, with the ring of slots of TripStore), the filter   *)
(* of an analog channel (dsp/dsp.c), the shells on USB and UART            *)
(* (link/linkmgr.c, link/can_usb.c, link/cli.c), the port on USB under one *)
(* of them (link/usb_local.c), the discrete inputs (sensors/discrete.c)    *)
(* and what is told of the analog ones (sensors/mavsender.c).  A behaviour *)
(* picks one of them and leaves the others where they start.               *)
EXTENDS TripStore

CONSTANTS
  Rest, MaxSample, MaxLen, Half, OutModulus, MaxFilterChanges,  (* of AlphaBeta *)
  Commands,                                          (* of UsbShells       *)
  Room, MaxPlugs,                                    (* of UsbCdc          *)
  Word, Group, Byte,                                 (* of Contacts        *)
  Sensors, Supplies, Levels, U1, V, Words, Periods,  (* of Telemetry       *)
  FirstSupply, FirstLevel, MaxRawChanges

VARIABLE unit

MCSettings ==
  [masks |-> [z |-> {}, gnd |-> {}, vcc |-> {}], test |-> 1, revision |-> 1, late |-> FALSE]

(* The millivolts of the formula for each level, and of the supply.        *)
MCU1 == [l \in {400, 1000} |-> IF l = 400 THEN 3663 ELSE 8947]
MCV == [s \in {1000, 2693} |-> IF s = 1000 THEN 8912 ELSE 24000]
MCSensors == 1 .. 2

(* storage.c, in the variables of TripStore. *)
ring == <<word1, word2, pos, trip, prev, phase, t, durable>>

(* dsp.c: one channel. *)
VARIABLES
  sample, flen, S, out, changes
filter == <<sample, flen, S, out, changes>>
Dsp == INSTANCE AlphaBeta WITH MaxChanges <- MaxFilterChanges
ASSUME FilterConstants == Dsp!FilterAssumption /\ Dsp!RoomAssumption

(* linkmgr.c, can_usb.c, cli.c: the two shells and one command. *)
VARIABLES
  sh_enable, plugged, lm, shell_active, victim, um, can_active, curr_tp,
  shell_tp, shell_sdp, CurrentCmd_tp, shells_phase, awaited, alive, final,
  terminated, wild, both, careless
shells == <<sh_enable, plugged, lm, shell_active, victim, um, can_active, curr_tp,
  shell_tp, shell_sdp, CurrentCmd_tp, shells_phase, awaited, alive, final,
  terminated, wild, both, careless>>
Usb == INSTANCE UsbShells WITH phase <- shells_phase
ASSUME ShellsConstants == Usb!CommandsAssumption

(* usb_local.c: the port, its driver and the host.                         *)
VARIABLES
  cdc_plugged, mgr, pullup, driver, epc, iqueue, oqueue, starts, host, known, panicked
port == <<cdc_plugged, mgr, pullup, driver, epc, iqueue, oqueue, starts, host, known, panicked>>
Cdc == INSTANCE UsbCdc WITH plugged <- cdc_plugged, run <- starts
ASSUME PortConstants == Cdc!RoomAssumption

(* discrete.c, spi_local.c, adc_local.c. *)
VARIABLES
  contact, inputs_settings, step, z_on, z_off, discrete, steady, flag, pin,
  sweep, leaked
inputs == <<contact, inputs_settings, step, z_on, z_off, discrete, steady, flag,
  pin, sweep, leaked>>
Input == INSTANCE Contacts WITH settings <- inputs_settings
ASSUME WordConstants == Input!WordAssumption

(* mavsender.c, adc_local.c, freq.c, can_local.c, sensors_cmd.c. *)
VARIABLES
  raw, struct, tlm, sensor, arg, thread, at, can, raw_changes, seen
telemetry == <<raw, struct, tlm, sensor, arg, thread, at, can, raw_changes, seen>>
Tlm == INSTANCE Telemetry WITH MaxChanges <- MaxRawChanges, changes <- raw_changes
ASSUME TelemetryConstants ==
  Tlm!TelemetryAssumption /\ FirstSupply \in Supplies /\ FirstLevel \in Levels

(* One unit runs; the others stay in an initial state. *)
PickInit ==
  /\ unit \in {"trip", "filter", "shells", "port", "contacts", "telemetry"}
  /\ unit # "filter" => sample = 0 /\ flen = 0
  /\ unit # "shells" => sh_enable = 1 /\ plugged = TRUE
  /\ unit # "port" => cdc_plugged = TRUE
  /\ unit # "contacts" =>
       contact = [i \in Input!Bits |-> "open"] /\ inputs_settings = MCSettings
  /\ raw = Tlm!Start(FirstLevel, FirstSupply)
  /\ Init
  /\ Dsp!Init
  /\ Usb!Init
  /\ Cdc!Init
  /\ Input!Init
  /\ Tlm!Init
  /\ unit = "contacts" =>
       \/ inputs_settings.test # 0 \/ inputs_settings.masks = MCSettings.masks
       \/ Input!MasksAreSound(inputs_settings.masks)

TripStep ==
  /\ unit = "trip" /\ Next
  /\ UNCHANGED <<unit, filter, shells, port, inputs, telemetry>>

FilterStep ==
  /\ unit = "filter" /\ Dsp!Next
  /\ UNCHANGED <<unit, ring, shells, port, inputs, telemetry>>

ShellStep ==
  /\ unit = "shells" /\ Usb!Next
  /\ UNCHANGED <<unit, ring, filter, port, inputs, telemetry>>

PortStep ==
  /\ unit = "port" /\ Cdc!Next
  /\ UNCHANGED <<unit, ring, filter, shells, inputs, telemetry>>

InputStep ==
  /\ unit = "contacts" /\ Input!Next
  /\ UNCHANGED <<unit, ring, filter, shells, port, telemetry>>

(* One of the two readers at a time, for they share nothing they write.    *)
TelemetryStep ==
  /\ unit = "telemetry" /\ Tlm!Next
  /\ \E r \in Tlm!Readers : thread[r] = "none" /\ thread'[r] = "none"
  /\ UNCHANGED <<unit, ring, filter, shells, port, inputs>>

PickNext == TripStep \/ FilterStep \/ ShellStep \/ PortStep \/ InputStep \/ TelemetryStep

everything == <<unit, ring, filter, shells, port, inputs, telemetry>>

PickSpec == PickInit /\ [][PickNext]_everything

(* The fairness of the specification that runs; that of the others asks    *)
(* for nothing, for none of their steps is possible.                       *)
On(u, A) == unit = u /\ A

PickFairness ==
  /\ WF_ring(On("trip", SaveFirst)) /\ WF_ring(On("trip", SaveSecond))
  /\ WF_filter(On("filter", Dsp!Filter))
  /\ WF_shells(On("shells", Usb!LinkMgr)) /\ WF_shells(On("shells", Usb!UsbCanMgr))
  /\ \A s \in Usb!Shells :
       WF_shells(On("shells", Usb!ShellStep(s))) /\ SF_shells(On("shells", Usb!Dies(s)))
  /\ \A o \in Usb!Others : WF_shells(On("shells", Usb!Ends(o)))

FairPickSpec == PickSpec /\ PickFairness

-----------------------------------------------------------------------------
(* storage.c:360-384: what was counted is saved (TripStore).               *)
TripIsSaved == unit = "trip" => CountIsSaved

(* dsp.c:46-50, adc_local.c:37, 138: a filter in the range of its length   *)
(* stays there, and left alone it comes to its input from anywhere.        *)
FilterFollows == Dsp!StaysInRange /\ (unit = "filter" => Dsp!Converges)

(* cli.c:305-327, linkmgr.c:46-73, can_usb.c:171-189: each port and        *)
(* interrupt has its one owner, and no freed thread is waited for;         *)
(* usb_local.c:353-364: the port on USB is never stopped while it is used, *)
(* and what it tells a host of itself is what it does.                     *)
PortsHaveOwners ==
  /\ unit = "shells" =>
       Usb!NoFreedThread /\ Usb!UartHasOneOwner /\ Usb!InterruptHasItsHandler
  /\ unit = "port" =>
       Cdc!NeverPanics /\ Cdc!NothingLeftOver /\ Cdc!DescribesItself /\ Cdc!HostAgrees

(* discrete.c:62-82, adc_local.c:136: an input that stays where it is      *)
(* through a cycle is reported, in the test modes and if its norm is open, *)
(* and one sweep with the check voltage on at most gets into the filters;  *)
(* mavsender.c:62-72, can_local.c:77-95, sensors_cmd.c:58-80: what is told *)
(* of the analog inputs is made of what they were since the last round.    *)
InputsAreRight ==
  /\ unit = "contacts" => Input!OpenContactsAreReported /\ Input!OnePoweredSweep
  /\ unit = "telemetry" =>
       Tlm!BytesAreTrue /\ Tlm!NoFrameWithoutCan /\ Tlm!ValuesAreOrdered

(* can_usb.c:118-144: a plug that stays gets its shell, CAN comes back.    *)
PlugIsNoticed == unit = "shells" => Usb!PlugIsNoticed
=============================================================================
