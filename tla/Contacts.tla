------------------------------ MODULE Contacts ------------------------------
(***************************************************************************)
(* The discrete inputs of MPIOVD: src/soft/mpiovd/src/sensors/spi_local.c  *)
(* and discrete.c, and the gate they put on the analog ones in             *)
(* adc_local.c. A contact is on +24 V, on the case or open.  The thread    *)
(* SPI_IN reads all of them twice, with the check voltage on and off, and  *)
(* makes alarms of the two readings.  While the voltage is on the analog   *)
(* sweeps are not to be used.  A word is the set of its bits that are 1.   *)
(***************************************************************************)
EXTENDS Integers, FiniteSets

CONSTANTS
  Word,   (* bits of a word                                                *)
  Group,  (* bits the wiring of the first board turns round; 4              *)
  Byte    (* bits of a byte of the SPI                                      *)

WordAssumption ==
  /\ {Word, Group, Byte} \subseteq Nat \ {0}
  /\ Word % Group = 0 /\ Word % Byte = 0

Bits == 0 .. Word - 1
Positions == {"vcc", "gnd", "open"}

VARIABLES
  contact,    (* where each input is                                       *)
  settings,   (* REL_Z, REL_GND, REL_VCC, REL_test; the board, for which    *)
              (* BRD_revision and REL_stm32_fix are set rightly             *)
  step,       (* of SPI_IN                                                 *)
  z_on, z_off,
  discrete,   (* raw_data.discrete                                         *)
  steady,     (* the inputs that stayed where they were since the cycle     *)
              (* began                                                     *)
  flag,       (* SPI_SAMPLE_FLAG                                           *)
  pin,        (* GPIOE_Z_CHECK                                             *)
  sweep,      (* the sweep of the ADC that goes on: powered if the voltage  *)
              (* was on during it, else clean                              *)
  leaked      (* powered sweeps that were filtered in this cycle            *)

inputs == <<contact, settings, steady>>
readings == <<z_on, z_off, discrete>>
analog == <<flag, pin, sweep, leaked>>
vars == <<inputs, step, readings, analog>>

Masks == [z : SUBSET Bits, gnd : SUBSET Bits, vcc : SUBSET Bits]
NoMasks == [z |-> {}, gnd |-> {}, vcc |-> {}]

Settings ==
  [masks : Masks, test : {0}, revision : {1, 2}, late : BOOLEAN]
    \cup [masks : {NoMasks}, test : 1 .. 3, revision : {1, 2}, late : BOOLEAN]

Init ==
  /\ contact \in [Bits -> Positions] /\ settings \in Settings
  /\ step = "sleep" /\ z_on = {} /\ z_off = {} /\ discrete = {} /\ steady = {}
  /\ flag = FALSE /\ pin = FALSE /\ sweep = "clean" /\ leaked = 0

-----------------------------------------------------------------------------
(* The board. *)

Mirror(i) == Group * (i \div Group) + Group - 1 - (i % Group)

Reordered(v) == IF settings.revision = 1 THEN {Mirror(i) : i \in v} ELSE v

(* What is on the wires: an open input follows the check voltage.          *)
Line == {i \in Bits : contact[i] = "vcc" \/ (contact[i] = "open" /\ pin)}

LastOfByte(p) == p % Byte = Byte - 1

(* What the SPI of the STM32 makes of it, the byte that is read in excess  *)
(* included: the last bit of each byte comes with the next one.            *)
Received(v) ==
  IF settings.late
  THEN {p + (IF LastOfByte(p) THEN Byte ELSE 0) : p \in v}
  ELSE v

Unlifted(v) == v \cap Bits

(* stm32_spi_workaround *)
Lifted(v) ==
  IF settings.late
  THEN {p \in Bits : (p + (IF LastOfByte(p) THEN Byte ELSE 0)) \in v}
  ELSE v \cap Bits

(* read_spi and pack8to32; the board swaps the bits before.                *)
Reading == Lifted(Received(Reordered(Line)))

-----------------------------------------------------------------------------
SymDiff(a, b) == (a \ b) \cup (b \ a)

MasksAreSound(m) ==
  /\ SymDiff(SymDiff(m.z, m.gnd), m.vcc) = {}
  /\ m.z \cup m.gnd \cup m.vcc # {}

(* _rel_normalize32: the alarms of two readings. *)
Normalized(on, off) ==
  LET vcc  == on \cap off
      gnd  == Bits \ (on \cup off)
      open == SymDiff(on, off)
      m    == settings.masks
  IN CASE settings.test = 0 /\ ~MasksAreSound(m) -> Bits
       [] settings.test = 0 /\ MasksAreSound(m) ->
            (vcc \ m.vcc) \cup (gnd \ m.gnd) \cup (Bits \ (open \ m.z))
       [] settings.test = 1 -> vcc \cup gnd
       [] settings.test = 2 -> gnd \cup open
       [] settings.test = 3 -> vcc \cup open
       [] OTHER -> Bits

-----------------------------------------------------------------------------
Goes(from, to) == step = from /\ step' = to

(* z_check_on *)
SetsFlag ==
  /\ Goes("sleep", "flagged")
  /\ flag' = TRUE /\ leaked' = 0 /\ steady' = Bits
  /\ UNCHANGED <<contact, settings, readings, pin, sweep>>

Powered == pin' = TRUE /\ sweep' = "powered"

SetsPin ==
  /\ Goes("flagged", "powered") /\ Powered
  /\ UNCHANGED <<inputs, readings, flag, leaked>>

(* The buffers' names are swapped; the alarms do not mind.                 *)
ReadsPowered ==
  /\ Goes("powered", "read") /\ z_off' = Reading
  /\ UNCHANGED <<inputs, z_on, discrete, analog>>

(* z_check_off *)
ClearsPin ==
  /\ Goes("read", "off") /\ pin' = FALSE
  /\ UNCHANGED <<inputs, readings, flag, sweep, leaked>>

ClearsFlag ==
  /\ Goes("off", "cleared") /\ flag' = FALSE
  /\ UNCHANGED <<inputs, readings, pin, sweep, leaked>>

ReadsUnpowered ==
  /\ Goes("cleared", "last") /\ z_on' = Reading
  /\ UNCHANGED <<inputs, z_off, discrete, analog>>

Normalize ==
  /\ Goes("last", "sleep")
  /\ discrete' = Normalized(Reordered(z_on), Reordered(z_off))
  /\ UNCHANGED <<inputs, z_on, z_off, analog>>

GateIsOpen == ~flag

(* adccallback: the sweep is filtered or dropped, and the next begins.     *)
Sweep ==
  /\ leaked' = IF GateIsOpen /\ sweep = "powered" THEN leaked + 1 ELSE leaked
  /\ sweep' = IF pin THEN "powered" ELSE "clean"
  /\ UNCHANGED <<inputs, step, readings, flag, pin>>

Move ==
  /\ \E i \in Bits : \E p \in Positions \ {contact[i]} :
       contact' = [contact EXCEPT ![i] = p] /\ steady' = steady \ {i}
  /\ UNCHANGED <<settings, step, readings, analog>>

Next ==
  \/ SetsFlag \/ SetsPin \/ ReadsPowered \/ ClearsPin \/ ClearsFlag
  \/ ReadsUnpowered \/ Normalize \/ Sweep \/ Move

Spec == Init /\ [][Next]_vars

-----------------------------------------------------------------------------
(* discrete.c:62-66: a mask has 0 where the position is the norm, and one  *)
(* of the three has.                                                       *)
Norm(i) ==
  LET m == settings.masks
      zeroes == {p \in Positions :
                   i \notin (CASE p = "open" -> m.z [] p = "gnd" -> m.gnd [] p = "vcc" -> m.vcc)}
  IN IF settings.test # 0
     THEN {CASE settings.test = 1 -> "open" [] settings.test = 2 -> "vcc" [] settings.test = 3 -> "gnd"}
     ELSE IF MasksAreSound(m) /\ Cardinality(zeroes) = 1 THEN zeroes ELSE {}

ReportedRightly(i) == (i \in discrete) <=> (contact[i] \notin Norm(i))

Judged(i) == step = "sleep" /\ i \in steady /\ Norm(i) # {}

(* discrete.c:68: 1 is an alarm, 0 the norm.  An input that stayed where   *)
(* it was through a cycle is reported so.  The revision of the board and   *)
(* the fault of its SPI cancel out.                                        *)
ContactsAreReported == \A i \in Bits : Judged(i) => ReportedRightly(i)

(* The same for what the code keeps of it: the test modes, and contacts    *)
(* whose norm is open.                                                     *)
OpenContactsAreReported ==
  \A i \in Bits :
    Judged(i) /\ (settings.test # 0 \/ Norm(i) = {"open"}) => ReportedRightly(i)

(* adc_local.c:136, discrete.h:8-9: in a cycle at most the one sweep that  *)
(* was under way when the voltage went off gets into the filters.  The     *)
(* interrupt may come between any two steps of the thread.                 *)
OnePoweredSweep == leaked <= 1
=============================================================================
