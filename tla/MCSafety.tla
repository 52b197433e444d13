------------------------------ MODULE MCSafety ------------------------------
(* Programs with many states and no promise but that nothing goes          *)
(* wrong, each explored by itself, without fairness: the vehicle log under *)
(* a clock that jumps as it likes (bnap/storage.c) and the ports of the    *)
(* BNAP board with no rules for cards and requests (bnap/microsd.c,        *)
(* gsm/cross.c).  A behaviour picks one of them and leaves the other where  *)
(* it starts.                                                              *)
EXTENDS MCBnapStorage

VARIABLE unit

(* storage.c under any clock, in the variables of BnapStorage.             *)
log == <<card, tip, used, mtime, phase, p0, p1, now, shift, time_good,
  time_proved, head, session>>

(* microsd.c with "modem cross" compiled in. *)
VARIABLES
  pc, term, free, queue, blocked, inserted, active, ports_card, ports_tip,
  ports_used, events, ports_buf, serial, curr, last, left, ports_sent,
  victim, panic
ports == <<pc, term, free, queue, blocked, inserted, active, ports_card,
  ports_tip, ports_used, events, ports_buf, serial, curr, last, left,
  ports_sent, victim, panic>>
Port == INSTANCE MicroSd WITH
  Capacity <- 3, Messages <- 1, MaxEvents <- 2, MaxSerial <- 1,
  MaxRec <- 1, MaxWord <- 3, Readers <- {"dm"},
  PortUsers <- {"modem", "packer_dm"}, CrossBuilt <- TRUE,
  card <- ports_card, tip <- ports_tip, used <- ports_used,
  buf <- ports_buf, sent <- ports_sent

(* One unit runs; the others stay in an initial state. *)
PickInit ==
  /\ unit \in {"log", "ports"}
  /\ IF unit = "log" THEN inserted = FALSE ELSE now = 0
  /\ Init /\ Port!Init

LogStep == unit = "log" /\ Next /\ UNCHANGED <<unit, ports>>

PortStep == unit = "ports" /\ Port!Next /\ UNCHANGED <<unit, log>>

PickNext == LogStep \/ PortStep

everything == <<unit, log, ports>>

PickSpec == PickInit /\ [][PickNext]_everything

-----------------------------------------------------------------------------
(* SessionSorted is that of BnapStorage.                                   *)

(* link.c:158-163, cross.c: one thread at a time writes to a port, even    *)
(* where the semaphore of the log is initialised while it is in use and    *)
(* modem cross takes both ports.                                           *)
PortExclusive == unit = "ports" => Port!PortExclusive
=============================================================================
