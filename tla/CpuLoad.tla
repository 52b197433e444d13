------------------------------ MODULE CpuLoad ------------------------------
(***************************************************************************)
(* How busy a board says it is (sanity.c of either, GetTimeInterval of the *)
(* BNAP's timekeeper.c).  Once in a period SysStatusThread compares the    *)
(* ticks of the idle thread with those of the system; ticks come           *)
(* meanwhile.                                                              *)
(***************************************************************************)
EXTENDS Integers

CONSTANTS
  Wrap,    (* both counters: ticks before they begin again, 2^32           *)
  Full,    (* what a load of one hundred percent is: 1000                  *)
  Period,  (* SYS_STATUS_PERIOD in ticks                                   *)
  MaxLate  (* a bound: ticks that come during one call or delay it         *)

CpuLoadAssumption ==
  /\ {Wrap, Full, Period} \subseteq Nat \ {0} /\ MaxLate \in Nat
  /\ Full * (Period + 2 * MaxLate) < Wrap

VARIABLES
  now, idle,                       (* chTimeNow(), chThdGetTicks(IdleThread_p) *)
  last_sys_ticks, last_idle_ticks,
  pc, over, i, s,                  (* of get_cpu_load; over: the clock has passed 0 *)
  load,
  since,                           (* ticks since last_sys_ticks           *)
  idled,                           (* of the idle thread since last_idle_ticks *)
  truth,                           (* since and idled when i and s were taken *)
  wrapped                          (* a counter has begun again since      *)

counters == <<now, idle>>
lasts == <<last_sys_ticks, last_idle_ticks>>
call == <<pc, over, i, s>>
ghosts == <<since, idled, truth, wrapped>>
vars == <<counters, lasts, call, load, ghosts>>

Mod(n) == n % Wrap

Init ==
  /\ now = 0 /\ idle = 0 /\ last_sys_ticks = 0 /\ last_idle_ticks = 0
  /\ pc = "sleep" /\ over = FALSE /\ i = 0 /\ s = 0 /\ load = 0
  /\ since = 0 /\ idled = 0 /\ truth = [ticks |-> 0, idle |-> 0] /\ wrapped = FALSE

(* A tick; the idle thread counts those that find it running.              *)
Tick ==
  /\ since < Period + MaxLate
  /\ now' = Mod(now + 1) /\ since' = since + 1
  /\ \E n \in IF pc = "sleep" THEN {0, 1} ELSE {0} :
       idle' = Mod(idle + n) /\ idled' = idled + n
  /\ wrapped' = (wrapped \/ now' < now \/ idle' < idle)
  /\ UNCHANGED <<lasts, call, load, truth>>

(* Ticks from one reading of a counter to the next one; past 0, one short. *)
Difference(reading, last) ==
  IF reading >= last THEN reading - last ELSE reading + (Wrap - 1 - last)

(* get_cpu_load: the idle thread does not run while this one does.         *)
ReadIdle ==
  /\ pc = "sleep" /\ since >= Period
  /\ i' = Difference(idle, last_idle_ticks) /\ last_idle_ticks' = idle
  /\ truth' = [truth EXCEPT !.idle = idled] /\ idled' = 0
  /\ pc' = "compare"
  /\ UNCHANGED <<counters, last_sys_ticks, over, s, load, since, wrapped>>

(* GetTimeInterval reads the clock three times.                            *)
Compare ==
  /\ pc = "compare"
  /\ over' = (now < last_sys_ticks) /\ pc' = "subtract"
  /\ UNCHANGED <<counters, lasts, i, s, load, ghosts>>

Subtract ==
  /\ pc = "subtract"
  /\ s' = Mod(IF over THEN now + (Wrap - 1 - last_sys_ticks) ELSE now - last_sys_ticks)
  /\ truth' = [truth EXCEPT !.ticks = since]
  /\ pc' = "refresh"
  /\ UNCHANGED <<counters, lasts, over, i, load, since, idled, wrapped>>

(* Unsigned, as wide as the counters. *)
LoadOfIdle(ticks, idling) == Mod(Mod(idling) * Full) \div ticks

Load(ticks, idling) == Mod(Mod(ticks - idling) * Full) \div ticks

Refresh ==
  /\ pc = "refresh"
  /\ last_sys_ticks' = now /\ since' = 0
  /\ load' = Load(s, i)
  /\ pc' = "sleep" /\ wrapped' = FALSE
  /\ UNCHANGED <<counters, last_idle_ticks, over, i, s, idled, truth>>

Next == Tick \/ ReadIdle \/ Compare \/ Subtract \/ Refresh

Spec == Init /\ [][Next]_vars

-----------------------------------------------------------------------------
Share(t) == ((t.ticks - t.idle) * Full) \div t.ticks

(* The load a board sends is the share of the ticks in which it did not    *)
(* idle, in tenths of a percent, wherever ticks come between the readings, *)
(* until a counter begins again (sanity.c:122-125).                        *)
LoadIsShare == [][Refresh /\ ~wrapped => load' = Share(truth)]_vars

(* sanity.c:124 "Возвращает десятые доли процента": also when a counter    *)
(* begins again it is no more than all.                                    *)
LoadIsPart == load <= Full
=============================================================================
