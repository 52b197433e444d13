---------------------------- MODULE ShellSwitch ----------------------------
(***************************************************************************)
(* Who has the DM port of the BNAP board (src/soft/bnap/src/cli/cli.c,     *)
(* src/soft/bnap/src/link/dmcli_switcher.c, link_dm.c): DmCliSwitcher      *)
(* follows SH_enable and forks either the shell or the packer and the      *)
(* unpacker, all on one heap; the shell forks a thread for a command that  *)
(* takes long (cli_cmd.c).                                                 *)
(***************************************************************************)
EXTENDS Integers, FiniteSets, FiniteSetsExt

CONSTANTS
  Loops, Listeners, (* threads loop_clicmd, and selftest_clicmd and          *)
                    (* agps_clicmd can fork                                *)
  HeapSize,         (* THREAD_HEAP_SIZE                                    *)
  Overhead          (* what a working area is longer than its stack        *)

Commands == Loops \cup Listeners
Dm == {"packer", "unpacker"}

Nobody == "nobody"

ShellAssumption ==
  /\ IsFiniteSet(Commands) /\ Loops \cap Listeners = {}
  /\ Commands \cap (Dm \cup {"shell", Nobody}) = {}
  /\ HeapSize \in Nat /\ Overhead \in Nat

(* main.h:14: the shell and the longest thread that it forks.              *)
HeapAssumption == 2048 + 1024 + 2 * Overhead <= HeapSize

VARIABLES
  sh_enable,       (* the parameter SH_enable                              *)
  pc,              (* the switcher: boot, watch, or kills the other ones   *)
  shell_active,    (* what it remembers                                    *)
  alive,           (* the threads on the heap                              *)
  final,           (* those that have ended and wait for chThdWait         *)
  terminated,      (* those chThdTerminate was called for                  *)
  shell,           (* the shell: absent, loop, sigint or dying, the last   *)
                   (* two in chThdWait(current_cmd_tp)                     *)
  current_cmd_tp,  (* which may point to freed memory                      *)
  panic,           (* chDbgPanic("Can not allocate memory")                *)
  careless         (* what somebody did while a command was running:       *)
                   (* execute another one, switch the shell off            *)

threads == <<alive, final, terminated>>
vars == <<sh_enable, pc, shell_active, threads, shell, current_cmd_tp, panic, careless>>

Init ==
  /\ sh_enable \in {0, 1} /\ pc = "boot" /\ shell_active = FALSE
  /\ alive = {} /\ final = {} /\ terminated = {}
  /\ shell = "absent" /\ current_cmd_tp = Nobody
  /\ panic = FALSE /\ careless = {}

-----------------------------------------------------------------------------
Stack(t) ==
  CASE t = "shell" -> 2048
    [] t = "packer" -> 1536
    [] t = "unpacker" -> 512
    [] t \in Loops -> 1024
    [] t \in Listeners -> 256

Used(ts) == MapThenSumSet(LAMBDA t : Stack(t) + Overhead, ts)

(* chThdCreateFromHeap. *)
Fork(new, left) ==
  IF Used(left \cup new) <= HeapSize
  THEN alive' = left \cup new /\ UNCHANGED panic
  ELSE alive' = left /\ panic' = TRUE

Freed(ts) == alive \ (ts \cap final)

(* chThdWait. *)
Waited(ts) == ts \cap alive \subseteq final

Release(ts) ==
  /\ final' = final \ ts
  /\ terminated' = terminated \ ts

-----------------------------------------------------------------------------
(* DmCliSwitcherThread. *)

SpawnShell(left) == Fork({"shell"}, left) /\ shell' = "loop" /\ shell_active' = TRUE

SpawnDm(left) == Fork(Dm, left) /\ shell' = "absent" /\ shell_active' = FALSE

Boot ==
  /\ ~panic /\ pc = "boot" /\ pc' = "watch"
  /\ IF sh_enable = 0 THEN SpawnDm(alive) ELSE SpawnShell(alive)
  /\ UNCHANGED <<sh_enable, final, terminated, current_cmd_tp, careless>>

CommandRuns == current_cmd_tp \in alive \ final

KillShell ==
  /\ ~panic /\ pc = "watch" /\ shell_active /\ sh_enable = 0
  /\ pc' = "kill"
  /\ terminated' = terminated \cup {"shell"}
  /\ careless' = careless \cup IF CommandRuns THEN {"switch"} ELSE {}
  /\ UNCHANGED <<sh_enable, shell_active, alive, final, shell, current_cmd_tp, panic>>

ShellKilled ==
  /\ ~panic /\ pc = "kill" /\ shell_active
  /\ Waited({"shell"}) /\ Release({"shell"})
  /\ pc' = "watch"
  /\ SpawnDm(Freed({"shell"}))
  /\ UNCHANGED <<sh_enable, current_cmd_tp, careless>>

KillDm ==
  /\ ~panic /\ pc = "watch" /\ ~shell_active /\ sh_enable = 1
  /\ pc' = "kill"
  /\ terminated' = terminated \cup Dm
  /\ UNCHANGED <<sh_enable, shell_active, alive, final, shell, current_cmd_tp, panic, careless>>

DmKilled ==
  /\ ~panic /\ pc = "kill" /\ ~shell_active
  /\ Waited(Dm) /\ Release(Dm)
  /\ pc' = "watch"
  /\ SpawnShell(Freed(Dm))
  /\ UNCHANGED <<sh_enable, current_cmd_tp, careless>>

-----------------------------------------------------------------------------
(* The packer, the unpacker and the commands look at chThdShouldTerminate  *)
(* in every turn of their loops.                                           *)
Ends(t) ==
  /\ ~panic /\ t \in (terminated \cap alive) \ final
  /\ t # "shell"
  /\ final' = final \cup {t}
  /\ UNCHANGED <<sh_enable, pc, shell_active, alive, terminated, shell, current_cmd_tp, panic, careless>>

-----------------------------------------------------------------------------
(* ShellThread. *)

(* Characters go on to be read while a command runs, and one more after    *)
(* chThdTerminate.                                                         *)
ShellReads == ~panic /\ shell = "loop"

Untidy ==
  careless \cup (IF CommandRuns THEN {"execute"} ELSE {})
           \cup (IF "shell" \in terminated THEN {"switch"} ELSE {})

(* execute: a command that forks. *)
ExecuteForks(t) ==
  /\ ShellReads /\ t \notin alive
  /\ Fork({t}, alive)
  /\ current_cmd_tp' = t
  /\ careless' = Untidy
  /\ UNCHANGED <<sh_enable, pc, shell_active, final, terminated, shell>>

(* execute: one that does not, such as help.                               *)
Execute ==
  /\ ShellReads
  /\ current_cmd_tp' = Nobody
  /\ careless' = Untidy
  /\ UNCHANGED <<sh_enable, pc, shell_active, threads, shell, panic>>

(* logout_cmd. *)
Logout ==
  /\ ShellReads
  /\ sh_enable' = 0
  /\ current_cmd_tp' = Nobody
  /\ careless' = Untidy
  /\ UNCHANGED <<pc, shell_active, threads, shell, panic>>

(* sigint, until chThdWait. *)
Sigint ==
  /\ ShellReads /\ current_cmd_tp # Nobody
  /\ shell' = "sigint"
  /\ terminated' = terminated \cup ({current_cmd_tp} \cap alive)
  /\ UNCHANGED <<sh_enable, pc, shell_active, alive, final, current_cmd_tp, panic, careless>>

KeepsPointer == current_cmd_tp

Forgets == Nobody

CommandWaited ==
  /\ ~panic /\ shell = "sigint" /\ Waited({current_cmd_tp})
  /\ alive' = Freed({current_cmd_tp}) /\ Release({current_cmd_tp})
  /\ current_cmd_tp' = Forgets
  /\ shell' = "loop"
  /\ UNCHANGED <<sh_enable, pc, shell_active, panic, careless>>

(* A freed thread may still look like a finished one.                      *)
Reap ==
  /\ ~panic /\ shell = "loop" /\ current_cmd_tp # Nobody
  /\ current_cmd_tp \in final \/ current_cmd_tp \notin alive
  /\ alive' = Freed({current_cmd_tp}) /\ Release({current_cmd_tp})
  /\ current_cmd_tp' = Nobody
  /\ UNCHANGED <<sh_enable, pc, shell_active, shell, panic, careless>>

ForgetsDescendants == {}

Descendants == {current_cmd_tp} \cap alive

WaitsOnly ==
  /\ ~panic /\ shell = "loop" /\ "shell" \in terminated
  /\ shell' = "dying"
  /\ UNCHANGED <<sh_enable, pc, shell_active, threads, current_cmd_tp, panic, careless>>

Dies ==
  /\ ~panic /\ shell = "loop" /\ "shell" \in terminated
  /\ shell' = "dying"
  /\ terminated' = terminated \cup Descendants
  /\ UNCHANGED <<sh_enable, pc, shell_active, alive, final, current_cmd_tp, panic, careless>>

(* current_cmd_tp stays what it was.                                       *)
Dead ==
  /\ ~panic /\ shell = "dying" /\ Waited(Descendants)
  /\ alive' = Freed(Descendants)
  /\ final' = (final \ Descendants) \cup {"shell"}
  /\ terminated' = terminated \ Descendants
  /\ shell' = "absent"
  /\ UNCHANGED <<sh_enable, pc, shell_active, current_cmd_tp, panic, careless>>

-----------------------------------------------------------------------------
(* A PARAM_SET or another shell command: param set SH_enable.              *)
SetEnable ==
  /\ ~panic
  /\ sh_enable' = 1 - sh_enable
  /\ UNCHANGED <<pc, shell_active, threads, shell, current_cmd_tp, panic, careless>>

Halted == panic /\ UNCHANGED vars

SwitcherStep == Boot \/ KillShell \/ ShellKilled \/ KillDm \/ DmKilled

ShellRuns == CommandWaited \/ Dead

Next ==
  \/ SwitcherStep \/ ShellRuns \/ Dies \/ Reap
  \/ \E t \in Dm \cup Commands : Ends(t)
  \/ \E t \in Commands : ExecuteForks(t)
  \/ Execute \/ Logout \/ Sigint
  \/ SetEnable \/ Halted

Spec == Init /\ [][Next]_vars

(* The shell looks at chThdShouldTerminate in every turn, so that it       *)
(* cannot go on for ever reading (strong fairness).  The switcher and the  *)
(* shell sleep for 100 and 50 ms, the packer, the unpacker and the         *)
(* commands wait for no longer than 50 ms.                                 *)
FairSpec ==
  /\ Spec
  /\ WF_vars(SwitcherStep) /\ WF_vars(ShellRuns) /\ SF_vars(Dies)
  /\ \A t \in Dm \cup Commands : WF_vars(Ends(t))

-----------------------------------------------------------------------------
Running == alive \ final

TypeOK ==
  /\ sh_enable \in {0, 1} /\ pc \in {"boot", "watch", "kill"} /\ shell_active \in BOOLEAN
  /\ alive \subseteq {"shell"} \cup Dm \cup Commands
  /\ final \subseteq alive /\ terminated \subseteq alive
  /\ shell \in {"absent", "loop", "sigint", "dying"}
  /\ current_cmd_tp \in Commands \cup {Nobody}
  /\ panic \in BOOLEAN /\ careless \subseteq {"execute", "switch"}

(* dmcli_switcher.c:61-72: the shell and the link threads never read the   *)
(* port at the same time, nor do the link threads meet a command that      *)
(* writes to it (cli.c:216 "do not forget to kill the descendants"), as    *)
(* long as nobody executes a command while another one runs.               *)
PortHasOneOwner ==
  /\ "shell" \in Running => Dm \cap Running = {}
  /\ careless \subseteq {"switch"} =>
       (Dm \cap Running # {} => Commands \cap Running = {})

(* main.h:14: then the heap is long enough for whatever is forked.         *)
HeapIsLongEnough == careless \subseteq {"switch"} => ~panic

(* cli.c:210: the shell never looks at a command whose memory was freed,   *)
(* unless it was switched off while that command was running.              *)
PointerIsAlive ==
  careless = {} /\ shell = "loop" => current_cmd_tp \in alive \cup {Nobody}

(* dmcli_switcher.c:56-73: the port goes to whom SH_enable gives it.       *)
PortFollowsFlag ==
  /\ <>[](sh_enable = 1) => <>[]("shell" \in Running \/ panic)
  /\ <>[](sh_enable = 0) => <>[](Dm \subseteq Running \/ panic)
=============================================================================
