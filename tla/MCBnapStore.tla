---------------------------- MODULE MCBnapStore ----------------------------
(* What the BNAP board keeps, each explored by itself: the vehicle log     *)
(* (storage/storage.c, in the variables of BnapStorage), the parameters    *)
(* and the shell's command for them (param/, with the like of MPIOVD).  A  *)
(* behaviour picks one of them and leaves the others where they start.     *)
EXTENDS MCBnapStorage

CONSTANTS Registry, OldNames, MaxValue   (* of ParamStore and ParamShell     *)

VARIABLE unit

MCRegistry ==
  <<[name |-> "id", min |-> 1, def |-> 1, max |-> 2, off |-> FALSE],
    [name |-> "tmo", min |-> 2, def |-> 2, max |-> 3, off |-> TRUE]>>

MCOldNames == <<"tmo", "id">>

(* storage.c, in the variables of BnapStorage. *)
log == <<card, tip, used, mtime, phase, p0, p1, now, shift, time_good,
  time_proved, head, session>>

(* param.c, param_persistant.c: one parameter like SYS_ID and one like T_gps_raw; a
   former firmware had them the other way round. *)
VARIABLES
  board, params_ram, ee, position, eeprombuf, sem, job, ready, panic, seen,
  moved, crossed
params == <<board, params_ram, ee, position, eeprombuf, sem, job, ready, panic,
  seen, moved, crossed>>
Par == INSTANCE ParamStore WITH ram <- params_ram
ASSUME RegistryConstants == Par!RegistryAssumption

(* param_cli.c: the command of the shell, for the same parameters. *)
VARIABLES cli_board, count, cli_ram, at, argv, cli_i, said, had
typed == <<cli_board, count, cli_ram, at, argv, cli_i, said, had>>
Cli == INSTANCE ParamShell WITH
  board <- cli_board, ram <- cli_ram, i <- cli_i
ASSUME ShellConstants == Cli!ParamShellAssumption

(* One unit runs; the others stay in an initial state. *)
PickInit ==
  /\ unit \in {"log", "param", "typed"}
  /\ unit # "log" => now = 0
  /\ unit # "param" => board = "bnap" /\ ee = [i \in Par!Params |-> Par!Blank] /\ moved = FALSE
  /\ unit # "typed" => cli_board = "bnap" /\ cli_ram = [i \in Par!Params |-> Registry[i].min]
  /\ Init
  /\ Par!Init
  /\ Cli!Init

LogStep ==
  /\ unit = "log" /\ SteadyNext
  /\ UNCHANGED <<unit, params, typed>>

ParamStep ==
  /\ unit = "param" /\ Par!Next
  /\ UNCHANGED <<unit, log, typed>>

TypedStep ==
  /\ unit = "typed" /\ Cli!Next
  /\ UNCHANGED <<unit, log, params>>

PickNext == LogStep \/ ParamStep \/ TypedStep

everything == <<unit, log, params, typed>>

PickSpec == PickInit /\ [][PickNext]_everything

(* The fairness of the specification that runs; that of the others asks    *)
(* for nothing, for none of its steps is possible.                         *)
On(u, A) == unit = u /\ A

PickFairness ==
  /\ WF_log(On("log", SearchKnee)) /\ WF_log(On("log", MountEnd))
  /\ \A t \in Par!Threads : WF_params(On("param", Par!JobStep(t)))

FairPickSpec == PickSpec /\ PickFairness

-----------------------------------------------------------------------------
(* param.c:85-171, param_persistant.c:150, param_cli.c:55-120: no          *)
(* verification of a record fails, a parameter is off or in its range, and *)
(* what the shell says of it is true.                                      *)
ParamsAreValid ==
  /\ unit = "param" => Par!NoPanic /\ Par!AlwaysInRange
  /\ unit = "typed" => Cli!ConfirmIsTrue /\ Cli!PrintsAllowed

(* param_persistant.c:120-158: a save that ends has left every parameter   *)
(* under its name with a value it had meanwhile.                           *)
SaveIsWhole == Par!SaveIsWhole

(* param.c:445, mavcmd_local.c:59: boot, loads and saves end.              *)
JobsEnd == unit = "param" => Par!JobsEnd
=============================================================================
