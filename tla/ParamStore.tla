----------------------------- MODULE ParamStore -----------------------------
(***************************************************************************)
(* The parameters of both boards and their copy in the EEPROM:             *)
(* src/soft/bnap/src/param (param.c, param_persistant.c, param_cli.c) with *)
(* src/soft/bnap/src/link/mavcmd_local.c, and                              *)
(* src/soft/mpiovd/src/parameters (param.c, persistant.c, param_cli.c)     *)
(* with src/soft/mpiovd/src/autopilot.c.  A record of the file is a name   *)
(* and a value; who loads or saves goes through it record by record, with  *)
(* one buffer and one file position for everybody.  BNAP has a semaphore   *)
(* for that, MPIOVD has none.                                              *)
(***************************************************************************)
EXTENDS Integers, Sequences

CONSTANTS
  Registry,   (* the parameters: name, min, def, max, and off, which says  *)
              (* that 0 (SEND_OFF) is allowed besides                      *)
  OldNames,   (* the names in the file of a former firmware                *)
  MaxValue    (* the greatest value; what a blank EEPROM reads as          *)

Params == DOMAIN Registry
Values == 0 .. MaxValue
Names  == {Registry[i].name : i \in Params} \cup {OldNames[i] : i \in Params}
Blank  == [name |-> "blank", value |-> MaxValue]
Records == [name : Names, value : Values] \cup [name : {"blank"}, value : Values]

(* What the generator of the registry checks of it.                        *)
RegistryIsSound ==
  /\ MaxValue \in Nat
  /\ Registry # <<>>
  /\ Registry \in Seq([name : STRING, min : Nat, def : Nat, max : Nat, off : BOOLEAN])
  /\ OldNames \in Seq(STRING)
  /\ \A i \in Params :
       /\ Registry[i].min \in Values /\ Registry[i].max \in Values
       /\ Registry[i].min < Registry[i].max
       /\ Registry[i].def \in Registry[i].min .. Registry[i].max
       /\ Registry[i].off \in BOOLEAN
       /\ \A j \in Params : Registry[i].name = Registry[j].name => i = j
  /\ Len(OldNames) = Len(Registry) /\ "blank" \notin Names

RegistryAssumption == RegistryIsSound

(* Who loads and saves: ParametersInit, the thread of commands and "param  *)
(* save" of the shell.                                                     *)
Threads == {"init", "command", "shell"}

VARIABLES
  board,      (* bnap or mpiovd                                            *)
  ram,        (* the values                                                *)
  ee,         (* EepromSettingsFile                                        *)
  position,   (* of EepromSettingsFile, in records                         *)
  eeprombuf,
  sem,        (* who has SettingsFile_sem, or nobody                       *)
  job,        (* of the threads: what it does (idle, load, save), its next *)
              (* step, the record i, v, need_eeprom_update                 *)
  ready,      (* ParametersInit is done                                    *)
  panic,      (* chDbgPanic("veryfication failed")                         *)
  seen,       (* the values each parameter has had since the save began    *)
  moved,      (* the file is one of a former firmware                      *)
  crossed     (* two threads were in the file at once                      *)

file == <<ee, position, eeprombuf>>
history == <<seen, moved, crossed>>
vars == <<board, ram, file, sem, job, ready, panic, history>>

Idle == [op |-> "idle", step |-> "none", i |-> 1, v |-> 0, need |-> FALSE]

(* The registry in RAM: zeroes on BNAP, the defaults on MPIOVD.            *)
InitialRam(b) ==
  [i \in Params |-> IF b = "bnap" THEN 0 ELSE Registry[i].def]

Starting(b) ==
  [t \in Threads |->
     IF t # "init" THEN Idle
     ELSE [Idle EXCEPT !.op = IF b = "bnap" THEN "load" ELSE "look", !.step = "acquire"]]

Saved(names) ==
  {f \in [Params -> Records] : \A i \in Params : f[i].name = names[i]}

(* A value that was saved has passed its check.                            *)
Allowed(i) ==
  (Registry[i].min .. Registry[i].max) \cup (IF Registry[i].off THEN {0} ELSE {})

AllowedNamed(name) ==
  IF \E i \in Params : Registry[i].name = name
  THEN Allowed(CHOOSE i \in Params : Registry[i].name = name)
  ELSE Values

Sound(f) == \A i \in Params : f[i].value \in AllowedNamed(f[i].name)

OurNames == [i \in Params |-> Registry[i].name]

Init ==
  /\ board \in {"bnap", "mpiovd"}
  /\ ram = InitialRam(board)
  /\ \/ ee = [i \in Params |-> Blank] /\ moved = FALSE
     \/ ee \in Saved(OurNames) /\ Sound(ee) /\ moved = FALSE
     \/ ee \in Saved(OldNames) /\ Sound(ee) /\ moved = TRUE
  /\ position = 1 /\ eeprombuf = Blank /\ sem = "nobody"
  /\ job = Starting(board) /\ ready = FALSE /\ panic = FALSE
  /\ seen = [i \in Params |-> {}] /\ crossed = FALSE

-----------------------------------------------------------------------------
(* set_global_param and its checkers. *)

Clamped(i, v) ==
  IF v <= Registry[i].min THEN Registry[i].min
  ELSE IF v >= Registry[i].max THEN Registry[i].max ELSE v

(* BNAP leaves a value alone that is there already, whatever it is; the    *)
(* checker of the send periods, which passes SEND_OFF, does not.           *)
Checked(i, v) ==
  IF board = "bnap" /\ v = (IF Registry[i].off THEN 0 ELSE ram[i]) THEN v ELSE Clamped(i, v)

SetParam(i, v) ==
  /\ ram' = [ram EXCEPT ![i] = Checked(i, v)]
  /\ seen' = [seen EXCEPT ![i] = @ \cup {Checked(i, v)}]

-----------------------------------------------------------------------------
At(t, op, step) == ~panic /\ job[t].op = op /\ job[t].step = step

Step(t, step) == job' = [job EXCEPT ![t].step = step]

NoSemaphore(t) == TRUE

MayEnter(t) == board = "bnap" => sem \in {"nobody", t}

Enters(t) ==
  /\ MayEnter(t)
  /\ sem' = IF board = "bnap" THEN t ELSE sem
  /\ crossed' = (crossed \/ \E o \in Threads \ {t} : job[o].step \notin {"none", "acquire"})

Keeps(t) == sem' = sem

Waiting(t) == {o \in Threads \ {t} : job[o].step = "acquire"}

(* chBSemSignal gives the semaphore to who waits for it.                   *)
Leaves(t) ==
  sem' \in IF sem # t THEN {sem}
          ELSE IF Waiting(t) = {} THEN {"nobody"} ELSE Waiting(t)

Here == IF position \in Params THEN ee[position] ELSE Blank

(* load_params_from_eeprom. *)
LoadBegins(t) ==
  /\ At(t, "load", "acquire") /\ Enters(t)
  /\ position' = 1
  /\ job' = [job EXCEPT ![t].step = "read", ![t].i = 1, ![t].v = 0, ![t].need = FALSE]
  /\ UNCHANGED <<board, ram, ee, eeprombuf, ready, panic, seen, moved>>

LoadReads(t) ==
  /\ At(t, "load", "read")
  /\ eeprombuf' = Here /\ position' = position + 1
  /\ Step(t, "set")
  /\ UNCHANGED <<board, ram, ee, sem, ready, panic, history>>

(* key_index_search: a name is looked for among all parameters.            *)
Known == \E i \in Params : Registry[i].name = eeprombuf.name

(* An unknown name: BNAP takes the default and saves everything later,     *)
(* MPIOVD goes on with the value of the record before.                     *)
LoadedValue(t) ==
  IF Known THEN eeprombuf.value
  ELSE IF board = "bnap" THEN Registry[job[t].i].def ELSE job[t].v

LoadSets(t) ==
  /\ At(t, "load", "set")
  /\ SetParam(job[t].i, LoadedValue(t))
  /\ job' = [job EXCEPT ![t].v = LoadedValue(t),
                        ![t].need = @ \/ ~Known,
                        ![t].i = @ + 1,
                        ![t].step = IF job[t].i = Len(Registry) THEN "end" ELSE "read"]
  /\ UNCHANGED <<board, file, sem, ready, panic, moved, crossed>>

Finished(t, need) ==
  /\ job' = [job EXCEPT ![t] = IF need THEN [Idle EXCEPT !.op = "save", !.step = "acquire"] ELSE Idle]
  /\ ready' = (ready \/ (t = "init" /\ ~need))

LoadEnds(t) ==
  /\ At(t, "load", "end") /\ Leaves(t)
  /\ Finished(t, board = "bnap" /\ job[t].need)
  /\ UNCHANGED <<board, ram, file, panic, history>>

(* ParametersInit of MPIOVD looks at the first name.                       *)
Looks ==
  /\ At("init", "look", "acquire")
  /\ position' = 2
  /\ job' = [job EXCEPT !["init"].op = IF ee[1].name = Registry[1].name THEN "load" ELSE "save"]
  /\ UNCHANGED <<board, ram, ee, eeprombuf, sem, ready, panic, history>>

(* save_all_params_to_eeprom and save_params_to_eeprom. *)
SaveBegins(t) ==
  /\ At(t, "save", "acquire") /\ Enters(t)
  /\ position' = 1
  /\ seen' = [i \in Params |-> {ram[i]}]
  /\ job' = [job EXCEPT ![t].step = "write", ![t].i = 1]
  /\ UNCHANGED <<board, ram, ee, eeprombuf, ready, panic, moved>>

Record(t) == [name |-> Registry[job[t].i].name, value |-> ram[job[t].i]]

SaveWrites(t) ==
  /\ At(t, "save", "write")
  /\ eeprombuf' = Record(t)
  /\ ee' = [i \in Params |-> IF i = position THEN Record(t) ELSE ee[i]]
  /\ position' = position + 1
  /\ Step(t, "verify")
  /\ UNCHANGED <<board, ram, sem, ready, panic, history>>

Written == IF position - 1 \in Params THEN ee[position - 1] ELSE Blank

SkipsOne(t) == job[t].i + 2

NextRecord(t) == job[t].i + 1

(* Reads back what is before the position and compares.                    *)
SaveVerifies(t) ==
  /\ At(t, "save", "verify")
  /\ panic' = (Written # eeprombuf)
  /\ job' = [job EXCEPT ![t].i = NextRecord(t),
                        ![t].step = IF NextRecord(t) > Len(Registry) THEN "end" ELSE "write"]
  /\ UNCHANGED <<board, ram, file, sem, ready, history>>

SaveEnds(t) ==
  /\ At(t, "save", "end") /\ Leaves(t)
  /\ Finished(t, FALSE)
  /\ UNCHANGED <<board, ram, file, panic, history>>

-----------------------------------------------------------------------------
(* PARAM_SET, and "param NAME value". *)
Set ==
  /\ ready /\ ~panic
  /\ \E i \in Params, v \in Values : SetParam(i, v)
  /\ UNCHANGED <<board, file, sem, job, ready, panic, moved, crossed>>

(* MAV_CMD_PREFLIGHT_STORAGE and "param save". *)
Request(t, op) ==
  /\ ready /\ ~panic /\ job[t] = Idle
  /\ job' = [job EXCEPT ![t].op = op, ![t].step = "acquire"]
  /\ UNCHANGED <<board, ram, file, sem, ready, panic, history>>

(* A record that is being written is left torn between its two parts.      *)
Torn(old, new) == {old, new, [name |-> new.name, value |-> old.value]}

PowerFails ==
  /\ ram' = InitialRam(board)
  /\ ee' \in {[i \in Params |-> IF i = position /\ \E t \in Threads : At(t, "save", "write") THEN r ELSE ee[i]] :
                r \in {Here} \cup UNION {Torn(Here, Record(t)) : t \in {u \in Threads : At(u, "save", "write")}}}
  /\ position' = 1 /\ eeprombuf' = Blank /\ sem' = "nobody"
  /\ job' = Starting(board) /\ ready' = FALSE /\ panic' = FALSE
  /\ seen' = [i \in Params |-> {}]
  /\ UNCHANGED <<board, moved, crossed>>

JobStep(t) ==
  \/ LoadBegins(t) \/ LoadReads(t) \/ LoadSets(t) \/ LoadEnds(t)
  \/ SaveBegins(t) \/ SaveWrites(t) \/ SaveVerifies(t) \/ SaveEnds(t)
  \/ t = "init" /\ Looks

Next ==
  \/ \E t \in Threads : JobStep(t)
  \/ Set \/ PowerFails
  \/ Request("command", "load") \/ Request("command", "save") \/ Request("shell", "save")

Spec == Init /\ [][Next]_vars

(* Threads run.                                                            *)
FairSpec == Spec /\ \A t \in Threads : WF_vars(JobStep(t))

-----------------------------------------------------------------------------
Safe == board = "bnap" \/ ~crossed

(* param_persistant.c:150: nobody else moves the file or the buffer        *)
(* between the write of a record and its verification.  On MPIOVD that is  *)
(* so only until two threads are in the file.                              *)
NoPanic == Safe => ~panic

(* param.c:85-171 and, of MPIOVD, 39-84: once the parameters are there     *)
(* each is off or between its min and its max, whatever is in the EEPROM   *)
(* and whoever else reads it.  Only a 0 that BNAP loads is not checked,    *)
(* because it is there already; it can come from the file of a former      *)
(* firmware.                                                               *)
AlwaysInRange ==
  ready =>
    \A i \in Params : ram[i] \in Allowed(i) \/ (moved /\ board = "bnap" /\ ram[i] = 0)

(* param_persistant.c:120-158: a save that ends has left in every record   *)
(* the name of its parameter and a value that it had while the save went   *)
(* on.                                                                     *)
SaveIsWhole ==
  [][\A t \in Threads : SaveEnds(t) /\ Safe =>
       \A i \in Params : ee[i].name = Registry[i].name /\ ee[i].value \in seen[i]]_vars

(* param.c:445, mavcmd_local.c:59: the boot and every load and save end,   *)
(* whatever has the semaphore when they ask for it and however many        *)
(* records turn out to be unknown, unless power goes on failing.           *)
JobsEnd ==
  []<><<PowerFails>>_vars \/ \A t \in Threads : []<>(job[t] = Idle \/ panic)
=============================================================================
