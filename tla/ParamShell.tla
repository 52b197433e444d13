----------------------------- MODULE ParamShell -----------------------------
(***************************************************************************)
(* The command "param" of the shells of both boards                        *)
(* (src/soft/bnap/src/param/param_cli.c,                                   *)
(* src/soft/mpiovd/src/parameters/param_cli.c) with the checkers it calls. *)
(* The Parameters thread has a higher priority than the shell, so that it  *)
(* may set the same parameter between any two of the shell's steps.        *)
(***************************************************************************)
EXTENDS Integers, Sequences

CONSTANTS
  Registry,   (* the parameters: name, min, max, and off, which says that  *)
              (* 0 (SEND_OFF) is allowed besides                           *)
  MaxValue    (* the greatest value of a parameter                         *)

Params == DOMAIN Registry
Values == 0 .. MaxValue

ParamShellAssumption ==
  /\ MaxValue \in Nat
  /\ Registry # <<>> /\ Registry \in Seq([name : STRING, min : Nat, def : Nat, max : Nat, off : BOOLEAN])
  /\ \A i \in Params : /\ Registry[i].min \in Values /\ Registry[i].max \in Values
                       /\ Registry[i].min <= Registry[i].max /\ Registry[i].off \in BOOLEAN

VARIABLES
  board,      (* bnap or mpiovd                                            *)
  count,      (* OnboardParamCount                                         *)
  ram,        (* the values                                                *)
  at,         (* where param_clicmd is                                     *)
  argv,       (* its arguments                                             *)
  i,          (* the parameter it is at                                    *)
  said,       (* what it has said, and the values it has printed           *)
  had         (* history: the values the parameter has had since the shell *)
              (* looked it up                                              *)

vars == <<board, count, ram, at, argv, i, said, had>>

Allowed(j) ==
  (Registry[j].min .. Registry[j].max) \cup (IF Registry[j].off THEN {0} ELSE {})

(* What may be typed for a value: a number, a number with a minus, a word. *)
Texts == [kind : {"number", "minus"}, n : Values] \cup [kind : {"word"}, n : {0}]

Names == {Registry[j].name : j \in Params} \cup {"help", "save", "nonsense"}

Commands ==
  [argc : {0, 3}] \cup [argc : {1}, name : Names]
    \cup [argc : {2}, name : Names, text : Texts]

None == [argc |-> 0]

Init ==
  /\ board \in {"bnap", "mpiovd"} /\ count = 0
  /\ ram \in [Params -> Values] /\ \A j \in Params : ram[j] \in Allowed(j)
  /\ at = "prompt" /\ argv = None /\ i = 1 /\ said = <<>> /\ had = {}

(* ParametersInit. *)
Boot == count = 0 /\ count' = Len(Registry) /\ UNCHANGED <<board, ram, at, argv, i, said, had>>

-----------------------------------------------------------------------------
(* The checkers. *)

(* putinrange *)
InRange(j, v) ==
  IF v <= Registry[j].min THEN Registry[j].min
  ELSE IF v >= Registry[j].max THEN Registry[j].max ELSE v

(* SEND_OFF passes the checker of the send periods of BNAP.                *)
Passes(j, v) == board = "bnap" /\ Registry[j].off /\ v = 0

Checked(j, v) == IF Passes(j, v) THEN v ELSE InRange(j, v)

(* BNAP looks first whether there is something to change; the checker of   *)
(* the send periods does so for SEND_OFF alone.                            *)
LooksFirst(j, v) == board = "bnap" /\ (Registry[j].off => v = 0)

NothingToChange(j, v) == LooksFirst(j, v) /\ ram[j] = v

(* set_global_param on MPIOVD writes, and tells whether it wrote what it   *)
(* was given.                                                              *)
WriteStatus(j, v) == IF Checked(j, v) = v THEN "ok" ELSE "clamped"

AlwaysOk(j, v) == "ok"

-----------------------------------------------------------------------------
(* param_clicmd. *)

Message(text) == [line |-> text]

Says(text) == said' = Append(said, Message(text))

Ends == at' = "prompt" /\ UNCHANGED <<argv, i, had>>

(* key_index_search *)
Known(name) == \E j \in 1 .. count : Registry[j].name = name

IndexOf(name) == CHOOSE j \in 1 .. count : Registry[j].name = name

(* The command is typed ...                                                *)
Types ==
  /\ at = "prompt"
  /\ argv' \in Commands /\ said' = <<>> /\ at' = "waits"
  /\ UNCHANGED <<board, count, ram, i, had>>

(* ... and waits until there are parameters.                               *)
Dispatches ==
  /\ at = "waits" /\ count > 0
  /\ at' = IF argv.argc = 0 THEN "print"
           ELSE IF argv.argc = 1 THEN "one" ELSE IF argv.argc = 2 THEN "two" ELSE "bad"
  /\ i' = 1 /\ had' = {}
  /\ UNCHANGED <<board, count, ram, argv, said>>

BadArguments ==
  /\ at = "bad"
  /\ Says("bad") /\ Ends
  /\ UNCHANGED <<board, count, ram>>

(* _param_cli_print: the min and the max beside the value.                 *)
Line(j) ==
  [line |-> "value", name |-> Registry[j].name,
   min |-> Registry[j].min, value |-> ram[j], max |-> Registry[j].max]

(* _param_print_all, one line at a time. *)
PrintsAll ==
  /\ at = "print"
  /\ said' = Append(said, Line(i))
  /\ i' = i + 1 /\ at' = IF i + 1 > count THEN "prompt" ELSE "print"
  /\ UNCHANGED <<board, count, ram, argv, had>>

Help ==
  /\ at = "one" /\ argv.name = "help"
  /\ Says("help") /\ Ends
  /\ UNCHANGED <<board, count, ram>>

(* How the EEPROM is written is in ParamStore. *)
Saves ==
  /\ at \in {"one", "saving"} /\ argv.name = "save"
  /\ Says(IF at = "one" THEN "wait" ELSE "done")
  /\ at' = IF at = "one" THEN "saving" ELSE "prompt"
  /\ UNCHANGED <<board, count, ram, argv, i, had>>

PrintsOne ==
  /\ at = "one" /\ argv.name \notin {"help", "save"}
  /\ IF Known(argv.name)
     THEN said' = Append(said, Line(IndexOf(argv.name)))
     ELSE Says("unknown")
  /\ Ends
  /\ UNCHANGED <<board, count, ram>>

(* sscanf with %u: a word is no number, and a minus wraps around.          *)
IsNumber(text) == text.kind # "word"

Scanned(text) ==
  IF text.kind = "minus" THEN (MaxValue + 1 - text.n) % (MaxValue + 1) ELSE text.n

(* _param_cli_set up to the call of the checker, on BNAP ...               *)
ScansBnap ==
  /\ at = "two" /\ board = "bnap"
  /\ IF ~Known(argv.name) THEN Says("unknown") /\ Ends
     ELSE IF ~IsNumber(argv.text) THEN Says("inconsistent") /\ Ends
     ELSE /\ at' = "looks" /\ i' = IndexOf(argv.name)
          /\ had' = {ram[IndexOf(argv.name)]}
          /\ UNCHANGED <<argv, said>>
  /\ UNCHANGED <<board, count, ram>>

(* ... and on MPIOVD. *)
ScansMpiovd ==
  /\ at = "two" /\ board = "mpiovd"
  /\ IF ~Known(argv.name) THEN Says("unknown") /\ Ends
     ELSE IF ~IsNumber(argv.text) THEN Says("inconsistent") /\ Ends
     ELSE /\ at' = "writes" /\ i' = IndexOf(argv.name)
          /\ had' = {ram[IndexOf(argv.name)]}
          /\ UNCHANGED <<argv, said>>
  /\ UNCHANGED <<board, count, ram>>

(* _uint_param_checker, _sendtmo_param_checker: the comparison.            *)
Looks ==
  /\ at = "looks"
  /\ IF NothingToChange(i, Scanned(argv.text))
     THEN Says("unchanged") /\ at' = "prompt"
     ELSE at' = "writes" /\ UNCHANGED said
  /\ UNCHANGED <<board, count, ram, argv, i, had>>

SetTo(j, v) ==
  /\ ram' = [ram EXCEPT ![j] = v]
  /\ had' = IF j = i THEN had \cup {v} ELSE had

Writes ==
  /\ at = "writes"
  /\ SetTo(i, Checked(i, Scanned(argv.text)))
  /\ at' = WriteStatus(i, Scanned(argv.text))
  /\ UNCHANGED <<board, count, argv, i, said>>

(* _param_cli_confirm: nothing is said of a success.                       *)
Confirms ==
  /\ at \in {"ok", "clamped"}
  /\ IF at = "ok" THEN UNCHANGED said ELSE Says("clamped")
  /\ Ends
  /\ UNCHANGED <<board, count, ram>>

(* PARAM_SET. *)
OtherSets ==
  /\ count > 0
  /\ \E j \in Params, v \in Values : SetTo(j, IF NothingToChange(j, v) THEN v ELSE Checked(j, v))
  /\ UNCHANGED <<board, count, at, argv, i, said>>

Command ==
  \/ Dispatches \/ BadArguments \/ PrintsAll \/ Help \/ Saves \/ PrintsOne
  \/ ScansBnap \/ ScansMpiovd \/ Looks \/ Writes \/ Confirms

Next == Boot \/ Types \/ Command \/ OtherSets

Spec == Init /\ [][Next]_vars

-----------------------------------------------------------------------------
Sets == argv.argc = 2 /\ Known(argv.name) /\ IsNumber(argv.text)

(* param_cli.c:55-67: what the shell says of a set is what happened to the *)
(* parameter: it had the typed value, or a value at the end of its range   *)
(* because the typed one is not allowed, whoever else sets it meanwhile.   *)
ConfirmIsTrue ==
  at = "prompt" /\ count > 0 /\ Sets =>
    LET v == Scanned(argv.text)
    IN  \/ said = <<>> /\ v \in had /\ v \in Allowed(i)
        \/ said = <<Message("unchanged")>> /\ v \in had
        \/ /\ said = <<Message("clamped")>>
           /\ v \notin Registry[i].min .. Registry[i].max
           /\ had \cap {Registry[i].min, Registry[i].max} # {}

(* param_cli.c:72-120: a value is printed only beside a range it is in, or *)
(* as the zero that switches off.                                          *)
PrintsAllowed ==
  \A k \in DOMAIN said :
    said[k].line = "value" =>
      \E j \in Params : said[k].name = Registry[j].name /\ said[k].value \in Allowed(j)
=============================================================================
