------------------------------- MODULE Tuner -------------------------------
(***************************************************************************)
(* The tuner (src/soft/face/tuner/main.py) reads the parameters of the     *)
(* MPIOVD node (src/soft/mpiovd/src/parameters) while the shell of the     *)
(* node and other ground programs may set them.  It asks for the list,     *)
(* then opens its socket, and takes what comes until the value with the    *)
(* last index. What a number looks like in a message is left to the        *)
(* MAVLink library.                                                        *)
(***************************************************************************)
EXTENDS Integers, Sequences

CONSTANTS
  OnboardParamCount,
  Values, Low, High,  (* what may be asked for, and the limits in the table *)
  MaxRefreshes,       (* a bound: clicks on the button                      *)
  MaxSets,            (* a bound: settings by others                        *)
  MaxLoss             (* a bound: datagrams that are lost                   *)

TunerAssumption ==
  /\ OnboardParamCount \in Nat \ {0} /\ Values \subseteq Nat
  /\ Low \in Nat /\ High \in Nat /\ Low <= High
  /\ {MaxRefreshes, MaxSets, MaxLoss} \subseteq Nat

Params == 1 .. OnboardParamCount
NoParam == 0    (* what _key_index_search finds for any other name         *)
NoNumber == -1  (* a text that sscanf does not take                        *)

VARIABLES
  value,        (* of the parameters, in global_data                       *)
  mail,         (* param_set_mail: None, a list request or a setting       *)
  next,         (* what send_all_values sends next, or 0                   *)
  port,         (* datagrams at the tuner's socket                         *)
  pc,           (* refresh: idle, open, wait                               *)
  result,       (* of the last one                                         *)
  params, tree, (* what the tuner has been told, and what it shows         *)
  clean,        (* nothing has been lost or set since the last refresh     *)
                (* began, and no answers to an earlier one were on the way *)
  refreshes, sets, lost

board == <<value, mail, next>>
tuner == <<pc, result, params, tree>>
bounds == <<refreshes, sets, lost>>
vars == <<board, port, tuner, clean, bounds>>

None == [kind |-> "none"]
Unknown == 0  (* not heard of yet                                          *)

Init ==
  /\ value \in [Params -> Low .. High] /\ mail = None /\ next = 0 /\ port = <<>>
  /\ pc = "idle" /\ result = "none"
  /\ params = [p \in Params |-> Unknown] /\ tree = params
  /\ clean = FALSE /\ refreshes = 0 /\ sets = 0 /\ lost = 0

-----------------------------------------------------------------------------
(* The parameters of the node. *)

InRange(v) == IF v < Low THEN Low ELSE IF v > High THEN High ELSE v

(* set_global_param *)
Asked(p, v) == [value EXCEPT ![p] = InRange(v)]

(* set_parameter: a name that the table has not, or a float that is not a  *)
(* number, changes nothing.                                                *)
SetParameter(s) ==
  value' = IF s.param = NoParam \/ (s.type = "float" /\ s.nan) THEN value
           ELSE Asked(s.param, s.v)

(* What send_value says of a parameter, to the port of the tuner.          *)
Datagram(p) == [param |-> p, v |-> value'[p]]

Goes(d) ==
  \/ /\ IF pc = "wait"
        THEN port' = Append(port, d) /\ UNCHANGED clean
        ELSE clean' = FALSE /\ UNCHANGED port
     /\ UNCHANGED lost
  \/ /\ lost < MaxLoss /\ lost' = lost + 1
     /\ clean' = FALSE /\ UNCHANGED port

(* ParametersThread. *)
FetchList ==
  /\ next = 0 /\ mail.kind = "list"
  /\ mail' = None /\ next' = 1
  /\ UNCHANGED <<value, port, tuner, clean, bounds>>

FetchSet ==
  /\ next = 0 /\ mail.kind = "set"
  /\ mail' = None /\ SetParameter(mail)
  /\ IF mail.param = NoParam THEN UNCHANGED <<port, clean, lost>>
     ELSE Goes(Datagram(mail.param))
  /\ UNCHANGED <<next, tuner, refreshes, sets>>

SendAllValues ==
  /\ next # 0
  /\ UNCHANGED value
  /\ Goes(Datagram(next))
  /\ next' = IF next = OnboardParamCount THEN 0 ELSE next + 1
  /\ UNCHANGED <<mail, tuner, refreshes, sets>>

(* sort_input_messages: while the mail is not free the message is dropped. *)
Mailed(m) == mail' = IF mail = None THEN m ELSE mail

SetByGround ==
  /\ sets < MaxSets /\ sets' = sets + 1
  /\ \E p \in Params, v \in Values, type \in {"int", "float"}, nan \in BOOLEAN :
       Mailed([kind |-> "set", param |-> p, v |-> v, type |-> type, nan |-> nan])
  /\ clean' = FALSE
  /\ UNCHANGED <<value, next, port, tuner, refreshes, lost>>

(* _param_cli_set *)
ByText(p, text) == value' = IF text = NoNumber THEN value ELSE Asked(p, text)

(* param_clicmd, for a name that is known.                                 *)
SetByShell ==
  /\ sets < MaxSets /\ sets' = sets + 1
  /\ \E p \in Params, text \in Values \cup {NoNumber} : ByText(p, text)
  /\ clean' = FALSE
  /\ UNCHANGED <<mail, next, port, tuner, refreshes, lost>>

-----------------------------------------------------------------------------
(* The tuner. *)

Refresh ==
  /\ pc = "idle" /\ refreshes < MaxRefreshes /\ refreshes' = refreshes + 1
  /\ pc' = "open" /\ result' = "none"
  /\ \/ Mailed([kind |-> "list"]) /\ UNCHANGED lost
     \/ lost < MaxLoss /\ lost' = lost + 1 /\ UNCHANGED mail
  /\ clean' = (mail = None /\ next = 0)
  /\ UNCHANGED <<value, next, port, params, tree, sets>>

(* analog.py: Transmit sends AN_chN_c1 and so on, which the table has not. *)
Transmit ==
  /\ pc = "idle" /\ sets < MaxSets /\ sets' = sets + 1
  /\ Mailed([kind |-> "set", param |-> NoParam, type |-> "int"])
  /\ UNCHANGED <<value, next, port, tuner, clean, refreshes, lost>>

(* outmaster = mavutil.mavlink_connection(self.outdevice) *)
Opens ==
  /\ pc = "open" /\ pc' = "wait"
  /\ UNCHANGED <<board, port, result, params, tree, clean, bounds>>

Closes(r) == pc' = "idle" /\ result' = r /\ port' = <<>>

(* refresh_table *)
Refreshed(p, v) == [params EXCEPT ![p] = v]

IsLast(d) == d.param = OnboardParamCount

Receive ==
  /\ pc = "wait" /\ port # <<>>
  /\ LET d == Head(port)
     IN /\ params' = Refreshed(d.param, d.v)
        /\ IF IsLast(d)
           THEN Closes("last") /\ tree' = params'
           ELSE port' = Tail(port) /\ UNCHANGED <<pc, result, tree>>
  /\ UNCHANGED <<board, clean, bounds>>

(* Two seconds without a value, however many other messages come.          *)
Late == port = <<>>

TimesOut ==
  /\ pc = "wait" /\ Late
  /\ Closes("timeout")
  /\ UNCHANGED <<board, params, tree, clean, bounds>>

Board == FetchList \/ FetchSet \/ SendAllValues

Next ==
  \/ Board \/ SetByGround \/ SetByShell
  \/ Refresh \/ Transmit \/ Opens \/ Receive \/ TimesOut

Spec == Init /\ [][Next]_vars

(* The node and the tuner run, and the clock of the tuner goes on.         *)
Fairness == WF_vars(Board) /\ WF_vars(Opens) /\ WF_vars(Receive) /\ WF_vars(TimesOut)

FairSpec == Spec /\ Fairness

-----------------------------------------------------------------------------
(* main.py:62 "wait until all parameters received": when the refresh ends  *)
(* with the last value and nothing was lost or set meanwhile, the tuner    *)
(* shows what the node has; not what an earlier refresh left, nor a part.  *)
TreeIsBoards == result = "last" /\ clean => tree = value

(* The refresh, in which the window does nothing else, comes to an end     *)
(* whatever is lost.                                                       *)
RefreshEnds == pc # "idle" ~> pc = "idle"
=============================================================================
