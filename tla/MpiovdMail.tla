----------------------------- MODULE MpiovdMail -----------------------------
(***************************************************************************)
(* The mails of the MPIOVD node (src/soft/mpiovd/src).  A thread that has  *)
(* something to say sets the payload of its one mail and posts the mail in *)
(* tolink_mb; LinkOut encodes it, clears the payload and confirms, if the  *)
(* mail has a confirmbox.  LinkIn does the same towards the Parameters and *)
(* Cmd threads.  While the shell has the port there is no LinkOut and no   *)
(* LinkIn, but the others go on.                                           *)
(***************************************************************************)
EXTENDS Integers, Sequences, FiniteSets

CONSTANTS
  BoxSize,      (* of tolink_mb                                            *)
  ParamCount,   (* OnboardParamCount                                       *)
  MaxCommands,  (* how many commands the ground gives                      *)
  ShellUsed     (* whether SH_enable is ever switched                      *)

ASSUME MailAssumption ==
  /\ BoxSize \in Nat \ {0} /\ ParamCount \in Nat \ {0} /\ MaxCommands \in Nat
  /\ ShellUsed \in BOOLEAN

Mails == {"heartbeat", "sensors", "value", "ack", "param_set", "command_long"}

Kinds == {"set", "list", "read"}

VARIABLES
  link,     (* LinkOut and LinkIn are: up, dying (terminated), down        *)
  out,      (* LinkOut: fetch, write, ended                                *)
  msgbuf,   (* the last message it encoded: kind and index                 *)
  box,      (* tolink_mb                                                   *)
  payload,  (* of the mails somebody asks that of: those it is not NULL of *)
  index,    (* param_value_struct.param_index                              *)
  confirm,  (* a message in param_confirm_mb                               *)
  pc, todo, (* the Parameters thread: wait, post, confirm; what it has to  *)
            (* send, from which parameter to which                         *)
  invoice,  (* of param_set_mail                                           *)
  cell,     (* mavlink_param_set_struct and its like: the parameter named  *)
  inbox,    (* what is in mavlink_param_set_mb and mavlink_command_long_mb *)
  client,   (* the request the ground waits for an answer to, or Nothing   *)
  commands  (* how many commands it has given                              *)

linking == <<link, out, msgbuf>>
sending == <<box, payload, confirm>>
params  == <<index, pc, todo>>
input   == <<invoice, cell, inbox>>
ground  == <<client, commands>>
vars == <<linking, sending, params, input, ground>>

Nothing == [kind |-> "nothing", index |-> 0]

Init ==
  /\ link = "up" /\ out = "fetch" /\ msgbuf = Nothing
  /\ box = <<>> /\ payload = {} /\ confirm = FALSE
  /\ index = 1 /\ pc = "wait" /\ todo = <<1, 0>>
  /\ invoice = "set" /\ cell = [k \in {"set", "read"} |-> 1] /\ inbox = {}
  /\ client = Nothing /\ commands = 0

-----------------------------------------------------------------------------
(* LinkOut. *)

InBox(mail) == {i \in DOMAIN box : box[i] = mail}

HasRoom == Len(box) < BoxSize

Encoded == [kind |-> Head(box), index |-> IF Head(box) = "value" THEN index ELSE 0]

(* sort_output_mail clears the payload.                                    *)
Processed == payload \ {Head(box)}

(* It has no case for a COMMAND_ACK: what was encoded last goes out again. *)
Fetch ==
  /\ out = "fetch" /\ box # <<>>
  /\ out' = "write" /\ box' = Tail(box)
  /\ IF Head(box) = "ack"
     THEN UNCHANGED <<msgbuf, payload, confirm>>
     ELSE /\ msgbuf' = Encoded
          /\ payload' = Processed
          /\ confirm' = (confirm \/ Head(box) = "value")
  /\ UNCHANGED <<link, params, input, ground>>

Answers(m, r) ==
  m.kind = "value" /\ m.index = IF r.kind = "list" THEN ParamCount ELSE r.index

(* The loop looks whether it is terminated after every message.            *)
Write ==
  /\ out = "write"
  /\ IF link = "dying"
     THEN link' = "down" /\ out' = "ended"
     ELSE out' = "fetch" /\ UNCHANGED link
  /\ client' = IF Answers(msgbuf, client) THEN Nothing ELSE client
  /\ UNCHANGED <<msgbuf, sending, params, input, commands>>

-----------------------------------------------------------------------------
(* KillMavlinkThreads and SpawnMavlinkThreads. *)

Terminate ==
  /\ ShellUsed /\ link = "up"
  /\ link' = "dying"
  /\ UNCHANGED <<out, msgbuf, sending, params, input, ground>>

Ends ==
  /\ link = "dying" /\ out = "fetch" /\ box = <<>>
  /\ link' = "down" /\ out' = "ended"
  /\ UNCHANGED <<msgbuf, sending, params, input, ground>>

Spawn ==
  /\ link = "down"
  /\ link' = "up" /\ out' = "fetch" /\ msgbuf' = Nothing
  /\ UNCHANGED <<sending, params, input, ground>>

-----------------------------------------------------------------------------
(* LinkIn: sort_input_messages. *)

(* The message is decoded first; if the mail is busy that was all.         *)
SortIn(mail, kind) ==
  /\ link = "up"
  /\ IF mail \in payload
     THEN UNCHANGED <<payload, inbox, invoice>>
     ELSE /\ payload' = payload \cup {mail}
          /\ inbox' = inbox \cup {mail}
          /\ invoice' = IF mail = "param_set" THEN kind ELSE invoice

ParamMessage(r) ==
  /\ SortIn("param_set", r.kind)
  /\ cell' = IF r.kind = "list" THEN cell ELSE [cell EXCEPT ![r.kind] = r.index]
  /\ UNCHANGED <<linking, box, confirm, params, commands>>

Ask ==
  /\ client = Nothing
  /\ \E r \in [kind : Kinds, index : 1 .. ParamCount] :
       ParamMessage(r) /\ client' = r

AskAgain ==
  /\ client # Nothing
  /\ ParamMessage(client)
  /\ UNCHANGED client

(* A message that is lost before LinkIn. *)
AskInVain ==
  /\ client = Nothing
  /\ \E r \in [kind : Kinds, index : 1 .. ParamCount] : client' = r
  /\ UNCHANGED <<linking, sending, params, input, commands>>

Command ==
  /\ commands < MaxCommands /\ commands' = commands + 1
  /\ SortIn("command_long", "command")
  /\ UNCHANGED <<linking, box, confirm, params, cell, client>>

-----------------------------------------------------------------------------
(* CmdThread. *)

(* confirmation posts ahead of the others, or not at all.                  *)
Acknowledge ==
  box' = IF HasRoom THEN <<"ack">> \o box ELSE box

(* Only commands for modes, calibration and reboot are answered.           *)
ProcessCmd ==
  /\ "command_long" \in inbox
  /\ inbox' = inbox \ {"command_long"}
  /\ payload' = payload \ {"command_long"}
  /\ Acknowledge \/ UNCHANGED box
  /\ UNCHANGED <<linking, confirm, params, invoice, cell, ground>>

-----------------------------------------------------------------------------
(* ParametersThread. *)

FillsIn(i, last) ==
  /\ index' = i
  /\ todo' = <<i + 1, last>>
  /\ pc' = "post"

(* The payload is cleared before the structure is used; nothing that could *)
(* block comes between.                                                    *)
FetchParam ==
  /\ pc = "wait" /\ "param_set" \in inbox
  /\ inbox' = inbox \ {"param_set"}
  /\ payload' = payload \ {"param_set"}
  /\ IF invoice = "list"
     THEN FillsIn(1, ParamCount)
     ELSE FillsIn(cell[invoice], cell[invoice])
  /\ UNCHANGED <<linking, box, confirm, invoice, cell, ground>>

Goes(next) ==
  IF todo[1] <= todo[2]
  THEN FillsIn(todo[1], todo[2])
  ELSE pc' = next /\ UNCHANGED <<index, todo>>

(* send_value: chMBPost with a timeout of 5 ms.                            *)
Post ==
  /\ pc = "post" /\ HasRoom
  /\ box' = Append(box, "value")
  /\ pc' = "confirm"
  /\ UNCHANGED <<linking, payload, confirm, index, todo, input, ground>>

WaitsAnyway ==
  /\ pc = "post" /\ ~HasRoom
  /\ pc' = "confirm"
  /\ UNCHANGED <<linking, sending, index, todo, input, ground>>

PostTimesOut ==
  /\ pc = "post" /\ ~HasRoom
  /\ Goes("wait")
  /\ UNCHANGED <<linking, sending, input, ground>>

SomeTimeout == TRUE

ConfirmTimeout == FALSE

(* chMBFetch(&param_confirm_mb) has none.                                  *)
Confirmed ==
  /\ pc = "confirm" /\ (confirm \/ ConfirmTimeout)
  /\ confirm' = FALSE
  /\ Goes("wait")
  /\ UNCHANGED <<linking, box, payload, input, ground>>

-----------------------------------------------------------------------------
(* The threads that send on their own. *)

Posted(mail) == IF HasRoom THEN Append(box, mail) ELSE box

(* TLM_Sender looks neither at the payload nor at how the post went.       *)
SendTelemetry ==
  /\ box' = Posted("sensors")
  /\ UNCHANGED <<linking, payload, confirm, params, input, ground>>

(* SanityControlThread looks at the payload, not at how the post went.     *)
SendHeartbeat ==
  /\ "heartbeat" \notin payload
  /\ payload' = payload \cup {"heartbeat"}
  /\ box' = Posted("heartbeat")
  /\ UNCHANGED <<linking, confirm, params, input, ground>>

-----------------------------------------------------------------------------
ParametersStep == FetchParam \/ Post \/ PostTimesOut \/ Confirmed

(* While there is a LinkOut, T_TLM is longer than it needs for a message.  *)
InTime == link # "up" \/ InBox("sensors") = {}

Next ==
  \/ Fetch \/ Write \/ Terminate \/ Ends \/ Spawn
  \/ Ask \/ AskAgain \/ AskInVain \/ Command \/ ProcessCmd
  \/ ParametersStep
  \/ (InTime /\ SendTelemetry) \/ SendHeartbeat

Spec == Init /\ [][Next]_vars

(* Threads run, and the ground repeats what is not answered.               *)
FairSpec ==
  /\ Spec
  /\ WF_vars(Fetch) /\ WF_vars(Write) /\ WF_vars(Ends)
  /\ WF_vars(AskAgain) /\ WF_vars(ProcessCmd)
  /\ WF_vars(ParametersStep) /\ WF_vars(SendHeartbeat)

-----------------------------------------------------------------------------
Requests == [kind : Kinds, index : 1 .. ParamCount] \cup {Nothing}

TypeOK ==
  /\ link \in {"up", "dying", "down"} /\ out \in {"fetch", "write", "ended"}
  /\ msgbuf \in [kind : Mails \cup {"nothing"}, index : 0 .. ParamCount]
  /\ box \in Seq(Mails) /\ Len(box) <= BoxSize
  /\ payload \subseteq {"heartbeat", "param_set", "command_long"} /\ confirm \in BOOLEAN
  /\ index \in 1 .. ParamCount /\ pc \in {"wait", "post", "confirm"}
  /\ todo \in (1 .. ParamCount + 1) \X (0 .. ParamCount)
  /\ invoice \in Kinds /\ cell \in [{"set", "read"} -> 1 .. ParamCount]
  /\ inbox \subseteq {"param_set", "command_long"}
  /\ client \in Requests /\ commands \in 0 .. MaxCommands

(* param.c:259-260 "wait until message processed": the Parameters thread   *)
(* waits for exactly as many confirmations as there are values on their    *)
(* way, so that it neither overwrites a value nobody has encoded nor takes *)
(* the confirmation of an earlier one.                                     *)
OneValueAtATime ==
  Cardinality(InBox("value")) + (IF confirm THEN 1 ELSE 0) = IF pc = "confirm" THEN 1 ELSE 0

(* param.c:302-305: a ground station that repeats its request gets the     *)
(* answer, however full the box is of telemetry, if the shell does not     *)
(* take the port.                                                          *)
AnswerComes == client # Nothing ~> (client = Nothing \/ link # "up")

(* sanity.c:51: the thread sends heartbeats; they reach the line as long   *)
(* as there is one.                                                        *)
HeartbeatsGoOn == <>[](link = "up") => []<>(out = "write" /\ msgbuf.kind = "heartbeat")
=============================================================================
