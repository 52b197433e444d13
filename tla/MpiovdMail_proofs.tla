-------------------------- MODULE MpiovdMail_proofs --------------------------
(***************************************************************************)
(* Proofs about MpiovdMail for a box of any size, any number of parameters *)
(* and commands, with and without a shell.                                 *)
(***************************************************************************)
EXTENDS MpiovdMail, FiniteSetTheorems, SequenceTheorems, TLAPS

-----------------------------------------------------------------------------
(* Types. *)

LEMMA TypeInit == Init => TypeOK
<1> SUFFICES ASSUME Init PROVE TypeOK
  OBVIOUS
<1> USE MailAssumption DEF Init
<1>1. box \in Seq(Mails) /\ Len(box) <= BoxSize
  OBVIOUS
<1>2. msgbuf \in [kind : Mails \cup {"nothing"}, index : 0 .. ParamCount]
  BY DEF Nothing
<1>3. client \in Requests
  BY DEF Requests
<1>4. index \in 1 .. ParamCount /\ todo \in (1 .. ParamCount + 1) \X (0 .. ParamCount)
  OBVIOUS
<1>5. cell \in [{"set", "read"} -> 1 .. ParamCount] /\ invoice \in Kinds
  BY DEF Kinds
<1>6. /\ link \in {"up", "dying", "down"} /\ out \in {"fetch", "write", "ended"}
      /\ payload \subseteq {"heartbeat", "param_set", "command_long"} /\ confirm \in BOOLEAN
      /\ pc \in {"wait", "post", "confirm"}
  OBVIOUS
<1>7. inbox \subseteq {"param_set", "command_long"} /\ commands \in 0 .. MaxCommands
  OBVIOUS
<1> QED
  BY <1>1, <1>2, <1>3, <1>4, <1>5, <1>6, <1>7, Zenon DEF TypeOK

(* What a value is filled in with.                                         *)
LEMMA FillsInTypes ==
  ASSUME TypeOK, NEW i \in 1 .. ParamCount, NEW last \in 0 .. ParamCount, FillsIn(i, last)
  PROVE  /\ index' \in 1 .. ParamCount /\ pc' = "post"
         /\ todo' \in (1 .. ParamCount + 1) \X (0 .. ParamCount)
BY MailAssumption DEF FillsIn

(* The next value, or the end of the job.                                  *)
LEMMA GoesTypes ==
  ASSUME TypeOK, Goes("wait")
  PROVE  /\ index' \in 1 .. ParamCount /\ pc' \in {"wait", "post"}
         /\ todo' \in (1 .. ParamCount + 1) \X (0 .. ParamCount)
<1>1. CASE todo[1] <= todo[2]
  <2>1. todo[1] \in 1 .. ParamCount /\ todo[2] \in 0 .. ParamCount
    BY <1>1, MailAssumption DEF TypeOK
  <2>2. FillsIn(todo[1], todo[2])
    BY <1>1 DEF Goes
  <2> QED
    BY <2>1, <2>2, FillsInTypes
<1>2. CASE ~(todo[1] <= todo[2])
  BY <1>2 DEF Goes, TypeOK
<1> QED
  BY <1>1, <1>2

(* A post that has room does not overfill the box.                         *)
LEMMA PostedTypes ==
  ASSUME TypeOK, NEW mail \in Mails
  PROVE  /\ Posted(mail) \in Seq(Mails) /\ Len(Posted(mail)) <= BoxSize
         /\ HasRoom => Append(box, mail) \in Seq(Mails) /\ Len(Append(box, mail)) <= BoxSize
         /\ HasRoom => <<mail>> \o box \in Seq(Mails) /\ Len(<<mail>> \o box) <= BoxSize
BY MailAssumption DEF TypeOK, Posted, HasRoom

(* What LinkIn does with a message, and a parameter message.               *)
LEMMA SortInTypes ==
  ASSUME TypeOK, NEW mail \in {"param_set", "command_long"}, NEW kind,
         mail = "param_set" => kind \in Kinds, SortIn(mail, kind)
  PROVE  /\ payload' \subseteq {"heartbeat", "param_set", "command_long"}
         /\ inbox' \subseteq {"param_set", "command_long"}
         /\ invoice' \in Kinds
BY DEF SortIn, TypeOK

LEMMA ParamMessageTypes ==
  ASSUME TypeOK, NEW r \in [kind : Kinds, index : 1 .. ParamCount],
         ParamMessage(r), client' \in Requests
  PROVE  TypeOK'
<1>1. /\ payload' \subseteq {"heartbeat", "param_set", "command_long"}
      /\ inbox' \subseteq {"param_set", "command_long"} /\ invoice' \in Kinds
  BY SortInTypes DEF ParamMessage
<1>2. cell' \in [{"set", "read"} -> 1 .. ParamCount]
  BY DEF ParamMessage, TypeOK, Kinds
<1> QED
  BY <1>1, <1>2 DEF ParamMessage, TypeOK, linking, params, Requests

(* No step breaks it.                                                      *)
LEMMA TypeStep == TypeOK /\ [Next]_vars => TypeOK'
<1> SUFFICES ASSUME TypeOK, [Next]_vars
             PROVE  TypeOK'
  OBVIOUS
<1> USE DEF linking, sending, params, input, ground
<1>1. CASE Fetch
  <2>1. box' \in Seq(Mails) /\ Len(box') <= BoxSize /\ Head(box) \in Mails
    BY <1>1, MailAssumption DEF Fetch, TypeOK
  <2>2. msgbuf' \in [kind : Mails \cup {"nothing"}, index : 0 .. ParamCount]
    BY <1>1, <2>1, MailAssumption DEF Fetch, TypeOK, Encoded
  <2>3. payload' \subseteq {"heartbeat", "param_set", "command_long"}
    BY <1>1 DEF Fetch, TypeOK, Processed
  <2>4. confirm' \in BOOLEAN
    BY <1>1, Zenon DEF Fetch, TypeOK
  <2> QED
    BY <1>1, <2>1, <2>2, <2>3, <2>4, Zenon DEF Fetch, TypeOK
<1>2. CASE Write
  <2>1. client' \in Requests
    BY <1>2 DEF Write, TypeOK, Requests
  <2> QED
    BY <1>2, <2>1 DEF Write, TypeOK
<1>3. CASE Terminate
  BY <1>3 DEF Terminate, TypeOK
<1>4. CASE Ends
  BY <1>4 DEF Ends, TypeOK
<1>5. CASE Spawn
  <2>1. Nothing \in [kind : Mails \cup {"nothing"}, index : 0 .. ParamCount]
    BY MailAssumption DEF Nothing
  <2> QED
    BY <1>5, <2>1 DEF Spawn, TypeOK
<1>6. CASE Ask
  <2>1. PICK r \in [kind : Kinds, index : 1 .. ParamCount] : ParamMessage(r) /\ client' = r
    BY <1>6 DEF Ask
  <2> QED
    BY <2>1, ParamMessageTypes DEF Requests
<1>7. CASE AskAgain
  <2>1. client \in [kind : Kinds, index : 1 .. ParamCount] /\ client' \in Requests
    BY <1>7 DEF AskAgain, TypeOK, Requests
  <2> QED
    BY <1>7, <2>1, ParamMessageTypes DEF AskAgain
<1>8. CASE AskInVain
  BY <1>8 DEF AskInVain, TypeOK, Requests
<1>9. CASE Command
  <2>1. /\ payload' \subseteq {"heartbeat", "param_set", "command_long"}
        /\ inbox' \subseteq {"param_set", "command_long"} /\ invoice' \in Kinds
    BY <1>9, SortInTypes DEF Command
  <2>2. commands' \in 0 .. MaxCommands
    BY <1>9, MailAssumption DEF Command, TypeOK
  <2> QED
    BY <1>9, <2>1, <2>2 DEF Command, TypeOK
<1>10. CASE ProcessCmd
  <2>1. box' \in Seq(Mails) /\ Len(box') <= BoxSize
    BY <1>10, PostedTypes DEF ProcessCmd, Acknowledge, TypeOK, Mails
  <2> QED
    BY <1>10, <2>1 DEF ProcessCmd, TypeOK
<1>11. CASE FetchParam
  <2>1. ParamCount \in 1 .. ParamCount /\ 1 \in 1 .. ParamCount /\ ParamCount \in 0 .. ParamCount
    BY MailAssumption
  <2>2. invoice # "list" => cell[invoice] \in 1 .. ParamCount /\ cell[invoice] \in 0 .. ParamCount
    BY MailAssumption DEF TypeOK, Kinds
  <2>3. /\ index' \in 1 .. ParamCount /\ pc' = "post"
        /\ todo' \in (1 .. ParamCount + 1) \X (0 .. ParamCount)
    BY <1>11, <2>1, <2>2, FillsInTypes DEF FetchParam
  <2> QED
    BY <1>11, <2>3 DEF FetchParam, TypeOK
<1>12. CASE Post
  <2>1. box' \in Seq(Mails) /\ Len(box') <= BoxSize
    BY <1>12, PostedTypes DEF Post, Mails
  <2> QED
    BY <1>12, <2>1 DEF Post, TypeOK
<1>13. CASE PostTimesOut
  BY <1>13, GoesTypes DEF PostTimesOut, TypeOK
<1>14. CASE Confirmed
  BY <1>14, GoesTypes DEF Confirmed, TypeOK
<1>15. CASE SendTelemetry
  BY <1>15, PostedTypes DEF SendTelemetry, TypeOK, Mails
<1>16. CASE SendHeartbeat
  BY <1>16, PostedTypes DEF SendHeartbeat, TypeOK, Mails
<1>17. CASE UNCHANGED vars
  BY <1>17 DEF vars, TypeOK
<1> QED
  BY <1>1, <1>2, <1>3, <1>4, <1>5, <1>6, <1>7, <1>8, <1>9, <1>10, <1>11, <1>12,
     <1>13, <1>14, <1>15, <1>16, <1>17, Zenon DEF Next, ParametersStep

(* Every variable keeps its type.                                          *)
THEOREM TypeCorrect == Spec => []TypeOK
BY TypeInit, TypeStep, PTL DEF Spec

-----------------------------------------------------------------------------
(* One value at a time. *)

(* What the number of confirmations says without a number: there is one    *)
(* value in the box, or none.                                              *)
NoValue == InBox("value") = {}

OneValue == \E i \in DOMAIN box : InBox("value") = {i}

ValueInv ==
  /\ pc = "confirm" => (confirm /\ NoValue) \/ (~confirm /\ OneValue)
  /\ pc # "confirm" => ~confirm /\ NoValue

(* The mails other than a value come and go around it.                     *)
LEMMA TakenFromBox ==
  ASSUME TypeOK, box # <<>>, box' = Tail(box)
  PROVE  /\ NoValue => NoValue' /\ Head(box) # "value"
         /\ OneValue /\ Head(box) = "value" => NoValue'
         /\ OneValue /\ Head(box) # "value" => OneValue'
<1> USE DEF InBox, NoValue, OneValue
<1>1. /\ DOMAIN box = 1 .. Len(box) /\ Len(box) \in Nat \ {0}
      /\ DOMAIN box' = 1 .. Len(box) - 1
      /\ \A i \in DOMAIN box' : box'[i] = box[i + 1]
      /\ Head(box) = box[1]
  BY DEF TypeOK
<1>2. ASSUME NoValue PROVE NoValue' /\ Head(box) # "value"
  BY <1>1, <1>2
<1>3. ASSUME OneValue, Head(box) = "value" PROVE NoValue'
  BY <1>1, <1>3
<1>4. ASSUME OneValue, Head(box) # "value" PROVE OneValue'
  <2>1. PICK i \in DOMAIN box : InBox("value") = {i}
    BY <1>4
  <2>2. i - 1 \in DOMAIN box'
    BY <1>1, <1>4, <2>1
  <2>3. InBox("value")' = {i - 1}
    BY <1>1, <2>1, <2>2
  <2> QED
    BY <2>2, <2>3
<1> QED
  BY <1>2, <1>3, <1>4, Zenon

LEMMA AddedToBox ==
  ASSUME TypeOK, NEW mail \in Mails, box' = Append(box, mail)
  PROVE  /\ mail # "value" /\ NoValue => NoValue'
         /\ mail # "value" /\ OneValue => OneValue'
         /\ mail = "value" /\ NoValue => OneValue'
<1> USE DEF InBox, NoValue, OneValue
<1>1. /\ DOMAIN box = 1 .. Len(box) /\ Len(box) \in Nat
      /\ DOMAIN box' = 1 .. Len(box) + 1
      /\ \A i \in DOMAIN box : box'[i] = box[i]
      /\ box'[Len(box) + 1] = mail
  BY DEF TypeOK
<1>2. ASSUME mail # "value" PROVE InBox("value")' = InBox("value")
  BY <1>1, <1>2
<1>3. ASSUME mail = "value", NoValue PROVE InBox("value")' = {Len(box) + 1}
  BY <1>1, <1>3
<1>4. DOMAIN box \subseteq DOMAIN box' /\ Len(box) + 1 \in DOMAIN box'
  BY <1>1
<1> QED
  BY <1>2, <1>3, <1>4

LEMMA AddedAhead ==
  ASSUME TypeOK, box' = <<"ack">> \o box
  PROVE  (NoValue => NoValue') /\ (OneValue => OneValue')
<1> USE DEF InBox, NoValue, OneValue
<1>1. /\ DOMAIN box = 1 .. Len(box) /\ Len(box) \in Nat
      /\ DOMAIN box' = 1 .. Len(box) + 1
      /\ \A i \in DOMAIN box' : box'[i] = IF i = 1 THEN "ack" ELSE box[i - 1]
  BY DEF TypeOK, Mails
<1>2. NoValue => NoValue'
  BY <1>1
<1>3. ASSUME OneValue PROVE OneValue'
  <2>1. PICK i \in DOMAIN box : InBox("value") = {i}
    BY <1>3
  <2>2. i + 1 \in DOMAIN box' /\ InBox("value")' = {i + 1}
    BY <1>1, <2>1
  <2> QED
    BY <2>2
<1> QED
  BY <1>2, <1>3

(* At first there is no value anywhere.                                    *)
LEMMA ValueInit == Init => ValueInv
BY DEF Init, ValueInv, NoValue, InBox

(* Whatever leaves the box, the flag and the position alone.               *)
LEMMA ValueFrame ==
  ASSUME ValueInv, UNCHANGED <<box, confirm, pc>>
  PROVE  ValueInv'
BY DEF ValueInv, NoValue, OneValue, InBox

(* Whoever posts, fetches or confirms keeps the balance.                   *)
LEMMA ValueStep == TypeOK /\ ValueInv /\ [Next]_vars => ValueInv'
<1> SUFFICES ASSUME TypeOK, ValueInv, [Next]_vars
             PROVE  ValueInv'
  OBVIOUS
<1> USE DEF linking, sending, params, input, ground
<1>1. CASE Fetch
  <2>1. box # <<>> /\ box' = Tail(box) /\ pc' = pc
    BY <1>1 DEF Fetch
  <2>2. CASE Head(box) = "value"
    <3>1. OneValue /\ pc = "confirm" /\ confirm'
      BY <1>1, <2>1, <2>2, TakenFromBox DEF Fetch, ValueInv
    <3> QED
      BY <2>1, <2>2, <3>1, TakenFromBox DEF ValueInv
  <2>3. CASE Head(box) # "value"
    <3>1. confirm' = confirm
      BY <1>1, <2>3 DEF Fetch, TypeOK
    <3> QED
      BY <2>1, <2>3, <3>1, TakenFromBox DEF ValueInv
  <2> QED
    BY <2>2, <2>3
<1>2. CASE Write \/ Terminate \/ Ends \/ Spawn \/ AskInVain
  BY <1>2, ValueFrame DEF Write, Terminate, Ends, Spawn, AskInVain
<1>3. CASE Ask \/ AskAgain \/ Command
  BY <1>3, ValueFrame DEF Ask, AskAgain, ParamMessage, Command
<1>4. CASE ProcessCmd
  <2>1. UNCHANGED <<confirm, pc>>
    BY <1>4 DEF ProcessCmd
  <2>2. (NoValue => NoValue') /\ (OneValue => OneValue')
    <3>1. CASE box' = box
      BY <3>1 DEF NoValue, OneValue, InBox
    <3>2. CASE box' = <<"ack">> \o box
      BY <3>2, AddedAhead
    <3> QED
      BY <1>4, <3>1, <3>2 DEF ProcessCmd, Acknowledge
  <2> QED
    BY <2>1, <2>2 DEF ValueInv
<1>5. CASE FetchParam
  <2>1. pc # "confirm" /\ pc' # "confirm" /\ UNCHANGED <<box, confirm>>
    BY <1>5 DEF FetchParam, FillsIn
  <2> QED
    BY <2>1 DEF ValueInv, NoValue, InBox
<1>6. CASE Post
  <2>1. pc # "confirm" /\ pc' = "confirm" /\ confirm' = confirm /\ box' = Append(box, "value")
    BY <1>6 DEF Post
  <2>2. OneValue'
    BY <2>1, AddedToBox DEF ValueInv, Mails
  <2> QED
    BY <2>1, <2>2 DEF ValueInv
<1>7. CASE PostTimesOut
  <2>1. pc # "confirm" /\ pc' # "confirm" /\ UNCHANGED <<box, confirm>>
    BY <1>7 DEF PostTimesOut, Goes, FillsIn
  <2> QED
    BY <2>1 DEF ValueInv, NoValue, InBox
<1>8. CASE Confirmed
  <2>1. pc = "confirm" /\ confirm /\ pc' # "confirm" /\ ~confirm' /\ box' = box
    BY <1>8 DEF Confirmed, ConfirmTimeout, Goes, FillsIn
  <2> QED
    BY <2>1 DEF ValueInv, NoValue, InBox
<1>9. CASE SendTelemetry \/ SendHeartbeat
  <2>1. UNCHANGED <<confirm, pc>>
    BY <1>9 DEF SendTelemetry, SendHeartbeat
  <2>2. PICK mail \in {"sensors", "heartbeat"} : box' = Posted(mail)
    BY <1>9 DEF SendTelemetry, SendHeartbeat
  <2>3. (NoValue => NoValue') /\ (OneValue => OneValue')
    <3>1. CASE box' = box
      BY <3>1 DEF NoValue, OneValue, InBox
    <3>2. CASE box' = Append(box, mail)
      BY <3>2, AddedToBox DEF Mails
    <3> QED
      BY <2>2, <3>1, <3>2 DEF Posted
  <2> QED
    BY <2>1, <2>3 DEF ValueInv
<1>10. CASE UNCHANGED vars
  BY <1>10, ValueFrame DEF vars
<1> QED
  BY <1>1, <1>2, <1>3, <1>4, <1>5, <1>6, <1>7, <1>8, <1>9, <1>10, Zenon
     DEF Next, ParametersStep

(* param.c:259-260: the Parameters thread waits for as many confirmations  *)
(* as there are values on their way, whatever the other threads put before *)
(* and behind them, a full box, a timeout of the post and the shell        *)
(* included.                                                               *)
THEOREM ValueCorrect == Spec => []OneValueAtATime
<1>1. TypeOK /\ ValueInv => OneValueAtATime
  <2> SUFFICES ASSUME TypeOK, ValueInv PROVE OneValueAtATime
    OBVIOUS
  <2>1. NoValue => Cardinality(InBox("value")) = 0
    BY FS_EmptySet DEF NoValue
  <2>2. OneValue => Cardinality(InBox("value")) = 1
    BY FS_Singleton DEF OneValue
  <2> QED
    BY <2>1, <2>2 DEF ValueInv, OneValueAtATime
<1> QED
  BY <1>1, TypeInit, TypeStep, ValueInit, ValueStep, PTL DEF Spec

-----------------------------------------------------------------------------
(* One mail in one place. *)

(* What goes out is never a mail of LinkIn's, so that LinkOut clears no    *)
(* payload that LinkIn asks for; and what LinkIn finds set it has posted.  *)
Outgoing == {"heartbeat", "sensors", "value", "ack"}

Claimed ==
  /\ box \in Seq(Outgoing)
  /\ inbox = payload \ {"heartbeat"}

LEMMA ClaimInit == Init => Claimed
BY DEF Init, Claimed, Outgoing

(* LinkIn posts what it claims.                                            *)
LEMMA ClaimSortIn ==
  ASSUME Claimed, NEW mail \in {"param_set", "command_long"}, NEW kind,
         SortIn(mail, kind), UNCHANGED box
  PROVE  Claimed'
BY DEF Claimed, SortIn

(* Who takes a mail out of its box frees it, and no other.                 *)
LEMMA ClaimStep == TypeOK /\ Claimed /\ [Next]_vars => Claimed'
<1> SUFFICES ASSUME TypeOK, Claimed, [Next]_vars
             PROVE  Claimed'
  OBVIOUS
<1> USE DEF linking, sending, params, input, ground
<1>1. CASE Fetch
  <2>1. box' \in Seq(Outgoing) /\ Head(box) \in Outgoing
    BY <1>1 DEF Fetch, Claimed
  <2>2. Head(box) \notin payload \ {"heartbeat"}
    BY <2>1 DEF TypeOK, Outgoing
  <2> QED
    BY <1>1, <2>1, <2>2 DEF Fetch, Processed, Claimed
<1>2. CASE Write \/ Terminate \/ Ends \/ Spawn \/ AskInVain
  BY <1>2 DEF Write, Terminate, Ends, Spawn, AskInVain, Claimed
<1>3. CASE Ask \/ AskAgain
  <2>1. PICK r : ParamMessage(r)
    BY <1>3 DEF Ask, AskAgain
  <2> QED
    BY <2>1, ClaimSortIn DEF ParamMessage
<1>4. CASE Command
  BY <1>4, ClaimSortIn DEF Command
<1>5. CASE ProcessCmd
  <2>1. <<"ack">> \in Seq(Outgoing) /\ box \in Seq(Outgoing)
    BY DEF Claimed, Outgoing
  <2>2. <<"ack">> \o box \in Seq(Outgoing)
    BY <2>1
  <2>3. box' \in Seq(Outgoing)
    BY <1>5, <2>1, <2>2 DEF ProcessCmd, Acknowledge
  <2> QED
    BY <1>5, <2>3 DEF ProcessCmd, Claimed
<1>6. CASE FetchParam
  BY <1>6 DEF FetchParam, Claimed
<1>7. CASE Post
  BY <1>7 DEF Post, Claimed, Outgoing
<1>8. CASE PostTimesOut \/ Confirmed
  BY <1>8 DEF PostTimesOut, Confirmed, Claimed
<1>9. CASE SendTelemetry
  BY <1>9 DEF SendTelemetry, Posted, Claimed, Outgoing
<1>10. CASE SendHeartbeat
  <2>1. box' \in Seq(Outgoing)
    BY <1>10 DEF SendHeartbeat, Posted, Claimed, Outgoing
  <2> QED
    BY <1>10, <2>1 DEF SendHeartbeat, Claimed
<1>11. CASE UNCHANGED vars
  BY <1>11 DEF vars, Claimed
<1> QED
  BY <1>1, <1>2, <1>3, <1>4, <1>5, <1>6, <1>7, <1>8, <1>9, <1>10, <1>11, Zenon
     DEF Next, ParametersStep

(* link_sortin.c, link_sortout.c: a mail that came in has its payload for  *)
(* as long as it is in the inbox and no longer, and none goes out again.   *)
(* So no request is busy without waiting to be read; what it says is not   *)
(* protected, as its structure is decoded over meanwhile (61).             *)
THEOREM ClaimCorrect == Spec => []Claimed
BY TypeInit, TypeStep, ClaimInit, ClaimStep, PTL DEF Spec
=============================================================================
