------------------------------ MODULE Messages ------------------------------
(***************************************************************************)
(* Requests for parameters on the BNAP node (src/soft/bnap): the two       *)
(* unpackers, which share one parser state and one structure for each kind *)
(* of message, the Parameters thread (param/param.c), which reads those    *)
(* structures and writes mavlink_param_value_struct, and the packers,      *)
(* which copy that one with memcpy_ts (utils/memfunc.c) and send it on     *)
(* both links.                                                             *)
(*                                                                         *)
(* Threads have priorities (Parameters above the CC link above the DM      *)
(* link) and no time slices (CH_TIME_QUANTUM is 0).  A message is read in  *)
(* two parts, and a structure is written and copied in two parts, its      *)
(* value and its name.  Requests name parameters that exist.               *)
(***************************************************************************)
EXTENDS Integers, Sequences

CONSTANTS
  Params,     (* GlobalParam: a sequence of [name, min, max, off]          *)
  Requests,   (* what clients may ask: [kind, name, value, target]         *)
  Speakers,   (* the links on which they ask for parameters                *)
  Impatient,  (* whether they ask again while the node is at their request *)
  Flaky,      (* the links whose port is not always ready                  *)
  SysId,      (* mavlink_system_struct.sysid                               *)
  Copies      (* the most copies a call of memcpy_ts makes                 *)

Links == {"cc", "dm"}

ASSUME MessagesAssumption ==
  /\ Speakers \subseteq Links /\ Flaky \subseteq Links /\ Impatient \in BOOLEAN
  /\ Copies \in Nat \ {0}
  /\ Params \in Seq([name : STRING, min : Nat, max : Nat, off : BOOLEAN])
  /\ \A i \in DOMAIN Params : Params[i].min <= Params[i].max
  /\ \A r \in Requests : /\ r.kind \in {"set", "list", "read"} /\ r.value \in Nat
                         /\ \E i \in DOMAIN Params : Params[i].name = r.name

VARIABLES
  client,   (* what the client on each link waits for, or Nothing          *)
  wire,     (* the message on its way into each unpacker, or Nothing       *)
  at,       (* how far it is: sent, head, value, name                      *)
  parser,   (* the link whose message MAVLINK_COMM_0 collects, or idle, or *)
            (* broken: it has bytes of both                                *)
  cell,     (* mavlink_param_set_struct, mavlink_param_request_read_struct *)
  pending,  (* events for the Parameters thread                            *)
  asleep,   (* it pauses after it has sent a value                         *)
  todo,     (* the parameters it still has to send                         *)
  ram,      (* gp_val                                                      *)
  slot,     (* mavlink_param_value_struct                                  *)
  news,     (* links with a pending EVMSK_MAVLINK_PARAM_VALUE              *)
  packer,   (* where each packer is: wait, name, compare, send             *)
  copy, try,(* its copy of the slot, the copies it has begun               *)
  up,       (* cc_port_ready, dm_port_ready                                *)
  applied   (* history: the last [name, value] given to set_global_param   *)

clients == <<client, wire>>
parsing == <<at, parser>>
params  == <<asleep, todo, ram, slot, applied>>
packing == <<packer, copy, try>>
vars == <<clients, parsing, cell, pending, params, news, packing, up>>

Nothing == [kind |-> "nothing"]

Beat == [kind |-> "heartbeat"]

NoPair == [name |-> "none", value |-> 0]

(* load_params_from_eeprom left values in range.                           *)
Init ==
  /\ client = [l \in Links |-> Nothing] /\ wire = [l \in Links |-> Nothing]
  /\ at = [l \in Links |-> "sent"] /\ parser = "idle"
  /\ cell = [kind \in {"set", "read"} |-> NoPair] /\ pending = {}
  /\ asleep = FALSE /\ todo = <<>> /\ slot = NoPair /\ applied = NoPair
  /\ ram = [i \in DOMAIN Params |-> Params[i].max]
  /\ news = {}
  /\ packer = [l \in Links |-> "wait"] /\ copy = [l \in Links |-> NoPair]
  /\ try = [l \in Links |-> 0]
  /\ up = [l \in Links |-> TRUE]

-----------------------------------------------------------------------------
(* The clients. *)

(* Nothing of a request is left in the node.                               *)
Quiet ==
  /\ pending = {} /\ news = {} /\ ~asleep
  /\ \A l \in Links : packer[l] = "wait"

MayAsk(l) == l \in Speakers /\ wire[l] = Nothing /\ (Impatient \/ Quiet)

Puts(l, m) ==
  /\ wire' = [wire EXCEPT ![l] = m]
  /\ at' = [at EXCEPT ![l] = "sent"]
  /\ UNCHANGED <<parser, cell, pending, params, news, packing, up>>

(* A request for another system gets no answer. *)
Ask(l) ==
  /\ client[l] = Nothing /\ MayAsk(l)
  /\ \E r \in Requests :
       /\ Puts(l, r)
       /\ client' = [client EXCEPT ![l] = IF r.target = SysId THEN r ELSE Nothing]

AskAgain(l) ==
  /\ client[l] # Nothing /\ MayAsk(l)
  /\ Puts(l, client[l])
  /\ UNCHANGED client

(* Other messages come on both links.                                      *)
OtherMessage(l) ==
  /\ wire[l] = Nothing
  /\ Puts(l, Beat)
  /\ UNCHANGED client

Toggle(l) ==
  /\ l \in Flaky
  /\ up' = [up EXCEPT ![l] = ~up[l]]
  /\ UNCHANGED <<clients, parsing, cell, pending, params, news, packing>>

-----------------------------------------------------------------------------
(* The unpackers. *)

ParametersReady == pending # {} /\ ~asleep

Decoding(l) == at[l] \in {"value", "name"}

MayRun(l) == ~ParametersReady /\ (l = "dm" => ~Decoding("cc"))

(* mavlink_parse_char(MAVLINK_COMM_0) up to the last bytes of a message.   *)
TakeHead(l) ==
  /\ wire[l] # Nothing /\ at[l] = "sent" /\ up[l] /\ MayRun(l)
  /\ at' = [at EXCEPT ![l] = "head"]
  /\ parser' = IF parser = "idle" THEN l ELSE "broken"
  /\ UNCHANGED <<clients, cell, pending, params, news, packing, up>>

HasCell(m) == m.kind \in {"set", "read"}

(* mavlink_msg_..._decode writes the structure everybody shares ...        *)
Writes(m, field) ==
  cell' = IF HasCell(m) THEN [cell EXCEPT ![m.kind][field] = m[field]] ELSE cell

Completes(l) ==
  /\ parser = l
  /\ at' = [at EXCEPT ![l] = "value"] /\ parser' = "idle"
  /\ Writes(wire[l], "value")
  /\ UNCHANGED wire

(* With bytes of both links in it the checksum is wrong.                   *)
Loses(l) ==
  /\ parser # l
  /\ wire' = [wire EXCEPT ![l] = Nothing] /\ at' = [at EXCEPT ![l] = "sent"]
  /\ parser' = IF parser \in Links THEN "broken" ELSE "idle"
  /\ UNCHANGED cell

TakeTail(l) ==
  /\ at[l] = "head" /\ up[l] /\ MayRun(l)
  /\ Completes(l) \/ Loses(l)
  /\ UNCHANGED <<client, pending, params, news, packing, up>>

ForUs(m) == m # Beat /\ m.target = SysId

Broadcast(m) == pending' = IF ForUs(m) THEN pending \cup {m.kind} ELSE pending

(* ... the event comes after that, if target_system is this one.           *)
Decode(l) ==
  /\ MayRun(l) /\ Decoding(l)
  /\ \/ /\ at[l] = "value"
        /\ Writes(wire[l], "name")
        /\ at' = [at EXCEPT ![l] = "name"]
        /\ UNCHANGED <<wire, pending>>
     \/ /\ at[l] = "name"
        /\ Broadcast(wire[l])
        /\ wire' = [wire EXCEPT ![l] = Nothing] /\ at' = [at EXCEPT ![l] = "sent"]
        /\ UNCHANGED cell
  /\ UNCHANGED <<client, parser, params, news, packing, up>>

-----------------------------------------------------------------------------
(* The Parameters thread. *)

(* putinrange *)
Clamped(v, p) ==
  IF v <= p.min THEN p.min ELSE IF v >= p.max THEN p.max ELSE v

(* key_index_search *)
IndexOf(name) == CHOOSE i \in DOMAIN Params : Params[i].name = name

(* _sendtmo_param_checker lets a zero through, _uint_param_checker leaves  *)
(* a value alone that is there already.                                    *)
SetGlobalParam(i, v) ==
  IF (Params[i].off /\ v = 0) \/ (~Params[i].off /\ ram[i] = v)
  THEN v
  ELSE Clamped(v, Params[i])

(* send_value fills in the structure, broadcasts and sleeps.               *)
SendsValue(i, values) ==
  /\ slot' = [name |-> Params[i].name, value |-> values[i]]
  /\ news' = Links
  /\ asleep' = TRUE

AnswersChanges(i) ==
  IF ram'[i] # ram[i]
  THEN SendsValue(i, ram')
  ELSE UNCHANGED <<slot, news, asleep>>

(* Every set is answered, whatever its status.                             *)
AnswersSet(i) == SendsValue(i, ram')

ParamSetHandler ==
  LET p == cell["set"]
      i == IndexOf(p.name)
  IN  /\ ram' = [ram EXCEPT ![i] = SetGlobalParam(i, p.value)]
      /\ applied' = p
      /\ AnswersSet(i)
      /\ UNCHANGED todo

(* The values after the first are sent when the thread wakes up.           *)
AfterTheFirst == [i \in 1 .. Len(Params) - 1 |-> i + 1]

SendAllValues ==
  /\ SendsValue(1, ram)
  /\ todo' = AfterTheFirst
  /\ UNCHANGED <<ram, applied>>

ParamRequestReadHandler ==
  /\ SendsValue(IndexOf(cell["read"].name), ram)
  /\ UNCHANGED <<ram, todo, applied>>

(* chEvtWaitOne gives the lowest bit first.                                *)
Handle ==
  /\ ParametersReady
  /\ \/ /\ "set" \in pending
        /\ ParamSetHandler
        /\ pending' = pending \ {"set"}
     \/ /\ "set" \notin pending /\ "list" \in pending
        /\ SendAllValues
        /\ pending' = pending \ {"list"}
     \/ /\ pending = {"read"}
        /\ ParamRequestReadHandler
        /\ pending' = {}
  /\ UNCHANGED <<clients, parsing, cell, packing, up>>

(* SEND_VALUE_PAUSE is over: it outlasts a packer's call of memcpy_ts,     *)
(* which therefore meets one new value at most.                            *)
WakeUp ==
  /\ asleep
  /\ \A l \in Links : try[l] < 2
  /\ IF todo = <<>>
     THEN asleep' = FALSE /\ UNCHANGED <<todo, slot, news>>
     ELSE SendsValue(Head(todo), ram) /\ todo' = Tail(todo)
  /\ UNCHANGED <<clients, parsing, cell, pending, ram, applied, packing, up>>

-----------------------------------------------------------------------------
(* The packers. *)

CopiesValue(l) ==
  /\ copy' = [copy EXCEPT ![l].value = slot.value]
  /\ packer' = [packer EXCEPT ![l] = "name"]
  /\ try' = [try EXCEPT ![l] = @ + 1]

PackStart(l) ==
  /\ packer[l] = "wait" /\ l \in news
  /\ news' = news \ {l}
  /\ CopiesValue(l)

PackCopy(l) ==
  /\ packer[l] = "name"
  /\ copy' = [copy EXCEPT ![l].name = slot.name]
  /\ packer' = [packer EXCEPT ![l] = "compare"]
  /\ UNCHANGED <<news, try>>

CopiesOnce(l) == TRUE

(* memcpy_ts is done when the copy agrees with the source, or when its     *)
(* tries are used up: how it went is not looked at.                        *)
CopyDone(l) == copy[l] = slot \/ try[l] = Copies

PackCompare(l) ==
  /\ packer[l] = "compare"
  /\ IF CopyDone(l)
     THEN /\ packer' = [packer EXCEPT ![l] = "send"]
          /\ try' = [try EXCEPT ![l] = 0]
          /\ UNCHANGED copy
     ELSE CopiesValue(l)
  /\ UNCHANGED news

(* The value a client waits for: of a list the last one.                   *)
IsAnswer(r, pair) ==
  /\ r # Nothing
  /\ pair.name = IF r.kind = "list" THEN Params[Len(Params)].name ELSE r.name

PackSend(l) ==
  /\ packer[l] = "send"
  /\ packer' = [packer EXCEPT ![l] = "wait"]
  /\ copy' = [copy EXCEPT ![l] = NoPair]
  /\ client' = [client EXCEPT ![l] = IF up[l] /\ IsAnswer(@, copy[l]) THEN Nothing ELSE @]
  /\ UNCHANGED <<wire, parsing, cell, pending, params, news, try, up>>

Pack(l) ==
  /\ ~ParametersReady
  /\ \/ /\ PackStart(l) \/ PackCopy(l) \/ PackCompare(l)
        /\ UNCHANGED <<clients, parsing, cell, pending, params, up>>
     \/ PackSend(l)

-----------------------------------------------------------------------------
Next ==
  \/ \E l \in Links :
       \/ Ask(l) \/ AskAgain(l) \/ OtherMessage(l) \/ Toggle(l)
       \/ TakeHead(l) \/ TakeTail(l) \/ Decode(l) \/ Pack(l)
  \/ Handle \/ WakeUp

Spec == Init /\ [][Next]_vars

(* Threads run, clients ask again, and the links have pauses long enough   *)
(* for an exchange: from some time on only requests come.                  *)
FairSpec ==
  /\ Spec
  /\ \A l \in Links :
       /\ WF_vars(AskAgain(l)) /\ WF_vars(TakeHead(l)) /\ WF_vars(TakeTail(l))
       /\ WF_vars(Decode(l)) /\ WF_vars(Pack(l))
  /\ WF_vars(Handle) /\ WF_vars(WakeUp)
  /\ <>[][\A l \in Links : ~OtherMessage(l)]_vars

-----------------------------------------------------------------------------
Pairs == [name : {Params[i].name : i \in DOMAIN Params} \cup {"none"}, value : Nat]

TypeOK ==
  /\ client \in [Links -> Requests \cup {Nothing}]
  /\ wire \in [Links -> Requests \cup {Nothing, Beat}]
  /\ at \in [Links -> {"sent", "head", "value", "name"}]
  /\ parser \in Links \cup {"idle", "broken"}
  /\ cell \in [{"set", "read"} -> Pairs] /\ pending \subseteq {"set", "list", "read"}
  /\ asleep \in BOOLEAN /\ todo \in Seq(DOMAIN Params)
  /\ ram \in [DOMAIN Params -> Nat] /\ slot \in Pairs /\ applied \in Pairs
  /\ news \subseteq Links
  /\ packer \in [Links -> {"wait", "name", "compare", "send"}]
  /\ copy \in [Links -> Pairs] /\ try \in [Links -> 0 .. Copies]
  /\ up \in [Links -> BOOLEAN]

(* param.c:231 "local copy for thread safety": what is set into a          *)
(* parameter is what one message asked for, never the value of one message *)
(* under the name of another.                                              *)
SetsAreSent ==
  applied = NoPair \/ \E r \in Requests : /\ r.kind = "set" /\ r.target = SysId
                                          /\ applied = [name |-> r.name, value |-> r.value]

(* gen_link_packer.py:106: a message that goes out has the value of the    *)
(* parameter it names, although the Parameters thread may write the        *)
(* structure while it is copied.                                           *)
AnswersAreWhole ==
  \A l \in Links : packer[l] = "send" =>
    \E i \in DOMAIN Params : /\ copy[l].name = Params[i].name
                             /\ copy[l].value \in {0} \cup Params[i].min .. Params[i].max

(* A client that waits for the node is the only one that sets anything,    *)
(* and what goes out is whole.                                             *)
MessagesAreWhole == TypeOK /\ SetsAreSent /\ AnswersAreWhole

(* param.c:224: a client that repeats its request gets the answer, however *)
(* often one is lost on the way in or out, if its link stays up.           *)
AnswerComes == \A l \in Speakers : client[l] # Nothing ~> (client[l] = Nothing \/ ~up[l])
=============================================================================
