-------------------------- MODULE Messages_proofs --------------------------
(***************************************************************************)
(* Proofs about Messages for all parameters and requests: a value that     *)
(* goes out is one the named parameter may have, whoever asks for what; and *)
(* what one client asks for that waits for the node is set as it was sent. *)
(***************************************************************************)
EXTENDS Messages, TLAPS

Names == {Params[i].name : i \in DOMAIN Params}

InBounds(i, v) == v \in {0} \cup Params[i].min .. Params[i].max

IsWhole(pair) == \E i \in DOMAIN Params : pair.name = Params[i].name /\ InBounds(i, pair.value)

(* A request that the Parameters thread is to handle names a parameter.    *)
CellInv ==
  /\ \A kind \in {"set", "read"} : kind \in pending => cell[kind].name \in Names
  /\ \A l \in Links : wire[l] \in Requests /\ HasCell(wire[l]) /\ at[l] = "name" =>
       cell[wire[l].kind].name \in Names
  /\ "list" \in pending => Params # <<>>
  /\ \A l \in Links : at[l] # "sent" => wire[l] # Nothing

RamInv == \A i \in DOMAIN Params : InBounds(i, ram[i])

(* There is something in the structure once it was said that there is.     *)
SlotInv == news # {} \/ (\E l \in Links : packer[l] # "wait") => IsWhole(slot)

(* From the second copy on what was copied is up to date, unless the       *)
(* Parameters thread has written meanwhile; then it is asleep until the    *)
(* packer has made the third, and that one agrees with the structure.      *)
CopyInv == \A l \in Links :
  /\ packer[l] \in {"wait", "send"} => try[l] = 0
  /\ packer[l] \in {"name", "compare"} => try[l] \in 1 .. 3
  /\ packer[l] = "send" => IsWhole(copy[l])
  /\ try[l] = 3 => asleep
  /\ try[l] = 3 \/ (try[l] = 2 /\ ~asleep) =>
       /\ copy[l].value = slot.value
       /\ packer[l] = "compare" => copy[l].name = slot.name

NodeInv == TypeOK /\ CellInv /\ RamInv /\ SlotInv /\ CopyInv

(* A client that waits sends its next request when nothing of the last one *)
(* is left in the node: until then the structure is as it was decoded.     *)
SoleInv ==
  /\ \A l \in Links : wire[l] \in Requests => l \in Speakers /\ pending = {}
  /\ \A l \in Links : wire[l] \in Requests /\ wire[l].kind = "set" =>
       /\ at[l] \in {"value", "name"} => cell["set"].value = wire[l].value
       /\ at[l] = "name" => cell["set"].name = wire[l].name
  /\ "set" \in pending =>
       \E r \in Requests : /\ r.kind = "set" /\ r.target = SysId
                           /\ cell["set"] = [name |-> r.name, value |-> r.value]
  /\ SetsAreSent

-----------------------------------------------------------------------------
(* What is asked for is neither silence nor another message, and names a   *)
(* parameter.                                                              *)
LEMMA RequestFacts ==
  ASSUME NEW r \in Requests
  PROVE  /\ r # Nothing /\ r # Beat /\ r.kind \in {"set", "list", "read"}
         /\ r.value \in Nat /\ r.name \in Names /\ Params # <<>>
<1>1. r.kind \in {"set", "list", "read"} /\ r.value \in Nat /\ r.name \in Names
  BY MessagesAssumption DEF Names
<1>2. r # Nothing /\ r # Beat
  BY <1>1 DEF Nothing, Beat
<1>3. PICK i \in DOMAIN Params : Params[i].name = r.name
  BY <1>1 DEF Names
<1>4. Params # <<>>
  BY <1>3, MessagesAssumption
<1> QED
  BY <1>1, <1>2, <1>4

LEMMA ElementOf ==
  ASSUME NEW Set, NEW seq \in Seq(Set), NEW i \in DOMAIN seq
  PROVE  seq[i] \in Set
OBVIOUS

LEMMA ParamFacts ==
  ASSUME NEW i \in DOMAIN Params
  PROVE  /\ Params[i].min \in Nat /\ Params[i].max \in Nat
         /\ Params[i].min <= Params[i].max /\ Params[i].off \in BOOLEAN
         /\ Params[i].name \in Names
<1>1. Params[i] \in [name : STRING, min : Nat, max : Nat, off : BOOLEAN]
  BY ElementOf, MessagesAssumption
<1>2. Params[i].name \in Names
  BY DEF Names
<1>3. Params[i].min <= Params[i].max
  BY MessagesAssumption
<1> QED
  BY <1>1, <1>2, <1>3

(* key_index_search finds a name that is there.                            *)
LEMMA Indexed ==
  ASSUME NEW name \in Names
  PROVE  IndexOf(name) \in DOMAIN Params /\ Params[IndexOf(name)].name = name
BY DEF Names, IndexOf

(* utils.h, param.c:85-171: whatever a checker is asked to set, the value  *)
(* it leaves is one the parameter may have.                                *)
LEMMA SetInBounds ==
  ASSUME NEW i \in DOMAIN Params, NEW v \in Nat, RamInv
  PROVE  InBounds(i, SetGlobalParam(i, v)) /\ SetGlobalParam(i, v) \in Nat
<1>1. Clamped(v, Params[i]) \in Params[i].min .. Params[i].max
  BY ParamFacts DEF Clamped
<1>2. InBounds(i, ram[i])
  BY DEF RamInv
<1> QED
  BY <1>1, <1>2, ParamFacts DEF InBounds, SetGlobalParam

LEMMA InBoundsIsNat ==
  ASSUME NEW i \in DOMAIN Params, NEW v, InBounds(i, v)
  PROVE  v \in Nat
BY ParamFacts DEF InBounds

(* send_value fills in one whole value.                                    *)
LEMMA SendsWhole ==
  ASSUME NEW i \in DOMAIN Params, NEW v, InBounds(i, v)
  PROVE  /\ [name |-> Params[i].name, value |-> v] \in Pairs
         /\ IsWhole([name |-> Params[i].name, value |-> v])
BY InBoundsIsNat DEF Pairs, IsWhole

LEMMA SamePair ==
  ASSUME NEW a \in Pairs, NEW b \in Pairs, a.name = b.name, a.value = b.value
  PROVE  a = b
BY DEF Pairs

LEMMA NodeInit == Init => NodeInv
<1> SUFFICES ASSUME Init PROVE NodeInv
  OBVIOUS
<1>1. TypeOK
  <2>1. NoPair \in Pairs
    BY DEF Pairs, NoPair
  <2>2. ram \in [DOMAIN Params -> Nat]
    BY ParamFacts DEF Init
  <2>3. todo \in Seq(DOMAIN Params)
    BY DEF Init
  <2> QED
    <3>1. wire \in [Links -> Requests \cup {Nothing, Beat}]
      BY DEF Init
    <3>2. cell \in [{"set", "read"} -> Pairs] /\ copy \in [Links -> Pairs]
      BY <2>1 DEF Init
    <3>3. try \in [Links -> 0 .. Copies]
      BY MessagesAssumption DEF Init
    <3> QED
      BY <2>1, <2>2, <2>3, <3>1, <3>2, <3>3 DEF Init, TypeOK
<1>2. CellInv /\ SlotInv /\ CopyInv
  BY DEF Init, CellInv, SlotInv, CopyInv
<1>3. RamInv
  <2> SUFFICES ASSUME NEW i \in DOMAIN Params PROVE InBounds(i, ram[i])
    BY DEF RamInv
  <2> QED
    BY ParamFacts DEF Init, InBounds
<1> QED
  BY <1>1, <1>2, <1>3 DEF NodeInv

(* Clients and links leave the Parameters thread and the packers alone.    *)
LEMMA Apart ==
  ASSUME RamInv, SlotInv, CopyInv, UNCHANGED <<params, news, packing>>
  PROVE  RamInv' /\ SlotInv' /\ CopyInv'
BY DEF RamInv, SlotInv, CopyInv, params, packing

(* A message is put on a line on which there is none.                      *)
LEMMA PutsStep ==
  ASSUME NodeInv, NEW l \in Links, NEW m \in Requests \cup {Beat}, Puts(l, m),
         client' \in [Links -> Requests \cup {Nothing}]
  PROVE  NodeInv'
<1>1. m # Nothing
  BY RequestFacts DEF Beat, Nothing
<1>2. TypeOK'
  BY DEF NodeInv, TypeOK, Puts, params, packing
<1>3. CellInv'
  BY <1>1 DEF NodeInv, TypeOK, CellInv, Puts
<1>4. RamInv' /\ SlotInv' /\ CopyInv'
  BY Apart DEF NodeInv, Puts
<1> QED
  BY <1>2, <1>3, <1>4 DEF NodeInv

LEMMA ClientStep ==
  ASSUME NodeInv, NEW l \in Links, Ask(l) \/ AskAgain(l) \/ OtherMessage(l)
  PROVE  NodeInv'
<1>0. TypeOK
  BY DEF NodeInv
<1>1. CASE Ask(l)
  <2> PICK r \in Requests : /\ Puts(l, r)
                            /\ client' = [client EXCEPT ![l] = IF r.target = SysId THEN r ELSE Nothing]
    BY <1>1 DEF Ask
  <2>1. client' \in [Links -> Requests \cup {Nothing}]
    BY <1>0 DEF TypeOK
  <2> QED
    BY <2>1, PutsStep
<1>2. CASE AskAgain(l)
  <2>1. client[l] \in Requests /\ Puts(l, client[l]) /\ client' \in [Links -> Requests \cup {Nothing}]
    BY <1>0, <1>2 DEF AskAgain, TypeOK
  <2> QED
    BY <2>1, PutsStep
<1>3. CASE OtherMessage(l)
  <2>1. Puts(l, Beat) /\ client' \in [Links -> Requests \cup {Nothing}]
    BY <1>0, <1>3 DEF OtherMessage, TypeOK
  <2> QED
    BY <2>1, PutsStep
<1> QED
  BY <1>1, <1>2, <1>3

LEMMA ToggleStep ==
  ASSUME NodeInv, NEW l \in Links, Toggle(l)
  PROVE  NodeInv'
<1>1. TypeOK'
  BY DEF NodeInv, TypeOK, Toggle, clients, parsing, params, packing
<1>2. CellInv'
  BY DEF NodeInv, CellInv, Toggle, clients, parsing
<1>3. RamInv' /\ SlotInv' /\ CopyInv'
  BY Apart DEF NodeInv, Toggle
<1> QED
  BY <1>1, <1>2, <1>3 DEF NodeInv

(* What a request has to fill in, and what it leaves there.                *)
LEMMA WritesCell ==
  ASSUME TypeOK, NEW m \in Requests \cup {Nothing, Beat}, NEW field \in {"name", "value"},
         Writes(m, field)
  PROVE  /\ cell' \in [{"set", "read"} -> Pairs]
         /\ \A kind \in {"set", "read"} : cell'[kind].name \in {cell[kind].name} \cup Names
         /\ HasCell(m) => m \in Requests /\ cell'[m.kind][field] = m[field]
         /\ field = "value" =>
              \A kind \in {"set", "read"} : cell'[kind].name = cell[kind].name
<1>1. CASE ~HasCell(m)
  BY <1>1 DEF Writes, TypeOK
<1>2. CASE HasCell(m)
  <2>1. m \in Requests /\ m.kind \in {"set", "read"}
    BY <1>2 DEF HasCell, Nothing, Beat
  <2>2. m.value \in Nat /\ m.name \in Names
    BY <2>1, RequestFacts
  <2>3. cell' = [cell EXCEPT ![m.kind][field] = m[field]]
    BY <1>2 DEF Writes
  <2>4. cell[m.kind] \in Pairs
    BY <2>1 DEF TypeOK
  <2>5. /\ [cell[m.kind] EXCEPT ![field] = m[field]] \in Pairs
        /\ [cell[m.kind] EXCEPT ![field] = m[field]].name \in {cell[m.kind].name} \cup Names
        /\ [cell[m.kind] EXCEPT ![field] = m[field]][field] = m[field]
        /\ field = "value" => [cell[m.kind] EXCEPT ![field] = m[field]].name = cell[m.kind].name
    <3>1. CASE field = "name"
      BY <2>2, <2>4, <3>1 DEF Pairs, Names
    <3>2. CASE field = "value"
      BY <2>2, <2>4, <3>2 DEF Pairs
    <3> QED
      BY <3>1, <3>2
  <2> QED
    BY <2>1, <2>3, <2>5 DEF TypeOK
<1> QED
  BY <1>1, <1>2

(* The unpackers: a structure gets a name before the event comes.          *)
LEMMA UnpackStep ==
  ASSUME NodeInv, NEW l \in Links, TakeHead(l) \/ TakeTail(l) \/ Decode(l)
  PROVE  NodeInv'
<1>0. /\ TypeOK /\ CellInv /\ UNCHANGED <<client, params, news, packing, up>>
      /\ wire[l] \in Requests \cup {Nothing, Beat}
  BY DEF NodeInv, TypeOK, TakeHead, TakeTail, Decode, clients
<1>1. RamInv' /\ SlotInv' /\ CopyInv'
  BY <1>0, Apart DEF NodeInv
<1>2. CASE TakeHead(l)
  <2>1. TypeOK'
    BY <1>0, <1>2 DEF TypeOK, TakeHead, clients, params, packing
  <2>2. CellInv'
    BY <1>0, <1>2 DEF TypeOK, CellInv, TakeHead, clients
  <2> QED
    BY <1>1, <2>1, <2>2 DEF NodeInv
<1>3. CASE TakeTail(l) /\ Completes(l)
  <2>1. /\ at' = [at EXCEPT ![l] = "value"] /\ parser' = "idle" /\ UNCHANGED <<wire, pending>>
        /\ Writes(wire[l], "value") /\ at[l] = "head"
    BY <1>3 DEF TakeTail, Completes
  <2>2. TypeOK'
    BY <1>0, <2>1, WritesCell DEF TypeOK, params, packing
  <2>3. \A kind \in {"set", "read"} : cell'[kind].name = cell[kind].name
    BY <1>0, <2>1, WritesCell
  <2>4. CellInv'
    BY <1>0, <2>1, <2>3 DEF TypeOK, CellInv, HasCell
  <2> QED
    BY <1>1, <2>2, <2>4 DEF NodeInv
<1>4. CASE TakeTail(l) /\ Loses(l)
  <2>1. /\ at' = [at EXCEPT ![l] = "sent"] /\ wire' = [wire EXCEPT ![l] = Nothing]
        /\ parser' \in {"broken", "idle"} /\ UNCHANGED <<cell, pending>>
    BY <1>4 DEF TakeTail, Loses
  <2>2. TypeOK'
    BY <1>0, <2>1 DEF TypeOK, params, packing
  <2>3. CellInv'
    BY <1>0, <2>1, RequestFacts DEF TypeOK, CellInv
  <2> QED
    BY <1>1, <2>2, <2>3 DEF NodeInv
<1>5. CASE Decode(l) /\ at[l] = "value"
  <2>1. /\ at' = [at EXCEPT ![l] = "name"] /\ UNCHANGED <<wire, pending, parser>>
        /\ Writes(wire[l], "name")
    BY <1>5 DEF Decode
  <2>2. TypeOK'
    BY <1>0, <2>1, WritesCell DEF TypeOK, params, packing
  <2>3. /\ \A kind \in {"set", "read"} : cell'[kind].name \in {cell[kind].name} \cup Names
        /\ HasCell(wire[l]) => wire[l] \in Requests /\ cell'[wire[l].kind].name = wire[l].name
    BY <1>0, <2>1, WritesCell
  <2>4. CellInv'
    BY <1>0, <1>5, <2>1, <2>3, RequestFacts DEF TypeOK, CellInv, HasCell
  <2> QED
    BY <1>1, <2>2, <2>4 DEF NodeInv
<1>6. CASE Decode(l) /\ at[l] = "name"
  <2>1. /\ at' = [at EXCEPT ![l] = "sent"] /\ wire' = [wire EXCEPT ![l] = Nothing]
        /\ Broadcast(wire[l]) /\ UNCHANGED <<cell, parser>>
    BY <1>6 DEF Decode
  <2>2. wire[l] # Nothing
    BY <1>0, <1>6 DEF CellInv
  <2>3. \/ pending' = pending
        \/ wire[l] \in Requests /\ pending' = pending \cup {wire[l].kind}
    BY <1>0, <2>1, <2>2 DEF Broadcast, ForUs
  <2>4. TypeOK'
    BY <1>0, <2>1, <2>3, RequestFacts DEF TypeOK, params, packing
  <2>5. CellInv'
    BY <1>0, <1>6, <2>1, <2>3, RequestFacts DEF TypeOK, CellInv, HasCell
  <2> QED
    BY <1>1, <2>4, <2>5 DEF NodeInv
<1> QED
  BY <1>2, <1>3, <1>4, <1>5, <1>6 DEF TakeTail, Decode

(* The Parameters thread writes the structure when no packer makes a third *)
(* copy, nor a second one unless the thread was awake.                     *)
LEMMA ValueStep ==
  ASSUME NodeInv, NEW i \in DOMAIN Params, NEW v, InBounds(i, v),
         slot' = [name |-> Params[i].name, value |-> v], news' = Links, asleep' = TRUE,
         ~asleep \/ \A l \in Links : try[l] < 2, UNCHANGED packing
  PROVE  slot' \in Pairs /\ SlotInv' /\ CopyInv'
<1>1. slot' \in Pairs /\ IsWhole(slot')
  BY SendsWhole
<1>2. SlotInv'
  BY <1>1 DEF SlotInv, IsWhole, InBounds
<1>3. CopyInv'
  <2>1. \A l \in Links : try[l] # 3
    BY DEF NodeInv, CopyInv
  <2> QED
    BY <2>1 DEF NodeInv, CopyInv, IsWhole, InBounds, packing
<1> QED
  BY <1>1, <1>2, <1>3

LEMMA HandleStep ==
  ASSUME NodeInv, Handle
  PROVE  NodeInv'
<1>0. /\ TypeOK /\ CellInv /\ RamInv /\ ~asleep
      /\ UNCHANGED <<clients, parsing, cell, packing, up>>
  BY DEF NodeInv, Handle, ParametersReady
<1>1. CASE "set" \in pending /\ ParamSetHandler /\ pending' = pending \ {"set"}
  <2> DEFINE p == cell["set"]
             i == IndexOf(p.name)
  <2>1. p \in Pairs /\ p.value \in Nat /\ p.name \in Names
    BY <1>0, <1>1 DEF TypeOK, CellInv, Pairs
  <2>2. i \in DOMAIN Params
    BY <2>1, Indexed
  <2>3. /\ ram' = [ram EXCEPT ![i] = SetGlobalParam(i, p.value)] /\ applied' = p
        /\ slot' = [name |-> Params[i].name, value |-> ram'[i]]
        /\ news' = Links /\ asleep' = TRUE /\ UNCHANGED todo
    BY <1>1 DEF ParamSetHandler, AnswersSet, SendsValue
  <2>4. InBounds(i, SetGlobalParam(i, p.value)) /\ SetGlobalParam(i, p.value) \in Nat
    BY <1>0, <2>1, <2>2, SetInBounds
  <2> HIDE DEF i
  <2>5. ram' \in [DOMAIN Params -> Nat] /\ RamInv'
    BY <1>0, <2>2, <2>3, <2>4 DEF TypeOK, RamInv, InBounds
  <2>6. InBounds(i, ram'[i])
    BY <1>0, <2>2, <2>3, <2>4 DEF TypeOK
  <2>7. slot' \in Pairs /\ SlotInv' /\ CopyInv'
    BY <1>0, <2>2, <2>3, <2>6, ValueStep
  <2>8. TypeOK'
    BY <1>0, <1>1, <2>1, <2>3, <2>5, <2>7 DEF TypeOK, clients, parsing, packing
  <2>9. CellInv'
    BY <1>0, <1>1 DEF CellInv, clients, parsing
  <2> QED
    BY <2>5, <2>7, <2>8, <2>9 DEF NodeInv
<1>2. CASE "list" \in pending /\ SendAllValues /\ pending' = pending \ {"list"}
  <2>1. 1 \in DOMAIN Params /\ Len(Params) \in Nat \ {0} /\ DOMAIN Params = 1 .. Len(Params)
    BY <1>0, <1>2, MessagesAssumption DEF CellInv
  <2>2. /\ slot' = [name |-> Params[1].name, value |-> ram[1]]
        /\ news' = Links /\ asleep' = TRUE /\ UNCHANGED <<ram, applied>>
        /\ todo' = [n \in 1 .. Len(Params) - 1 |-> n + 1]
    BY <1>2 DEF SendAllValues, SendsValue, AfterTheFirst
  <2>3. InBounds(1, ram[1]) /\ RamInv'
    BY <1>0, <2>1, <2>2 DEF RamInv, InBounds
  <2>4. slot' \in Pairs /\ SlotInv' /\ CopyInv'
    BY <1>0, <2>1, <2>2, <2>3, ValueStep
  <2>5. todo' \in Seq(DOMAIN Params)
    BY <2>1, <2>2
  <2>6. TypeOK'
    BY <1>0, <1>2, <2>2, <2>4, <2>5 DEF TypeOK, clients, parsing, packing
  <2>7. CellInv'
    BY <1>0, <1>2 DEF CellInv, clients, parsing
  <2> QED
    BY <2>3, <2>4, <2>6, <2>7 DEF NodeInv
<1>3. CASE pending = {"read"} /\ ParamRequestReadHandler /\ pending' = {}
  <2> DEFINE i == IndexOf(cell["read"].name)
  <2>1. i \in DOMAIN Params
    BY <1>0, <1>3, Indexed DEF CellInv
  <2>2. /\ slot' = [name |-> Params[i].name, value |-> ram[i]]
        /\ news' = Links /\ asleep' = TRUE /\ UNCHANGED <<ram, todo, applied>>
    BY <1>3 DEF ParamRequestReadHandler, SendsValue
  <2> HIDE DEF i
  <2>3. InBounds(i, ram[i]) /\ RamInv'
    BY <1>0, <2>1, <2>2 DEF RamInv, InBounds
  <2>4. slot' \in Pairs /\ SlotInv' /\ CopyInv'
    BY <1>0, <2>1, <2>2, <2>3, ValueStep
  <2>5. TypeOK'
    BY <1>0, <1>3, <2>2, <2>4 DEF TypeOK, clients, parsing, packing
  <2>6. CellInv'
    BY <1>0, <1>3 DEF CellInv, clients, parsing
  <2> QED
    BY <2>3, <2>4, <2>5, <2>6 DEF NodeInv
<1> QED
  BY <1>1, <1>2, <1>3 DEF Handle

LEMMA WakeUpStep ==
  ASSUME NodeInv, WakeUp
  PROVE  NodeInv'
<1>0. /\ TypeOK /\ CellInv /\ RamInv /\ \A l \in Links : try[l] < 2
      /\ UNCHANGED <<clients, parsing, cell, pending, ram, applied, packing, up>>
  BY DEF NodeInv, WakeUp
<1>1. CellInv' /\ RamInv'
  BY <1>0 DEF CellInv, RamInv, InBounds, clients, parsing
<1>2. CASE todo = <<>> /\ asleep' = FALSE /\ UNCHANGED <<todo, slot, news>>
  <2>1. TypeOK'
    BY <1>0, <1>2 DEF TypeOK, clients, parsing, packing
  <2>2. SlotInv'
    BY <1>0, <1>2 DEF NodeInv, SlotInv, packing
  <2>3. CopyInv'
    <3>1. \A l \in Links : try'[l] # 2 /\ try'[l] # 3
      BY <1>0 DEF TypeOK, packing
    <3> QED
      BY <1>0, <1>2, <3>1 DEF NodeInv, CopyInv, packing
  <2> QED
    BY <1>1, <2>1, <2>2, <2>3 DEF NodeInv
<1>3. CASE todo # <<>> /\ SendsValue(Head(todo), ram) /\ todo' = Tail(todo)
  <2> DEFINE i == Head(todo)
  <2>1. i \in DOMAIN Params /\ todo' \in Seq(DOMAIN Params)
    BY <1>0, <1>3 DEF TypeOK
  <2>2. /\ slot' = [name |-> Params[i].name, value |-> ram[i]]
        /\ news' = Links /\ asleep' = TRUE
    BY <1>3 DEF SendsValue
  <2> HIDE DEF i
  <2>3. InBounds(i, ram[i])
    BY <1>0, <2>1 DEF RamInv
  <2>4. slot' \in Pairs /\ SlotInv' /\ CopyInv'
    BY <1>0, <2>1, <2>2, <2>3, ValueStep
  <2>5. TypeOK'
    BY <1>0, <2>1, <2>2, <2>4 DEF TypeOK, clients, parsing, packing
  <2> QED
    BY <1>1, <2>4, <2>5 DEF NodeInv
<1> QED
  BY <1>2, <1>3 DEF WakeUp

(* gen_link_packer.py:106, memfunc.c:54-57: a packer.                      *)
LEMMA PackStep ==
  ASSUME Copies >= 3, NodeInv, NEW l \in Links, Pack(l)
  PROVE  NodeInv'
<1>0. /\ TypeOK /\ CellInv /\ RamInv /\ SlotInv /\ CopyInv /\ Copies \in Nat
      /\ UNCHANGED <<wire, parsing, cell, pending, params, up>>
      /\ slot \in Pairs /\ copy[l] \in Pairs /\ try[l] \in 0 .. Copies
  BY MessagesAssumption DEF NodeInv, TypeOK, Pack, PackSend, clients
<1>1. CellInv' /\ RamInv'
  BY <1>0 DEF CellInv, RamInv, InBounds, params, parsing
<1>2. ASSUME CopiesValue(l), UNCHANGED client, news' \subseteq news, IsWhole(slot),
             try[l] \in 0 .. 2, try[l] = 2 => asleep
      PROVE  NodeInv'
  <2>1. /\ copy' = [copy EXCEPT ![l].value = slot.value]
        /\ packer' = [packer EXCEPT ![l] = "name"] /\ try' = [try EXCEPT ![l] = @ + 1]
    BY <1>2 DEF CopiesValue
  <2>2. copy'[l] \in Pairs /\ copy'[l].value = slot.value
    BY <1>0, <2>1 DEF TypeOK, Pairs
  <2>3. TypeOK'
    <3>1. copy' \in [Links -> Pairs]
      BY <1>0, <2>1, <2>2 DEF TypeOK
    <3>2. try' \in [Links -> 0 .. Copies]
      BY <1>0, <1>2, <2>1 DEF TypeOK
    <3> QED
      BY <1>0, <1>2, <2>1, <3>1, <3>2 DEF TypeOK, params, parsing
  <2>4. SlotInv'
    BY <1>0, <1>2 DEF SlotInv, IsWhole, InBounds, params
  <2>5. CopyInv'
    BY <1>0, <1>2, <2>1, <2>2 DEF TypeOK, CopyInv, params, IsWhole, InBounds
  <2> QED
    BY <1>1, <2>3, <2>4, <2>5 DEF NodeInv
<1>3. CASE PackStart(l) /\ UNCHANGED client
  <2>1. /\ CopiesValue(l) /\ news' \subseteq news /\ IsWhole(slot) /\ try[l] = 0
    BY <1>0, <1>3 DEF PackStart, SlotInv, CopyInv
  <2> QED
    BY <1>2, <1>3, <2>1
<1>4. CASE PackCopy(l) /\ UNCHANGED client
  <2>1. /\ copy' = [copy EXCEPT ![l].name = slot.name] /\ packer[l] = "name"
        /\ packer' = [packer EXCEPT ![l] = "compare"] /\ UNCHANGED <<news, try>>
    BY <1>4 DEF PackCopy
  <2>2. /\ copy'[l] \in Pairs /\ copy'[l].name = slot.name /\ copy'[l].value = copy[l].value
    BY <1>0, <2>1 DEF TypeOK, Pairs
  <2>3. TypeOK'
    BY <1>0, <1>4, <2>1, <2>2 DEF TypeOK, params, parsing
  <2>4. SlotInv'
    BY <1>0, <2>1 DEF SlotInv, IsWhole, InBounds, params
  <2>5. CopyInv'
    BY <1>0, <2>1, <2>2 DEF TypeOK, CopyInv, params, IsWhole, InBounds
  <2> QED
    BY <1>1, <2>3, <2>4, <2>5 DEF NodeInv
<1>5. CASE PackCompare(l) /\ UNCHANGED client
  <2>0. packer[l] = "compare" /\ try[l] \in 1 .. 3 /\ IsWhole(slot) /\ UNCHANGED news
    BY <1>0, <1>5 DEF PackCompare, CopyInv, SlotInv
  <2>1. try[l] = 3 \/ (try[l] = 2 /\ ~asleep) => copy[l] = slot
    BY <1>0, <2>0, SamePair DEF CopyInv
  <2>2. CASE CopyDone(l)
    <3>1. copy[l] = slot
      BY <1>0, <2>0, <2>1, <2>2 DEF CopyDone
    <3>2. /\ packer' = [packer EXCEPT ![l] = "send"] /\ try' = [try EXCEPT ![l] = 0]
          /\ UNCHANGED copy
      BY <1>5, <2>2 DEF PackCompare
    <3>3. TypeOK'
      BY <1>0, <1>5, <2>0, <3>2 DEF TypeOK, params, parsing
    <3>4. SlotInv'
      BY <1>0, <2>0, <3>2 DEF SlotInv, IsWhole, InBounds, params
    <3>5. CopyInv'
      BY <1>0, <2>0, <3>1, <3>2 DEF TypeOK, CopyInv, params, IsWhole, InBounds
    <3> QED
      BY <1>1, <3>3, <3>4, <3>5 DEF NodeInv
  <2>3. CASE ~CopyDone(l)
    <3>1. CopiesValue(l)
      BY <1>5, <2>3 DEF PackCompare
    <3>2. try[l] \in 0 .. 2 /\ (try[l] = 2 => asleep)
      BY <2>0, <2>1, <2>3 DEF CopyDone
    <3> QED
      BY <1>2, <1>5, <2>0, <3>1, <3>2
  <2> QED
    BY <2>2, <2>3
<1>6. CASE PackSend(l)
  <2>1. /\ packer' = [packer EXCEPT ![l] = "wait"] /\ copy' = [copy EXCEPT ![l] = NoPair]
        /\ UNCHANGED <<news, try>> /\ packer[l] = "send"
        /\ client' = [client EXCEPT ![l] = IF up[l] /\ IsAnswer(@, copy[l]) THEN Nothing ELSE @]
    BY <1>6 DEF PackSend
  <2>2. NoPair \in Pairs
    BY DEF NoPair, Pairs
  <2>3. TypeOK'
    BY <1>0, <2>1, <2>2 DEF TypeOK, params, parsing
  <2>4. SlotInv'
    BY <1>0, <2>1 DEF TypeOK, SlotInv, IsWhole, InBounds, params
  <2>5. CopyInv'
    BY <1>0, <2>1 DEF TypeOK, CopyInv, params, IsWhole, InBounds
  <2> QED
    BY <1>1, <2>3, <2>4, <2>5 DEF NodeInv
<1> QED
  BY <1>3, <1>4, <1>5, <1>6 DEF Pack, clients

LEMMA NodeStep ==
  ASSUME Copies >= 3
  PROVE  NodeInv /\ [Next]_vars => NodeInv'
<1> SUFFICES ASSUME NodeInv, [Next]_vars PROVE NodeInv'
  OBVIOUS
<1>1. ASSUME NEW l \in Links,
             \/ Ask(l) \/ AskAgain(l) \/ OtherMessage(l) \/ Toggle(l)
             \/ TakeHead(l) \/ TakeTail(l) \/ Decode(l) \/ Pack(l)
      PROVE  NodeInv'
  BY <1>1, ClientStep, ToggleStep, UnpackStep, PackStep
<1>2. CASE UNCHANGED vars
  <2>1. TypeOK'
    BY <1>2 DEF NodeInv, TypeOK, vars, clients, parsing, params, packing
  <2>2. CellInv'
    BY <1>2 DEF NodeInv, CellInv, vars, clients, parsing
  <2>3. RamInv' /\ SlotInv' /\ CopyInv'
    BY <1>2, Apart DEF NodeInv, vars
  <2> QED
    BY <2>1, <2>2, <2>3 DEF NodeInv
<1> QED
  BY <1>1, <1>2, HandleStep, WakeUpStep DEF Next

(* gen_link_packer.py:106, memfunc.c:54-57: with two more copies than the  *)
(* first, whoever asks for what and however impatiently, what a packer     *)
(* sends has a value that the parameter it names may have.                 *)
THEOREM AnswersCorrect ==
  ASSUME Copies >= 3
  PROVE  Spec => []AnswersAreWhole
<1>1. NodeInv => AnswersAreWhole
  BY DEF NodeInv, CopyInv, AnswersAreWhole, IsWhole, InBounds
<1> QED
  BY <1>1, NodeInit, NodeStep, PTL DEF Spec

-----------------------------------------------------------------------------
(* What is left of a request that was taken or lost.                       *)
LEMMA SoleInit == Init => SoleInv
BY RequestFacts DEF Init, SoleInv, SetsAreSent

LEMMA SolePuts ==
  ASSUME NodeInv, SoleInv, NEW l \in Links, NEW m \in Requests \cup {Beat}, Puts(l, m),
         m \in Requests => l \in Speakers /\ pending = {}
  PROVE  SoleInv'
BY RequestFacts DEF NodeInv, TypeOK, SoleInv, SetsAreSent, Puts, params

(* One client on one link, that waits before it asks.                      *)
LEMMA SoleStep ==
  ASSUME \E l \in Links : Speakers \subseteq {l}, ~Impatient, NodeInv, SoleInv, [Next]_vars
  PROVE  SoleInv'
<1>0. TypeOK /\ CellInv
  BY DEF NodeInv
<1>1. ASSUME NEW l \in Links, Ask(l) PROVE SoleInv'
  <2> PICK r \in Requests : Puts(l, r)
    BY <1>1 DEF Ask
  <2>1. l \in Speakers /\ pending = {}
    BY <1>1 DEF Ask, MayAsk, Quiet
  <2> QED
    BY <2>1, SolePuts
<1>2. ASSUME NEW l \in Links, AskAgain(l) PROVE SoleInv'
  <2>1. client[l] \in Requests /\ Puts(l, client[l])
    BY <1>0, <1>2 DEF AskAgain, TypeOK
  <2>2. l \in Speakers /\ pending = {}
    BY <1>2 DEF AskAgain, MayAsk, Quiet
  <2> QED
    BY <2>1, <2>2, SolePuts
<1>3. ASSUME NEW l \in Links, OtherMessage(l) PROVE SoleInv'
  BY <1>3, RequestFacts, SolePuts DEF OtherMessage
<1>4. ASSUME NEW l \in Links, Toggle(l) \/ Pack(l) PROVE SoleInv'
  <2>1. UNCHANGED <<wire, at, cell, pending, applied>>
    BY <1>4 DEF Toggle, Pack, PackSend, clients, parsing, params
  <2> QED
    BY <2>1 DEF SoleInv, SetsAreSent
<1>5. ASSUME NEW l \in Links, TakeHead(l) PROVE SoleInv'
  <2>1. at' = [at EXCEPT ![l] = "head"] /\ UNCHANGED <<wire, cell, pending, applied>>
    BY <1>5 DEF TakeHead, clients, params
  <2> QED
    BY <1>0, <2>1 DEF TypeOK, SoleInv, SetsAreSent
<1>6. ASSUME NEW l \in Links, TakeTail(l), Completes(l) PROVE SoleInv'
  <2>1. /\ at' = [at EXCEPT ![l] = "value"] /\ UNCHANGED <<wire, pending, applied>>
        /\ Writes(wire[l], "value") /\ wire[l] \in Requests \cup {Nothing, Beat}
    BY <1>0, <1>6 DEF TypeOK, TakeTail, Completes, params
  <2>2. HasCell(wire[l]) => wire[l] \in Requests /\ cell'[wire[l].kind].value = wire[l].value
    BY <1>0, <2>1, WritesCell
  <2>3. ~HasCell(wire[l]) => UNCHANGED cell
    BY <2>1 DEF Writes
  <2>4. HasCell(wire[l]) => pending = {} /\ l \in Speakers
    BY <2>2 DEF SoleInv
  <2>5. \A k \in Links : k # l => ~(wire[k] \in Requests /\ wire[l] \in Requests)
    BY DEF SoleInv
  <2> QED
    BY <1>0, <2>1, <2>2, <2>3, <2>4, <2>5 DEF TypeOK, SoleInv, SetsAreSent, HasCell
<1>7. ASSUME NEW l \in Links, TakeTail(l), Loses(l) PROVE SoleInv'
  <2>1. /\ at' = [at EXCEPT ![l] = "sent"] /\ wire' = [wire EXCEPT ![l] = Nothing]
        /\ UNCHANGED <<cell, pending, applied>>
    BY <1>7 DEF TakeTail, Loses, params
  <2> QED
    BY <1>0, <2>1, RequestFacts DEF TypeOK, SoleInv, SetsAreSent
<1>8. ASSUME NEW l \in Links, Decode(l), at[l] = "value" PROVE SoleInv'
  <2>1. /\ at' = [at EXCEPT ![l] = "name"] /\ UNCHANGED <<wire, pending, applied>>
        /\ Writes(wire[l], "name") /\ wire[l] \in Requests \cup {Nothing, Beat}
    BY <1>0, <1>8 DEF TypeOK, Decode, params
  <2>2. HasCell(wire[l]) => wire[l] \in Requests /\ cell'[wire[l].kind].name = wire[l].name
    BY <1>0, <2>1, WritesCell
  <2>3. ~HasCell(wire[l]) => UNCHANGED cell
    BY <2>1 DEF Writes
  <2>4. HasCell(wire[l]) => pending = {} /\ l \in Speakers
    BY <2>2 DEF SoleInv
  <2>5. \A k \in Links : k # l => ~(wire[k] \in Requests /\ wire[l] \in Requests)
    BY DEF SoleInv
  <2>6. wire[l] \in Requests /\ wire[l].kind = "set" => cell'["set"].value = cell["set"].value
    BY <1>0, <2>1 DEF TypeOK, Writes, HasCell, Pairs
  <2> QED
    BY <1>0, <1>8, <2>1, <2>2, <2>3, <2>4, <2>5, <2>6 DEF TypeOK, SoleInv, SetsAreSent, HasCell
<1>9. ASSUME NEW l \in Links, Decode(l), at[l] = "name" PROVE SoleInv'
  <2>1. /\ at' = [at EXCEPT ![l] = "sent"] /\ wire' = [wire EXCEPT ![l] = Nothing]
        /\ Broadcast(wire[l]) /\ UNCHANGED <<cell, applied>>
    BY <1>9 DEF Decode, params
  <2>2. wire[l] # Nothing /\ wire[l] \in Requests \cup {Nothing, Beat}
    BY <1>0, <1>9 DEF TypeOK, CellInv
  <2>3. CASE pending' = pending
    BY <1>0, <2>1, <2>3, RequestFacts DEF TypeOK, SoleInv, SetsAreSent
  <2>4. CASE wire[l] \in Requests /\ wire[l].target = SysId /\ pending' = pending \cup {wire[l].kind}
    <3>1. pending = {} /\ l \in Speakers
      BY <2>4 DEF SoleInv
    <3>2. \A k \in Links : wire'[k] \notin Requests
      BY <1>0, <2>1, <3>1, RequestFacts DEF TypeOK, SoleInv
    <3>3. wire[l].kind = "set" => cell["set"] = [name |-> wire[l].name, value |-> wire[l].value]
      BY <1>0, <1>9, <2>4 DEF TypeOK, SoleInv, Pairs
    <3>4. "set" \in pending' => wire[l].kind = "set"
      BY <2>4, <3>1
    <3> QED
      BY <2>1, <2>4, <3>2, <3>3, <3>4 DEF SoleInv, SetsAreSent
  <2> QED
    BY <2>1, <2>2, <2>3, <2>4 DEF Broadcast, ForUs
<1>10. CASE Handle
  <2>1. /\ pending # {} /\ pending' \subseteq pending /\ UNCHANGED <<wire, at, cell>>
        /\ UNCHANGED applied \/ ("set" \in pending /\ applied' = cell["set"])
    BY <1>10 DEF Handle, ParametersReady, ParamSetHandler, SendAllValues,
       ParamRequestReadHandler, clients, parsing
  <2>2. \A l \in Links : wire[l] \notin Requests
    BY <2>1 DEF SoleInv
  <2>3. SetsAreSent'
    BY <2>1 DEF SoleInv, SetsAreSent
  <2> QED
    BY <2>1, <2>2, <2>3 DEF SoleInv
<1>11. CASE WakeUp \/ UNCHANGED vars
  <2>1. UNCHANGED <<wire, at, cell, pending, applied>>
    BY <1>11 DEF WakeUp, vars, clients, parsing, params
  <2> QED
    BY <2>1 DEF SoleInv, SetsAreSent
<1> QED
  BY <1>1, <1>2, <1>3, <1>4, <1>5, <1>6, <1>7, <1>8, <1>9, <1>10, <1>11
     DEF Next, TakeTail, Decode

(* param.c:231, gen_link_packer.py:106: a client that waits for the node   *)
(* and has the only link on which anybody asks sets what it asked for and  *)
(* nothing else, and gets whole answers.                                   *)
THEOREM MessagesCorrect ==
  ASSUME Copies >= 3, \E l \in Links : Speakers \subseteq {l}, ~Impatient
  PROVE  Spec => []MessagesAreWhole
<1>1. NodeInv /\ SoleInv => MessagesAreWhole
  BY DEF NodeInv, SoleInv, CopyInv, AnswersAreWhole, IsWhole, InBounds, MessagesAreWhole
<1>2. NodeInv /\ SoleInv /\ [Next]_vars => SoleInv'
  BY SoleStep
<1> QED
  BY <1>1, <1>2, NodeInit, NodeStep, SoleInit, PTL DEF Spec
=============================================================================
