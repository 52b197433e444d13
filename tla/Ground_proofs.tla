--------------------------- MODULE Ground_proofs ---------------------------
(***************************************************************************)
(* Proofs about the programs on the ground, for a file of any length, a    *)
(* line that loses any number of tokens, and a port with any buffer to     *)
(* which any number of bytes come.                                         *)
(***************************************************************************)
EXTENDS MCGround, SequenceTheorems, WellFoundedInduction, TLAPS

(* What is on the way to and from the chip. *)
A == Flash!Says("ack", "none")
N == Flash!Says("nack", "none")
I == Flash!Says("info", "none")
D == Flash!Says("data", flash[block])
Token(w) == [what |-> w, block |-> block]

Quiet == down = <<>> /\ up = <<>>

Awaits(w, Done) ==
  \/ Quiet
  \/ down = <<Token(w)>> /\ up = <<>>
  \/ down = <<>> /\ up = <<N>>
  \/ down = <<>> /\ up = <<A>> /\ Done

FlashStates == {"erased", "old", "new", "mixed"}

PositionTypes ==
  /\ cmd \in {"sync", "get", "id", "erase", "write", "read", "end"}
  /\ cmd # "end" => at \in 1 .. Len(Flash!Steps[cmd])
  /\ block \in 1 .. Blocks
  /\ cmd \notin {"write", "read"} => block = 1

LoaderTypes ==
  /\ PositionTypes
  /\ job \in Flash!Jobs /\ data \in Seq(FlashStates)
  /\ outcome \in {"going", "exception", "ok", "failed", "done"}
  /\ released \in BOOLEAN
  /\ flash \in [1 .. Blocks -> FlashStates]

(* What the first token may have left.                                     *)
Begun ==
  \/ down = <<Token("sync")>> /\ up = <<>> /\ chip \in {"sync", "mute"}
  \/ Quiet
  \/ down = <<>> /\ up = <<A>> /\ chip = "command"

(* The program does not wait for a chip that does not answer the first     *)
(* token; what it hears of that is out of the way once the chip has told   *)
(* what it can do.                                                         *)
GetInv ==
  /\ at = 1 => Begun
  /\ at = 2 => \/ down = <<Token("sync"), Token("get")>> /\ up = <<>> /\ chip \in {"sync", "mute"}
               \/ down = <<Token("get")>> /\ up = <<>>
               \/ down = <<Token("get")>> /\ up = <<A>> /\ chip = "command"
               \/ down = <<>> /\ up \in {<<A, A, I, A>>, <<A, I, A>>, <<I, A>>, <<A>>, <<>>, <<N>>}
  /\ at = 3 => \/ down = <<Token("get")>> /\ up = <<>> /\ chip = "command"
               \/ down = <<>> /\ up \in {<<A, I, A>>, <<I, A>>, <<A>>, <<>>}
  /\ at = 4 => down = <<>> /\ up \in {<<A>>, <<>>}

IdInv ==
  /\ at = 1 => Quiet
  /\ at = 2 => \/ down = <<Token("id")>> /\ up = <<>>
               \/ down = <<>> /\ up \in {<<A, I, A>>, <<I, A>>, <<A>>, <<>>, <<N>>}
  /\ at = 3 => down = <<>> /\ up \in {<<I, A>>, <<A>>, <<>>}
  /\ at = 4 => down = <<>> /\ up \in {<<A>>, <<>>}

(* From then on an acknowledgement that comes is that of what was said     *)
(* last.                                                                   *)
EraseInv ==
  /\ at \in {1, 3} => Quiet
  /\ at = 2 => Awaits("erase", TRUE)
  /\ at = 4 => Awaits("all", \A b \in 1 .. Blocks : flash[b] = "erased")

WriteInv ==
  /\ at \in {1, 3, 5} => Quiet
  /\ at = 2 => Awaits("write", TRUE)
  /\ at = 4 => Awaits("address", place = block)
  /\ at = 6 => Awaits("data", job.erase => flash[block] = "new")
  /\ at > 4 => place = block

ReadInv ==
  /\ at \in {1, 3, 5} => Quiet
  /\ at = 2 => Awaits("read", TRUE)
  /\ at = 4 => Awaits("address", place = block)
  /\ at = 6 => \/ down = <<Token("length")>> /\ up = <<>>
               \/ down = <<>> /\ up \in {<<A, D>>, <<D>>, <<>>, <<N>>}
  /\ at = 7 => down = <<>> /\ up \in {<<D>>, <<>>}
  /\ at > 4 => place = block

LineInv ==
  /\ cmd = "sync" => /\ at = 1 => Quiet /\ chip \in {"sync", "mute"}
                     /\ at = 2 => Begun
  /\ cmd = "get" => GetInv
  /\ cmd = "id" => IdInv
  /\ cmd = "erase" => EraseInv
  /\ cmd = "write" => WriteInv
  /\ cmd = "read" => ReadInv
  /\ cmd = "end" => Quiet

(* The blocks before the one that is written are written, the others are   *)
(* erased.                                                                 *)
FlashInv ==
  job.erase /\ job.write =>
    /\ cmd = "write" =>
         /\ \A b \in 1 .. Blocks : b < block => flash[b] = "new"
         /\ \A b \in 1 .. Blocks : b > block => flash[b] = "erased"
         /\ flash[block] = "erased" \/ (at = 6 /\ flash[block] = "new")
    /\ cmd \in {"read", "end"} => flash = Flash!File

(* If no block is missing from what was read it is what there is.          *)
DataInv ==
  /\ cmd \notin {"read", "end"} => data = <<>>
  /\ cmd = "read" =>
       /\ job.verify /\ Len(data) < block
       /\ (Len(data) = block - 1 => \A i \in 1 .. block - 1 : data[i] = flash[i])
  /\ cmd = "end" /\ job.verify =>
       /\ Len(data) <= Blocks
       /\ (Len(data) = Blocks => \A i \in 1 .. Blocks : data[i] = flash[i])
  /\ outcome # "going" => cmd = "end"
  /\ outcome = "ok" => job.verify /\ data = Flash!File
  /\ cmd = "write" => job.write

Live == outcome # "exception" /\ ~released

LoaderInv ==
  /\ LoaderTypes
  /\ released => Quiet /\ outcome # "going"
  /\ Live => LineInv /\ FlashInv /\ DataInv

-----------------------------------------------------------------------------
LEMMA Lengths ==
  /\ Len(Flash!Steps["sync"]) = 2 /\ Len(Flash!Steps["get"]) = 4
  /\ Len(Flash!Steps["id"]) = 4 /\ Len(Flash!Steps["erase"]) = 4
  /\ Len(Flash!Steps["write"]) = 6 /\ Len(Flash!Steps["read"]) = 7
BY DEF Flash!Steps, Flash!Asks

LEMMA LengthOf ==
  ASSUME NEW c
  PROVE  /\ c = "sync" => Len(Flash!Steps[c]) = 2
         /\ c \in {"get", "id", "erase"} => Len(Flash!Steps[c]) = 4
         /\ c = "write" => Len(Flash!Steps[c]) = 6
         /\ c = "read" => Len(Flash!Steps[c]) = 7
BY Lengths

LEMMA StepsOf ==
  /\ Flash!Steps["sync"][1] = Flash!Send("sync") /\ Flash!Steps["sync"][2] = Flash!Ack
  /\ \A c \in {"get", "id"} :
       /\ Flash!Steps[c][1] = Flash!Send(c) /\ Flash!Steps[c][2] = Flash!Ack
       /\ Flash!Steps[c][3] = Flash!Take("info") /\ Flash!Steps[c][4] = Flash!Ack
  /\ Flash!Steps["erase"][1] = Flash!Send("erase") /\ Flash!Steps["erase"][2] = Flash!Ack
  /\ Flash!Steps["erase"][3] = Flash!Send("all") /\ Flash!Steps["erase"][4] = Flash!Ack
  /\ \A c \in {"write", "read"} :
       /\ Flash!Steps[c][1] = Flash!Send(c) /\ Flash!Steps[c][2] = Flash!Ack
       /\ Flash!Steps[c][3] = Flash!Send("address") /\ Flash!Steps[c][4] = Flash!Ack
       /\ Flash!Steps[c][5] = Flash!Send(IF c = "write" THEN "data" ELSE "length")
       /\ Flash!Steps[c][6] = Flash!Ack
  /\ Flash!Steps["read"][7] = Flash!Take("data")
BY DEF Flash!Steps, Flash!Asks

(* Sequences of the tokens on the line. *)
LEMMA TwoTokens ==
  ASSUME NEW x, NEW y
  PROVE  Append(<<x>>, y) = <<x, y>> /\ <<x>> \o <<y>> = <<x, y>>
<1> DEFINE S == {x, y}
<1>1. x \in S /\ y \in S
  OBVIOUS
<1> HIDE DEF S
<1>2. \A s \in Seq(S) : Len(s) = 2 /\ s[1] = x /\ s[2] = y => s = <<x, y>>
  BY <1>1
<1>3. /\ Append(<<x>>, y) \in Seq(S) /\ Len(Append(<<x>>, y)) = 2
      /\ Append(<<x>>, y)[1] = x /\ Append(<<x>>, y)[2] = y
  BY <1>1
<1>4. /\ <<x>> \o <<y>> \in Seq(S) /\ Len(<<x>> \o <<y>>) = 2
      /\ (<<x>> \o <<y>>)[1] = x /\ (<<x>> \o <<y>>)[2] = y
  BY <1>1
<1> QED
  BY <1>2, <1>3, <1>4

LEMMA ThreeTokens ==
  ASSUME NEW x, NEW y, NEW z
  PROVE  <<x, y>> \o <<z>> = <<x, y, z>>
<1> DEFINE S == {x, y, z}
           t == <<x, y>> \o <<z>>
<1>1. x \in S /\ y \in S /\ z \in S
  OBVIOUS
<1> HIDE DEF S
<1>2. t \in Seq(S) /\ Len(t) = 3 /\ t[1] = x /\ t[2] = y /\ t[3] = z
  BY <1>1
<1> HIDE DEF t
<1>3. t = <<x, y, z>>
  BY <1>1, <1>2
<1> QED
  BY <1>3 DEF t

LEMMA FourTokens ==
  ASSUME NEW x, NEW y, NEW z, NEW u
  PROVE  <<x>> \o <<y, z, u>> = <<x, y, z, u>>
<1> DEFINE S == {x, y, z, u}
           t == <<x>> \o <<y, z, u>>
<1>1. x \in S /\ y \in S /\ z \in S /\ u \in S
  OBVIOUS
<1> HIDE DEF S
<1>2. t \in Seq(S) /\ Len(t) = 4 /\ t[1] = x /\ t[2] = y /\ t[3] = z /\ t[4] = u
  BY <1>1
<1> HIDE DEF t
<1>3. t = <<x, y, z, u>>
  BY <1>1, <1>2
<1> QED
  BY <1>3 DEF t

(* From an empty line. *)
LEMMA FirstToken ==
  ASSUME NEW x
  PROVE  Append(<<>>, x) = <<x>> /\ Tail(<<x>>) = <<>> /\ Head(<<x>>) = x /\ <<x>> # <<>>
OBVIOUS

-----------------------------------------------------------------------------
(* The program goes from step to step. *)

LEMMA GoesTo ==
  ASSUME PositionTypes, cmd # "end", Flash!Goes
  PROVE  /\ outcome' = outcome
         /\ at < Len(Flash!Steps[cmd]) => cmd' = cmd /\ block' = block /\ at' = at + 1
         /\ at = Len(Flash!Steps[cmd]) =>
              /\ at' = 1
              /\ cmd = "sync" => cmd' = "get" /\ block' = 1
              /\ cmd = "get" => cmd' = "id" /\ block' = 1
              /\ cmd = "id" => cmd' = Flash!Erase /\ block' = 1
              /\ cmd = "erase" => cmd' = Flash!Write /\ block' = 1
              /\ cmd \in {"write", "read"} /\ block < Blocks => cmd' = cmd /\ block' = block + 1
              /\ cmd \in {"write", "read"} /\ block = Blocks =>
                   /\ block' = 1
                   /\ cmd' = IF cmd = "write" THEN Flash!Verify ELSE "end"
<1>1. /\ at \in 1 .. Len(Flash!Steps[cmd]) /\ block \in 1 .. Blocks /\ Blocks \in Nat
      /\ cmd \in {"sync", "get", "id", "erase", "write", "read"}
  BY LoaderConstants DEF PositionTypes, Flash!LoaderAssumption
<1>2. CASE at < Len(Flash!Steps[cmd])
  BY <1>1, <1>2 DEF Flash!Goes
<1>3. CASE at = Len(Flash!Steps[cmd])
  <2>1. at' = 1 /\ outcome' = outcome
    BY <1>1, <1>3 DEF Flash!Goes
  <2>2. CASE cmd \in {"write", "read"} /\ block < Blocks
    <3>1. block' = block + 1 /\ cmd' = cmd
      BY <1>1, <1>3, <2>2 DEF Flash!Goes
    <3> QED
      BY <1>1, <1>3, <2>1, <2>2, <3>1
  <2>3. CASE ~(cmd \in {"write", "read"} /\ block < Blocks)
    <3>1. block' = 1 /\ cmd' = Flash!Following
      BY <1>1, <1>3, <2>3 DEF Flash!Goes
    <3> QED
      BY <1>1, <1>3, <2>1, <2>3, <3>1 DEF Flash!Following
  <2> QED
    BY <2>2, <2>3
<1> QED
  BY <1>1, <1>2, <1>3

LEMMA GoesBack ==
  ASSUME PositionTypes, cmd = "read", at = Len(Flash!Steps[cmd]), Flash!Goes
  PROVE  /\ at' = 1 /\ outcome' = outcome
         /\ \/ cmd' = "read" /\ block < Blocks /\ block' = block + 1
            \/ cmd' = "end" /\ block = Blocks /\ block' = 1
<1>1. block \in 1 .. Blocks /\ Blocks \in Nat
  BY LoaderConstants DEF PositionTypes, Flash!LoaderAssumption
<1>2. block < Blocks \/ block = Blocks
  BY <1>1
<1> QED
  BY <1>2, GoesTo

LEMMA WriteGoesBack ==
  ASSUME PositionTypes, cmd = "write", at = Len(Flash!Steps[cmd]), Flash!Goes
  PROVE  /\ at' = 1 /\ outcome' = outcome
         /\ \/ cmd' = "write" /\ block < Blocks /\ block' = block + 1
            \/ cmd' = Flash!Verify /\ cmd' \in {"read", "end"} /\ block = Blocks /\ block' = 1
<1>1. block \in 1 .. Blocks /\ Blocks \in Nat
  BY LoaderConstants DEF PositionTypes, Flash!LoaderAssumption
<1>2. block < Blocks \/ block = Blocks
  BY <1>1
<1>3. Flash!Verify \in {"read", "end"}
  BY DEF Flash!Verify
<1> QED
  BY <1>2, <1>3, GoesTo

(* What follows a command is one, and types stay. *)
LEMMA Options ==
  /\ Flash!Verify \in {"read", "end"} /\ Flash!Write \in {"write", "read", "end"}
  /\ Flash!Erase \in {"erase", "write", "read", "end"}
BY DEF Flash!Verify, Flash!Write, Flash!Erase

LEMMA GoesTypes ==
  ASSUME PositionTypes, cmd # "end", Flash!Goes
  PROVE  PositionTypes'
<1>1. /\ at \in 1 .. Len(Flash!Steps[cmd]) /\ block \in 1 .. Blocks /\ Blocks \in Nat
      /\ cmd \in {"sync", "get", "id", "erase", "write", "read"} /\ 1 \in 1 .. Blocks
      /\ cmd \notin {"write", "read"} => block = 1
  BY LoaderConstants DEF PositionTypes, Flash!LoaderAssumption
<1>2. CASE at < Len(Flash!Steps[cmd])
  BY <1>1, <1>2, GoesTo DEF PositionTypes
<1>3. CASE at = Len(Flash!Steps[cmd])
  <2>1. at' = 1
    BY <1>1, <1>3 DEF Flash!Goes
  <2>2. \A c \in {"sync", "get", "id", "erase", "write", "read"} : 1 \in 1 .. Len(Flash!Steps[c])
    BY LengthOf
  <2>3. CASE cmd \in {"write", "read"} /\ block < Blocks
    BY <1>1, <1>3, <2>1, <2>2, <2>3, GoesTo DEF PositionTypes
  <2>4. CASE cmd \in {"write", "read"} /\ block = Blocks
    BY <1>1, <1>3, <2>1, <2>2, <2>4, GoesTo, Options DEF PositionTypes
  <2>5. CASE cmd \notin {"write", "read"}
    BY <1>1, <1>3, <2>1, <2>2, <2>5, GoesTo, Options DEF PositionTypes
  <2> QED
    BY <1>1, <2>3, <2>4, <2>5
<1> QED
  BY <1>1, <1>2, <1>3

(* What the steps of the commands are. *)
LEMMA StepTable ==
  ASSUME PositionTypes, cmd # "end"
  PROVE  /\ cmd = "sync" =>
              \/ at = 1 /\ Flash!Step = Flash!Send("sync")
              \/ at = 2 /\ Flash!Step = Flash!Ack
         /\ cmd \in {"get", "id"} =>
              \/ at = 1 /\ Flash!Step = Flash!Send(cmd)
              \/ at \in {2, 4} /\ Flash!Step = Flash!Ack
              \/ at = 3 /\ Flash!Step = Flash!Take("info")
         /\ cmd = "erase" =>
              \/ at = 1 /\ Flash!Step = Flash!Send("erase")
              \/ at = 3 /\ Flash!Step = Flash!Send("all")
              \/ at \in {2, 4} /\ Flash!Step = Flash!Ack
         /\ cmd = "write" =>
              \/ at = 1 /\ Flash!Step = Flash!Send("write")
              \/ at = 3 /\ Flash!Step = Flash!Send("address")
              \/ at = 5 /\ Flash!Step = Flash!Send("data")
              \/ at \in {2, 4, 6} /\ Flash!Step = Flash!Ack
         /\ cmd = "read" =>
              \/ at = 1 /\ Flash!Step = Flash!Send("read")
              \/ at = 3 /\ Flash!Step = Flash!Send("address")
              \/ at = 5 /\ Flash!Step = Flash!Send("length")
              \/ at \in {2, 4, 6} /\ Flash!Step = Flash!Ack
              \/ at = 7 /\ Flash!Step = Flash!Take("data")
<1>1. at \in 1 .. Len(Flash!Steps[cmd])
  BY DEF PositionTypes
<1>2. CASE cmd = "sync"
  <2>1. at \in {1, 2}
    BY <1>1, <1>2, Lengths
  <2> QED
    BY <1>2, <2>1, StepsOf DEF Flash!Step
<1>3. CASE cmd \in {"get", "id"}
  <2>1. at \in {1, 2, 3, 4}
    BY <1>1, <1>3, Lengths
  <2> QED
    BY <1>3, <2>1, StepsOf DEF Flash!Step
<1>4. CASE cmd = "erase"
  <2>1. at \in {1, 2, 3, 4}
    BY <1>1, <1>4, Lengths
  <2> QED
    BY <1>4, <2>1, StepsOf DEF Flash!Step
<1>5. CASE cmd = "write"
  <2>1. at \in {1, 2, 3, 4, 5, 6}
    BY <1>1, <1>5, Lengths
  <2> QED
    BY <1>5, <2>1, StepsOf DEF Flash!Step
<1>6. CASE cmd = "read"
  <2>1. at \in {1, 2, 3, 4, 5, 6, 7}
    BY <1>1, <1>6, Lengths
  <2> QED
    BY <1>6, <2>1, StepsOf DEF Flash!Step
<1> QED
  BY <1>2, <1>3, <1>4, <1>5, <1>6 DEF PositionTypes

LEMMA Kinds ==
  /\ \A w : Flash!Send(w).op = "send" /\ Flash!Send(w).what = w
  /\ \A w : Flash!Take(w).op = "take" /\ Flash!Take(w).what = w
  /\ Flash!Ack.op = "ack" /\ Flash!Ack.what = "none"
BY DEF Flash!Send, Flash!Take, Flash!Ack

LEMMA SendSteps ==
  ASSUME PositionTypes, cmd # "end", Flash!Step.op = "send"
  PROVE  /\ cmd = "sync" => at = 1 /\ Flash!Step.what = "sync"
         /\ cmd \in {"get", "id"} => at = 1 /\ Flash!Step.what = cmd
         /\ cmd = "erase" => \/ at = 1 /\ Flash!Step.what = "erase"
                             \/ at = 3 /\ Flash!Step.what = "all"
         /\ cmd = "write" => \/ at = 1 /\ Flash!Step.what = "write"
                             \/ at = 3 /\ Flash!Step.what = "address"
                             \/ at = 5 /\ Flash!Step.what = "data"
         /\ cmd = "read" =>  \/ at = 1 /\ Flash!Step.what = "read"
                             \/ at = 3 /\ Flash!Step.what = "address"
                             \/ at = 5 /\ Flash!Step.what = "length"
<1>1. CASE cmd = "sync"
  BY <1>1, StepTable, Kinds
<1>2. CASE cmd = "get" \/ cmd = "id"
  BY <1>2, StepTable, Kinds
<1>3. CASE cmd = "erase"
  BY <1>3, StepTable, Kinds
<1>4. CASE cmd = "write"
  BY <1>4, StepTable, Kinds
<1>5. CASE cmd = "read"
  BY <1>5, StepTable, Kinds
<1> QED
  BY <1>1, <1>2, <1>3, <1>4, <1>5 DEF PositionTypes

LEMMA AckSteps ==
  ASSUME PositionTypes, cmd # "end", Flash!Step.op = "ack"
  PROVE  /\ cmd = "sync" => at = 2
         /\ cmd \in {"get", "id", "erase"} => at \in {2, 4}
         /\ cmd \in {"write", "read"} => at \in {2, 4, 6}
<1>1. CASE cmd = "sync"
  BY <1>1, StepTable, Kinds
<1>2. CASE cmd = "get" \/ cmd = "id"
  BY <1>2, StepTable, Kinds
<1>3. CASE cmd = "erase"
  BY <1>3, StepTable, Kinds
<1>4. CASE cmd = "write"
  BY <1>4, StepTable, Kinds
<1>5. CASE cmd = "read"
  BY <1>5, StepTable, Kinds
<1> QED
  BY <1>1, <1>2, <1>3, <1>4, <1>5 DEF PositionTypes

LEMMA TakeSteps ==
  ASSUME PositionTypes, cmd # "end", Flash!Step.op = "take"
  PROVE  \/ cmd \in {"get", "id"} /\ at = 3 /\ Flash!Step.what = "info"
         \/ cmd = "read" /\ at = 7 /\ Flash!Step.what = "data"
<1>1. CASE cmd = "sync"
  BY <1>1, StepTable, Kinds
<1>2. CASE cmd = "get" \/ cmd = "id"
  BY <1>2, StepTable, Kinds
<1>3. CASE cmd = "erase"
  BY <1>3, StepTable, Kinds
<1>4. CASE cmd = "write"
  BY <1>4, StepTable, Kinds
<1>5. CASE cmd = "read"
  BY <1>5, StepTable, Kinds
<1> QED
  BY <1>1, <1>2, <1>3, <1>4, <1>5 DEF PositionTypes

(* Only the last step leads to another command or block.                   *)
LEMMA GoesAhead ==
  ASSUME PositionTypes, cmd # "end", Flash!Goes, NEW k \in 1 .. 6, at = k,
         \/ cmd = "sync" /\ k < 2
         \/ cmd \in {"get", "id", "erase"} /\ k < 4
         \/ cmd = "write" /\ k < 6
         \/ cmd = "read"
  PROVE  cmd' = cmd /\ block' = block /\ at' = k + 1 /\ outcome' = outcome
<1>1. at < Len(Flash!Steps[cmd])
  <2>1. CASE cmd = "sync" /\ k < 2
    BY <2>1, LengthOf
  <2>2. CASE cmd \in {"get", "id", "erase"} /\ k < 4
    <3>1. Len(Flash!Steps[cmd]) = 4
      BY <2>2, LengthOf
    <3> QED
      BY <2>2, <3>1
  <2>3. CASE cmd = "write" /\ k < 6
    BY <2>3, LengthOf
  <2>4. CASE cmd = "read"
    <3>1. Len(Flash!Steps[cmd]) = 7
      BY <2>4, LengthOf
    <3> QED
      BY <3>1
  <2> QED
    BY <2>1, <2>2, <2>3, <2>4
<1> QED
  BY <1>1, GoesTo

(* The program says what the step is. *)
LEMMA SendsLine ==
  ASSUME PositionTypes, LineInv, Flash!Sends
  PROVE  LineInv'
<1> DEFINE w == Flash!Step.what
<1>1. /\ cmd # "end" /\ Flash!Step.op = "send" /\ Flash!Goes
      /\ down' = Append(down, Token(w)) /\ up' = up /\ chip' = chip
      /\ place' = place /\ flash' = flash /\ job' = job
  BY DEF Flash!Sends, Flash!Runs, Flash!device, Token
<1>2. /\ \E k \in 1 .. 6 : /\ at = k
                           /\ \/ cmd = "sync" /\ k < 2
                              \/ cmd \in {"get", "id", "erase"} /\ k < 4
                              \/ cmd = "write" /\ k < 6
                              \/ cmd = "read"
  BY <1>1, SendSteps DEF PositionTypes
<1>3. cmd' = cmd /\ block' = block /\ at' = at + 1
  BY <1>1, <1>2, GoesAhead
<1>4. (\A x : Token(x)' = Token(x)) /\ A' = A
  BY <1>3 DEF Token, A, Flash!Says
<1>5. down = <<>> => down' = <<Token(w)>>
  BY <1>1, FirstToken
<1>6. CASE cmd = "sync"
  <2>1. at = 1 /\ w = "sync"
    BY <1>1, <1>6, SendSteps
  <2>2. down' = <<Token("sync")>> /\ up' = <<>> /\ chip' = chip
    BY <1>1, <1>5, <1>6, <2>1 DEF LineInv, Quiet
  <2>3. chip \in {"sync", "mute"}
    BY <1>6, <2>1 DEF LineInv
  <2> QED
    BY <1>3, <1>4, <1>6, <2>1, <2>2, <2>3 DEF LineInv, Begun
<1>7. CASE cmd = "get"
  <2>1. at = 1 /\ w = "get"
    BY <1>1, <1>7, SendSteps
  <2>2. Begun
    BY <1>7, <2>1 DEF LineInv, GetInv
  <2>3. at' = 2
    BY <1>3, <2>1
  <2>4. \/ /\ down' = <<Token("sync"), Token("get")>> /\ up' = <<>> /\ chip' \in {"sync", "mute"}
        \/ down' = <<Token("get")>> /\ up' = <<>>
        \/ down' = <<Token("get")>> /\ up' = <<A>> /\ chip' = "command"
    <3>1. CASE down = <<Token("sync")>> /\ up = <<>> /\ chip \in {"sync", "mute"}
      BY <1>1, <2>1, <3>1, TwoTokens
    <3>2. CASE Quiet \/ (down = <<>> /\ up = <<A>> /\ chip = "command")
      BY <1>1, <1>5, <2>1, <3>2 DEF Quiet
    <3> QED
      BY <2>2, <3>1, <3>2 DEF Begun
  <2>5. GetInv'
    BY <1>4, <2>3, <2>4 DEF GetInv
  <2> QED
    BY <1>3, <1>7, <2>5 DEF LineInv
<1>8. CASE cmd = "id"
  <2>1. at = 1 /\ w = "id"
    BY <1>1, <1>8, SendSteps
  <2>2. IdInv'
    BY <1>1, <1>3, <1>4, <1>5, <1>8, <2>1 DEF LineInv, IdInv, Quiet
  <2> QED
    BY <1>3, <1>8, <2>2 DEF LineInv
<1>9. CASE cmd = "erase"
  <2>1. EraseInv'
    BY <1>1, <1>3, <1>4, <1>5, <1>9, SendSteps DEF LineInv, EraseInv, Quiet, Awaits
  <2> QED
    BY <1>3, <1>9, <2>1 DEF LineInv
<1>10. CASE cmd = "write"
  <2>1. WriteInv'
    BY <1>1, <1>3, <1>4, <1>5, <1>10, SendSteps DEF LineInv, WriteInv, Quiet, Awaits
  <2> QED
    BY <1>3, <1>10, <2>1 DEF LineInv
<1>11. CASE cmd = "read"
  <2>1. ReadInv'
    BY <1>1, <1>3, <1>4, <1>5, <1>11, SendSteps DEF LineInv, ReadInv, Quiet, Awaits
  <2> QED
    BY <1>3, <1>11, <2>1 DEF LineInv
<1> QED
  BY <1>1, <1>6, <1>7, <1>8, <1>9, <1>10, <1>11 DEF PositionTypes

(* A command or a block begins with an empty line.                         *)
LEMMA Begins ==
  ASSUME at' = 1, Quiet', cmd' \in {"get", "id", "erase", "write", "read", "end"}
  PROVE  LineInv'
BY DEF LineInv, Begun, GetInv, IdInv, EraseInv, WriteInv, ReadInv

LEMMA Tokens ==
  /\ Flash!IsAck(A) /\ ~Flash!IsAck(N) /\ ~Flash!IsAck(I)
  /\ A.what = "ack" /\ N.what = "nack" /\ I.what = "info"
  /\ D.what = "data" /\ ~Flash!IsAck(D) /\ D.value = flash[block]
BY DEF A, N, I, D, Flash!Says, Flash!IsAck

(* What is no acknowledgement is none.                                     *)
LEMMA NoAck ==
  ASSUME Flash!IsAck(Head(up))
  PROVE  up # <<N>> /\ up # <<I, A>> /\ up # <<D>>
BY Tokens

LEMMA Tails ==
  ASSUME NEW x, NEW y, NEW z, NEW u
  PROVE  /\ Tail(<<x>>) = <<>> /\ Head(<<x>>) = x /\ <<x>> # <<>>
         /\ Tail(<<x, y>>) = <<y>> /\ Head(<<x, y>>) = x /\ <<x, y>> # <<>>
         /\ Tail(<<x, y, z>>) = <<y, z>> /\ Head(<<x, y, z>>) = x /\ <<x, y, z>> # <<>>
         /\ Tail(<<x, y, z, u>>) = <<y, z, u>> /\ Head(<<x, y, z, u>>) = x
         /\ <<x, y, z, u>> # <<>>
OBVIOUS

LEMMA TailsOf ==
  /\ Tail(<<A, A, I, A>>) = <<A, I, A>> /\ Tail(<<A, I, A>>) = <<I, A>>
  /\ Tail(<<I, A>>) = <<A>> /\ Tail(<<A>>) = <<>> /\ Tail(<<N>>) = <<>>
OBVIOUS

(* What has come when something has. *)
LEMMA AckToGet ==
  ASSUME at = 2, GetInv, up # <<>>, up # <<N>>, up # <<I, A>>
  PROVE  \/ down = <<Token("get")>> /\ up = <<A>> /\ chip = "command"
         \/ down = <<>> /\ (up = <<A, A, I, A>> \/ up = <<A, I, A>> \/ up = <<A>>)
BY DEF GetInv

LEMMA AckToId ==
  ASSUME at = 2, IdInv, up # <<>>, up # <<N>>, up # <<I, A>>
  PROVE  down = <<>> /\ (up = <<A, I, A>> \/ up = <<A>>)
BY DEF IdInv

LEMMA InfoComes ==
  ASSUME at = 3, GetInv \/ IdInv, up # <<>>
  PROVE  down = <<>> /\ (up = <<A, I, A>> \/ up = <<I, A>> \/ up = <<A>>)
BY DEF GetInv, IdInv

LEMMA AckToLength ==
  ASSUME at = 6, ReadInv, up # <<>>, up # <<N>>, up # <<D>>
  PROVE  down = <<>> /\ up = <<A, D>> /\ place = block
BY DEF ReadInv

LEMMA AckToAddress ==
  ASSUME at = 4, WriteInv \/ ReadInv, up # <<>>, up # <<N>>
  PROVE  down = <<>> /\ up = <<A>> /\ place = block
BY DEF WriteInv, ReadInv, Awaits, Quiet

(* The program is acknowledged.                                            *)
LEMMA AckedLine ==
  ASSUME PositionTypes, LineInv, Flash!WaitsForAck, outcome' # "exception"
  PROVE  LineInv' /\ Flash!Goes /\ (Flash!IsAck(Head(up)) \/ cmd = "sync")
<1>1. /\ cmd # "end" /\ Flash!Step.op = "ack" /\ up # <<>> /\ up' = Tail(up)
      /\ down' = down /\ chip' = chip /\ place' = place /\ flash' = flash /\ job' = job
  BY DEF Flash!WaitsForAck, Flash!Runs, Flash!Answered, Flash!device
<1>2. Flash!Goes /\ (Flash!IsAck(Head(up)) \/ cmd = "sync")
  BY DEF Flash!WaitsForAck, Flash!Raises
<1>a. cmd # "sync" => up # <<N>> /\ up # <<I, A>> /\ up # <<D>>
  BY <1>2, NoAck
<1>3. CASE cmd = "sync"
  <2>1. at = 2 /\ at = Len(Flash!Steps[cmd])
    BY <1>1, <1>3, AckSteps, LengthOf
  <2>2. at' = 1 /\ cmd' = "get"
    BY <1>1, <1>2, <1>3, <2>1, GoesTo
  <2>3. down = <<>> /\ up = <<A>>
    BY <1>1, <1>3, <2>1 DEF LineInv, Begun, Quiet
  <2> QED
    BY <1>1, <1>2, <1>3, <2>2, <2>3, Tails, Begins DEF Quiet
<1>4. CASE at = 2 /\ cmd # "sync"
  <2>1. cmd' = cmd /\ block' = block /\ at' = 3
    BY <1>1, <1>2, <1>4, GoesAhead DEF PositionTypes
  <2>2. A' = A /\ N' = N /\ I' = I /\ \A x : Token(x)' = Token(x)
    BY <2>1 DEF A, N, I, Token, Flash!Says
  <2>3. CASE cmd = "get"
    <3>1. \/ down = <<Token("get")>> /\ up = <<A>> /\ chip = "command"
          \/ down = <<>> /\ (up = <<A, A, I, A>> \/ up = <<A, I, A>> \/ up = <<A>>)
      <4>1. GetInv /\ up # <<>> /\ up # <<N>> /\ up # <<I, A>>
        BY <1>1, <1>a, <1>4, <2>3 DEF LineInv
      <4> QED
        BY <1>4, <4>1, AckToGet
    <3>2. \/ down' = <<Token("get")>> /\ up' = <<>> /\ chip' = "command"
          \/ down' = <<>> /\ (up' = <<A, I, A>> \/ up' = <<I, A>> \/ up' = <<>>)
      BY <1>1, <3>1, TailsOf, Zenon
    <3>3. GetInv'
      BY <2>1, <2>2, <3>2 DEF GetInv
    <3> QED
      BY <1>2, <2>1, <2>3, <3>3 DEF LineInv
  <2>4. CASE cmd = "id"
    <3>1. down = <<>> /\ (up = <<A, I, A>> \/ up = <<A>>)
      <4>1. IdInv /\ up # <<>> /\ up # <<N>> /\ up # <<I, A>>
        BY <1>1, <1>a, <1>4, <2>4 DEF LineInv
      <4> QED
        BY <1>4, <4>1, AckToId
    <3>2. down' = <<>> /\ (up' = <<I, A>> \/ up' = <<>>)
      BY <1>1, <3>1, TailsOf, Zenon
    <3>3. IdInv'
      BY <2>1, <2>2, <3>2 DEF IdInv
    <3> QED
      BY <1>2, <2>1, <2>4, <3>3 DEF LineInv
  <2>5. CASE cmd \in {"erase", "write", "read"}
    <3>1. down = <<>> /\ (up = <<A>> \/ up = <<N>>)
      BY <1>1, <1>4, <2>5 DEF LineInv, EraseInv, WriteInv, ReadInv, Awaits, Quiet
    <3>2. Quiet'
      BY <1>1, <3>1, Tails DEF Quiet
    <3> QED
      BY <1>2, <2>1, <2>5, <3>2 DEF LineInv, EraseInv, WriteInv, ReadInv
  <2> QED
    BY <1>1, <1>4, <2>3, <2>4, <2>5 DEF PositionTypes
<1>5. CASE at = 4 /\ cmd \in {"get", "id", "erase"}
  <2>1. at' = 1 /\ cmd' \in {"id", "erase", "write", "read", "end"}
    BY <1>1, <1>2, <1>5, GoesTo, LengthOf, Options
  <2>2. down = <<>> /\ (up = <<A>> \/ up = <<N>>)
    BY <1>1, <1>5 DEF LineInv, GetInv, IdInv, EraseInv, Awaits, Quiet
  <2> QED
    BY <1>1, <1>2, <2>1, <2>2, Tails, Begins DEF Quiet
<1>6. CASE at = 4 /\ cmd \in {"write", "read"}
  <2>1. cmd' = cmd /\ block' = block /\ at' = 5
    BY <1>1, <1>2, <1>6, GoesAhead DEF PositionTypes
  <2>2. down = <<>> /\ up = <<A>> /\ place = block
    <3>1. (WriteInv \/ ReadInv) /\ up # <<>> /\ up # <<N>>
      BY <1>1, <1>a, <1>6 DEF LineInv
    <3> QED
      BY <1>6, <3>1, AckToAddress
  <2>3. Quiet' /\ place' = block'
    BY <1>1, <2>1, <2>2, Tails DEF Quiet
  <2> QED
    BY <1>2, <1>6, <2>1, <2>3 DEF LineInv, WriteInv, ReadInv
<1>7. CASE at = 6 /\ cmd = "write"
  <2>1. at' = 1 /\ cmd' \in {"write", "read", "end"}
    <3>1. at = Len(Flash!Steps[cmd])
      BY <1>7, LengthOf
    <3> QED
      BY <1>2, <1>7, <3>1, WriteGoesBack
  <2>2. down = <<>> /\ (up = <<A>> \/ up = <<N>>)
    BY <1>1, <1>7 DEF LineInv, WriteInv, Awaits, Quiet
  <2> QED
    BY <1>1, <1>2, <2>1, <2>2, Tails, Begins DEF Quiet
<1>8. CASE at = 6 /\ cmd = "read"
  <2>1. cmd' = cmd /\ block' = block /\ at' = 7
    BY <1>1, <1>2, <1>8, GoesAhead DEF PositionTypes
  <2>2. down = <<>> /\ up = <<A, D>> /\ place = block
    <3>1. ReadInv /\ up # <<>> /\ up # <<N>> /\ up # <<D>>
      BY <1>1, <1>a, <1>8 DEF LineInv
    <3> QED
      BY <1>8, <3>1, AckToLength
  <2>3. down' = <<>> /\ up' = <<D'>> /\ place' = block'
    BY <1>1, <2>1, <2>2, Tails DEF D, Flash!Says
  <2> QED
    BY <1>2, <1>8, <2>1, <2>3 DEF LineInv, ReadInv
<1> QED
  BY <1>1, <1>3, <1>4, <1>5, <1>6, <1>7, <1>8, AckSteps DEF PositionTypes

(* The program is told what it asked for, or too little of it.             *)
LEMMA TakesLine ==
  ASSUME PositionTypes, LineInv, Flash!TakesInfo \/ Flash!TakesData
  PROVE  /\ LineInv' /\ Flash!Goes /\ flash' = flash
         /\ Flash!TakesInfo => cmd' = cmd /\ cmd \in {"get", "id"} /\ data' = data
         /\ Flash!TakesData =>
              /\ cmd = "read" /\ at = 7 /\ data' = Append(data, flash[block])
<1>1. /\ cmd # "end" /\ Flash!Step.op = "take" /\ up # <<>> /\ Flash!Goes
      /\ down' = down /\ chip' = chip /\ place' = place /\ flash' = flash /\ job' = job
  BY DEF Flash!TakesInfo, Flash!TakesData, Flash!Runs, Flash!Answered, Flash!device
<1>2. CASE Flash!TakesInfo
  <2>1. cmd \in {"get", "id"} /\ at = 3 /\ data' = data
    BY <1>1, <1>2, TakeSteps DEF Flash!TakesInfo
  <2>2. up' = IF Head(up).what = "info" THEN Tail(up) ELSE <<>>
    BY <1>2 DEF Flash!TakesInfo
  <2>3. cmd' = cmd /\ block' = block /\ at' = 4
    BY <1>1, <2>1, GoesAhead DEF PositionTypes
  <2>4. down = <<>> /\ (up = <<A, I, A>> \/ up = <<I, A>> \/ up = <<A>>)
    <3>1. up # <<>> /\ (GetInv \/ IdInv)
      BY <1>1, <2>1 DEF LineInv
    <3> QED
      BY <2>1, <3>1, InfoComes
  <2>5. down' = <<>> /\ (up' = <<A>> \/ up' = <<>>) /\ A' = A
    <3>1. A.what # "info" /\ I.what = "info" /\ A' = A
      BY DEF A, I, Flash!Says
    <3>2. Head(<<A, I, A>>) = A /\ Head(<<I, A>>) = I /\ Head(<<A>>) = A /\ Tail(<<I, A>>) = <<A>>
      OBVIOUS
    <3>3. up' = <<A>> \/ up' = <<>>
      BY <2>2, <2>4, <3>1, <3>2
    <3> QED
      BY <1>1, <2>4, <3>1, <3>3
  <2>6. LineInv'
    BY <2>1, <2>3, <2>5 DEF LineInv, GetInv, IdInv
  <2>7. ~Flash!TakesData
    BY <1>1, <2>1, TakeSteps DEF Flash!TakesData
  <2> QED
    BY <1>1, <2>1, <2>3, <2>6, <2>7
<1>3. CASE Flash!TakesData
  <2>1. cmd = "read" /\ at = 7
    BY <1>1, <1>3, TakeSteps DEF Flash!TakesData
  <2>2. up' = Tail(up) /\ data' = Append(data, Head(up).value)
    BY <1>3 DEF Flash!TakesData
  <2>3. at' = 1 /\ cmd' \in {"read", "end"}
    <3>1. at = Len(Flash!Steps[cmd]) /\ cmd # "end" /\ Flash!Goes
      BY <1>1, <2>1, LengthOf
    <3> QED
      BY <2>1, <3>1, GoesBack
  <2>4. down = <<>> /\ up = <<D>>
    BY <1>1, <2>1 DEF LineInv, ReadInv
  <2>5. Quiet'
    BY <1>1, <2>2, <2>4, Tails DEF Quiet
  <2>6. data' = Append(data, flash[block])
    BY <2>2, <2>4, Tails, Tokens
  <2>7. ~Flash!TakesInfo
    BY <1>1, <2>1, TakeSteps DEF Flash!TakesInfo
  <2> QED
    BY <1>1, <2>1, <2>3, <2>5, <2>6, <2>7, Begins
<1> QED
  BY <1>2, <1>3

(* Nothing came in time: it goes on only after the first token and after a *)
(* block it did not get.                                                   *)
LEMMA LateLine ==
  ASSUME PositionTypes, LineInv, Flash!TimesOut, outcome' # "exception"
  PROVE  /\ LineInv' /\ Flash!Goes
         /\ cmd = "sync" \/ (cmd = "read" /\ at = 7)
<1>1. /\ cmd # "end" /\ Flash!Step.op # "send" /\ up = <<>> /\ up' = up
      /\ down' = down /\ chip' = chip /\ place' = place /\ flash' = flash /\ job' = job
  BY DEF Flash!TimesOut, Flash!Runs, Flash!Answered, Flash!device
<1>2. Flash!Goes /\ (cmd = "sync" \/ Flash!Step.what = "data")
  BY DEF Flash!TimesOut, Flash!Raises
<1>3. CASE cmd = "sync"
  <2>1. at = 2
    BY <1>1, <1>3, StepTable, Kinds
  <2>2. at' = 1 /\ cmd' = "get" /\ block' = 1 /\ block = 1
    BY <1>1, <1>2, <1>3, <2>1, GoesTo, LengthOf DEF PositionTypes
  <2>3. Begun
    BY <1>3, <2>1 DEF LineInv
  <2>4. Begun'
    BY <1>1, <2>2, <2>3 DEF Begun, Quiet, Token, A, Flash!Says
  <2> QED
    BY <1>2, <1>3, <2>2, <2>4 DEF LineInv, GetInv
<1>4. CASE cmd # "sync"
  <2>1. cmd = "read" /\ at = 7
    BY <1>1, <1>2, <1>4, StepTable, Kinds DEF PositionTypes
  <2>2. at' = 1 /\ cmd' \in {"read", "end"}
    <3>1. at = Len(Flash!Steps[cmd]) /\ cmd # "end" /\ Flash!Goes
      BY <1>1, <1>2, <2>1, LengthOf
    <3> QED
      BY <2>1, <3>1, GoesBack
  <2>3. Quiet'
    BY <1>1, <2>1 DEF LineInv, ReadInv, Quiet
  <2> QED
    BY <1>2, <2>1, <2>2, <2>3, Begins
<1> QED
  BY <1>3, <1>4

-----------------------------------------------------------------------------
(* The chip hears a token, and what it says comes when nothing is on the   *)
(* way.                                                                    *)
Hears(t, before, after) ==
  \/ /\ after = before /\ flash' = flash /\ place' = place
  \/ /\ after = before \o <<N>> /\ flash' = flash /\ place' = place
     /\ chip # "command" \/ t.what \notin {"get", "id", "erase", "write", "read"}
     /\ chip # "sync" \/ t.what # "sync"
  \/ /\ after = before \o <<A>> /\ t.what \in {"sync", "erase", "write", "read"}
     /\ flash' = flash /\ place' = place /\ chip' # "mute"
     /\ t.what = "sync" => chip' = "command"
  \/ /\ after = before \o <<A, I, A>> /\ t.what \in {"get", "id"}
     /\ flash' = flash /\ place' = place /\ chip' = "command"
  \/ /\ after = before \o <<A>> /\ t.what = "address"
     /\ flash' = flash /\ place' = t.block
  \/ /\ after = before \o <<A, Flash!Says("data", flash[place])>> /\ t.what = "length"
     /\ flash' = flash /\ place' = place
  \/ /\ after = before \o <<A>> /\ t.what = "all"
     /\ flash' = [b \in 1 .. Blocks |-> "erased"] /\ place' = place
  \/ /\ after = before \o <<A>> /\ t.what = "data" /\ place' = place
     /\ flash' = [flash EXCEPT ![place] =
                    IF t.block = place THEN Flash!Programmed(flash[place]) ELSE "mixed"]

LEMMA Replies ==
  /\ Flash!AckIt = <<A>> /\ Flash!NackIt = <<N>> /\ Flash!Info = <<A, I, A>>
  /\ Flash!AckIt \o <<Flash!Says("data", flash[place])>> = <<A, Flash!Says("data", flash[place])>>
<1>1. Flash!AckIt = <<A>> /\ Flash!NackIt = <<N>>
  BY DEF Flash!AckIt, Flash!NackIt, A, N
<1>2. Flash!Info = (<<A>> \o <<I>>) \o <<A>>
  BY <1>1 DEF Flash!Info, I
<1>3. Flash!Info = <<A, I, A>>
  <2>1. <<A>> \o <<I>> = <<A, I>>
    BY TwoTokens
  <2>2. <<A, I>> \o <<A>> = <<A, I, A>>
    BY ThreeTokens
  <2> QED
    BY <1>2, <2>1, <2>2
<1>4. Flash!AckIt \o <<Flash!Says("data", flash[place])>> = <<A, Flash!Says("data", flash[place])>>
  BY <1>1, TwoTokens
<1> QED
  BY <1>1, <1>3, <1>4

LEMMA ChipHears ==
  ASSUME Flash!Chip
  PROVE  /\ down # <<>> /\ down' = Tail(down) /\ Hears(Head(down), up, up')
         /\ cmd' = cmd /\ block' = block /\ at' = at /\ job' = job /\ data' = data
         /\ outcome' = outcome /\ released' = released
         /\ chip = "mute" => up' = up /\ flash' = flash /\ chip' = "mute"
<1>1. /\ down # <<>> /\ down' = Tail(down)
      /\ cmd' = cmd /\ block' = block /\ at' = at /\ job' = job /\ data' = data
      /\ outcome' = outcome /\ released' = released
  BY DEF Flash!Chip, Flash!Heard, Flash!host, Flash!position
<1> DEFINE t == Head(down)
<1>2. CASE Flash!Command_ /\ UNCHANGED <<place, flash>>
  BY <1>1, <1>2, Replies DEF Flash!Command_, Flash!Listens, Flash!Replies, Hears
<1>3. CASE Flash!Address /\ UNCHANGED flash
  BY <1>1, <1>3, Replies DEF Flash!Address, Flash!Listens, Flash!Replies, Hears
<1>4. CASE Flash!Length /\ UNCHANGED <<place, flash>>
  BY <1>1, <1>4, Replies DEF Flash!Length, Flash!Listens, Flash!Replies, Hears
<1>5. CASE (Flash!EraseAll \/ Flash!Program) /\ UNCHANGED place
  BY <1>1, <1>5, Replies DEF Flash!EraseAll, Flash!Program, Flash!Listens, Flash!Replies, Hears
<1>6. CASE /\ chip # "mute" /\ ~Flash!Understands(Head(down).what)
           /\ chip' \in {chip, "command"} /\ Flash!Replies(Flash!NackIt) /\ UNCHANGED <<place, flash>>
  BY <1>1, <1>6, Replies DEF Flash!Understands, Flash!Replies, Hears
<1>7. CASE chip = "mute" /\ UNCHANGED <<chip, place, flash, up>>
  BY <1>1, <1>7 DEF Hears
<1> QED
  BY <1>1, <1>2, <1>3, <1>4, <1>5, <1>6, <1>7 DEF Flash!Chip

LEMMA FromEmpty ==
  /\ <<>> \o <<N>> = <<N>> /\ <<>> \o <<A>> = <<A>> /\ <<>> \o <<A, I, A>> = <<A, I, A>>
  /\ \A x : <<>> \o <<A, x>> = <<A, x>>
OBVIOUS

(* One token on an empty line. *)
LEMMA OneToken ==
  ASSUME Flash!Chip, NEW w, down = <<Token(w)>>, up = <<>>
  PROVE  /\ down' = <<>>
         /\ \/ (up' = <<>> \/ up' = <<N>>) /\ flash' = flash /\ place' = place
            \/ /\ w \in {"sync", "erase", "write", "read"} /\ up' = <<A>>
               /\ flash' = flash /\ place' = place
            \/ w \in {"get", "id"} /\ up' = <<A, I, A>> /\ flash' = flash /\ place' = place
            \/ w = "address" /\ up' = <<A>> /\ flash' = flash /\ place' = block
            \/ /\ w = "length" /\ up' = <<A, Flash!Says("data", flash[place])>>
               /\ flash' = flash /\ place' = place
            \/ /\ w = "all" /\ up' = <<A>> /\ place' = place
               /\ flash' = [b \in 1 .. Blocks |-> "erased"]
            \/ /\ w = "data" /\ up' = <<A>> /\ place' = place
               /\ flash' = [flash EXCEPT ![place] =
                    IF block = place THEN Flash!Programmed(flash[place]) ELSE "mixed"]
<1> DEFINE t == Token(w)
<1>1. Head(down) = t /\ Tail(down) = <<>>
  OBVIOUS
<1>2. t.what = w /\ t.block = block
  BY DEF Token
<1> HIDE DEF t
<1>3. down' = <<>> /\ Hears(t, <<>>, up')
  BY <1>1, ChipHears
<1> QED
  BY <1>2, <1>3, FromEmpty DEF Hears

(* The first token is heard by a chip that waits for it or by one that     *)
(* says nothing.                                                           *)
LEMMA SyncHeard ==
  ASSUME Flash!Chip, up = <<>>, chip \in {"sync", "mute"}, Head(down) = Token("sync")
  PROVE  up' = <<>> \/ (up' = <<A>> /\ chip' = "command")
<1>1. Hears(Token("sync"), <<>>, up')
  BY ChipHears
<1>2. Token("sync").what = "sync"
  BY DEF Token
<1>3. CASE chip = "mute"
  BY <1>3, ChipHears
<1>4. CASE chip = "sync"
  BY <1>1, <1>2, <1>4, FromEmpty DEF Hears
<1> QED
  BY <1>3, <1>4

LEMMA BegunHeard ==
  ASSUME Begun, Flash!Chip
  PROVE  Begun'
<1>1. down # <<>> /\ down' = Tail(down) /\ A' = A
  BY ChipHears DEF A, Flash!Says
<1>2. down = <<Token("sync")>> /\ up = <<>> /\ chip \in {"sync", "mute"}
  BY <1>1 DEF Begun, Quiet
<1>3. Head(down) = Token("sync") /\ Tail(down) = <<>>
  BY <1>2
<1>4. up' = <<>> \/ (up' = <<A>> /\ chip' = "command")
  BY <1>2, <1>3, SyncHeard
<1> QED
  BY <1>1, <1>3, <1>4 DEF Begun, Quiet

(* A chip that takes commands says what it can do. *)
LEMMA GetHeard ==
  ASSUME Flash!Chip, chip = "command", Head(down) = Token("get")
  PROVE  up' = up \/ up' = up \o <<A, I, A>>
<1>1. Hears(Token("get"), up, up')
  BY ChipHears
<1>2. Token("get").what = "get"
  BY DEF Token
<1> QED
  BY <1>1, <1>2 DEF Hears

LEMMA ChipGet ==
  ASSUME GetInv, Flash!Chip
  PROVE  GetInv'
<1>1. /\ down # <<>> /\ down' = Tail(down) /\ at' = at /\ block' = block
      /\ A' = A /\ N' = N /\ I' = I /\ \A x : Token(x)' = Token(x)
  BY ChipHears DEF A, N, I, Token, Flash!Says
<1>2. CASE at = 1
  BY <1>1, <1>2, BegunHeard DEF GetInv
<1>3. CASE at = 2
  <2>1. CASE down = <<Token("sync"), Token("get")>> /\ up = <<>> /\ chip \in {"sync", "mute"}
    <3>1. Head(down) = Token("sync") /\ Tail(down) = <<Token("get")>>
      BY <2>1
    <3>2. up' = <<>> \/ (up' = <<A>> /\ chip' = "command")
      BY <2>1, <3>1, SyncHeard
    <3> QED
      BY <1>1, <1>3, <3>1, <3>2 DEF GetInv
  <2>2. CASE down = <<Token("get")>> /\ up = <<>>
    <3>1. down' = <<>> /\ (up' = <<>> \/ up' = <<N>> \/ up' = <<A, I, A>>)
      BY <2>2, OneToken
    <3> QED
      BY <1>1, <1>3, <3>1 DEF GetInv
  <2>3. CASE down = <<Token("get")>> /\ up = <<A>> /\ chip = "command"
    <3>1. Head(down) = Token("get") /\ Tail(down) = <<>>
      BY <2>3
    <3>2. <<A>> \o <<A, I, A>> = <<A, A, I, A>>
      BY FourTokens
    <3>3. down' = <<>> /\ (up' = <<A>> \/ up' = <<A, A, I, A>>)
      BY <1>1, <2>3, <3>1, <3>2, GetHeard
    <3> QED
      BY <1>1, <1>3, <3>3 DEF GetInv
  <2> QED
    BY <1>1, <1>3, <2>1, <2>2, <2>3 DEF GetInv
<1>4. CASE at = 3
  <2>1. down = <<Token("get")>> /\ up = <<>> /\ chip = "command"
    BY <1>1, <1>4 DEF GetInv
  <2>2. Head(down) = Token("get") /\ Tail(down) = <<>>
    BY <2>1
  <2>3. down' = <<>> /\ (up' = <<>> \/ up' = <<A, I, A>>)
    BY <1>1, <2>1, <2>2, GetHeard, FromEmpty
  <2> QED
    BY <1>1, <1>4, <2>3 DEF GetInv
<1>5. CASE at \notin {1, 2, 3}
  BY <1>1, <1>5 DEF GetInv
<1> QED
  BY <1>2, <1>3, <1>4, <1>5

LEMMA ChipId ==
  ASSUME IdInv, Flash!Chip
  PROVE  IdInv'
<1>1. /\ down # <<>> /\ down' = Tail(down) /\ at' = at /\ block' = block
      /\ A' = A /\ N' = N /\ I' = I /\ \A x : Token(x)' = Token(x)
  BY ChipHears DEF A, N, I, Token, Flash!Says
<1>2. CASE at = 2
  <2>1. down = <<Token("id")>> /\ up = <<>>
    BY <1>1, <1>2 DEF IdInv
  <2>2. down' = <<>> /\ (up' = <<>> \/ up' = <<N>> \/ up' = <<A, I, A>>)
    BY <2>1, OneToken
  <2> QED
    BY <1>1, <1>2, <2>2 DEF IdInv
<1>3. CASE at # 2
  BY <1>1, <1>3 DEF IdInv, Quiet
<1> QED
  BY <1>2, <1>3

LEMMA ChipErase ==
  ASSUME EraseInv, Flash!Chip, flash \in [1 .. Blocks -> FlashStates]
  PROVE  EraseInv'
<1>1. /\ down # <<>> /\ down' = Tail(down) /\ at' = at /\ block' = block
      /\ A' = A /\ N' = N /\ I' = I /\ \A x : Token(x)' = Token(x)
  BY ChipHears DEF A, N, I, Token, Flash!Says
<1>2. CASE at = 2
  <2>1. down = <<Token("erase")>> /\ up = <<>>
    BY <1>1, <1>2 DEF EraseInv, Awaits, Quiet
  <2>2. down' = <<>> /\ (up' = <<>> \/ up' = <<N>> \/ up' = <<A>>)
    BY <2>1, OneToken
  <2> QED
    BY <1>1, <1>2, <2>2 DEF EraseInv, Awaits, Quiet
<1>3. CASE at = 4
  <2>1. down = <<Token("all")>> /\ up = <<>>
    BY <1>1, <1>3 DEF EraseInv, Awaits, Quiet
  <2>2. /\ down' = <<>>
        /\ up' = <<>> \/ up' = <<N>> \/ (up' = <<A>> /\ flash' = [b \in 1 .. Blocks |-> "erased"])
    BY <2>1, OneToken
  <2> QED
    BY <1>1, <1>3, <2>2 DEF EraseInv, Awaits, Quiet
<1>4. CASE at \notin {2, 4}
  BY <1>1, <1>4 DEF EraseInv, Quiet
<1> QED
  BY <1>2, <1>3, <1>4

LEMMA ChipWrite ==
  ASSUME WriteInv, Flash!Chip, at \in 1 .. 6, flash \in [1 .. Blocks -> FlashStates], block \in 1 .. Blocks,
         (job.erase => flash[block] \in {"erased", "new"})
  PROVE  WriteInv'
<1>1. /\ down # <<>> /\ down' = Tail(down) /\ at' = at /\ block' = block /\ job' = job
      /\ A' = A /\ N' = N /\ I' = I /\ \A x : Token(x)' = Token(x)
  BY ChipHears DEF A, N, I, Token, Flash!Says
<1>2. CASE at = 2
  <2>1. down = <<Token("write")>> /\ up = <<>>
    BY <1>1, <1>2 DEF WriteInv, Awaits, Quiet
  <2>2. down' = <<>> /\ (up' = <<>> \/ up' = <<N>> \/ up' = <<A>>)
    BY <2>1, OneToken
  <2> QED
    BY <1>1, <1>2, <2>2 DEF WriteInv, Awaits, Quiet
<1>3. CASE at = 4
  <2>1. down = <<Token("address")>> /\ up = <<>>
    BY <1>1, <1>3 DEF WriteInv, Awaits, Quiet
  <2>2. down' = <<>> /\ (up' = <<>> \/ up' = <<N>> \/ (up' = <<A>> /\ place' = block))
    BY <2>1, OneToken
  <2> QED
    BY <1>1, <1>3, <2>2 DEF WriteInv, Awaits, Quiet
<1>4. CASE at = 6
  <2>1. down = <<Token("data")>> /\ up = <<>> /\ place = block
    BY <1>1, <1>4 DEF WriteInv, Awaits, Quiet
  <2>2. /\ down' = <<>> /\ place' = place
        /\ \/ up' = <<>> \/ up' = <<N>>
           \/ /\ up' = <<A>>
              /\ flash' = [flash EXCEPT ![place] =
                    IF block = place THEN Flash!Programmed(flash[place]) ELSE "mixed"]
    BY <2>1, OneToken
  <2>3. up' = <<A>> /\ up' # <<>> /\ up' # <<N>> => (job.erase => flash'[block] = "new")
    BY <2>1, <2>2 DEF Flash!Programmed
  <2>4. up' = <<A>> => up' # <<>> /\ up' # <<N>>
    BY Tokens
  <2> QED
    BY <1>1, <1>4, <2>1, <2>2, <2>3, <2>4 DEF WriteInv, Awaits, Quiet
<1>5. CASE at \notin {2, 4, 6}
  BY <1>1, <1>5 DEF WriteInv, Quiet
<1> QED
  BY <1>2, <1>3, <1>4, <1>5

LEMMA ChipRead ==
  ASSUME ReadInv, Flash!Chip, at \in 1 .. 7
  PROVE  ReadInv' /\ flash' = flash
<1>1. /\ down # <<>> /\ down' = Tail(down) /\ at' = at /\ block' = block
      /\ A' = A /\ N' = N /\ \A x : Token(x)' = Token(x)
  BY ChipHears DEF A, N, Token, Flash!Says
<1>2. CASE at = 2
  <2>1. down = <<Token("read")>> /\ up = <<>>
    BY <1>1, <1>2 DEF ReadInv, Awaits, Quiet
  <2>2. down' = <<>> /\ (up' = <<>> \/ up' = <<N>> \/ up' = <<A>>) /\ flash' = flash
    BY <2>1, OneToken
  <2> QED
    BY <1>1, <1>2, <2>2 DEF ReadInv, Awaits, Quiet
<1>3. CASE at = 4
  <2>1. down = <<Token("address")>> /\ up = <<>>
    BY <1>1, <1>3 DEF ReadInv, Awaits, Quiet
  <2>2. /\ down' = <<>> /\ flash' = flash
        /\ (up' = <<>> \/ up' = <<N>> \/ (up' = <<A>> /\ place' = block))
    BY <2>1, OneToken
  <2> QED
    BY <1>1, <1>3, <2>2 DEF ReadInv, Awaits, Quiet
<1>4. CASE at = 6
  <2>1. down = <<Token("length")>> /\ up = <<>> /\ place = block
    BY <1>1, <1>4 DEF ReadInv
  <2>2. /\ down' = <<>> /\ place' = place /\ flash' = flash
        /\ up' = <<>> \/ up' = <<N>> \/ up' = <<A, Flash!Says("data", flash[place])>>
    BY <2>1, OneToken
  <2>3. D' = Flash!Says("data", flash[place])
    BY <1>1, <2>1, <2>2 DEF D, Flash!Says
  <2> QED
    BY <1>1, <1>4, <2>1, <2>2, <2>3 DEF ReadInv
<1>5. CASE at \notin {2, 4, 6}
  BY <1>1, <1>5 DEF ReadInv, Quiet
<1> QED
  BY <1>2, <1>3, <1>4, <1>5

(* A token that is lost, whichever way it went.                            *)
Lost ==
  \/ down # <<>> /\ down' = Tail(down) /\ up' = up
  \/ up # <<>> /\ up' = Tail(up) /\ down' = down

LEMMA LostFrom ==
  ASSUME Lost
  PROVE  /\ \A x : down = <<x>> /\ up = <<>> => down' = <<>> /\ up' = <<>>
         /\ \A x : down = <<>> /\ up = <<x>> => down' = <<>> /\ up' = <<>>
         /\ \A x, y : down = <<>> /\ up = <<x, y>> => down' = <<>> /\ up' = <<y>>
         /\ ~Quiet
<1>1. ASSUME NEW x, down = <<x>>, up = <<>>
      PROVE  down' = <<>> /\ up' = <<>>
  BY <1>1, FirstToken DEF Lost
<1>2. ASSUME NEW x, down = <<>>, up = <<x>>
      PROVE  down' = <<>> /\ up' = <<>>
  BY <1>2, FirstToken DEF Lost
<1>3. ASSUME NEW x, NEW y, down = <<>>, up = <<x, y>>
      PROVE  down' = <<>> /\ up' = <<y>>
  <2>1. Tail(<<x, y>>) = <<y>>
    OBVIOUS
  <2> QED
    BY <1>3, <2>1 DEF Lost
<1>4. ~Quiet
  BY DEF Lost, Quiet
<1> QED
  BY <1>1, <1>2, <1>3, <1>4

LEMMA LostGet ==
  ASSUME Lost, GetInv, at' = at, chip' = chip, block' = block
  PROVE  GetInv'
<1>1. A' = A /\ N' = N /\ I' = I /\ \A x : Token(x)' = Token(x)
  BY DEF A, N, I, Token, Flash!Says
<1>2. CASE at = 1
  BY <1>1, <1>2, LostFrom DEF GetInv, Begun, Quiet
<1>3. CASE at = 2
  <2>1. CASE down = <<Token("sync"), Token("get")>> /\ up = <<>>
    <3>1. Tail(<<Token("sync"), Token("get")>>) = <<Token("get")>>
      OBVIOUS
    <3>2. down' = <<Token("get")>> /\ up' = <<>>
      BY <2>1, <3>1 DEF Lost
    <3> QED
      BY <1>1, <1>3, <3>2 DEF GetInv
  <2>2. CASE down = <<Token("get")>> /\ up = <<>>
    <3>1. down' = <<>> /\ up' = <<>>
      BY <2>2, LostFrom
    <3> QED
      BY <1>1, <1>3, <3>1 DEF GetInv
  <2>3. CASE down = <<Token("get")>> /\ up = <<A>>
    <3>1. Tail(<<Token("get")>>) = <<>> /\ Tail(<<A>>) = <<>>
      OBVIOUS
    <3>2. (down' = <<>> /\ up' = <<A>>) \/ (down' = <<Token("get")>> /\ up' = <<>>)
      BY <2>3, <3>1 DEF Lost
    <3> QED
      BY <1>1, <1>3, <3>2 DEF GetInv
  <2>4. CASE down = <<>>
    <3>1. down' = <<>> /\ up # <<>> /\ up' = Tail(up)
      BY <2>4 DEF Lost
    <3>2. up \in {<<A, A, I, A>>, <<A, I, A>>, <<I, A>>, <<A>>, <<N>>}
      BY <1>3, <2>4, <3>1 DEF GetInv
    <3>3. up' \in {<<A, I, A>>, <<I, A>>, <<A>>, <<>>}
      BY <3>1, <3>2, TailsOf, Zenon
    <3> QED
      BY <1>1, <1>3, <3>1, <3>3 DEF GetInv
  <2> QED
    BY <1>3, <2>1, <2>2, <2>3, <2>4 DEF GetInv
<1>4. CASE at = 3
  <2>1. CASE down = <<Token("get")>> /\ up = <<>>
    <3>1. down' = <<>> /\ up' = <<>>
      BY <2>1, LostFrom
    <3> QED
      BY <1>1, <1>4, <3>1 DEF GetInv
  <2>2. CASE down = <<>>
    <3>1. down' = <<>> /\ up # <<>> /\ up' = Tail(up)
      BY <2>2 DEF Lost
    <3>2. up \in {<<A, I, A>>, <<I, A>>, <<A>>}
      BY <1>4, <2>2, <3>1 DEF GetInv
    <3>3. up' \in {<<I, A>>, <<A>>, <<>>}
      BY <3>1, <3>2, TailsOf, Zenon
    <3> QED
      BY <1>1, <1>4, <3>1, <3>3 DEF GetInv
  <2> QED
    BY <1>4, <2>1, <2>2 DEF GetInv
<1>5. CASE at \notin {1, 2, 3}
  BY <1>1, <1>5, LostFrom DEF GetInv, Quiet
<1> QED
  BY <1>2, <1>3, <1>4, <1>5

LEMMA LostId ==
  ASSUME Lost, IdInv, at' = at, block' = block
  PROVE  IdInv'
<1>1. A' = A /\ N' = N /\ I' = I /\ \A x : Token(x)' = Token(x)
  BY DEF A, N, I, Token, Flash!Says
<1>2. CASE at \in {2, 3, 4} /\ down = <<>>
  <2>1. down' = <<>> /\ up # <<>> /\ up' = Tail(up)
    BY <1>2 DEF Lost
  <2>2. /\ at = 2 => up \in {<<A, I, A>>, <<I, A>>, <<A>>, <<N>>}
        /\ at = 3 => up \in {<<I, A>>, <<A>>}
        /\ at = 4 => up = <<A>>
    BY <1>2, <2>1 DEF IdInv
  <2>3. /\ at = 2 => up' \in {<<I, A>>, <<A>>, <<>>}
        /\ at = 3 => up' \in {<<A>>, <<>>}
        /\ at = 4 => up' = <<>>
    BY <2>1, <2>2, TailsOf, Zenon
  <2> QED
    BY <1>1, <1>2, <2>1, <2>3 DEF IdInv
<1>3. CASE at = 2 /\ down # <<>>
  <2>1. down' = <<>> /\ up' = <<>>
    BY <1>3, LostFrom DEF IdInv
  <2> QED
    BY <1>1, <1>3, <2>1 DEF IdInv
<1>4. CASE at \notin {2, 3, 4}
  BY <1>1, <1>4, LostFrom DEF IdInv, Quiet
<1> QED
  BY <1>2, <1>3, <1>4 DEF IdInv

LEMMA LostRead ==
  ASSUME Lost, ReadInv, at' = at, block' = block, flash' = flash, place' = place
  PROVE  ReadInv'
<1>1. A' = A /\ N' = N /\ D' = D /\ \A x : Token(x)' = Token(x)
  BY DEF A, N, D, Token, Flash!Says
<1>2. CASE at = 6
  <2>1. down' = <<>> /\ up' \in {<<D>>, <<>>}
    <3>1. CASE down = <<Token("length")>> /\ up = <<>>
      BY <3>1, LostFrom
    <3>2. CASE down = <<>>
      <4>1. down' = <<>> /\ up # <<>> /\ up' = Tail(up)
        BY <3>2 DEF Lost
      <4>2. up \in {<<A, D>>, <<D>>, <<N>>}
        BY <1>2, <3>2, <4>1 DEF ReadInv
      <4>3. Tail(<<A, D>>) = <<D>> /\ Tail(<<D>>) = <<>> /\ Tail(<<N>>) = <<>>
        OBVIOUS
      <4> QED
        BY <4>1, <4>2, <4>3, Zenon
    <3> QED
      BY <1>2, <3>1, <3>2 DEF ReadInv
  <2> QED
    BY <1>1, <1>2, <2>1 DEF ReadInv
<1>3. CASE at \in {2, 4}
  <2>1. down' = <<>> /\ up' = <<>>
    BY <1>3, LostFrom DEF ReadInv, Awaits
  <2> QED
    BY <1>1, <1>3, <2>1 DEF ReadInv, Awaits, Quiet
<1>4. CASE at = 7
  <2>1. down' = <<>> /\ up' = <<>>
    BY <1>4, LostFrom DEF ReadInv, Quiet
  <2> QED
    BY <1>1, <1>4, <2>1 DEF ReadInv
<1>5. CASE at \notin {2, 4, 6, 7}
  BY <1>1, <1>5, LostFrom DEF ReadInv
<1> QED
  BY <1>2, <1>3, <1>4, <1>5

LEMMA LostAwaited ==
  ASSUME Lost, NEW w, NEW Done, Awaits(w, Done)
  PROVE  Quiet'
BY LostFrom DEF Awaits, Quiet

LEMMA LostLine ==
  ASSUME PositionTypes, LineInv, Flash!Loses
  PROVE  LineInv'
<1>1. /\ Lost
      /\ cmd' = cmd /\ at' = at /\ block' = block /\ chip' = chip /\ place' = place
      /\ flash' = flash /\ job' = job
  BY DEF Flash!Loses, Lost, Flash!host, Flash!position, Flash!device
<1>2. CASE cmd = "get"
  <2>1. GetInv'
    BY <1>1, <1>2, LostGet DEF LineInv
  <2> QED
    BY <1>1, <1>2, <2>1 DEF LineInv
<1>3. CASE cmd = "id"
  <2>1. IdInv'
    BY <1>1, <1>3, LostId DEF LineInv
  <2> QED
    BY <1>1, <1>3, <2>1 DEF LineInv
<1>4. CASE cmd = "erase"
  <2>1. EraseInv
    BY <1>4 DEF LineInv
  <2>2. at \in {2, 4} => Quiet'
    BY <1>1, <2>1, LostAwaited DEF EraseInv
  <2>3. EraseInv'
    BY <1>1, <2>1, <2>2, LostFrom DEF EraseInv, Awaits
  <2> QED
    BY <1>1, <1>4, <2>3 DEF LineInv
<1>5. CASE cmd = "write"
  <2>1. WriteInv
    BY <1>5 DEF LineInv
  <2>2. at \in {2, 4, 6} => Quiet'
    BY <1>1, <2>1, LostAwaited DEF WriteInv
  <2>3. WriteInv'
    BY <1>1, <2>1, <2>2, LostFrom DEF WriteInv, Awaits
  <2> QED
    BY <1>1, <1>5, <2>3 DEF LineInv
<1>6. CASE cmd = "read"
  <2>1. ReadInv'
    BY <1>1, <1>6, LostRead DEF LineInv
  <2> QED
    BY <1>1, <1>6, <2>1 DEF LineInv
<1>7. CASE cmd = "sync"
  <2>1. at = 1 \/ at = 2
    <3>1. at \in 1 .. Len(Flash!Steps["sync"])
      BY <1>7 DEF PositionTypes
    <3> QED
      BY <3>1, Lengths
  <2>2. at = 2
    BY <1>1, <1>7, <2>1, LostFrom DEF LineInv
  <2>3. down' = <<>> /\ up' = <<>>
    BY <1>1, <1>7, <2>2, LostFrom DEF LineInv, Begun
  <2> QED
    BY <1>1, <1>7, <2>2, <2>3 DEF LineInv, Begun, Quiet
<1>8. CASE cmd = "end"
  BY <1>1, <1>8, LostFrom DEF LineInv
<1> QED
  BY <1>2, <1>3, <1>4, <1>5, <1>6, <1>7, <1>8 DEF PositionTypes

-----------------------------------------------------------------------------
(* The types of the loader, its blocks and its data.                       *)

LEMMA Constant == Blocks \in Nat /\ Blocks > 0 /\ 1 \in 1 .. Blocks
BY LoaderConstants DEF Flash!LoaderAssumption

LEMMA FlashTyped ==
  ASSUME flash \in [1 .. Blocks -> FlashStates], Flash!Chip
  PROVE  flash' \in [1 .. Blocks -> FlashStates]
<1>1. Hears(Head(down), up, up')
  BY ChipHears
<1>2. CASE flash' = flash
  BY <1>2
<1>3. CASE flash' = [b \in 1 .. Blocks |-> "erased"]
  BY <1>3 DEF FlashStates
<1>4. CASE flash' = [flash EXCEPT ![place] =
                       IF Head(down).block = place THEN Flash!Programmed(flash[place]) ELSE "mixed"]
  BY <1>4 DEF FlashStates, Flash!Programmed
<1> QED
  BY <1>1, <1>2, <1>3, <1>4 DEF Hears

LEMMA LoaderTyped ==
  ASSUME LoaderInv, [Flash!Next]_loader
  PROVE  LoaderTypes'
<1>1. LoaderTypes
  BY DEF LoaderInv
<1>2. CASE Flash!Sends
  <2>1. /\ cmd # "end" /\ Flash!Goes /\ job' = job /\ data' = data /\ released' = released
        /\ flash' = flash
    BY <1>2 DEF Flash!Sends, Flash!Runs, Flash!device
  <2>2. PositionTypes' /\ outcome' = outcome
    BY <1>1, <2>1, GoesTypes DEF LoaderTypes, Flash!Goes
  <2> QED
    BY <1>1, <2>1, <2>2 DEF LoaderTypes
<1>3. CASE Flash!WaitsForAck \/ Flash!TakesInfo \/ Flash!TimesOut
  <2>1. /\ cmd # "end" /\ job' = job /\ data' = data /\ released' = released /\ flash' = flash
        /\ Flash!Goes \/ (outcome' = "exception" /\ UNCHANGED <<cmd, block, at>>)
    BY <1>3 DEF Flash!WaitsForAck, Flash!TakesInfo, Flash!TimesOut, Flash!Runs, Flash!Raises,
                Flash!device, Flash!position
  <2>2. CASE Flash!Goes
    <3>1. PositionTypes' /\ outcome' = outcome
      BY <1>1, <2>1, <2>2, GoesTypes DEF LoaderTypes, Flash!Goes
    <3> QED
      BY <1>1, <2>1, <3>1 DEF LoaderTypes
  <2>3. CASE outcome' = "exception" /\ UNCHANGED <<cmd, block, at>>
    BY <1>1, <2>1, <2>3 DEF LoaderTypes, PositionTypes
  <2> QED
    BY <2>1, <2>2, <2>3
<1>4. CASE Flash!TakesData
  <2>1. /\ cmd # "end" /\ job' = job /\ released' = released /\ flash' = flash
        /\ Flash!Goes /\ outcome = "going"
    BY <1>4 DEF Flash!TakesData, Flash!Runs, Flash!device
  <2>2. PositionTypes' /\ outcome' = outcome
    BY <1>1, <2>1, GoesTypes DEF LoaderTypes, Flash!Goes
  <2>3. ~released
    BY <2>1 DEF LoaderInv
  <2>4. data' = Append(data, flash[block])
    BY <1>1, <1>4, <2>1, <2>3, TakesLine DEF LoaderInv, LoaderTypes, Live
  <2>5. data' \in Seq(FlashStates)
    <3>1. block \in 1 .. Blocks /\ data \in Seq(FlashStates) /\ flash \in [1 .. Blocks -> FlashStates]
      BY <1>1 DEF LoaderTypes, PositionTypes
    <3> QED
      BY <2>4, <3>1
  <2> QED
    BY <1>1, <2>1, <2>2, <2>5 DEF LoaderTypes
<1>5. CASE Flash!Compares \/ Flash!releaseChip
  <2>1. /\ PositionTypes' /\ job' = job /\ data' = data /\ flash' = flash
        /\ outcome' \in {outcome, "done", "ok", "failed"} /\ released' \in {released, TRUE}
    BY <1>1, <1>5 DEF Flash!Compares, Flash!releaseChip, Flash!position, Flash!device,
                      LoaderTypes, PositionTypes
  <2> QED
    BY <1>1, <2>1 DEF LoaderTypes
<1>6. CASE Flash!Starts
  <2>1. /\ cmd' = "sync" /\ block' = 1 /\ at' = 1 /\ job' \in Flash!Jobs /\ data' = <<>>
        /\ outcome' = "going" /\ released' = FALSE /\ flash' = flash
    BY <1>6 DEF Flash!Starts
  <2>2. 1 \in 1 .. Len(Flash!Steps["sync"])
    BY Lengths
  <2>3. PositionTypes'
    BY <2>1, <2>2, Constant DEF PositionTypes
  <2>4. <<>> \in Seq(FlashStates)
    OBVIOUS
  <2> QED
    BY <1>1, <2>1, <2>3, <2>4 DEF LoaderTypes
<1>7. CASE Flash!Chip
  <2>1. /\ PositionTypes' /\ job' = job /\ data' = data /\ outcome' = outcome
        /\ released' = released
    BY <1>1, <1>7, ChipHears DEF LoaderTypes, PositionTypes
  <2>2. flash' \in [1 .. Blocks -> FlashStates]
    BY <1>1, <1>7, FlashTyped DEF LoaderTypes
  <2> QED
    BY <1>1, <2>1, <2>2 DEF LoaderTypes
<1>8. CASE Flash!Loses \/ UNCHANGED loader
  <2>1. /\ PositionTypes' /\ job' = job /\ data' = data /\ flash' = flash
        /\ outcome' = outcome /\ released' = released
    BY <1>1, <1>8 DEF Flash!Loses, Flash!host, Flash!position, Flash!device, loader,
                      LoaderTypes, PositionTypes
  <2> QED
    BY <1>1, <2>1 DEF LoaderTypes
<1> QED
  BY <1>2, <1>3, <1>4, <1>5, <1>6, <1>7, <1>8 DEF Flash!Next, Flash!Host

(* Only commands that write or erase change the flash, and each only what  *)
(* it is at.                                                               *)
LEMMA ChipFlash ==
  ASSUME PositionTypes, LineInv, FlashInv, Flash!Chip, flash \in [1 .. Blocks -> FlashStates],
         cmd = "write" => job.write
  PROVE  /\ LineInv' /\ FlashInv'
         /\ cmd \in {"read", "end"} => flash' = flash
<1>1. /\ cmd' = cmd /\ block' = block /\ at' = at /\ job' = job
      /\ down # <<>> /\ block \in 1 .. Blocks
  BY ChipHears DEF PositionTypes
<1>2. CASE cmd = "sync"
  <2>1. at = 2 /\ Begun
    <3>1. at \in 1 .. Len(Flash!Steps["sync"])
      BY <1>2 DEF PositionTypes
    <3>2. at = 1 \/ at = 2
      BY <3>1, Lengths
    <3> QED
      BY <1>1, <1>2, <3>2 DEF LineInv, Quiet
  <2>2. Begun'
    BY <2>1, BegunHeard
  <2> QED
    BY <1>1, <1>2, <2>1, <2>2 DEF LineInv, FlashInv
<1>3. CASE cmd = "get"
  <2>1. GetInv'
    BY <1>3, ChipGet DEF LineInv
  <2> QED
    BY <1>1, <1>3, <2>1 DEF LineInv, FlashInv
<1>4. CASE cmd = "id"
  <2>1. IdInv'
    BY <1>4, ChipId DEF LineInv
  <2> QED
    BY <1>1, <1>4, <2>1 DEF LineInv, FlashInv
<1>5. CASE cmd = "erase"
  <2>1. EraseInv'
    BY <1>5, ChipErase DEF LineInv
  <2> QED
    BY <1>1, <1>5, <2>1 DEF LineInv, FlashInv
<1>6. CASE cmd = "write"
  <2>1. WriteInv /\ at \in 1 .. 6
    BY <1>6, LengthOf DEF LineInv, PositionTypes
  <2>2. CASE job.erase /\ job.write
    <3>1. flash[block] \in {"erased", "new"}
      BY <1>6, <2>2 DEF FlashInv
    <3>2. WriteInv'
      BY <1>1, <2>1, <3>1, ChipWrite
    <3>3. \/ flash' = flash
          \/ /\ at = 6 /\ place = block
             /\ flash' = [flash EXCEPT ![block] = Flash!Programmed(flash[block])]
      <4>1. CASE at \in {1, 3, 5}
        BY <1>1, <2>1, <4>1 DEF WriteInv, Quiet
      <4>2. CASE at = 2
        <5>1. down = <<Token("write")>> /\ up = <<>>
          BY <1>1, <2>1, <4>2 DEF WriteInv, Awaits, Quiet
        <5> QED
          BY <5>1, OneToken
      <4>3. CASE at = 4
        <5>1. down = <<Token("address")>> /\ up = <<>>
          BY <1>1, <2>1, <4>3 DEF WriteInv, Awaits, Quiet
        <5> QED
          BY <5>1, OneToken
      <4>4. CASE at = 6
        <5>1. down = <<Token("data")>> /\ up = <<>> /\ place = block
          BY <1>1, <2>1, <4>4 DEF WriteInv, Awaits, Quiet
        <5> QED
          BY <4>4, <5>1, OneToken
      <4> QED
        BY <2>1, <4>1, <4>2, <4>3, <4>4
    <3>4. FlashInv'
      <4>1. CASE flash' = flash
        BY <1>1, <1>6, <2>2, <4>1 DEF FlashInv
      <4>2. CASE at = 6 /\ flash' = [flash EXCEPT ![block] = Flash!Programmed(flash[block])]
        <5>1. /\ flash'[block] = "new"
              /\ \A b \in 1 .. Blocks : b # block => flash'[b] = flash[b]
          BY <1>1, <3>1, <4>2 DEF Flash!Programmed
        <5>2. /\ \A b \in 1 .. Blocks : b < block => flash[b] = "new"
              /\ \A b \in 1 .. Blocks : b > block => flash[b] = "erased"
          BY <1>6, <2>2 DEF FlashInv
        <5>3. /\ \A b \in 1 .. Blocks : b < block => flash'[b] = "new"
              /\ \A b \in 1 .. Blocks : b > block => flash'[b] = "erased"
          BY <1>1, <5>1, <5>2
        <5> QED
          BY <1>1, <1>6, <4>2, <5>1, <5>3 DEF FlashInv
      <4> QED
        BY <3>3, <4>1, <4>2
    <3> QED
      BY <1>1, <1>6, <3>2, <3>4 DEF LineInv
  <2>3. CASE ~(job.erase /\ job.write)
    <3>1. ~job.erase
      BY <1>6, <2>3
    <3>2. WriteInv'
      BY <1>1, <2>1, <3>1, ChipWrite
    <3>3. FlashInv'
      BY <1>1, <3>1 DEF FlashInv
    <3> QED
      BY <1>1, <1>6, <3>2, <3>3 DEF LineInv
  <2> QED
    BY <2>2, <2>3
<1>7. CASE cmd = "read"
  <2>1. ReadInv /\ at \in 1 .. 7
    BY <1>7, LengthOf DEF LineInv, PositionTypes
  <2>2. ReadInv' /\ flash' = flash
    BY <2>1, ChipRead
  <2> QED
    BY <1>1, <1>7, <2>2 DEF LineInv, FlashInv
<1>8. CASE cmd = "end"
  BY <1>1, <1>8 DEF LineInv, Quiet
<1> QED
  BY <1>2, <1>3, <1>4, <1>5, <1>6, <1>7, <1>8 DEF PositionTypes

(* Nothing of the file is written or compared when the program goes on to  *)
(* the next step of a command.                                             *)
LEMMA SameCommand ==
  ASSUME FlashInv, DataInv, outcome' = outcome, cmd' = cmd, block' = block, job' = job,
         flash' = flash, data' = data, at' = at \/ ~(cmd = "write" /\ at = 6)
  PROVE  FlashInv' /\ DataInv'
<1>1. FlashInv'
  <2>1. CASE cmd = "write" /\ job.erase /\ job.write
    BY <2>1 DEF FlashInv
  <2>2. CASE ~(cmd = "write" /\ job.erase /\ job.write)
    BY <2>2 DEF FlashInv
  <2> QED
    BY <2>1, <2>2
<1>2. DataInv'
  BY DEF DataInv, Flash!File
<1> QED
  BY <1>1, <1>2

(* No data yet: what comes first is a block to write, or one to read if    *)
(* that is asked for.                                                      *)
LEMMA NewCommand ==
  ASSUME data' = <<>>, outcome' = "going", block' = 1,
         cmd' = "read" => job'.verify, cmd' = "end" => ~job'.verify, cmd' = "write" => job'.write
  PROVE  DataInv'
<1>1. Len(data') = 0
  OBVIOUS
<1>2. CASE cmd' = "read"
  <2>1. Len(data') < block' /\ \A i \in 1 .. block' - 1 : FALSE
    BY <1>1
  <2> QED
    BY <1>2, <2>1 DEF DataInv
<1>3. CASE cmd' # "read"
  BY <1>3 DEF DataInv
<1> QED
  BY <1>2, <1>3

LEMMA FlashIs ==
  ASSUME flash \in [1 .. Blocks -> FlashStates], \A b \in 1 .. Blocks : flash[b] = "new"
  PROVE  flash = Flash!File
BY DEF Flash!File

(* After the program was acknowledged.                                     *)
LEMMA AckedFlash ==
  ASSUME LoaderTypes, LineInv, FlashInv, DataInv, Flash!WaitsForAck, outcome' # "exception"
  PROVE  FlashInv' /\ DataInv'
<1>1. /\ cmd # "end" /\ Flash!Step.op = "ack" /\ up # <<>> /\ outcome = "going"
      /\ job' = job /\ data' = data /\ flash' = flash /\ PositionTypes
  BY DEF Flash!WaitsForAck, Flash!Runs, Flash!Answered, Flash!device, LoaderTypes
<1>2. Flash!Goes /\ (cmd # "sync" => up # <<N>>)
  BY <1>1, AckedLine, NoAck
<1>3. CASE cmd = "sync"
  <2>1. at = Len(Flash!Steps[cmd])
    BY <1>1, <1>3, AckSteps, LengthOf
  <2>2. cmd' = "get" /\ block' = 1 /\ outcome' = outcome
    BY <1>1, <1>2, <1>3, <2>1, GoesTo
  <2> QED
    BY <1>1, <1>3, <2>2, NewCommand DEF FlashInv, DataInv
<1>4. CASE at \in {2, 4} /\ ~(at = 4 /\ cmd \in {"get", "id", "erase"}) /\ cmd # "sync"
  <2>1. \/ at = 2 /\ cmd \in {"get", "id", "erase", "write", "read"}
        \/ at = 4 /\ cmd \in {"write", "read"}
    BY <1>1, <1>4 DEF PositionTypes
  <2>2. CASE at = 2 /\ cmd \in {"get", "id", "erase", "write", "read"}
    <3>1. cmd' = cmd /\ block' = block /\ outcome' = outcome
      BY <1>1, <1>2, <2>2, GoesAhead
    <3> QED
      BY <1>1, <2>2, <3>1, SameCommand
  <2>3. CASE at = 4 /\ cmd \in {"write", "read"}
    <3>1. cmd' = cmd /\ block' = block /\ outcome' = outcome
      BY <1>1, <1>2, <2>3, GoesAhead
    <3> QED
      BY <1>1, <2>3, <3>1, SameCommand
  <2> QED
    BY <2>1, <2>2, <2>3
<1>5. CASE at = 4 /\ cmd = "get"
  <2>1. cmd' = "id" /\ block' = 1 /\ outcome' = outcome
    BY <1>1, <1>2, <1>5, GoesTo, LengthOf
  <2> QED
    BY <1>1, <1>5, <2>1, NewCommand DEF FlashInv, DataInv
<1>6. CASE at = 4 /\ cmd = "id"
  <2>1. cmd' = Flash!Erase /\ block' = 1 /\ outcome' = outcome
    BY <1>1, <1>2, <1>6, GoesTo, LengthOf
  <2>2. /\ cmd' = "read" => job.verify
        /\ cmd' = "end" => ~job.verify
        /\ cmd' = "write" => job.write
        /\ job.erase => cmd' = "erase"
    BY <2>1 DEF Flash!Erase, Flash!Write, Flash!Verify
  <2> QED
    BY <1>1, <1>6, <2>1, <2>2, NewCommand DEF FlashInv, DataInv
<1>7. CASE at = 4 /\ cmd = "erase"
  <2>1. cmd' = Flash!Write /\ block' = 1 /\ outcome' = outcome
    BY <1>1, <1>2, <1>7, GoesTo, LengthOf
  <2>2. /\ cmd' = "read" => job.verify
        /\ cmd' = "end" => ~job.verify
        /\ cmd' = "write" => job.write
        /\ job.write => cmd' = "write"
    BY <2>1 DEF Flash!Write, Flash!Verify
  <2>3. DataInv'
    BY <1>1, <1>7, <2>1, <2>2, NewCommand DEF DataInv
  <2>4. EraseInv
    BY <1>7 DEF LineInv
  <2>5. \A b \in 1 .. Blocks : flash[b] = "erased"
    BY <1>1, <1>2, <1>7, <2>4 DEF EraseInv, Awaits, Quiet
  <2>6. FlashInv'
    <3>1. CASE job.write
      <4>1. cmd' = "write" /\ block' = 1 /\ flash' = flash
        BY <1>1, <2>1, <2>2, <3>1
      <4>2. \A b \in 1 .. Blocks : ~(b < 1)
        OBVIOUS
      <4> QED
        BY <2>5, <4>1, <4>2, Constant DEF FlashInv
    <3>2. CASE ~job.write
      BY <1>1, <3>2 DEF FlashInv
    <3> QED
      BY <3>1, <3>2
  <2> QED
    BY <2>3, <2>6
<1>8. CASE at = 6 /\ cmd = "write"
  <2>1. at = Len(Flash!Steps[cmd])
    BY <1>8, LengthOf
  <2>2. /\ outcome' = outcome
        /\ \/ cmd' = "write" /\ block < Blocks /\ block' = block + 1
           \/ cmd' = Flash!Verify /\ cmd' \in {"read", "end"} /\ block = Blocks /\ block' = 1
    BY <1>1, <1>2, <1>8, <2>1, WriteGoesBack
  <2>3. WriteInv /\ data = <<>> /\ job.write
    BY <1>8 DEF LineInv, DataInv
  <2>4. job.erase => flash[block] = "new"
    BY <1>1, <1>2, <1>8, <2>3 DEF WriteInv, Awaits, Quiet
  <2>5. /\ block \in 1 .. Blocks /\ Blocks \in Nat /\ flash \in [1 .. Blocks -> FlashStates]
    BY Constant DEF LoaderTypes, PositionTypes
  <2>6. job.erase => /\ \A b \in 1 .. Blocks : b < block => flash[b] = "new"
                     /\ \A b \in 1 .. Blocks : b > block => flash[b] = "erased"
    BY <1>8, <2>3 DEF FlashInv
  <2>7. CASE cmd' = "write" /\ block < Blocks /\ block' = block + 1
    <3>1. DataInv'
      BY <1>1, <2>2, <2>3, <2>7 DEF DataInv
    <3>2. job.erase => /\ \A b \in 1 .. Blocks : b < block + 1 => flash[b] = "new"
                       /\ \A b \in 1 .. Blocks : b > block + 1 => flash[b] = "erased"
                       /\ flash[block + 1] = "erased"
      BY <2>4, <2>5, <2>6, <2>7
    <3>3. FlashInv'
      BY <1>1, <2>7, <3>2 DEF FlashInv
    <3> QED
      BY <3>1, <3>3
  <2>8. CASE cmd' = Flash!Verify /\ cmd' \in {"read", "end"} /\ block = Blocks /\ block' = 1
    <3>1. /\ cmd' = "read" => job.verify
          /\ cmd' = "end" => ~job.verify
      BY <2>8 DEF Flash!Verify
    <3>2. DataInv'
      BY <1>1, <2>2, <2>3, <2>8, <3>1, NewCommand
    <3>3. job.erase => \A b \in 1 .. Blocks : flash[b] = "new"
      BY <2>4, <2>5, <2>6, <2>8
    <3>4. job.erase => flash = Flash!File
      BY <2>5, <3>3, FlashIs
    <3>5. FlashInv'
      BY <1>1, <2>8, <3>4 DEF FlashInv, Flash!File
    <3> QED
      BY <3>2, <3>5
  <2> QED
    BY <2>2, <2>7, <2>8
<1>9. CASE at = 6 /\ cmd = "read"
  <2>1. cmd' = cmd /\ block' = block /\ outcome' = outcome
    BY <1>1, <1>2, <1>9, GoesAhead
  <2> QED
    BY <1>1, <1>9, <2>1, SameCommand
<1> QED
  BY <1>1, <1>3, <1>4, <1>5, <1>6, <1>7, <1>8, <1>9, AckSteps DEF PositionTypes

(* After it has read a block, or has not got it.                           *)
LEMMA ReadFlash ==
  ASSUME LoaderTypes, FlashInv, DataInv, cmd = "read", at = 7, Flash!Goes, outcome = "going",
         flash' = flash, job' = job, data' = data \/ data' = Append(data, flash[block])
  PROVE  FlashInv' /\ DataInv'
<1>1. at = Len(Flash!Steps[cmd])
  BY LengthOf
<1>2. /\ outcome' = "going"
      /\ \/ cmd' = "read" /\ block < Blocks /\ block' = block + 1
         \/ cmd' = "end" /\ block = Blocks /\ block' = 1
  BY <1>1, GoesBack DEF LoaderTypes
<1>3. FlashInv'
  BY <1>2 DEF FlashInv, Flash!File
<1>4. /\ block \in 1 .. Blocks /\ Blocks \in Nat /\ data \in Seq(FlashStates)
      /\ flash[block] \in FlashStates
  BY Constant DEF LoaderTypes, PositionTypes
<1>5. /\ job.verify /\ Len(data) < block
      /\ (Len(data) = block - 1 => \A i \in 1 .. block - 1 : data[i] = flash[i])
  BY DEF DataInv
<1>6. /\ Len(data') <= block
      /\ (Len(data') = block => \A i \in 1 .. block : data'[i] = flash[i])
  <2>1. CASE data' = data
    BY <1>4, <1>5, <2>1
  <2>2. CASE data' = Append(data, flash[block])
    <3>1. Len(data') = Len(data) + 1 /\ data'[Len(data) + 1] = flash[block]
      BY <1>4, <2>2
    <3>2. \A i \in 1 .. Len(data) : data'[i] = data[i]
      BY <1>4, <2>2
    <3>3. Len(data) \in Nat
      BY <1>4
    <3> QED
      BY <1>4, <1>5, <3>1, <3>2, <3>3
  <2> QED
    BY <2>1, <2>2
<1>7. Len(data') \in Nat
  BY <1>4
<1>8. CASE cmd' = "read" /\ block < Blocks /\ block' = block + 1
  <2>1. Len(data') < block' /\ (Len(data') = block' - 1 => \A i \in 1 .. block' - 1 : data'[i] = flash[i])
    BY <1>4, <1>6, <1>7, <1>8
  <2>2. DataInv'
    BY <1>2, <1>5, <1>8, <2>1 DEF DataInv
  <2> QED
    BY <1>3, <2>2
<1>9. CASE cmd' = "end" /\ block = Blocks /\ block' = 1
  <2>1. Len(data') <= Blocks /\ (Len(data') = Blocks => \A i \in 1 .. Blocks : data'[i] = flash'[i])
    BY <1>6, <1>9
  <2>2. DataInv'
    BY <1>2, <1>5, <1>9, <2>1 DEF DataInv
  <2> QED
    BY <1>3, <2>2
<1> QED
  BY <1>2, <1>3, <1>8, <1>9

-----------------------------------------------------------------------------
LEMMA LoaderStarts == Flash!Init => LoaderInv
<1> SUFFICES ASSUME Flash!Init PROVE LoaderInv
  OBVIOUS
<1>1. /\ cmd = "sync" /\ block = 1 /\ at = 1 /\ job \in Flash!Jobs /\ data = <<>>
      /\ outcome = "going" /\ released = FALSE /\ down = <<>> /\ up = <<>>
      /\ chip \in {"sync", "mute"}
  BY DEF Flash!Init
<1>2. 1 \in 1 .. Len(Flash!Steps["sync"])
  BY Lengths
<1>3. PositionTypes
  BY <1>1, <1>2, Constant DEF PositionTypes
<1>4. flash \in [1 .. Blocks -> FlashStates]
  BY DEF Flash!Init, FlashStates
<1>5. LoaderTypes
  <2>1. <<>> \in Seq(FlashStates)
    OBVIOUS
  <2> QED
    BY <1>1, <1>3, <1>4, <2>1 DEF LoaderTypes
<1>6. LineInv /\ FlashInv /\ DataInv
  BY <1>1 DEF LineInv, FlashInv, DataInv, Quiet
<1> QED
  BY <1>1, <1>5, <1>6 DEF LoaderInv

LEMMA LoaderGoes ==
  ASSUME LoaderInv, [Flash!Next]_loader
  PROVE  LoaderInv'
<1>1. LoaderTypes /\ LoaderTypes' /\ PositionTypes
  BY LoaderTyped DEF LoaderInv, LoaderTypes
<1>2. CASE Flash!Starts
  <2>1. /\ cmd' = "sync" /\ block' = 1 /\ at' = 1 /\ data' = <<>> /\ outcome' = "going"
        /\ released' = FALSE /\ down' = down /\ up' = up /\ chip' \in {"sync", "mute"}
        /\ Quiet
    BY <1>2 DEF Flash!Starts, LoaderInv
  <2>2. LineInv' /\ FlashInv' /\ DataInv'
    BY <2>1 DEF LineInv, FlashInv, DataInv, Quiet
  <2> QED
    BY <1>1, <2>1, <2>2 DEF LoaderInv
<1>3. CASE Flash!releaseChip
  BY <1>1, <1>3 DEF Flash!releaseChip, LoaderInv, Live, Quiet
<1>4. CASE /\ ~Flash!Starts /\ ~Flash!releaseChip /\ ~Live
  <2>1. ~Live'
    BY <1>4 DEF Flash!Next, Flash!Host, Flash!Sends, Flash!WaitsForAck, Flash!TakesInfo,
      Flash!TakesData, Flash!TimesOut, Flash!Compares, Flash!Runs, Flash!Chip, Flash!Loses,
      Flash!host, loader, Live
  <2>2. released' => Quiet' /\ outcome' # "going"
    <3>1. released' = released
      BY <1>4 DEF Flash!Next, Flash!Host, Flash!Sends, Flash!WaitsForAck, Flash!TakesInfo,
        Flash!TakesData, Flash!TimesOut, Flash!Compares, Flash!Chip, Flash!Loses,
        Flash!host, loader
    <3>2. CASE released
      <4>1. Quiet /\ outcome # "going"
        BY <3>2 DEF LoaderInv
      <4>2. UNCHANGED loader
        BY <1>4, <3>2, <4>1 DEF Flash!Next, Flash!Host, Flash!Sends, Flash!WaitsForAck, Flash!TakesInfo,
          Flash!TakesData, Flash!TimesOut, Flash!Compares, Flash!Runs, Flash!Chip, Flash!Heard, Flash!Loses,
          Quiet
      <4> QED
        BY <4>1, <4>2 DEF loader, Quiet
    <3> QED
      BY <3>1, <3>2
  <2> QED
    BY <1>1, <2>1, <2>2 DEF LoaderInv
<1>5. CASE /\ ~Flash!Starts /\ ~Flash!releaseChip /\ Live
  <2>1. released' = released /\ ~released /\ LineInv /\ FlashInv /\ DataInv
    BY <1>5 DEF Flash!Next, Flash!Host, Flash!Sends, Flash!WaitsForAck, Flash!TakesInfo,
        Flash!TakesData, Flash!TimesOut, Flash!Compares, Flash!Chip, Flash!Loses,
        Flash!host, loader, LoaderInv, Live
  <2> SUFFICES ASSUME outcome' # "exception" PROVE LineInv' /\ FlashInv' /\ DataInv'
    BY <1>1, <2>1 DEF LoaderInv, Live
  <2>2. CASE Flash!Sends
    <3>1. /\ cmd # "end" /\ Flash!Step.op = "send" /\ Flash!Goes /\ job' = job
          /\ data' = data /\ flash' = flash
      BY <2>2 DEF Flash!Sends, Flash!Runs, Flash!device
    <3>2. /\ \E k \in 1 .. 6 : /\ at = k
                               /\ \/ cmd = "sync" /\ k < 2
                                  \/ cmd \in {"get", "id", "erase"} /\ k < 4
                                  \/ cmd = "write" /\ k < 6
                                  \/ cmd = "read"
      BY <1>1, <3>1, SendSteps DEF PositionTypes
    <3>3. cmd' = cmd /\ block' = block /\ outcome' = outcome /\ ~(cmd = "write" /\ at = 6)
      BY <1>1, <3>1, <3>2, GoesAhead
    <3> QED
      BY <1>1, <2>1, <2>2, <3>1, <3>3, SendsLine, SameCommand
  <2>3. CASE Flash!WaitsForAck
    BY <1>1, <2>1, <2>3, AckedLine, AckedFlash
  <2>4. CASE Flash!TakesInfo
    <3>1. LineInv' /\ flash' = flash /\ cmd' = cmd /\ cmd \in {"get", "id"} /\ data' = data
      BY <1>1, <2>1, <2>4, TakesLine
    <3>2. job' = job /\ outcome' = "going" /\ outcome = "going"
      BY <2>4 DEF Flash!TakesInfo, Flash!Goes, Flash!Runs
    <3> QED
      BY <2>1, <3>1, <3>2 DEF FlashInv, DataInv
  <2>5. CASE Flash!TakesData
    <3>1. /\ LineInv' /\ Flash!Goes /\ flash' = flash /\ cmd = "read" /\ at = 7
          /\ data' = Append(data, flash[block])
      BY <1>1, <2>1, <2>5, TakesLine
    <3>2. job' = job /\ outcome = "going"
      BY <2>5 DEF Flash!TakesData, Flash!Runs
    <3> QED
      BY <1>1, <2>1, <3>1, <3>2, ReadFlash
  <2>6. CASE Flash!TimesOut
    <3>1. LineInv' /\ Flash!Goes /\ (cmd = "sync" \/ (cmd = "read" /\ at = 7))
      BY <1>1, <2>1, <2>6, LateLine
    <3>2. job' = job /\ outcome = "going" /\ flash' = flash /\ data' = data /\ Flash!Step.op # "send"
      BY <2>6 DEF Flash!TimesOut, Flash!Runs, Flash!device
    <3>3. CASE cmd = "sync"
      <4>1. at = 2
        BY <1>1, <3>2, <3>3, StepTable, Kinds
      <4>2. cmd' = "get" /\ block' = 1 /\ outcome' = outcome
        BY <1>1, <3>1, <3>3, <4>1, GoesTo, LengthOf
      <4> QED
        BY <2>1, <3>1, <3>2, <3>3, <4>2, NewCommand DEF FlashInv, DataInv
    <3>4. CASE cmd = "read" /\ at = 7
      BY <1>1, <2>1, <3>1, <3>2, <3>4, ReadFlash
    <3> QED
      BY <3>1, <3>3, <3>4
  <2>7. CASE Flash!Compares
    <3>1. /\ cmd = "end" /\ outcome = "going" /\ UNCHANGED <<cmd, block, at, job, data, down, up>>
          /\ flash' = flash
          /\ outcome' = "ok" => job.verify /\ data = Flash!File
      BY <2>7 DEF Flash!Compares, Flash!position, Flash!device, Flash!Verified
    <3>2. LineInv'
      BY <2>1, <3>1 DEF LineInv, Quiet
    <3>3. FlashInv'
      BY <2>1, <3>1 DEF FlashInv, Flash!File
    <3>4. DataInv'
      BY <2>1, <3>1 DEF DataInv, Flash!File
    <3> QED
      BY <3>2, <3>3, <3>4
  <2>8. CASE Flash!Chip
    <3>1. LineInv' /\ FlashInv' /\ (cmd \in {"read", "end"} => flash' = flash)
      BY <1>1, <2>1, <2>8, ChipFlash DEF LoaderTypes, DataInv
    <3>2. /\ cmd' = cmd /\ block' = block /\ job' = job /\ data' = data /\ outcome' = outcome
      BY <2>8, ChipHears
    <3>3. DataInv'
      BY <2>1, <3>1, <3>2 DEF DataInv, Flash!File
    <3> QED
      BY <3>1, <3>3
  <2>9. CASE Flash!Loses
    <3>1. /\ UNCHANGED <<cmd, block, at, job, data, outcome, flash>>
      BY <2>9 DEF Flash!Loses, Flash!host, Flash!position, Flash!device
    <3>2. FlashInv' /\ DataInv'
      BY <2>1, <3>1 DEF FlashInv, DataInv, Flash!File
    <3> QED
      BY <1>1, <2>1, <2>9, <3>2, LostLine
  <2>10. CASE UNCHANGED loader
    BY <2>1, <2>10 DEF loader, LineInv, Begun, GetInv, IdInv, EraseInv, WriteInv, ReadInv,
      Awaits, Quiet, FlashInv, DataInv, Flash!File, A, N, I, D, Token, Flash!Says
  <2> QED
    BY <1>5, <2>2, <2>3, <2>4, <2>5, <2>6, <2>7, <2>8, <2>9, <2>10 DEF Flash!Next, Flash!Host
<1> QED
  BY <1>2, <1>3, <1>4, <1>5

LEMMA LoaderSays ==
  ASSUME LoaderInv
  PROVE  Flash!SaidIsWritten
<1> SUFFICES ASSUME ~released
             PROVE  /\ outcome = "ok" => flash = Flash!File
                    /\ outcome = "done" /\ job.write /\ job.erase => flash = Flash!File
  BY DEF Flash!SaidIsWritten
<1>1. CASE outcome = "ok"
  <2>1. job.verify /\ data = Flash!File /\ cmd = "end"
    BY <1>1 DEF LoaderInv, Live, DataInv
  <2>2. Len(data) = Blocks
    BY <2>1, Constant DEF LoaderInv, LoaderTypes, Flash!File
  <2>3. \A i \in 1 .. Blocks : data[i] = flash[i]
    BY <1>1, <2>1, <2>2 DEF LoaderInv, Live, DataInv
  <2>4. \A i \in 1 .. Blocks : flash[i] = "new"
    BY <2>1, <2>3 DEF Flash!File
  <2> QED
    BY <1>1, <2>4, FlashIs DEF LoaderInv, LoaderTypes
<1>2. CASE outcome = "done" /\ job.write /\ job.erase
  BY <1>2 DEF LoaderInv, Live, DataInv, FlashInv
<1> QED
  BY <1>1, <1>2

-----------------------------------------------------------------------------
(* The displays. A second in which nothing is heard brings the timer and   *)
(* the gap one step nearer to their ends; what has been heard was heard    *)
(* since the timer was set, and what made the label green in the period    *)
(* before.                                                                 *)
DisplayInv ==
  /\ timer \in 1 .. Timeout /\ gap \in 0 .. 2 * Timeout
  /\ heard \in BOOLEAN /\ green \in BOOLEAN
  /\ heard = TRUE => gap <= Timeout - timer
  /\ green = TRUE => gap <= 2 * Timeout - timer
  /\ proxy = "closed" => reader = "ended" /\ writer = "ended"
  /\ misused = FALSE

LEMMA DisplaysStart == Desk!Init => DisplayInv
<1>1. Timeout \in Nat /\ Timeout > 0
  BY DisplayConstants DEF Desk!DisplayAssumption
<1> SUFFICES ASSUME Desk!Init PROVE DisplayInv
  OBVIOUS
<1>2. timer = 1 /\ gap = 2 * Timeout /\ heard = FALSE /\ green = FALSE
      /\ proxy = "runs" /\ misused = FALSE
  BY DEF Desk!Init
<1>3. 2 * Timeout \in 0 .. 2 * Timeout /\ 1 \in 1 .. Timeout
  BY <1>1
<1>4. heard \in BOOLEAN /\ green \in BOOLEAN /\ heard # TRUE /\ green # TRUE
  BY <1>2
<1> QED
  BY <1>2, <1>3, <1>4 DEF DisplayInv

LEMMA DisplaysGo ==
  ASSUME DisplayInv, [Desk!Next]_displays
  PROVE  DisplayInv'
<1> USE DEF DisplayInv
<1>1. Timeout \in Nat \ {0}
  BY DisplayConstants DEF Desk!DisplayAssumption
<1>2. CASE \/ Desk!TimesOut \/ Desk!Puts \/ Desk!Gets \/ Desk!Quits \/ Desk!Hud
           \/ Desk!Silence
  BY <1>2 DEF Desk!TimesOut, Desk!Puts, Desk!Gets, Desk!Quits, Desk!Hud, Desk!Silence,
    Desk!cab, Desk!serial
<1>3. CASE Desk!ReaderGoes
  BY <1>3 DEF Desk!ReaderGoes, Desk!Uses, Desk!cab
<1>4. CASE Desk!WriterGoes
  BY <1>4 DEF Desk!WriterGoes, Desk!Uses, Desk!cab
<1>5. CASE Desk!Interrupt
  BY <1>5 DEF Desk!Interrupt, Desk!cab
<1>6. CASE Desk!Closes
  <2>1. reader = "ended" /\ writer = "ended"
    BY <1>6 DEF Desk!Closes, Desk!BothEnded
  <2> QED
    BY <1>6, <2>1 DEF Desk!Closes, Desk!cab
<1>7. CASE Desk!Message
  <2>1. UNCHANGED Desk!serial
    BY <1>7 DEF Desk!Message
  <2>2. \/ heard' = TRUE /\ gap' = 0 /\ UNCHANGED <<green, timer>>
        \/ UNCHANGED Desk!cab
    BY <1>7 DEF Desk!Message, Desk!ReceiveData
  <2>3. CASE UNCHANGED Desk!cab
    BY <2>1, <2>3 DEF Desk!serial, Desk!cab
  <2>4. CASE heard' = TRUE /\ gap' = 0 /\ UNCHANGED <<green, timer>>
    <3>1. 0 \in 0 .. 2 * Timeout /\ 0 <= Timeout - timer /\ 0 <= 2 * Timeout - timer
      BY <1>1
    <3> QED
      BY <2>1, <2>4, <3>1 DEF Desk!serial
  <2> QED
    BY <2>2, <2>3, <2>4
<1>8. CASE Desk!Tick
  <2>1. UNCHANGED Desk!serial /\ Desk!LooksAtLabels
        /\ gap' = IF gap < 2 * Timeout THEN gap + 1 ELSE gap
    BY <1>8 DEF Desk!Tick
  <2>2. CASE timer = 1
    <3>1. green' = heard /\ heard' = FALSE /\ timer' = Timeout
      BY <2>1, <2>2 DEF Desk!LooksAtLabels, Desk!Green
    <3>2. gap' \in 0 .. 2 * Timeout /\ (heard = TRUE => gap' <= Timeout)
      BY <1>1, <2>1, <2>2
    <3>3. Timeout = 2 * Timeout - Timeout /\ Timeout \in 1 .. Timeout
      BY <1>1
    <3>4. green' = TRUE => gap' <= 2 * Timeout - timer'
      BY <3>1, <3>2, <3>3
    <3>5. green' \in BOOLEAN /\ heard' \in BOOLEAN /\ heard' # TRUE
      BY <3>1
    <3> QED
      BY <2>1, <3>1, <3>2, <3>3, <3>4, <3>5 DEF Desk!serial
  <2>3. CASE timer # 1
    BY <1>1, <2>1, <2>3 DEF Desk!LooksAtLabels, Desk!serial
  <2> QED
    BY <2>2, <2>3
<1>9. CASE UNCHANGED displays
  BY <1>9 DEF displays
<1> QED
  BY <1>2, <1>3, <1>4, <1>5, <1>6, <1>7, <1>8, <1>9 DEF Desk!Next

LEMMA DisplaysSay ==
  ASSUME DisplayInv
  PROVE  Desk!LabelsAreRecent
BY DisplayConstants DEF DisplayInv, Desk!LabelsAreRecent, Desk!DisplayAssumption

-----------------------------------------------------------------------------
(* The tuner.                                                              *)
Answers == [param : Tune!Params, v : Low .. High]

Mails ==
  {Tune!None, [kind |-> "list"], [kind |-> "set", param |-> Tune!NoParam, type |-> "int"]}
    \cup [kind : {"set"}, param : Tune!Params, v : Values, type : {"int", "float"}, nan : BOOLEAN]

TunerTypes ==
  /\ value \in [Tune!Params -> Low .. High]
  /\ params \in [Tune!Params -> Nat] /\ tree \in [Tune!Params -> Nat]
  /\ mail \in Mails /\ next \in 0 .. OnboardParamCount
  /\ port \in Seq(Answers) /\ pc \in {"idle", "open", "wait"} /\ clean \in BOOLEAN

(* Of a clean refresh the first parameters are in the table, the next      *)
(* wait at the socket, in their order, and the others have not been sent.  *)
Heard(first) ==
  /\ \A p \in Tune!Params : p < first => params[p] = value[p]
  /\ \A i \in 1 .. Len(port) : port[i].param = first + i - 1 /\ port[i].v = value[port[i].param]
  /\ mail.kind = "list" => first = 1 /\ port = <<>>
  /\ next # 0 => first + Len(port) = next

TunerInv ==
  /\ TunerTypes
  /\ pc # "wait" => port = <<>>
  /\ pc # "idle" => result = "none"
  /\ clean =>
       /\ mail.kind = "set" => mail.param = Tune!NoParam
       /\ pc # "idle" /\ mail.kind = "list" => next = 0
       /\ pc = "open" /\ next # 0 => next = 1
       /\ pc = "wait" => \E first \in Nat \ {0} : Heard(first)
       /\ result = "last" => tree = value

LEMMA TunerConstant ==
  /\ OnboardParamCount \in Nat \ {0} /\ Values \subseteq Nat
  /\ Low \in Nat /\ High \in Nat /\ Low <= High
BY TunerConstants DEF Tune!TunerAssumption

LEMMA TunerStarts == Tune!Init => TunerInv
<1> SUFFICES ASSUME Tune!Init PROVE TunerInv
  OBVIOUS
<1>1. value \in [Tune!Params -> Low .. High] /\ mail = Tune!None /\ next = 0 /\ port = <<>>
      /\ pc = "idle" /\ clean = FALSE
  BY DEF Tune!Init
<1>4. mail \in Mails
  BY <1>1 DEF Mails
<1>2. tree = params /\ params = [p \in Tune!Params |-> 0]
  BY DEF Tune!Init, Tune!Unknown
<1>5. params \in [Tune!Params -> Nat] /\ tree \in [Tune!Params -> Nat]
  BY <1>2
<1>6. next \in 0 .. OnboardParamCount
  BY <1>1, TunerConstant
<1>8. clean \in BOOLEAN
  BY <1>1
<1>7. port \in Seq(Answers)
  BY <1>1
<1>3. TunerTypes
  BY <1>1, <1>4, <1>5, <1>6, <1>7, <1>8 DEF TunerTypes
<1> QED
  BY <1>1, <1>3 DEF TunerInv

(* A parameter keeps its limits, however it is set.                        *)
LEMMA SetTypes ==
  ASSUME value \in [Tune!Params -> Low .. High], NEW p, NEW v \in Nat
  PROVE  Tune!Asked(p, v) \in [Tune!Params -> Low .. High]
<1>1. Tune!InRange(v) \in Low .. High
  BY TunerConstant DEF Tune!InRange
<1> QED
  BY <1>1 DEF Tune!Asked

LEMMA MailedTypes ==
  ASSUME mail \in Mails, NEW new \in Mails, Tune!Mailed(new)
  PROVE  mail' \in Mails /\ (mail' = mail \/ (mail = Tune!None /\ mail' = new))
BY DEF Tune!Mailed

(* What an answer changes.                                                 *)
LEMMA AnswerGoes ==
  ASSUME NEW d \in Answers, Tune!Goes(d), port \in Seq(Answers), clean \in BOOLEAN
  PROVE  /\ port' \in Seq(Answers) /\ clean' \in BOOLEAN
         /\ pc # "wait" => port' = port
         /\ clean' => pc = "wait" /\ clean /\ port' = Append(port, d)
<1>1. CASE IF pc = "wait" THEN port' = Append(port, d) /\ UNCHANGED clean
           ELSE clean' = FALSE /\ UNCHANGED port
  <2>1. CASE pc = "wait"
    <3>1. port' = Append(port, d) /\ clean' = clean
      BY <1>1, <2>1
    <3>2. port' \in Seq(Answers)
      BY <3>1
    <3> QED
      BY <2>1, <3>1, <3>2
  <2>2. CASE pc # "wait"
    BY <1>1, <2>2
  <2> QED
    BY <2>1, <2>2
<1>2. CASE clean' = FALSE /\ UNCHANGED port
  BY <1>2
<1> QED
  BY <1>1, <1>2 DEF Tune!Goes

(* Steps at which neither the table nor the socket are touched.            *)
LEMMA Unheard ==
  ASSUME TunerInv, TunerTypes', UNCHANGED <<value, next, port, pc, result, params, tree>>,
         clean' => clean /\ \/ mail' = mail
                            \/ mail' = Tune!None
                            \/ mail'.kind = "set" /\ mail'.param = Tune!NoParam
  PROVE  TunerInv'
<1>1. Tune!None.kind = "none"
  BY DEF Tune!None
<1>2. ASSUME clean', pc = "wait" PROVE \E first \in Nat \ {0} : Heard(first)'
  <2>1. PICK first \in Nat \ {0} : Heard(first)
    BY <1>2 DEF TunerInv
  <2> QED
    BY <1>1, <1>2, <2>1 DEF Heard
<1> QED
  BY <1>1, <1>2 DEF TunerInv

LEMMA TunerFetches ==
  ASSUME TunerInv, Tune!FetchList
  PROVE  TunerInv'
<1>1. /\ next = 0 /\ mail.kind = "list" /\ mail' = Tune!None /\ next' = 1
      /\ UNCHANGED <<value, port, pc, result, params, tree, clean>>
  BY DEF Tune!FetchList, Tune!tuner
<1>2. mail'.kind = "none" /\ mail' \in Mails
  BY <1>1 DEF Tune!None, Mails
<1>3. TunerTypes'
  BY <1>1, <1>2, TunerConstant DEF TunerInv, TunerTypes
<1>4. ASSUME clean, pc = "wait" PROVE \E first \in Nat \ {0} : Heard(first)'
  <2>1. PICK first \in Nat \ {0} : Heard(first)
    BY <1>4 DEF TunerInv
  <2>2. first = 1 /\ port = <<>>
    BY <1>1, <2>1 DEF Heard
  <2>3. Len(port) = 0
    BY <2>2
  <2> QED
    BY <1>1, <1>2, <2>1, <2>2, <2>3 DEF Heard
<1> QED
  BY <1>1, <1>2, <1>3, <1>4 DEF TunerInv

(* A setting that came in a clean refresh names no parameter.              *)
LEMMA TunerSets ==
  ASSUME TunerInv, Tune!FetchSet
  PROVE  TunerInv'
<1>1. /\ mail.kind = "set" /\ mail' = Tune!None /\ Tune!SetParameter(mail)
      /\ UNCHANGED <<next, pc, result, params, tree>>
      /\ IF mail.param = Tune!NoParam THEN UNCHANGED <<port, clean>>
         ELSE Tune!Goes(Tune!Datagram(mail.param))
  BY DEF Tune!FetchSet, Tune!tuner
<1>2. mail' \in Mails
  BY <1>1 DEF Mails
<1>3. CASE mail.param = Tune!NoParam
  <2>1. UNCHANGED <<value, port, clean>>
    BY <1>1, <1>3 DEF Tune!SetParameter
  <2>2. TunerTypes'
    BY <1>1, <1>2, <2>1 DEF TunerInv, TunerTypes
  <2> QED
    BY <1>1, <2>1, <2>2, Unheard
<1>4. CASE mail.param # Tune!NoParam
  <2>1. mail.param \in Tune!Params /\ mail.v \in Nat
    <3>1. mail \in [kind : {"set"}, param : Tune!Params, v : Values, type : {"int", "float"}, nan : BOOLEAN]
      <4>1. mail \in Mails
        BY DEF TunerInv, TunerTypes
      <4> QED
        BY <1>1, <1>4, <4>1 DEF Mails, Tune!None
    <3> QED
      BY <3>1, TunerConstant
  <2>2. value' \in [Tune!Params -> Low .. High]
    BY <1>1, <2>1, SetTypes DEF TunerInv, TunerTypes, Tune!SetParameter
  <2>3. Tune!Datagram(mail.param) \in Answers
    BY <2>1, <2>2 DEF Tune!Datagram, Answers
  <2>4. ~clean
    BY <1>1, <1>4 DEF TunerInv
  <2>5. ~clean' /\ port' \in Seq(Answers) /\ clean' \in BOOLEAN /\ (pc # "wait" => port' = port)
    BY <1>1, <1>4, <2>3, <2>4, AnswerGoes DEF TunerInv, TunerTypes
  <2>6. TunerTypes'
    BY <1>1, <1>2, <2>2, <2>5 DEF TunerInv, TunerTypes
  <2> QED
    BY <1>1, <2>5, <2>6 DEF TunerInv
<1> QED
  BY <1>3, <1>4

(* The answers of a clean refresh come in the order of the table.          *)
LEMMA TunerSends ==
  ASSUME TunerInv, Tune!SendAllValues
  PROVE  TunerInv'
<1> DEFINE d == [param |-> next, v |-> value[next]]
<1>1. /\ next # 0 /\ Tune!Goes(d)
      /\ UNCHANGED <<value, mail, pc, result, params, tree>>
      /\ next' = IF next = OnboardParamCount THEN 0 ELSE next + 1
  BY DEF Tune!SendAllValues, Tune!Datagram, Tune!tuner
<1>2. next \in Tune!Params /\ next \in Nat
  BY <1>1, TunerConstant DEF TunerInv, TunerTypes, Tune!Params
<1>3. d \in Answers
  BY <1>2 DEF TunerInv, TunerTypes, Answers
<1>4. /\ port' \in Seq(Answers) /\ clean' \in BOOLEAN
      /\ pc # "wait" => port' = port
      /\ clean' => pc = "wait" /\ clean /\ port' = Append(port, d)
  BY <1>1, <1>3, AnswerGoes DEF TunerInv, TunerTypes
<1>5. next' \in 0 .. OnboardParamCount
  BY <1>1, <1>2, TunerConstant DEF Tune!Params
<1>6. TunerTypes'
  BY <1>1, <1>4, <1>5 DEF TunerInv, TunerTypes
<1>7. ASSUME clean' PROVE \E first \in Nat \ {0} : Heard(first)'
  <2>1. PICK first \in Nat \ {0} : Heard(first)
    BY <1>4, <1>7 DEF TunerInv
  <2>2. /\ Len(port') = Len(port) + 1 /\ port'[Len(port) + 1] = d
        /\ \A i \in 1 .. Len(port) : port'[i] = port[i]
        /\ Len(port) \in Nat
    <3>1. port \in Seq(Answers) /\ port' = Append(port, d)
      BY <1>4, <1>7 DEF TunerInv, TunerTypes
    <3> HIDE DEF d
    <3> QED
      BY <1>3, <3>1, AppendProperties
  <2>3. first + Len(port) = next /\ mail.kind # "list"
    BY <1>1, <1>4, <1>7, <2>1 DEF Heard, TunerInv
  <2>4. \A i \in 1 .. Len(port') : port'[i].param = first + i - 1 /\ port'[i].v = value[port'[i].param]
    <3> SUFFICES ASSUME NEW i \in 1 .. Len(port')
                 PROVE  port'[i].param = first + i - 1 /\ port'[i].v = value[port'[i].param]
      OBVIOUS
    <3>1. CASE i \in 1 .. Len(port)
      BY <2>1, <2>2, <3>1 DEF Heard
    <3>2. CASE i = Len(port) + 1
      BY <2>1, <2>2, <2>3, <3>2
    <3> QED
      BY <2>2, <3>1, <3>2
  <2>5. next' # 0 => first + Len(port') = next'
    BY <1>1, <1>2, <2>1, <2>2, <2>3
  <2>6. \A p \in Tune!Params : p < first => params[p] = value[p]
    BY <2>1 DEF Heard
  <2> QED
    BY <1>1, <2>1, <2>3, <2>4, <2>5, <2>6 DEF Heard
<1> QED
  BY <1>1, <1>4, <1>6, <1>7 DEF TunerInv

LEMMA TunerReceives ==
  ASSUME TunerInv, Tune!Receive
  PROVE  TunerInv'
<1> DEFINE d == Head(port)
<1>1. /\ pc = "wait" /\ port # <<>> /\ params' = [params EXCEPT ![d.param] = d.v]
      /\ IF d.param = OnboardParamCount
         THEN pc' = "idle" /\ result' = "last" /\ port' = <<>> /\ tree' = params'
         ELSE port' = Tail(port) /\ UNCHANGED <<pc, result, tree>>
      /\ UNCHANGED <<value, mail, next, clean>>
  BY DEF Tune!Receive, Tune!Refreshed, Tune!IsLast, Tune!Closes, Tune!board
<1>2. /\ d \in Answers /\ d = port[1] /\ Len(port) \in Nat /\ Len(port) >= 1
      /\ Tail(port) \in Seq(Answers) /\ Len(Tail(port)) = Len(port) - 1
      /\ \A i \in 1 .. Len(port) - 1 : Tail(port)[i] = port[i + 1]
  BY <1>1, HeadTailProperties DEF TunerInv, TunerTypes
<1>3. d.param \in Tune!Params /\ d.v \in Nat
  BY <1>2, TunerConstant DEF Answers
<1>4. params' \in [Tune!Params -> Nat]
  BY <1>1, <1>3 DEF TunerInv, TunerTypes
<1>5. port' \in Seq(Answers) /\ pc' \in {"idle", "open", "wait"} /\ tree' \in [Tune!Params -> Nat]
  <2>1. tree \in [Tune!Params -> Nat] /\ port \in Seq(Answers)
    BY DEF TunerInv, TunerTypes
  <2>2. <<>> \in Seq(Answers)
    OBVIOUS
  <2> HIDE DEF d
  <2> QED
    BY <1>1, <1>2, <1>4, <2>1, <2>2
<1>6. TunerTypes'
  BY <1>1, <1>4, <1>5 DEF TunerInv, TunerTypes
<1>7. ASSUME NEW first \in Nat \ {0}, Heard(first)
      PROVE  d.param = first /\ \A p \in Tune!Params : p < first + 1 => params'[p] = value[p]
  <2>1. d.param = first /\ d.v = value[first]
    BY <1>2, <1>7 DEF Heard
  <2> QED
    BY <1>1, <1>3, <1>7, <2>1 DEF Heard, TunerInv, TunerTypes, Tune!Params
<1>8. CASE d.param = OnboardParamCount
  <2>1. ASSUME clean PROVE tree' = value
    <3>1. PICK first \in Nat \ {0} : Heard(first)
      BY <1>1, <2>1 DEF TunerInv
    <3>2. first = OnboardParamCount /\ \A p \in Tune!Params : p < first + 1 => params'[p] = value[p]
      BY <1>7, <1>8, <3>1
    <3>3. \A p \in Tune!Params : params'[p] = value[p]
      BY <3>2, TunerConstant DEF Tune!Params
    <3>4. value \in [Tune!Params -> Low .. High]
      BY DEF TunerInv, TunerTypes
    <3> QED
      BY <1>1, <1>4, <1>8, <3>3, <3>4
  <2> QED
    BY <1>1, <1>6, <1>8, <2>1 DEF TunerInv
<1>9. CASE d.param # OnboardParamCount
  <2>1. ASSUME clean PROVE \E first \in Nat \ {0} : Heard(first)'
    <3>1. PICK first \in Nat \ {0} : Heard(first)
      BY <1>1, <2>1 DEF TunerInv
    <3>2. \A p \in Tune!Params : p < first + 1 => params'[p] = value[p]
      BY <1>7, <3>1
    <3>3. mail.kind # "list"
      BY <1>1, <3>1 DEF Heard
    <3>4. next # 0 => first + 1 + Len(port') = next
      <4>1. next # 0 => first + Len(port) = next
        BY <3>1 DEF Heard
      <4>2. Len(port') = Len(port) - 1
        BY <1>1, <1>2, <1>9
      <4>3. Len(port) \in Nat
        BY <1>2
      <4>4. first + 1 + (Len(port) - 1) = first + Len(port)
        BY <4>3
      <4> QED
        BY <4>1, <4>2, <4>4
    <3>5. \A i \in 1 .. Len(port') : port'[i].param = (first + 1) + i - 1 /\ port'[i].v = value[port'[i].param]
      <4> SUFFICES ASSUME NEW i \in 1 .. Len(port')
                   PROVE  port'[i].param = (first + 1) + i - 1 /\ port'[i].v = value[port'[i].param]
        OBVIOUS
      <4>1. port'[i] = port[i + 1] /\ i + 1 \in 1 .. Len(port) /\ i \in Nat
        BY <1>1, <1>2, <1>9
      <4> QED
        BY <3>1, <4>1 DEF Heard
    <3>6. Heard(first + 1)'
      BY <1>1, <3>2, <3>3, <3>4, <3>5 DEF Heard
    <3> QED
      BY <3>6
  <2> QED
    BY <1>1, <1>6, <1>9, <2>1 DEF TunerInv
<1> QED
  BY <1>8, <1>9

LEMMA TunerRefreshes ==
  ASSUME TunerInv, Tune!Refresh
  PROVE  TunerInv'
<1>1. /\ pc = "idle" /\ pc' = "open" /\ result' = "none"
      /\ Tune!Mailed([kind |-> "list"]) \/ UNCHANGED mail
      /\ clean' = (mail = Tune!None /\ next = 0)
      /\ UNCHANGED <<value, next, port, params, tree>>
  BY DEF Tune!Refresh
<1>2. [kind |-> "list"] \in Mails
  BY DEF Mails
<1>3. /\ mail' \in Mails
      /\ mail' = mail \/ (mail = Tune!None /\ mail' = [kind |-> "list"])
  BY <1>1, <1>2, MailedTypes DEF TunerInv, TunerTypes
<1>4. TunerTypes'
  BY <1>1, <1>3 DEF TunerInv, TunerTypes
<1>5. clean' => mail = Tune!None /\ next = 0
  BY <1>1
<1>6. clean' => mail'.kind # "set"
  BY <1>3, <1>5 DEF Tune!None
<1> QED
  BY <1>1, <1>4, <1>5, <1>6 DEF TunerInv

LEMMA TunerOpens ==
  ASSUME TunerInv, Tune!Opens
  PROVE  TunerInv'
<1>1. /\ pc = "open" /\ pc' = "wait"
      /\ UNCHANGED <<value, mail, next, port, result, params, tree, clean>>
  BY DEF Tune!Opens, Tune!board
<1>2. TunerTypes'
  BY <1>1 DEF TunerInv, TunerTypes
<1>3. port = <<>> /\ Len(port) = 0
  BY <1>1 DEF TunerInv
<1>4. clean => Heard(1)'
  BY <1>1, <1>3, TunerConstant DEF Heard, TunerInv, TunerTypes, Tune!Params
<1> QED
  BY <1>1, <1>2, <1>3, <1>4 DEF TunerInv

LEMMA TunerGoes ==
  ASSUME TunerInv, [Tune!Next]_tuner
  PROVE  TunerInv'
<1>1. CASE Tune!SetByGround
  <2>1. PICK p \in Tune!Params, v \in Values, type \in {"int", "float"}, nan \in BOOLEAN :
          Tune!Mailed([kind |-> "set", param |-> p, v |-> v, type |-> type, nan |-> nan])
    BY <1>1 DEF Tune!SetByGround
  <2>2. [kind |-> "set", param |-> p, v |-> v, type |-> type, nan |-> nan] \in Mails
    BY DEF Mails
  <2>3. mail' \in Mails
    BY <2>1, <2>2, MailedTypes DEF TunerInv, TunerTypes
  <2>4. clean' = FALSE /\ UNCHANGED <<value, next, port, pc, result, params, tree>>
    BY <1>1 DEF Tune!SetByGround, Tune!tuner
  <2>5. TunerTypes'
    BY <2>3, <2>4 DEF TunerInv, TunerTypes
  <2> QED
    BY <2>4, <2>5, Unheard
<1>2. CASE Tune!SetByShell
  <2>1. clean' = FALSE /\ UNCHANGED <<mail, next, port, pc, result, params, tree>>
    BY <1>2 DEF Tune!SetByShell, Tune!tuner
  <2>2. PICK p \in Tune!Params, text \in Values \cup {Tune!NoNumber} : Tune!ByText(p, text)
    BY <1>2 DEF Tune!SetByShell
  <2>3. value' \in [Tune!Params -> Low .. High]
    BY <2>2, SetTypes, TunerConstant DEF TunerInv, TunerTypes, Tune!ByText
  <2>4. TunerTypes'
    BY <2>1, <2>3 DEF TunerInv, TunerTypes
  <2> QED
    BY <2>1, <2>4 DEF TunerInv
<1>3. CASE Tune!Transmit
  <2>1. /\ Tune!Mailed([kind |-> "set", param |-> Tune!NoParam, type |-> "int"])
        /\ UNCHANGED <<value, next, port, pc, result, params, tree, clean>>
    BY <1>3 DEF Tune!Transmit, Tune!tuner
  <2>2. [kind |-> "set", param |-> Tune!NoParam, type |-> "int"] \in Mails
    BY DEF Mails
  <2>3. mail' \in Mails /\ (mail' = mail \/ mail' = [kind |-> "set", param |-> Tune!NoParam, type |-> "int"])
    BY <2>1, <2>2, MailedTypes DEF TunerInv, TunerTypes
  <2>4. mail' = mail \/ (mail'.kind = "set" /\ mail'.param = Tune!NoParam)
    BY <2>3
  <2>5. TunerTypes'
    BY <2>1, <2>3 DEF TunerInv, TunerTypes
  <2> QED
    BY <2>1, <2>4, <2>5, Unheard
<1>4. CASE Tune!TimesOut
  <2>1. /\ pc = "wait" /\ pc' = "idle" /\ result' = "timeout" /\ port' = <<>>
        /\ UNCHANGED <<value, mail, next, params, tree, clean>>
    BY <1>4 DEF Tune!TimesOut, Tune!Closes, Tune!board
  <2>2. <<>> \in Seq(Answers)
    OBVIOUS
  <2>3. TunerTypes'
    BY <2>1, <2>2 DEF TunerInv, TunerTypes
  <2> QED
    BY <2>1, <2>3 DEF TunerInv
<1>5. CASE UNCHANGED tuner
  <2>1. UNCHANGED <<value, mail, next, port, pc, result, params, tree, clean>>
    BY <1>5 DEF tuner
  <2>2. TunerTypes'
    BY <2>1 DEF TunerInv, TunerTypes
  <2> QED
    BY <2>1, <2>2, Unheard
<1> QED
  BY <1>1, <1>2, <1>3, <1>4, <1>5, TunerFetches, TunerSets, TunerSends, TunerReceives,
    TunerRefreshes, TunerOpens DEF Tune!Next, Tune!Board

-----------------------------------------------------------------------------
(* The port: where the bytes are, and in what order.                       *)
Rising(s) == \A i, j \in DOMAIN s : i < j => s[i] < s[j]

Before(s, t) == \A x \in Tty!Range(s), y \in Tty!Range(t) : x < y

Kept == Tty!Buffered(tty_buf, tty_first, tty_len)

InOrder(a, b, c, d) ==
  /\ Rising(a) /\ Rising(b) /\ Rising(c) /\ Rising(d)
  /\ Before(a, b) /\ Before(a, c) /\ Before(a, d)
  /\ Before(b, c) /\ Before(b, d) /\ Before(c, d)

Everywhere(a, b, c, d) ==
  Tty!Range(a) \cup Tty!Range(b) \cup Tty!Range(c) \cup Tty!Range(d)

Space(b) == \E n \in Nat : DOMAIN b = 0 .. n - 1

BytesTypes ==
  /\ got \in Seq(Nat) /\ qio \in Seq(Nat) /\ queued \in Seq(Nat) /\ Kept \in Seq(Nat)
  /\ tty_sent \in Nat /\ tty_first \in Nat /\ tty_len \in Nat /\ errors \in Nat
  /\ Space(tty_buf)

BytesInv ==
  /\ BytesTypes
  /\ InOrder(got, qio, Kept, queued)
  /\ Everywhere(got, qio, Kept, queued) \subseteq 1 .. tty_sent
  /\ dropped \subseteq 1 .. tty_sent
  /\ errors = 0 =>
       /\ 1 .. tty_sent \subseteq Everywhere(got, qio, Kept, queued) \cup dropped
       /\ Everywhere(got, qio, Kept, queued) \cap dropped = {}

-----------------------------------------------------------------------------
(* Two sequences together.                                                 *)
LEMMA JoinRange ==
  ASSUME NEW s \in Seq(Nat), NEW t \in Seq(Nat)
  PROVE  /\ s \o t \in Seq(Nat)
         /\ Tty!Range(s \o t) = Tty!Range(s) \cup Tty!Range(t)
<1> DEFINE u == s \o t
<1>1. u \in Seq(Nat) /\ Len(u) = Len(s) + Len(t)
  OBVIOUS
<1>2. \A i \in 1 .. Len(s) : i \in DOMAIN u /\ u[i] = s[i]
  OBVIOUS
<1>3. \A i \in 1 .. Len(t) : Len(s) + i \in DOMAIN u /\ u[Len(s) + i] = t[i]
  OBVIOUS
<1>4. \A i \in DOMAIN u : \/ i \in 1 .. Len(s) /\ u[i] = s[i]
                          \/ i - Len(s) \in 1 .. Len(t) /\ u[i] = t[i - Len(s)]
  OBVIOUS
<1>5. DOMAIN s = 1 .. Len(s) /\ DOMAIN t = 1 .. Len(t)
  OBVIOUS
<1> HIDE DEF u
<1>6. Tty!Range(u) \subseteq Tty!Range(s) \cup Tty!Range(t)
  BY <1>4, <1>5, Zenon DEF Tty!Range
<1>7. Tty!Range(s) \subseteq Tty!Range(u)
  BY <1>2, <1>5, Zenon DEF Tty!Range
<1>8. Tty!Range(t) \subseteq Tty!Range(u)
  BY <1>3, <1>5, Zenon DEF Tty!Range
<1>9. Tty!Range(u) = Tty!Range(s) \cup Tty!Range(t)
  BY <1>6, <1>7, <1>8
<1> QED
  BY <1>1, <1>9 DEF u

LEMMA JoinRising ==
  ASSUME NEW s \in Seq(Nat), NEW t \in Seq(Nat)
  PROVE  Rising(s \o t) <=> Rising(s) /\ Rising(t) /\ Before(s, t)
<1> DEFINE u == s \o t
<1>1. DOMAIN u = 1 .. Len(s) + Len(t) /\ Len(s) \in Nat /\ Len(t) \in Nat
  OBVIOUS
<1>2. \A i \in 1 .. Len(s) : u[i] = s[i] /\ s[i] \in Nat
  OBVIOUS
<1>3. \A i \in 1 .. Len(t) : u[Len(s) + i] = t[i] /\ t[i] \in Nat
  OBVIOUS
<1>4. \A i \in DOMAIN u : i > Len(s) => i - Len(s) \in 1 .. Len(t) /\ u[i] = t[i - Len(s)]
  OBVIOUS
<1>5. DOMAIN s = 1 .. Len(s) /\ DOMAIN t = 1 .. Len(t)
  OBVIOUS
<1> HIDE DEF u
<1>6. ASSUME Rising(u) PROVE Rising(s)
  BY <1>1, <1>2, <1>5, <1>6 DEF Rising
<1>7. ASSUME Rising(u) PROVE Rising(t)
  <2> SUFFICES ASSUME NEW i \in DOMAIN t, NEW j \in DOMAIN t, i < j PROVE t[i] < t[j]
    BY DEF Rising
  <2>1. Len(s) + i \in DOMAIN u /\ Len(s) + j \in DOMAIN u /\ Len(s) + i < Len(s) + j
    BY <1>1, <1>5
  <2>2. u[Len(s) + i] < u[Len(s) + j]
    BY <2>1, <1>7 DEF Rising
  <2> QED
    BY <2>2, <1>3, <1>5
<1>8. ASSUME Rising(u) PROVE Before(s, t)
  <2> SUFFICES ASSUME NEW i \in DOMAIN s, NEW j \in DOMAIN t PROVE s[i] < t[j]
    BY DEF Before, Tty!Range
  <2>1. i \in DOMAIN u /\ Len(s) + j \in DOMAIN u /\ i < Len(s) + j
    BY <1>1, <1>5
  <2>2. u[i] < u[Len(s) + j]
    BY <2>1, <1>8 DEF Rising
  <2> QED
    BY <2>2, <1>2, <1>3, <1>5
<1>9. ASSUME Rising(s), Rising(t), Before(s, t) PROVE Rising(u)
  <2> SUFFICES ASSUME NEW i \in DOMAIN u, NEW j \in DOMAIN u, i < j PROVE u[i] < u[j]
    BY DEF Rising
  <2>0. i \in Int /\ j \in Int
    BY <1>1
  <2>1. CASE j <= Len(s)
    <3>1. i \in DOMAIN s /\ j \in DOMAIN s
      BY <2>0, <2>1, <1>1, <1>5
    <3> QED
      BY <3>1, <1>2, <1>5, <1>9 DEF Rising
  <2>2. CASE i > Len(s)
    <3>1. i - Len(s) \in DOMAIN t /\ j - Len(s) \in DOMAIN t /\ i - Len(s) < j - Len(s)
      BY <2>0, <2>2, <1>1, <1>4, <1>5
    <3>2. t[i - Len(s)] < t[j - Len(s)]
      BY <3>1, <1>9 DEF Rising
    <3> QED
      BY <2>0, <2>2, <3>2, <1>1, <1>4
  <2>3. CASE i <= Len(s) /\ j > Len(s)
    <3>1. i \in DOMAIN s /\ j - Len(s) \in DOMAIN t
      BY <2>0, <2>3, <1>1, <1>4, <1>5
    <3>2. s[i] < t[j - Len(s)]
      BY <3>1, <1>9 DEF Before, Tty!Range
    <3> QED
      BY <2>0, <2>3, <3>1, <3>2, <1>1, <1>2, <1>4, <1>5
  <2> QED
    BY <2>0, <2>1, <2>2, <2>3, <1>1
<1> QED
  BY <1>6, <1>7, <1>8, <1>9 DEF u

LEMMA EmptyPart ==
  /\ <<>> \in Seq(Nat) /\ Tty!Range(<<>>) = {} /\ Rising(<<>>)
BY DEF Tty!Range, Rising

(* A sequence is what is before a place and what is after it.              *)
LEMMA CutAt ==
  ASSUME NEW s \in Seq(Nat), NEW n \in 0 .. Len(s)
  PROVE  /\ SubSeq(s, 1, n) \in Seq(Nat) /\ SubSeq(s, n + 1, Len(s)) \in Seq(Nat)
         /\ s = SubSeq(s, 1, n) \o SubSeq(s, n + 1, Len(s))
<1> DEFINE a == SubSeq(s, 1, n)
           b == SubSeq(s, n + 1, Len(s))
<1>1. a \in Seq(Nat) /\ Len(a) = n /\ \A i \in 1 .. n : a[i] = s[i]
  OBVIOUS
<1>2. b \in Seq(Nat) /\ Len(b) = Len(s) - n /\ \A i \in 1 .. Len(s) - n : b[i] = s[n + i]
  OBVIOUS
<1> HIDE DEF a, b
<1>3. n \in Nat /\ Len(s) \in Nat /\ Len(s) - n \in Nat
  OBVIOUS
<1> DEFINE c == a \o b
<1>9. a \in Seq(Nat) /\ b \in Seq(Nat)
  BY <1>1, <1>2
<1>10. /\ c \in Seq(Nat) /\ Len(c) = Len(a) + Len(b)
       /\ \A i \in 1 .. Len(a) : c[i] = a[i]
       /\ \A i \in 1 .. Len(b) : c[Len(a) + i] = b[i]
  BY <1>9
<1> HIDE DEF c
<1>4. c \in Seq(Nat) /\ Len(c) = Len(s)
  BY <1>1, <1>2, <1>3, <1>10
<1>5. \A i \in 1 .. n : c[i] = a[i]
  BY <1>1, <1>10
<1>6. \A i \in 1 .. Len(s) - n : c[n + i] = b[i]
  BY <1>1, <1>2, <1>10
<1>7. \A i \in 1 .. Len(s) : c[i] = s[i]
  <2> TAKE i \in 1 .. Len(s)
  <2>1. CASE i <= n
    BY <1>1, <1>3, <1>5, <2>1
  <2>2. CASE i > n
    <3>1. i - n \in 1 .. Len(s) - n /\ n + (i - n) = i
      BY <1>3, <2>2
    <3> QED
      BY <1>2, <1>6, <3>1
  <2> QED
    BY <1>3, <2>1, <2>2
<1>8. c = s
  BY <1>4, <1>7
<1> QED
  BY <1>1, <1>2, <1>8 DEF a, b, c

(* What is left of each is in order, too.                                  *)
LEMMA FewerInOrder ==
  ASSUME NEW a, NEW b, NEW c, NEW d, NEW p, NEW q, NEW r, NEW u,
         InOrder(a, b, c, d), Rising(p), Rising(q), Rising(r), Rising(u),
         Tty!Range(p) \subseteq Tty!Range(a), Tty!Range(q) \subseteq Tty!Range(b),
         Tty!Range(r) \subseteq Tty!Range(c), Tty!Range(u) \subseteq Tty!Range(d)
  PROVE  InOrder(p, q, r, u)
BY Zenon DEF InOrder, Before

(* Bytes that go from the front of one to the end of what is before it.    *)
LEMMA TakenInOrder ==
  ASSUME NEW a \in Seq(Nat), NEW b \in Seq(Nat), NEW c \in Seq(Nat), NEW d \in Seq(Nat),
         NEW n \in 0 .. Len(b), InOrder(a, b, c, d)
  PROVE  /\ InOrder(a \o SubSeq(b, 1, n), SubSeq(b, n + 1, Len(b)), c, d)
         /\ Everywhere(a \o SubSeq(b, 1, n), SubSeq(b, n + 1, Len(b)), c, d)
              = Everywhere(a, b, c, d)
         /\ a \o SubSeq(b, 1, n) \in Seq(Nat) /\ SubSeq(b, n + 1, Len(b)) \in Seq(Nat)
<1> DEFINE p == SubSeq(b, 1, n)
           q == SubSeq(b, n + 1, Len(b))
<1>1. p \in Seq(Nat) /\ q \in Seq(Nat) /\ b = p \o q
  BY CutAt
<1> HIDE DEF p, q
<1>2. Rising(p) /\ Rising(q) /\ Before(p, q) /\ Tty!Range(b) = Tty!Range(p) \cup Tty!Range(q)
  BY <1>1, JoinRange, JoinRising DEF InOrder
<1>3. Before(a, p) /\ Before(a, q)
  BY <1>2 DEF InOrder, Before
<1> DEFINE v == a \o p
<1>4. v \in Seq(Nat) /\ Tty!Range(v) = Tty!Range(a) \cup Tty!Range(p) /\ Rising(v)
  BY <1>1, <1>2, <1>3, JoinRange, JoinRising DEF InOrder
<1> HIDE DEF v
<1>5. InOrder(v, q, c, d)
  BY <1>2, <1>3, <1>4, Zenon DEF InOrder, Before
<1>6. Everywhere(v, q, c, d) = Everywhere(a, b, c, d)
  BY <1>2, <1>4, Zenon DEF Everywhere
<1> QED
  BY <1>1, <1>4, <1>5, <1>6 DEF v, p, q

(* And all of the last that goes to the end of the one before it.          *)
LEMMA JoinedInOrder ==
  ASSUME NEW a \in Seq(Nat), NEW b \in Seq(Nat), NEW c \in Seq(Nat), NEW d \in Seq(Nat),
         InOrder(a, b, c, d)
  PROVE  /\ InOrder(a, b, c \o d, <<>>)
         /\ Everywhere(a, b, c \o d, <<>>) = Everywhere(a, b, c, d)
         /\ c \o d \in Seq(Nat)
<1> DEFINE v == c \o d
<1>1. v \in Seq(Nat) /\ Tty!Range(v) = Tty!Range(c) \cup Tty!Range(d) /\ Rising(v)
  BY JoinRange, JoinRising DEF InOrder
<1> HIDE DEF v
<1>2. InOrder(a, b, v, <<>>)
  BY <1>1, EmptyPart, Zenon DEF InOrder, Before
<1>3. Everywhere(a, b, v, <<>>) = Everywhere(a, b, c, d)
  BY <1>1, EmptyPart, Zenon DEF Everywhere
<1> QED
  BY <1>1, <1>2, <1>3 DEF v

-----------------------------------------------------------------------------
(* Induction, said of a set of numbers.                                    *)
LEMMA Induction ==
  ASSUME NEW T, 0 \in T, \A n \in Nat : n \in T => n + 1 \in T
  PROVE  \A n \in Nat : n \in T
<1> DEFINE U == {n \in Nat : n \notin T}
<1>1. ASSUME U # {} PROVE FALSE
  <2>1. U \subseteq Nat
    OBVIOUS
  <2>2. PICK n \in U : \A k \in U : ~(<<k, n>> \in OpToRel(<, Nat))
    BY <1>1, <2>1, NatLessThanWellFounded, WFMin
  <2>3. \A i, j \in Nat : i < j => <<i, j>> \in OpToRel(<, Nat)
    BY DEF OpToRel
  <2>4. \A k \in U : ~(k < n)
    BY <2>1, <2>2, <2>3, Zenon
  <2>5. n # 0 /\ n \in Nat
    BY <2>2
  <2>6. n - 1 \in Nat /\ n - 1 < n /\ n = (n - 1) + 1
    BY <2>5
  <2>7. n - 1 \in T
    BY <2>4, <2>6
  <2> QED
    BY <2>2, <2>6, <2>7
<1> QED
  BY <1>1

(* The capacities that are tried: there is such a function.                *)
Grown(x, need) == IF x < need THEN 2 * x ELSE x

GrownBy(f, c, need, n) ==
  f = [k \in 0 .. n |->
         IF k = 0 THEN c
         ELSE IF f[k - 1] < need THEN 2 * f[k - 1] ELSE f[k - 1]]

LEMMA GrownExists ==
  ASSUME NEW c, NEW need
  PROVE  \A n \in Nat : \E f : GrownBy(f, c, need, n)
<1> DEFINE T == {n \in Nat : \E f : GrownBy(f, c, need, n)}
<1>1. 0 \in T
  <2> DEFINE f == [k \in 0 .. 0 |-> c]
             g == [k \in 0 .. 0 |->
                    IF k = 0 THEN c
                    ELSE IF f[k - 1] < need THEN 2 * f[k - 1] ELSE f[k - 1]]
  <2>1. \A k \in 0 .. 0 : k = 0
    OBVIOUS
  <2>2. f = g
    BY <2>1, Zenon
  <2>3. GrownBy(f, c, need, 0)
    BY <2>2, Zenon DEF GrownBy
  <2> QED
    BY <2>3
<1>2. ASSUME NEW n \in Nat, n \in T PROVE n + 1 \in T
  <2>1. PICK f : GrownBy(f, c, need, n)
    BY <1>2
  <2> DEFINE top == n + 1
             v == IF f[n] < need THEN 2 * f[n] ELSE f[n]
             g == [k \in 0 .. top |-> IF k = top THEN v ELSE f[k]]
             val(h, k) == IF k = 0 THEN c
               ELSE IF h[k - 1] < need THEN 2 * h[k - 1] ELSE h[k - 1]
  <2>2. \A k \in 0 .. n : f[k] = val(f, k)
    BY <2>1, Zenon DEF GrownBy
  <2>3. top - 1 = n /\ top # 0 /\ top \in 0 .. top /\ n \in 0 .. n /\ n # top
    OBVIOUS
  <2>4. \A k \in 0 .. top : \/ k = top
                          \/ /\ k \in 0 .. n /\ k # top
                             /\ k # 0 => k - 1 \in 0 .. n /\ k - 1 \in 0 .. top /\ k - 1 # top
    OBVIOUS
  <2>5. n \in 0 .. top
    OBVIOUS
  <2> HIDE DEF top
  <2> HIDE DEF v
  <2>6. \A k \in 0 .. top : g[k] = IF k = top THEN v ELSE f[k]
    BY Zenon
  <2>7. g = [k \in 0 .. top |-> g[k]]
    BY Zenon
  <2> HIDE DEF g
  <2>8. \A k \in 0 .. top : g[k] = val(g, k)
    <3> TAKE k \in 0 .. top
    <3>1. CASE k = top
      <4>1. g[top] = v /\ g[n] = f[n]
        BY <2>3, <2>5, <2>6, Zenon
      <4> QED
        BY <4>1, <2>3, <3>1, Zenon DEF v
    <3>2. CASE k # top
      <4>1. g[k] = f[k] /\ k \in 0 .. n
        BY <2>4, <2>6, <3>2, Zenon
      <4>2. k # 0 => g[k - 1] = f[k - 1]
        BY <2>4, <2>6, <3>2, Zenon
      <4> QED
        BY <4>1, <4>2, <2>2, Zenon
    <3> QED
      BY <3>1, <3>2, Zenon
  <2>9. g = [k \in 0 .. top |-> val(g, k)]
    BY <2>7, <2>8, Zenon
  <2>10. GrownBy(g, c, need, top)
    BY <2>9, Zenon DEF GrownBy
  <2>11. top \in Nat
    BY DEF top
  <2> QED
    BY <2>10, <2>11, Zenon DEF top
<1> HIDE DEF T
<1>3. \A n \in Nat : n \in T
  BY <1>1, <1>2, Induction
<1> QED
  BY <1>3 DEF T

(* And so the capacity that is found has room.                             *)
LEMMA DoubledHasRoom ==
  ASSUME NEW c \in Nat \ {0}, NEW need \in Nat
  PROVE  Tty!Doubled(c, need) \in Nat /\ Tty!Doubled(c, need) >= need
<1> DEFINE g == CHOOSE f : GrownBy(f, c, need, need)
<1>1. Tty!Doubled(c, need) = g[need]
  BY Zenon DEF Tty!Doubled, GrownBy
<1>2. GrownBy(g, c, need, need)
  BY GrownExists, Zenon
<1> HIDE DEF g
<1>3. \A k \in 0 .. need : g[k] =
        IF k = 0 THEN c
        ELSE IF g[k - 1] < need THEN 2 * g[k - 1] ELSE g[k - 1]
  BY <1>2, Zenon DEF GrownBy
<1> DEFINE T == {k \in Nat : k <= need => g[k] \in Nat /\ (g[k] >= need \/ g[k] >= k + 1)}
<1>4. 0 \in T
  <2>1. g[0] = c
    BY <1>3
  <2> QED
    BY <2>1
<1>5. ASSUME NEW k \in Nat, k \in T PROVE k + 1 \in T
  <2> SUFFICES ASSUME k + 1 <= need
               PROVE  g[k + 1] \in Nat /\ (g[k + 1] >= need \/ g[k + 1] >= k + 2)
    OBVIOUS
  <2>1. g[k] \in Nat /\ (g[k] >= need \/ g[k] >= k + 1)
    BY <1>5
  <2>2. k + 1 \in 0 .. need /\ (k + 1) - 1 = k /\ k + 1 # 0
    OBVIOUS
  <2>3. g[k + 1] = IF g[k] < need THEN 2 * g[k] ELSE g[k]
    BY <1>3, <2>2, Zenon
  <2> QED
    BY <2>1, <2>3
<1> HIDE DEF T
<1>6. \A k \in Nat : k \in T
  BY <1>4, <1>5, Induction
<1>7. g[need] \in Nat /\ g[need] >= need
  BY <1>6 DEF T
<1> QED
  BY <1>1, <1>7

-----------------------------------------------------------------------------
(* The read buffer.                                                        *)
LEMMA SpaceIs ==
  ASSUME Space(tty_buf)
  PROVE  Tty!BlockSpace \in Nat /\ DOMAIN tty_buf = 0 .. Tty!BlockSpace - 1
<1>1. PICK n \in Nat : DOMAIN tty_buf = 0 .. n - 1
  BY DEF Space
<1>2. CASE n = 0
  BY <1>1, <1>2 DEF Tty!BlockSpace
<1>3. CASE n # 0
  <2>1. 0 .. n - 1 # {}
    BY <1>3
  <2>2. \E x \in 0 .. n - 1 : \A y \in 0 .. n - 1 : x >= y
    BY <1>3
  <2>3. Tty!Max(0 .. n - 1) = n - 1
    BY <2>2, <1>3 DEF Tty!Max
  <2> QED
    BY <1>1, <2>1, <2>3, <1>3 DEF Tty!BlockSpace
<1> QED
  BY <1>2, <1>3

(* The space that is reserved is there, and what was in the buffer too.    *)
LEMMA Reserved ==
  ASSUME Space(tty_buf), tty_first \in Nat, tty_len \in Nat, Kept \in Seq(Nat),
         NEW bytes \in Seq(Nat), NEW size \in Nat, Len(bytes) <= size
  PROVE  /\ Tty!Start(size) \in Nat /\ Space(Tty!Filled(bytes, size))
         /\ \A l \in 0 .. tty_len + Len(bytes) :
              Tty!Buffered(Tty!Filled(bytes, size), Tty!Start(size), l)
                = SubSeq(Kept \o bytes, 1, l)
<1> DEFINE cap == IF Tty!NoRoom(size)
                  THEN Tty!Doubled(Tty!MaxOf(Tty!BlockSpace, BasicBlockSize), tty_len + size)
                  ELSE Tty!BlockSpace
           all == Kept \o bytes
           b == Tty!Filled(bytes, size)
           s == Tty!Start(size)
<1>1. Tty!BlockSpace \in Nat
  BY SpaceIs
<1>2. cap \in Nat /\ s \in Nat /\ s + tty_len + size <= cap
  <2>1. CASE Tty!NoRoom(size)
    <3>1. Tty!MaxOf(Tty!BlockSpace, BasicBlockSize) \in Nat \ {0}
      BY <1>1, PortConstants DEF Tty!PortAssumption, Tty!MaxOf
    <3> DEFINE c == Tty!MaxOf(Tty!BlockSpace, BasicBlockSize)
               need == tty_len + size
               d == Tty!Doubled(c, need)
    <3>2. c \in Nat \ {0} /\ need \in Nat
      BY <3>1
    <3> HIDE DEF c
    <3>3. d \in Nat /\ d >= need
      BY <3>2, DoubledHasRoom
    <3>4. cap = d /\ s = 0
      BY <2>1 DEF c, Tty!Start
    <3> HIDE DEF d, cap, s
    <3> QED
      BY <3>3, <3>4
  <2>2. CASE ~Tty!NoRoom(size)
    <3>1. cap = Tty!BlockSpace /\ s = tty_first
      BY <2>2 DEF Tty!Start
    <3>2. ~(tty_first + tty_len + size > Tty!BlockSpace)
      BY <2>2 DEF Tty!NoRoom
    <3> HIDE DEF cap, s
    <3> QED
      BY <1>1, <3>1, <3>2
  <2> QED
    BY <2>1, <2>2
<1>3. b = [i \in 0 .. cap - 1 |->
             IF i - s \in 0 .. Len(all) - 1 THEN all[i - s + 1] ELSE Tty!Cell(tty_buf, i)]
  BY Zenon DEF Tty!Filled, Kept
<1>4. all \in Seq(Nat) /\ Len(all) = Len(Kept) + Len(bytes)
  OBVIOUS
<1>5. Len(Kept) = tty_len
  BY DEF Kept, Tty!Buffered
<1> HIDE DEF cap, all, b, s
<1>6. Space(b)
  BY <1>2, <1>3 DEF Space
<1>7. ASSUME NEW l \in 0 .. tty_len + Len(bytes)
      PROVE  Tty!Buffered(b, s, l) = SubSeq(all, 1, l)
  <2>1. l \in Nat /\ l <= Len(all) /\ l <= tty_len + size
    BY <1>4, <1>5
  <2>2. \A i \in 1 .. l : /\ s + i - 1 \in 0 .. cap - 1
                          /\ (s + i - 1) - s \in 0 .. Len(all) - 1
                          /\ (s + i - 1) - s + 1 = i
    BY <1>2, <2>1
  <2>3. \A i \in 1 .. l : b[s + i - 1] = all[i] /\ s + i - 1 \in DOMAIN b
    BY <1>3, <2>2, Zenon
  <2>4. \A i \in 1 .. l : Tty!Cell(b, s + i - 1) = all[i]
    BY <2>3, Zenon DEF Tty!Cell
  <2>5. Tty!Buffered(b, s, l) = [i \in 1 .. l |-> all[i]]
    BY <2>4, Zenon DEF Tty!Buffered
  <2>6. SubSeq(all, 1, l) = [i \in 1 .. l |-> all[i]]
    BY <1>4, <2>1
  <2> QED
    BY <2>5, <2>6
<1> QED
  BY <1>2, <1>6, <1>7 DEF all, b, s

-----------------------------------------------------------------------------
(* The bytes.                                                              *)
LEMMA BytesStart == Tty!Init => BytesInv
<1> SUFFICES ASSUME Tty!Init PROVE BytesInv
  OBVIOUS
<1>1. /\ got = <<>> /\ qio = <<>> /\ queued = <<>> /\ tty_len = 0 /\ tty_first = 0
      /\ tty_sent = 0 /\ errors = 0 /\ dropped = {} /\ DOMAIN tty_buf = {}
  BY DEF Tty!Init, Tty!NoCells
<1>2. Kept = <<>>
  BY <1>1 DEF Kept, Tty!Buffered
<1>3. Space(tty_buf)
  <2>1. 0 \in Nat /\ DOMAIN tty_buf = 0 .. 0 - 1
    BY <1>1
  <2> QED
    BY <2>1, Zenon DEF Space
<1>4. BytesTypes
  BY <1>1, <1>2, <1>3, EmptyPart DEF BytesTypes
<1>5. InOrder(got, qio, Kept, queued) /\ Everywhere(got, qio, Kept, queued) = {}
  BY <1>1, <1>2, EmptyPart, Zenon DEF InOrder, Before, Everywhere
<1> QED
  BY <1>1, <1>4, <1>5 DEF BytesInv

(* Bytes before others are not among them.                                 *)
LEMMA Apart ==
  ASSUME NEW s, NEW t, Before(s, t), Tty!Range(s) \subseteq Nat
  PROVE  Tty!Range(s) \cap Tty!Range(t) = {}
BY DEF Before

(* What is no longer anywhere has been thrown away.                        *)
LEMMA ThrownAway ==
  ASSUME BytesInv, BytesTypes', InOrder(got, qio, Kept, queued)',
         Everywhere(got, qio, Kept, queued)' \subseteq Everywhere(got, qio, Kept, queued),
         dropped' = dropped \cup (Everywhere(got, qio, Kept, queued)
                                    \ Everywhere(got, qio, Kept, queued)'),
         errors' = errors, tty_sent' = tty_sent
  PROVE  BytesInv'
<1> DEFINE e == Everywhere(got, qio, Kept, queued)
           f == Everywhere(got, qio, Kept, queued)'
<1>1. /\ e \subseteq 1 .. tty_sent /\ dropped \subseteq 1 .. tty_sent
      /\ errors = 0 => 1 .. tty_sent \subseteq e \cup dropped /\ e \cap dropped = {}
  BY DEF BytesInv
<1>2. f \subseteq e /\ dropped' = dropped \cup (e \ f)
  OBVIOUS
<1> HIDE DEF e, f
<1>3. /\ f \subseteq 1 .. tty_sent' /\ dropped' \subseteq 1 .. tty_sent'
      /\ errors' = 0 => 1 .. tty_sent' \subseteq f \cup dropped' /\ f \cap dropped' = {}
  BY <1>1, <1>2
<1> QED
  BY <1>3 DEF e, f, BytesInv

(* What is somewhere else is not; and when the system fails, some may not  *)
(* be anywhere.                                                            *)
LEMMA Moved ==
  ASSUME BytesInv, BytesTypes', InOrder(got, qio, Kept, queued)',
         Everywhere(got, qio, Kept, queued)' \subseteq Everywhere(got, qio, Kept, queued),
         dropped' = dropped, tty_sent' = tty_sent,
         \/ errors' = errors + 1
         \/ /\ errors' = errors
            /\ Everywhere(got, qio, Kept, queued)' = Everywhere(got, qio, Kept, queued)
  PROVE  BytesInv'
<1> DEFINE e == Everywhere(got, qio, Kept, queued)
           f == Everywhere(got, qio, Kept, queued)'
<1>1. /\ e \subseteq 1 .. tty_sent /\ dropped \subseteq 1 .. tty_sent /\ errors \in Nat
      /\ errors = 0 => 1 .. tty_sent \subseteq e \cup dropped /\ e \cap dropped = {}
  BY DEF BytesInv, BytesTypes
<1>2. f \subseteq e /\ (errors' = errors + 1 \/ (errors' = errors /\ f = e))
  OBVIOUS
<1> HIDE DEF e, f
<1>3. errors' = 0 => errors = 0 /\ f = e
  BY <1>1, <1>2
<1>4. /\ f \subseteq 1 .. tty_sent' /\ dropped' \subseteq 1 .. tty_sent'
      /\ errors' = 0 => 1 .. tty_sent' \subseteq f \cup dropped' /\ f \cap dropped' = {}
  BY <1>1, <1>2, <1>3
<1> QED
  BY <1>4 DEF e, f, BytesInv

LEMMA KeptStays ==
  ASSUME UNCHANGED <<tty_buf, tty_first, tty_len>>
  PROVE  Kept' = Kept
BY Zenon DEF Kept

LEMMA BytesStay ==
  ASSUME BytesInv, UNCHANGED <<got, qio, queued, dropped, tty_buf, tty_first, tty_len,
                               tty_sent, errors>>
  PROVE  BytesInv'
<1>1. Kept' = Kept
  BY KeptStays
<1> QED
  BY <1>1, Zenon DEF BytesInv, BytesTypes

LEMMA BytesAreNumbers ==
  ASSUME BytesInv
  PROVE  /\ Tty!Range(got) \subseteq Nat /\ Tty!Range(qio) \subseteq Nat
         /\ Tty!Range(Kept) \subseteq Nat /\ Tty!Range(queued) \subseteq Nat
<1>1. \A n \in Nat : 1 .. n \subseteq Nat
  OBVIOUS
<1>2. 1 .. tty_sent \subseteq Nat
  BY <1>1 DEF BytesInv, BytesTypes
<1> QED
  BY <1>2, Zenon DEF BytesInv, Everywhere

LEMMA FlushGoes ==
  ASSUME BytesInv, Tty!Flushed,
         UNCHANGED <<got, qio, tty_buf, tty_first, tty_len, tty_sent, errors>>
  PROVE  BytesInv'
<1>1. queued' = <<>> /\ dropped' = dropped \cup Tty!Range(queued)
  BY DEF Tty!Flushed
<1>2. Kept' = Kept
  BY KeptStays
<1>3. BytesTypes'
  BY <1>1, <1>2, EmptyPart DEF BytesInv, BytesTypes
<1>4. InOrder(got, qio, Kept, queued)'
  <2>1. InOrder(got, qio, Kept, <<>>)
    BY EmptyPart, Zenon DEF BytesInv, InOrder, Before
  <2> QED
    BY <2>1, <1>1, <1>2, Zenon
<1>5. Everywhere(got, qio, Kept, queued)'
        = Tty!Range(got) \cup Tty!Range(qio) \cup Tty!Range(Kept)
  BY <1>1, <1>2, EmptyPart, Zenon DEF Everywhere
<1>6. /\ Tty!Range(got) \cap Tty!Range(queued) = {}
      /\ Tty!Range(qio) \cap Tty!Range(queued) = {}
      /\ Tty!Range(Kept) \cap Tty!Range(queued) = {}
  BY BytesAreNumbers, Apart DEF BytesInv, InOrder
<1>7. /\ Everywhere(got, qio, Kept, queued)' \subseteq Everywhere(got, qio, Kept, queued)
      /\ dropped' = dropped \cup (Everywhere(got, qio, Kept, queued)
                                    \ Everywhere(got, qio, Kept, queued)')
  BY <1>1, <1>5, <1>6, Zenon DEF Everywhere
<1> QED
  BY <1>3, <1>4, <1>7, ThrownAway

LEMMA CloseGoes ==
  ASSUME BytesInv, Tty!Close
  PROVE  BytesInv'
<1>1. /\ queued' = <<>> /\ tty_first' = 0 /\ tty_len' = 0 /\ (qio' = <<>> \/ qio' = qio)
      /\ dropped' = dropped \cup Tty!Range(queued) \cup Tty!Range(Kept)
                      \cup (Tty!Range(qio) \ Tty!Range(qio'))
      /\ UNCHANGED <<tty_buf, got, tty_sent, errors>>
  BY DEF Tty!Close, Tty!bounds, Kept
<1>2. Kept' = <<>>
  BY <1>1 DEF Kept, Tty!Buffered
<1>3. BytesTypes'
  BY <1>1, <1>2, EmptyPart DEF BytesInv, BytesTypes
<1>4. Rising(qio') /\ Tty!Range(qio') \subseteq Tty!Range(qio)
  BY <1>1, EmptyPart, Zenon DEF BytesInv, InOrder
<1>5. InOrder(got, qio, Kept, queued)'
  <2>1. InOrder(got, qio', <<>>, <<>>)
    BY <1>4, EmptyPart, Zenon DEF BytesInv, InOrder, Before
  <2> QED
    BY <2>1, <1>1, <1>2, Zenon
<1>6. Everywhere(got, qio, Kept, queued)' = Tty!Range(got) \cup Tty!Range(qio')
  BY <1>1, <1>2, EmptyPart, Zenon DEF Everywhere
<1>7. /\ Tty!Range(got) \cap Tty!Range(queued) = {}
      /\ Tty!Range(qio) \cap Tty!Range(queued) = {}
      /\ Tty!Range(got) \cap Tty!Range(Kept) = {}
      /\ Tty!Range(qio) \cap Tty!Range(Kept) = {}
      /\ Tty!Range(got) \cap Tty!Range(qio) = {}
  BY BytesAreNumbers, Apart DEF BytesInv, InOrder
<1> DEFINE g == Tty!Range(got)
           q == Tty!Range(qio)
           r == Tty!Range(qio')
           k == Tty!Range(Kept)
           u == Tty!Range(queued)
           e == Everywhere(got, qio, Kept, queued)
           f == Everywhere(got, qio, Kept, queued)'
<1>8. /\ f = g \cup r /\ e = g \cup q \cup k \cup u /\ r \subseteq q
      /\ dropped' = dropped \cup u \cup k \cup (q \ r)
      /\ g \cap u = {} /\ q \cap u = {} /\ g \cap k = {} /\ q \cap k = {} /\ g \cap q = {}
  BY <1>1, <1>4, <1>6, <1>7 DEF Everywhere
<1> HIDE DEF g, q, r, k, u, e, f
<1>9. f \subseteq e /\ dropped' = dropped \cup (e \ f)
  BY <1>8
<1> QED
  BY <1>1, <1>3, <1>5, <1>9, ThrownAway DEF e, f

LEMMA CanReadGoes ==
  ASSUME BytesInv, Tty!CanRead
  PROVE  BytesInv'
<1> DEFINE size == Len(queued)
<1>1. /\ queued # <<>> /\ UNCHANGED <<got, qio, dropped, tty_sent>>
      /\ \/ /\ tty_buf' = Tty!Filled(queued, size)
            /\ tty_first' = Tty!Start(size) /\ tty_len' = tty_len + size
            /\ queued' = <<>> /\ UNCHANGED errors
         \/ /\ errors' = errors + 1
            /\ tty_buf' = Tty!Filled(<<>>, size)
            /\ LET kept == Tty!Chopped(tty_len + size, size + 1, Tty!Start(size))
               IN tty_first' = kept[1] /\ tty_len' = kept[2]
            /\ UNCHANGED queued
  BY DEF Tty!CanRead
<1>2. /\ got \in Seq(Nat) /\ qio \in Seq(Nat) /\ queued \in Seq(Nat) /\ Kept \in Seq(Nat)
      /\ tty_len \in Nat /\ tty_first \in Nat /\ Space(tty_buf) /\ errors \in Nat
      /\ InOrder(got, qio, Kept, queued)
  BY DEF BytesInv, BytesTypes
<1>3. Len(Kept) = tty_len
  BY <1>2 DEF Kept, Tty!Buffered
<1>4. /\ size \in Nat /\ Len(<<>>) = 0 /\ <<>> \in Seq(Nat)
      /\ Len(queued) <= size /\ Len(<<>>) <= size
  BY <1>2
<1>5. CASE /\ tty_buf' = Tty!Filled(queued, size)
           /\ tty_first' = Tty!Start(size) /\ tty_len' = tty_len + size
           /\ queued' = <<>> /\ UNCHANGED errors
  <2>1. /\ Tty!Start(size) \in Nat /\ Space(Tty!Filled(queued, size))
        /\ \A l \in 0 .. tty_len + Len(queued) :
             Tty!Buffered(Tty!Filled(queued, size), Tty!Start(size), l)
               = SubSeq(Kept \o queued, 1, l)
    BY <1>2, <1>4, Reserved, Zenon
  <2> DEFINE l == tty_len + size
             all == Kept \o queued
  <2>2. l \in 0 .. tty_len + Len(queued)
    BY <1>2, <1>4
  <2>3. Kept' = SubSeq(all, 1, l)
    BY <2>1, <2>2, <1>5, Zenon DEF Kept
  <2>11. all \in Seq(Nat) /\ Len(all) = Len(Kept) + Len(queued)
    BY <1>2
  <2>4. all \in Seq(Nat) /\ Len(all) = l
    BY <2>11, <1>3, Zenon
  <2> HIDE DEF l, all
  <2>5. SubSeq(all, 1, l) = all
    BY <2>4
  <2>6. Kept' = Kept \o queued
    BY <2>3, <2>5, Zenon DEF all
  <2>7. /\ InOrder(got, qio, Kept \o queued, <<>>)
        /\ Everywhere(got, qio, Kept \o queued, <<>>) = Everywhere(got, qio, Kept, queued)
        /\ Kept \o queued \in Seq(Nat)
    BY <1>2, JoinedInOrder
  <2>8. /\ InOrder(got, qio, Kept, queued)'
        /\ Everywhere(got, qio, Kept, queued)' = Everywhere(got, qio, Kept, queued)
    BY <1>1, <1>5, <2>6, <2>7, Zenon
  <2>9. Kept' \in Seq(Nat) /\ Space(tty_buf') /\ tty_first' \in Nat
    BY <2>1, <2>6, <2>7, <1>5, Zenon
  <2>10. BytesTypes'
    BY <1>1, <1>2, <1>4, <1>5, <2>9 DEF BytesTypes, BytesInv
  <2> QED
    BY <1>1, <1>5, <2>8, <2>10, Moved
<1>6. CASE /\ errors' = errors + 1
           /\ tty_buf' = Tty!Filled(<<>>, size)
           /\ LET kept == Tty!Chopped(tty_len + size, size + 1, Tty!Start(size))
              IN tty_first' = kept[1] /\ tty_len' = kept[2]
           /\ UNCHANGED queued
  <2>1. /\ Tty!Start(size) \in Nat /\ Space(Tty!Filled(<<>>, size))
        /\ \A l \in 0 .. tty_len + Len(<<>>) :
             Tty!Buffered(Tty!Filled(<<>>, size), Tty!Start(size), l)
               = SubSeq(Kept \o <<>>, 1, l)
    BY <1>2, <1>4, Reserved, Zenon
  <2>2. Kept \o <<>> = Kept
    BY <1>2
  <2>3. /\ tty_first' \in Nat /\ tty_len' \in Nat
        /\ tty_len' = 0 \/ (tty_first' = Tty!Start(size) /\ tty_len' \in 0 .. tty_len)
    BY <1>2, <1>4, <1>6, <2>1 DEF Tty!Chopped
  <2>4. Kept' \in Seq(Nat) /\ Rising(Kept') /\ Tty!Range(Kept') \subseteq Tty!Range(Kept)
    <3>1. CASE tty_len' = 0
      <4>1. Kept' = <<>>
        BY <3>1 DEF Kept, Tty!Buffered
      <4> QED
        BY <4>1, EmptyPart, Zenon
    <3>2. CASE tty_first' = Tty!Start(size) /\ tty_len' \in 0 .. tty_len
      <4>1. tty_len' \in 0 .. tty_len + Len(<<>>)
        BY <3>2, <1>2, <1>4
      <4>2. Kept' = SubSeq(Kept, 1, tty_len')
        BY <4>1, <2>1, <2>2, <3>2, <1>6, Zenon DEF Kept
      <4>3. tty_len' \in 0 .. Len(Kept)
        BY <3>2, <1>3
      <4> DEFINE p == SubSeq(Kept, 1, tty_len')
                 q == SubSeq(Kept, tty_len' + 1, Len(Kept))
      <4>4. p \in Seq(Nat) /\ q \in Seq(Nat) /\ Kept = p \o q
        BY <4>3, <1>2, CutAt
      <4> HIDE DEF p, q
      <4>5. Rising(p) /\ Tty!Range(p) \subseteq Tty!Range(Kept)
        BY <4>4, <1>2, JoinRange, JoinRising DEF InOrder
      <4> QED
        BY <4>2, <4>4, <4>5, Zenon DEF p
    <3> QED
      BY <2>3, <3>1, <3>2
  <2>5. BytesTypes'
    BY <1>1, <1>2, <1>6, <2>1, <2>3, <2>4 DEF BytesTypes, BytesInv
  <2>6. /\ InOrder(got, qio, Kept, queued)'
        /\ Everywhere(got, qio, Kept, queued)' \subseteq Everywhere(got, qio, Kept, queued)
    <3>1. InOrder(got, qio, Kept', queued)
      BY <2>4, <1>2, Zenon DEF InOrder, Before
    <3>2. Everywhere(got, qio, Kept', queued) \subseteq Everywhere(got, qio, Kept, queued)
      BY <2>4, Zenon DEF Everywhere
    <3> QED
      BY <3>1, <3>2, <1>1, <1>6, Zenon
  <2> QED
    BY <1>1, <1>6, <2>5, <2>6, Moved
<1> QED
  BY <1>1, <1>5, <1>6

LEMMA TakenGoes ==
  ASSUME BytesInv, NEW a \in Seq(Nat), NEW c, NEW d,
         InOrder(got, a, c, d), Everywhere(got, a, c, d) = Everywhere(got, qio, Kept, queued),
         Tty!Taken(a), Kept' = c, c \in Seq(Nat), queued' = d, d \in Seq(Nat),
         tty_first' \in Nat, tty_len' \in Nat,
         UNCHANGED <<tty_buf, dropped, tty_sent, errors>>
  PROVE  BytesInv'
<1>1. got \in Seq(Nat)
  BY DEF BytesInv, BytesTypes
<1>2. PICK n \in 0 .. Len(a) :
        got' = got \o SubSeq(a, 1, n) /\ qio' = SubSeq(a, n + 1, Len(a))
  BY DEF Tty!Taken
<1>3. /\ InOrder(got \o SubSeq(a, 1, n), SubSeq(a, n + 1, Len(a)), c, d)
      /\ Everywhere(got \o SubSeq(a, 1, n), SubSeq(a, n + 1, Len(a)), c, d)
           = Everywhere(got, a, c, d)
      /\ got \o SubSeq(a, 1, n) \in Seq(Nat) /\ SubSeq(a, n + 1, Len(a)) \in Seq(Nat)
  BY <1>1, TakenInOrder, Zenon
<1>4. /\ InOrder(got, qio, Kept, queued)'
      /\ Everywhere(got, qio, Kept, queued)' = Everywhere(got, qio, Kept, queued)
      /\ got' \in Seq(Nat) /\ qio' \in Seq(Nat)
  BY <1>2, <1>3, Zenon
<1>5. BytesTypes'
  BY <1>4 DEF BytesInv, BytesTypes
<1> QED
  BY <1>4, <1>5, Moved

LEMMA ReadGoes ==
  ASSUME BytesInv, Tty!Read
  PROVE  BytesInv'
<1>1. /\ UNCHANGED <<dropped, tty_sent>>
      /\ \/ Tty!Taken(qio) /\ UNCHANGED <<queued, tty_buf, tty_first, tty_len, errors>>
         \/ Tty!ReadData
  BY DEF Tty!Read, Tty!buffer
<1>2. /\ got \in Seq(Nat) /\ qio \in Seq(Nat) /\ queued \in Seq(Nat) /\ Kept \in Seq(Nat)
      /\ tty_len \in Nat /\ tty_first \in Nat /\ InOrder(got, qio, Kept, queued)
  BY DEF BytesInv, BytesTypes
<1>3. CASE Tty!Taken(qio) /\ UNCHANGED <<queued, tty_buf, tty_first, tty_len, errors>>
  <2>1. Kept' = Kept
    BY <1>3, KeptStays
  <2> QED
    BY <1>1, <1>2, <1>3, <2>1, TakenGoes
<1>4. CASE Tty!ReadData
  <2>1. /\ qio = <<>> /\ tty_first' = tty_first + tty_len /\ tty_len' = 0
        /\ UNCHANGED tty_buf
        /\ \/ Tty!Taken(Kept \o queued) /\ queued' = <<>> /\ UNCHANGED errors
           \/ errors' = errors + 1 /\ UNCHANGED <<queued, qio, got>>
    BY <1>4 DEF Tty!ReadData, Kept
  <2>2. Kept' = <<>>
    BY <2>1 DEF Kept, Tty!Buffered
  <2>3. tty_first' \in Nat /\ tty_len' \in Nat
    BY <1>2, <2>1
  <2>4. CASE Tty!Taken(Kept \o queued) /\ queued' = <<>> /\ UNCHANGED errors
    <3> DEFINE v == Kept \o queued
    <3>1. v \in Seq(Nat) /\ Tty!Range(v) = Tty!Range(Kept) \cup Tty!Range(queued) /\ Rising(v)
      BY <1>2, JoinRange, JoinRising DEF InOrder
    <3> HIDE DEF v
    <3>2. InOrder(got, v, <<>>, <<>>)
      BY <3>1, <1>2, EmptyPart, Zenon DEF InOrder, Before
    <3>3. Tty!Range(qio) = {}
      BY <2>1, EmptyPart
    <3>4. Everywhere(got, v, <<>>, <<>>) = Everywhere(got, qio, Kept, queued)
      BY <3>1, <3>3, EmptyPart, Zenon DEF Everywhere
    <3>5. Tty!Taken(v)
      BY <2>4 DEF v
    <3> QED
      BY <3>1, <3>2, <3>4, <3>5, <1>1, <2>1, <2>2, <2>3, <2>4, EmptyPart, TakenGoes
  <2>5. CASE errors' = errors + 1 /\ UNCHANGED <<queued, qio, got>>
    <3>1. InOrder(got, qio, <<>>, queued)
      BY <1>2, EmptyPart, Zenon DEF InOrder, Before
    <3>2. Everywhere(got, qio, <<>>, queued) \subseteq Everywhere(got, qio, Kept, queued)
      BY EmptyPart, Zenon DEF Everywhere
    <3>3. /\ InOrder(got, qio, Kept, queued)'
          /\ Everywhere(got, qio, Kept, queued)' \subseteq Everywhere(got, qio, Kept, queued)
      BY <2>2, <2>5, <3>1, <3>2, Zenon
    <3>4. BytesTypes'
      BY <1>1, <2>1, <2>2, <2>3, <2>5, EmptyPart DEF BytesInv, BytesTypes
    <3> QED
      BY <1>1, <2>5, <3>3, <3>4, Moved
  <2> QED
    BY <2>1, <2>4, <2>5
<1> QED
  BY <1>1, <1>3, <1>4

(* The number of a byte that comes is above that of all before it.         *)
LEMMA ArrivesGoes ==
  ASSUME BytesInv, Tty!Arrives
  PROVE  BytesInv'
<1>1. /\ tty_sent' = tty_sent + 1
      /\ UNCHANGED <<got, qio, tty_buf, tty_first, tty_len, errors>>
      /\ \/ queued' = Append(queued, tty_sent + 1) /\ UNCHANGED dropped
         \/ dropped' = dropped \cup {tty_sent + 1} /\ UNCHANGED queued
  BY DEF Tty!Arrives, Tty!buffer
<1>2. Kept' = Kept
  BY <1>1, KeptStays
<1> DEFINE n == tty_sent + 1
           e == Everywhere(got, qio, Kept, queued)
           f == Everywhere(got, qio, Kept, queued)'
<1>3. /\ e \subseteq 1 .. tty_sent /\ dropped \subseteq 1 .. tty_sent /\ tty_sent \in Nat
      /\ errors = 0 => 1 .. tty_sent \subseteq e \cup dropped /\ e \cap dropped = {}
      /\ queued \in Seq(Nat) /\ InOrder(got, qio, Kept, queued)
  BY DEF BytesInv, BytesTypes
<1>4. /\ n \in Nat /\ 1 .. n = 1 .. tty_sent \cup {n} /\ n \notin 1 .. tty_sent
      /\ \A i \in 1 .. tty_sent : i < n
  BY <1>3
<1>5. CASE queued' = Append(queued, tty_sent + 1) /\ UNCHANGED dropped
  <2>1. <<n>> \in Seq(Nat) /\ Tty!Range(<<n>>) = {n} /\ Rising(<<n>>)
    BY <1>4 DEF Tty!Range, Rising
  <2>2. queued' = queued \o <<n>>
    BY <1>3, <1>4, <1>5
  <2>3. \A i \in e : i < n
    BY <1>3, <1>4
  <2>4. /\ Before(got, <<n>>) /\ Before(qio, <<n>>) /\ Before(Kept, <<n>>)
        /\ Before(queued, <<n>>)
    BY <2>1, <2>3, Zenon DEF Before, Everywhere
  <2> DEFINE v == queued \o <<n>>
  <2>5. v \in Seq(Nat) /\ Tty!Range(v) = Tty!Range(queued) \cup {n} /\ Rising(v)
    BY <1>3, <2>1, <2>4, JoinRange, JoinRising DEF InOrder
  <2>6. queued' = v
    BY <2>2
  <2> HIDE DEF v
  <2>7. InOrder(got, qio, Kept, v)
    BY <1>3, <2>1, <2>4, <2>5, Zenon DEF InOrder, Before
  <2>8. Everywhere(got, qio, Kept, v) = e \cup {n}
    BY <2>5, Zenon DEF Everywhere
  <2>9. InOrder(got, qio, Kept, queued)' /\ f = e \cup {n}
    BY <1>1, <1>2, <2>6, <2>7, <2>8, Zenon
  <2> HIDE DEF e, f
  <2>10. /\ f \subseteq 1 .. n /\ dropped' \subseteq 1 .. n
         /\ errors' = 0 => 1 .. n \subseteq f \cup dropped' /\ f \cap dropped' = {}
    BY <1>1, <1>3, <1>4, <1>5, <2>9
  <2>11. BytesTypes'
    BY <1>1, <1>2, <1>4, <2>5, <2>6 DEF BytesInv, BytesTypes
  <2> QED
    BY <1>1, <2>9, <2>10, <2>11 DEF BytesInv, f
<1>6. CASE dropped' = dropped \cup {tty_sent + 1} /\ UNCHANGED queued
  <2>1. InOrder(got, qio, Kept, queued)' /\ f = e
    BY <1>1, <1>2, <1>3, <1>6, Zenon
  <2> HIDE DEF e, f
  <2>2. /\ f \subseteq 1 .. n /\ dropped' \subseteq 1 .. n
        /\ errors' = 0 => 1 .. n \subseteq f \cup dropped' /\ f \cap dropped' = {}
    BY <1>1, <1>3, <1>4, <1>6, <2>1
  <2>3. BytesTypes'
    BY <1>1, <1>2, <1>4, <1>6 DEF BytesInv, BytesTypes
  <2> QED
    BY <1>1, <2>1, <2>2, <2>3 DEF BytesInv, f
<1> QED
  BY <1>1, <1>5, <1>6

ValuesOf(f) == Tty!FieldValues[f]

SetsField(f) == \E v \in ValuesOf(f) : Tty!Set(f, v)

LEMMA BytesGo ==
  ASSUME BytesInv, [Tty!Next]_tty
  PROVE  BytesInv'
<1>1. CASE Tty!ChangesSettings
  <2>1. UNCHANGED <<tty_sent, errors>>
    BY <1>1 DEF Tty!ChangesSettings
  <2>2. CASE Tty!SetQueryMode
    <3>1. UNCHANGED <<queued, tty_buf, tty_first, tty_len, qio, got, dropped>>
      BY <2>2 DEF Tty!SetQueryMode, Tty!data, Tty!buffer
    <3> QED
      BY <2>1, <3>1, BytesStay
  <2>3. CASE \E f \in Tty!Fields : SetsField(f)
    <3>1. PICK f \in Tty!Fields : SetsField(f)
      BY <2>3
    <3>3. PICK v \in ValuesOf(f) : Tty!Set(f, v)
      BY <3>1 DEF SetsField
    <3>2. /\ UNCHANGED <<tty_buf, tty_first, tty_len, qio, got>>
          /\ Tty!Flushed \/ UNCHANGED <<queued, dropped>>
      BY <3>3, Zenon DEF Tty!Set, Tty!UpdatePortSettings, Tty!buffer
    <3> QED
      BY <2>1, <3>2, BytesStay, FlushGoes
  <2> QED
    BY <1>1, <2>2, <2>3 DEF Tty!ChangesSettings, ValuesOf, SetsField
<1>2. CASE Tty!Open
  <2>1. UNCHANGED <<queued, tty_buf, tty_first, tty_len, qio, got, dropped, tty_sent, errors>>
    BY <1>2 DEF Tty!Open, Tty!data, Tty!buffer, Tty!bounds
  <2> QED
    BY <2>1, BytesStay
<1>3. CASE UNCHANGED tty
  <2>1. UNCHANGED <<queued, tty_buf, tty_first, tty_len, qio, got, dropped, tty_sent, errors>>
    BY <1>3 DEF tty
  <2> QED
    BY <2>1, BytesStay
<1> QED
  BY <1>1, <1>2, <1>3, CloseGoes, CanReadGoes, ReadGoes, ArrivesGoes DEF Tty!Next

LEMMA BytesSay ==
  ASSUME BytesInv
  PROVE  Tty!BytesInOrder
<1>1. /\ got \in Seq(Nat) /\ qio \in Seq(Nat) /\ queued \in Seq(Nat) /\ Kept \in Seq(Nat)
      /\ InOrder(got, qio, Kept, queued)
  BY DEF BytesInv, BytesTypes
<1> DEFINE a == got \o qio
           b == a \o Kept
           c == b \o queued
<1>2. a \in Seq(Nat) /\ Tty!Range(a) = Tty!Range(got) \cup Tty!Range(qio) /\ Rising(a)
  BY <1>1, JoinRange, JoinRising DEF InOrder
<1> HIDE DEF a
<1>3. Before(a, Kept) /\ Before(a, queued)
  BY <1>1, <1>2, Zenon DEF InOrder, Before
<1>4. b \in Seq(Nat) /\ Tty!Range(b) = Tty!Range(a) \cup Tty!Range(Kept) /\ Rising(b)
  BY <1>1, <1>2, <1>3, JoinRange, JoinRising DEF InOrder
<1> HIDE DEF b
<1>5. Before(b, queued)
  BY <1>1, <1>3, <1>4, Zenon DEF InOrder, Before
<1>6. Tty!Range(c) = Tty!Range(b) \cup Tty!Range(queued) /\ Rising(c)
  BY <1>1, <1>4, <1>5, JoinRange, JoinRising DEF InOrder
<1>7. Tty!Range(c) = Everywhere(got, qio, Kept, queued)
  BY <1>2, <1>4, <1>6, Zenon DEF Everywhere
<1>8. Tty!Held = c
  BY Zenon DEF Tty!Held, Kept, a, b
<1> HIDE DEF c
<1>9. errors = 0 => /\ Tty!Range(c) \cup dropped = 1 .. tty_sent
                    /\ Tty!Range(c) \cap dropped = {}
  BY <1>7 DEF BytesInv
<1> QED
  BY <1>6, <1>8, <1>9, Zenon DEF Tty!BytesInOrder, Rising

-----------------------------------------------------------------------------
(* The settings.                                                           *)
Device ==
  /\ \A f \in {"BaudRate", "StopBits", "FlowControl"} : termios[f] = tty_settings[f]
  /\ termios.Timeout = Tty!Vtime(tty_settings.Timeout)
  /\ termios.Parity = IF tty_settings.Parity = "space" THEN "none" ELSE tty_settings.Parity
  /\ IF tty_settings.Parity = "space"
     THEN termios.DataBits = Tty!Csize(tty_settings)
     ELSE spaced \/ termios.DataBits = tty_settings.DataBits

SettingsInv ==
  /\ tty_settings \in Tty!PortSettings
  /\ ~Tty!FiveWithTwo(tty_settings.DataBits, tty_settings.StopBits)
  /\ isOpen => /\ settingsDirtyFlags = {} /\ Device
               /\ tty_settings.Parity = "space" => spaced

LEMMA FieldNames ==
  Tty!Fields = {"BaudRate", "DataBits", "Parity", "StopBits", "FlowControl", "Timeout"}
BY DEF Tty!Fields, Tty!FieldValues

(* What each field of the device becomes.                                  *)
LEMMA UpdatedIs ==
  ASSUME NEW t, NEW s, NEW dirty
  PROVE  LET u == Tty!Updated(t, s, dirty)
         IN  /\ \A f \in {"BaudRate", "StopBits", "FlowControl"} :
                  u[f] = IF f \in dirty THEN s[f] ELSE t[f]
             /\ u["Timeout"] = IF "Timeout" \in dirty THEN Tty!Vtime(s.Timeout) ELSE t["Timeout"]
             /\ u["Parity"] = IF "Parity" \in dirty
                              THEN IF s.Parity = "space" THEN "none" ELSE s.Parity
                              ELSE t["Parity"]
             /\ u["DataBits"] = IF "DataBits" \in dirty \/ ("Parity" \in dirty /\ s.Parity = "space")
                                THEN Tty!Csize(s) ELSE t["DataBits"]
BY FieldNames DEF Tty!Updated, Tty!WithBits

(* One field gets another value.                                           *)
LEMMA FieldSet ==
  ASSUME tty_settings \in Tty!PortSettings, NEW f \in Tty!Fields, NEW v \in ValuesOf(f)
  PROVE  /\ [tty_settings EXCEPT ![f] = v] \in Tty!PortSettings
         /\ \A g \in Tty!Fields : [tty_settings EXCEPT ![f] = v][g]
                                    = IF g = f THEN v ELSE tty_settings[g]
BY FieldNames DEF Tty!PortSettings, Tty!FieldValues, ValuesOf

LEMMA SettingsStart == Tty!Init => SettingsInv
<1> SUFFICES ASSUME Tty!Init PROVE SettingsInv
  OBVIOUS
<1>1. isOpen = FALSE
  BY DEF Tty!Init
<1>2. PICK s \in Tty!PortSettings : tty_settings = Tty!Constructed(s)
  BY DEF Tty!Init
<1>3. Tty!Default.StopBits = 1
  BY DEF Tty!Default
<1>4. tty_settings = [s EXCEPT !.StopBits = IF s.DataBits = 5 THEN 1 ELSE s.StopBits]
  BY <1>2, <1>3 DEF Tty!Constructed, Tty!FiveWithTwo
<1> QED
  BY <1>1, <1>4 DEF SettingsInv, Tty!PortSettings, Tty!FieldValues, Tty!FiveWithTwo

(* What is written to the device of a port that is open.                   *)
LEMMA WritesDevice ==
  ASSUME NEW s, NEW dirty,
         termios' = Tty!Updated(termios, s, dirty), tty_settings' = s,
         spaced' = (spaced \/ s.Parity = "space"),
         Device, tty_settings.Parity = "space" => spaced,
         \A g \in Tty!Fields \ dirty : s[g] = tty_settings[g]
  PROVE  Device' /\ (s.Parity = "space" => spaced')
<1> DEFINE u == Tty!Updated(termios, s, dirty)
<1>1. /\ \A f \in {"BaudRate", "StopBits", "FlowControl"} :
           u[f] = IF f \in dirty THEN s[f] ELSE termios[f]
      /\ u["Timeout"] = IF "Timeout" \in dirty THEN Tty!Vtime(s.Timeout) ELSE termios["Timeout"]
      /\ u["Parity"] = IF "Parity" \in dirty
                       THEN IF s.Parity = "space" THEN "none" ELSE s.Parity
                       ELSE termios["Parity"]
      /\ u["DataBits"] = IF "DataBits" \in dirty \/ ("Parity" \in dirty /\ s.Parity = "space")
                         THEN Tty!Csize(s) ELSE termios["DataBits"]
  BY UpdatedIs
<1>2. termios' = u
  OBVIOUS
<1> HIDE DEF u
<1>3. \A f \in {"BaudRate", "StopBits", "FlowControl"} : termios'[f] = tty_settings'[f]
  BY <1>1, <1>2, FieldNames DEF Device
<1>4. termios'.Timeout = Tty!Vtime(s.Timeout)
  BY <1>1, <1>2, FieldNames DEF Device
<1>5. termios'.Parity = IF s.Parity = "space" THEN "none" ELSE s.Parity
  BY <1>1, <1>2, FieldNames DEF Device
<1>6. IF s.Parity = "space" THEN termios'.DataBits = Tty!Csize(s)
      ELSE spaced' \/ termios'.DataBits = s.DataBits
  BY <1>1, <1>2, FieldNames DEF Device, Tty!Csize
<1> QED
  BY <1>3, <1>4, <1>5, <1>6 DEF Device

LEMMA OpensDevice ==
  ASSUME NEW t, termios' = Tty!Updated(t, tty_settings, Tty!Fields),
         spaced' = (tty_settings.Parity = "space"), tty_settings' = tty_settings
  PROVE  Device' /\ (tty_settings.Parity = "space" => spaced')
<1> DEFINE all == Tty!Fields
           s == tty_settings
           u == Tty!Updated(t, s, all)
<1>1. /\ \A f \in {"BaudRate", "StopBits", "FlowControl"} :
           u[f] = IF f \in all THEN s[f] ELSE t[f]
      /\ u["Timeout"] = IF "Timeout" \in all THEN Tty!Vtime(s.Timeout) ELSE t["Timeout"]
      /\ u["Parity"] = IF "Parity" \in all
                       THEN IF s.Parity = "space" THEN "none" ELSE s.Parity
                       ELSE t["Parity"]
      /\ u["DataBits"] = IF "DataBits" \in all \/ ("Parity" \in all /\ s.Parity = "space")
                         THEN Tty!Csize(s) ELSE t["DataBits"]
  BY UpdatedIs
<1>2. termios' = u
  OBVIOUS
<1> HIDE DEF u
<1>3. \A f \in {"BaudRate", "StopBits", "FlowControl"} : termios'[f] = s[f]
  BY <1>1, <1>2, FieldNames
<1>4. termios'.Timeout = Tty!Vtime(s.Timeout)
  BY <1>1, <1>2, FieldNames
<1>5. termios'.Parity = IF s.Parity = "space" THEN "none" ELSE s.Parity
  BY <1>1, <1>2, FieldNames
<1>6. termios'.DataBits = Tty!Csize(s)
  BY <1>1, <1>2, FieldNames
<1>7. s.Parity # "space" => Tty!Csize(s) = s.DataBits
  BY DEF Tty!Csize
<1> QED
  BY <1>3, <1>4, <1>5, <1>6, <1>7 DEF Device

LEMMA SettingsGo ==
  ASSUME SettingsInv, [Tty!Next]_tty
  PROVE  SettingsInv'
<1>1. CASE Tty!ChangesSettings
  <2>1. CASE Tty!SetQueryMode
    <3>1. UNCHANGED <<isOpen, tty_settings, settingsDirtyFlags, termios, spaced>>
      BY <2>1 DEF Tty!SetQueryMode
    <3> QED
      BY <3>1, Zenon DEF SettingsInv, Device
  <2>2. CASE \E f \in Tty!Fields : SetsField(f)
    <3>1. PICK f \in Tty!Fields : SetsField(f)
      BY <2>2
    <3>2. PICK v \in ValuesOf(f) : Tty!Set(f, v)
      BY <3>1 DEF SetsField
    <3> DEFINE dirty == settingsDirtyFlags \cup IF Tty!Accepts(tty_settings, f, v) THEN {f} ELSE {}
               s == [tty_settings EXCEPT ![f] = v]
    <3>3. /\ isOpen' = isOpen
          /\ tty_settings' = IF Tty!Accepts(tty_settings, f, v) THEN s ELSE tty_settings
          /\ Tty!UpdatePortSettings(tty_settings', dirty)
      BY <3>2, Zenon DEF Tty!Set
    <3>4. s \in Tty!PortSettings
          /\ \A g \in Tty!Fields : s[g] = IF g = f THEN v ELSE tty_settings[g]
      BY FieldSet DEF SettingsInv
    <3> HIDE DEF s
    <3>5. Tty!Accepts(tty_settings, f, v) => ~Tty!FiveWithTwo(s.DataBits, s.StopBits)
      BY <3>4, FieldNames DEF Tty!Accepts, Tty!FiveWithTwo, SettingsInv
    <3>6. /\ tty_settings' \in Tty!PortSettings
          /\ ~Tty!FiveWithTwo(tty_settings'.DataBits, tty_settings'.StopBits)
      BY <3>3, <3>4, <3>5 DEF SettingsInv
    <3>7. ASSUME isOpen
          PROVE  /\ settingsDirtyFlags' = {} /\ Device'
                 /\ tty_settings'.Parity = "space" => spaced'
      <4>1. settingsDirtyFlags = {} /\ Device /\ (tty_settings.Parity = "space" => spaced)
        BY <3>7 DEF SettingsInv
      <4>2. CASE Tty!Accepts(tty_settings, f, v)
        <5>1. dirty = {f} /\ tty_settings' = s
          BY <4>1, <4>2, <3>3
        <5>2. /\ termios' = Tty!Updated(termios, s, dirty) /\ settingsDirtyFlags' = {}
              /\ spaced' = (spaced \/ s.Parity = "space")
          BY <3>3, <3>7, <5>1 DEF Tty!UpdatePortSettings
        <5>3. \A g \in Tty!Fields \ dirty : s[g] = tty_settings[g]
          BY <3>4, <5>1
        <5>4. Device' /\ (s.Parity = "space" => spaced')
          BY <4>1, <5>1, <5>2, <5>3, WritesDevice
        <5> QED
          BY <5>1, <5>2, <5>4
      <4>3. CASE ~Tty!Accepts(tty_settings, f, v)
        <5>1. dirty = {} /\ tty_settings' = tty_settings
          BY <4>1, <4>3, <3>3
        <5>2. UNCHANGED <<termios, spaced>> /\ settingsDirtyFlags' = {}
          BY <3>3, <5>1 DEF Tty!UpdatePortSettings
        <5> QED
          BY <4>1, <5>1, <5>2, Zenon DEF Device
      <4> QED
        BY <4>2, <4>3
    <3> QED
      BY <3>3, <3>6, <3>7, Zenon DEF SettingsInv
  <2> QED
    BY <1>1, <2>1, <2>2 DEF Tty!ChangesSettings, ValuesOf, SetsField
<1>2. CASE Tty!Open
  <2>1. /\ termios' = Tty!Updated(Tty!Default, tty_settings, Tty!Fields)
        /\ settingsDirtyFlags' = {} /\ spaced' = (tty_settings.Parity = "space")
        /\ tty_settings' = tty_settings
    BY <1>2 DEF Tty!Open
  <2>2. Device' /\ (tty_settings.Parity = "space" => spaced')
    BY <2>1, OpensDevice
  <2> QED
    BY <2>1, <2>2, Zenon DEF SettingsInv
<1>3. CASE Tty!Close \/ Tty!CanRead \/ Tty!Read \/ Tty!Arrives \/ UNCHANGED tty
  <2>1. /\ UNCHANGED <<tty_settings, settingsDirtyFlags, termios, spaced>>
        /\ isOpen' = isOpen \/ isOpen' = FALSE
    BY <1>3 DEF Tty!Close, Tty!CanRead, Tty!Read, Tty!Arrives, Tty!configuration, tty
  <2>2. Device' = Device
    BY <2>1, Zenon DEF Device
  <2>3. CASE isOpen' = FALSE
    BY <2>1, <2>3 DEF SettingsInv
  <2>4. CASE isOpen' = isOpen
    BY <2>1, <2>2, <2>4, Zenon DEF SettingsInv
  <2> QED
    BY <2>1, <2>3, <2>4
<1> QED
  BY <1>1, <1>2, <1>3 DEF Tty!Next

LEMMA SettingsSay ==
  ASSUME SettingsInv
  PROVE  Tty!DeviceFollowsSettings
BY DEF SettingsInv, Device, Tty!DeviceFollowsSettings, Tty!Csize

-----------------------------------------------------------------------------
PortInv == BytesInv /\ SettingsInv

(* Each program keeps its invariant, and the others do not move.           *)
GroundInv ==
  /\ LoaderInv
  /\ DisplayInv
  /\ TunerInv
  /\ PortInv

LEMMA GroundHolds == PickSpec => []GroundInv
<1>1. PickInit => GroundInv
  BY LoaderStarts, DisplaysStart, TunerStarts, BytesStart, SettingsStart
    DEF PickInit, GroundInv, PortInv
<1>2. GroundInv /\ [PickNext]_everything => GroundInv'
  <2> SUFFICES ASSUME GroundInv, [PickNext]_everything PROVE GroundInv'
    OBVIOUS
  <2>1. [Flash!Next]_loader /\ [Desk!Next]_displays /\ [Tune!Next]_tuner /\ [Tty!Next]_tty
    BY DEF PickNext, LoaderStep, DisplaysStep, TunerStep, SerialStep, everything
  <2> QED
    BY <2>1, LoaderGoes, DisplaysGo, TunerGoes, BytesGo, SettingsGo DEF GroundInv, PortInv
<1> QED
  BY <1>1, <1>2, PTL DEF PickSpec

(* stm32loader.py:417-420: whatever is lost on the line, when the loader   *)
(* says that the firmware is verified, or ends without an error after it   *)
(* has erased and written, the chip holds the file.                        *)
THEOREM SaidCorrect == PickSpec => []SaidIsWritten
<1>1. GroundInv => SaidIsWritten
  BY LoaderSays DEF GroundInv, SaidIsWritten
<1> QED
  BY <1>1, GroundHolds, PTL

(* Window.cpp:103-122, serialproxy.py:83-102, main.py:55-87: a green label *)
(* was heard of within two periods, no thread touches a port that the      *)
(* proxy has closed, and a refresh that nothing disturbed shows what the   *)
(* node has, whatever the period and the number of parameters.             *)
THEOREM ScreensCorrect == PickSpec => []ScreensAreRight
<1>1. TunerInv => Tune!TreeIsBoards
  BY DEF TunerInv, Tune!TreeIsBoards
<1>2. GroundInv => ScreensAreRight
  BY <1>1, DisplaysSay DEF GroundInv, ScreensAreRight
<1> QED
  BY <1>2, GroundHolds, PTL

(* qextserialport.cpp:280-330, qextserialport_unix.cpp:170-520: the bytes  *)
(* that are read are in the order they came, each once; while no call      *)
(* fails those that are missing came to a closed port or waited when it    *)
(* was closed or set; and the device is set the way the settings say,      *)
(* whatever the buffer and the rates, but for the data bits once space     *)
(* parity was used, or with eight of them and space parity (357-411).      *)
THEOREM SerialCorrect == PickSpec => []PortIsAsSet
<1>1. GroundInv => PortIsAsSet
  BY BytesSay, SettingsSay DEF GroundInv, PortInv, PortIsAsSet
<1> QED
  BY <1>1, GroundHolds, PTL
=============================================================================
