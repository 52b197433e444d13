---------------------------- MODULE Modem_proofs ----------------------------
(***************************************************************************)
(* Proofs about the five programs of MCBnap, for every value of their      *)
(* constants: the modem (Modem), the shell and its switch (ShellSwitch),   *)
(* the settings file (ModemSettings), the stream of messages (Escape) and  *)
(* the command line (Completion).                                          *)
(*                                                                         *)
(* Of the modem the invariant ModemInv says what the properties leave      *)
(* unsaid: the queue of cc_out holds exactly those who are between their   *)
(* acquire and their release, a message the packer has yet to write counts *)
(* as stray from the moment the flag falls, and the questions RssiThread   *)
(* has yet to ask are counted before they are asked, those it may put into *)
(* "+++" among them.                                                       *)
(***************************************************************************)
EXTENDS MCBnap, SequenceTheorems, WellFoundedInduction, TLAPS

Threads == Senders \cup {"modem"}

(* Who is between its acquire and its release.                             *)
Wanting ==
  {s \in Senders : sender[s] = "waits"}
    \cup IF pc \in {"acquire", "guard", "plus"} THEN {"modem"} ELSE {}

(* The queue has everybody once who wants the port, and nobody else.       *)
QueueInv ==
  /\ \A a, b \in 1 .. Len(cc_out) : cc_out[a] = cc_out[b] => a = b
  /\ \A a \in 1 .. Len(cc_out) : cc_out[a] \in Wanting
  /\ \A x \in Wanting : \E a \in 1 .. Len(cc_out) : cc_out[a] = x

(* The message of the packer that may yet go out.                          *)
StrayInv ==
  /\ connected => stray = 0
  /\ ~connected => stray + (IF sender["packer"] = "waits" THEN 1 ELSE 0) <= 1

(* The questions RssiThread asks before it sleeps again.                   *)
Pending == IF rssi > 0 THEN rssi ELSE IF connected /\ ~known THEN RssiTries ELSE 0

Allowed == IF pc = "duty" /\ connected THEN RssiTries ELSE 2 * RssiTries

ChatterInv ==
  /\ ChatterBounded
  /\ mode = "data" => chatter + Pending <= Allowed

(* From its first silence to its last the thread is at the head of the     *)
(* queue.                                                                  *)
HolderInv == InEscape => cc_out # <<>> /\ Head(cc_out) = "modem"

(* What RssiThread has asked within the escape sequence, and may yet ask.  *)
EscapeInv ==
  /\ intruders = 0
  /\ InEscape => questions + rssi <= RssiTries
  /\ ~InEscape => questions = 0

(* Where the flag is set and where the thread waits.                       *)
FlagInv ==
  /\ connected => pc \in {"duty", "blank"}
  /\ pc = "duty" => connected \/ stop
  /\ pc = "init" => try >= 1

ModemInv ==
  TypeOK /\ FlagInv /\ QueueInv /\ HolderInv /\ StrayInv /\ ChatterInv /\ EscapeInv

-----------------------------------------------------------------------------
(* The stages. *)

LEMMA StageFacts ==
  /\ Len(Stages) = 13
  /\ \A a \in 1 .. 13 : Stages[a] = "start" => a = 13
  /\ \A a \in 1 .. 13 : Stages[a] \in ApnStages \cup {"rssi"} => a < 13
BY DEF Stages, ApnStages

(* What a try of _init_modem leaves: the thread goes on asking or gives    *)
(* up, or the last stage has connected it.                                 *)
Stays ==
  /\ pc' \in {"init", "pause", "ended"} /\ (pc' = "init" => try' >= 1)
  /\ stage' \in 1 .. Len(Stages) /\ try' \in Nat /\ silence' \in 0 .. Alive
  /\ UNCHANGED <<connected, stray>>

Connects ==
  /\ pc' = "duty" /\ silence' = Alive
  /\ UNCHANGED <<stage, try>>
  /\ connected' = TRUE /\ stray' = 0

LEMMA LeaveEffect ==
  ASSUME ModemAssumption, TypeOK, FlagInv, pc = "init", NEW success, Leave(success)
  PROVE  Stays \/ (Connects /\ success /\ stage = 13)
<1>0. stage \in 1 .. 13 /\ try \in Nat /\ try >= 1 /\ silence \in 0 .. Alive
  BY StageFacts DEF TypeOK, FlagInv
<1>1. CASE GivesUp
  <2>1. pc' \in {"pause", "ended"} /\ silence' \in 0 .. Alive
    BY <1>0, <1>1, ModemAssumption DEF GivesUp, FullWait, ModemAssumption
  <2> QED
    BY <1>0, <1>1, <2>1, StageFacts DEF GivesUp, Stays
<1>2. CASE success /\ Continue
  <2>1. CASE stage < 13
    <3>1. try' \in Nat /\ try' >= 1 /\ stage' \in 1 .. 13
      BY <1>0, <1>2, <2>1, StageFacts, ModemAssumption DEF Continue, ModemAssumption
    <3> QED
      BY <1>0, <1>2, <2>1, <3>1, StageFacts DEF Continue, Stays
  <2>2. CASE stage = 13
    BY <1>2, <2>2, StageFacts DEF Continue, EntersDuty, FullWait, Connects
  <2> QED
    BY <1>0, <2>1, <2>2
<1> QED
  BY <1>1, <1>2 DEF Leave

LEMMA AsksAgainEffect ==
  ASSUME ModemAssumption, TypeOK, FlagInv, pc = "init", try # 1, AsksAgain
  PROVE  Stays
BY DEF TypeOK, FlagInv, AsksAgain, Stays

LEMMA RetryLoopEffect ==
  ASSUME ModemAssumption, TypeOK, FlagInv, pc = "init", NEW good \in BOOLEAN, RetryLoop(good)
  PROVE  Stays \/ (Connects /\ good /\ stage = 13)
<1>1. CASE good \/ try = 1
  BY <1>1, LeaveEffect DEF RetryLoop
<1>2. CASE ~(good \/ try = 1)
  BY <1>2, AsksAgainEffect DEF RetryLoop
<1> QED
  BY <1>1, <1>2

(* Only an answer to the last command connects.                            *)
LEMMA AskingEffect ==
  ASSUME ModemAssumption, TypeOK, FlagInv, Asking
  PROVE  /\ pc = "init" /\ ~connected
         /\ UNCHANGED <<stop, settings, beat, port, rssi, escape>>
         /\ \/ Stays /\ known' \in BOOLEAN /\ UNCHANGED <<mode, chatter>>
            \/ Stays /\ mode' = "data" /\ chatter' = 0 /\ UNCHANGED known
            \/ Connects /\ mode' = "data" /\ chatter' = 0 /\ UNCHANGED known
<1>0. pc = "init" /\ ~connected /\ UNCHANGED <<stop, settings, beat, port, rssi, escape>>
  BY DEF Asking, FlagInv
<1>00. stage \in 1 .. 13 /\ known \in BOOLEAN
  BY StageFacts DEF TypeOK
<1>1. ASSUME NEW good \in BOOLEAN, RetryLoop(good), UNCHANGED <<known, mode, chatter>>,
             Stages[stage] # "start"
      PROVE  Stays
  <2>1. stage # 13
    BY <1>1 DEF Stages
  <2> QED
    BY <1>0, <1>1, <2>1, RetryLoopEffect
<1>2. ASSUME WaitSim, UNCHANGED <<known, mode, chatter>>
      PROVE  Stays
  <2>1. Stages[stage] # "start"
    BY <1>2 DEF WaitSim, In
  <2>2. CASE Leave(FALSE)
    BY <1>0, <2>2, LeaveEffect
  <2> QED
    BY <1>1, <1>2, <2>1, <2>2 DEF WaitSim
<1>3. ASSUME SetApn, UNCHANGED <<known, mode, chatter>>
      PROVE  Stays
  <2>1. stage # 13
    BY <1>00, <1>3, StageFacts DEF SetApn
  <2>2. PICK good \in BOOLEAN : ApnLoop(good)
    BY <1>3 DEF SetApn
  <2>3. CASE good \/ try = 1
    BY <1>0, <2>1, <2>2, <2>3, LeaveEffect DEF ApnLoop
  <2>4. CASE ~(good \/ try = 1)
    BY <1>0, <2>2, <2>4, AsksAgainEffect DEF ApnLoop
  <2> QED
    BY <2>3, <2>4
<1>4. ASSUME NEW answer \in {"good", "zero", "none"}, FirstRssi(answer)
      PROVE  Stays /\ known' \in BOOLEAN
  <2>1. stage # 13
    BY <1>00, <1>4, StageFacts DEF FirstRssi, In
  <2>2. RssiStage(answer) /\ known' = Learns(answer, try = 1)
    BY <1>4 DEF FirstRssi
  <2>3. known' \in BOOLEAN
    BY <1>00, <2>2, Zenon DEF Learns
  <2>4. CASE known \/ answer # "none" \/ try = 1
    BY <1>0, <2>1, <2>2, <2>3, <2>4, LeaveEffect DEF RssiStage
  <2>5. CASE ~(known \/ answer # "none" \/ try = 1)
    BY <1>0, <2>2, <2>3, <2>5, AsksAgainEffect DEF RssiStage
  <2> QED
    BY <2>4, <2>5
<1>5. ASSUME NEW good \in BOOLEAN, StartConnection(good), UNCHANGED known
      PROVE  \/ Stays /\ UNCHANGED <<known, mode, chatter>>
             \/ Stays /\ mode' = "data" /\ chatter' = 0 /\ UNCHANGED known
             \/ Connects /\ mode' = "data" /\ chatter' = 0 /\ UNCHANGED known
  <2>1. Stays \/ (Connects /\ good)
    BY <1>0, <1>5, RetryLoopEffect DEF StartConnection
  <2> QED
    BY <1>5, <2>1 DEF StartConnection
<1>6. ASSUME WaitPoweron \/ WaitCgreg \/ StartWopen \/ StartWipcfg \/ LoadBearer
               \/ StartBearer \/ CreateConnection,
             UNCHANGED <<known, mode, chatter>>
      PROVE  Stays
  <2>1. Stages[stage] # "start" /\ \E good \in BOOLEAN : RetryLoop(good)
    BY <1>6 DEF WaitPoweron, WaitCgreg, StartWopen, StartWipcfg, LoadBearer, StartBearer,
                CreateConnection, In
  <2> QED
    BY <1>1, <1>6, <2>1
<1>7. \/ Stays /\ known' \in BOOLEAN /\ UNCHANGED <<mode, chatter>>
      \/ Stays /\ mode' = "data" /\ chatter' = 0 /\ UNCHANGED known
      \/ Connects /\ mode' = "data" /\ chatter' = 0 /\ UNCHANGED known
  BY <1>00, <1>2, <1>3, <1>4, <1>5, <1>6 DEF Asking
<1> QED
  BY <1>0, <1>7

-----------------------------------------------------------------------------
(* The queue of cc_out. *)

LEMMA QueueKept ==
  ASSUME QueueInv, UNCHANGED cc_out, UNCHANGED Wanting
  PROVE  QueueInv'
BY DEF QueueInv

LEMMA QueueLonger ==
  ASSUME QueueInv, cc_out \in Seq(Threads), NEW x \in Threads, x \notin Wanting,
         cc_out' = Append(cc_out, x), Wanting' = Wanting \cup {x}
  PROVE  /\ QueueInv' /\ cc_out' \in Seq(Threads)
         /\ cc_out # <<>> => cc_out' # <<>> /\ Head(cc_out') = Head(cc_out)
<1> DEFINE n == Len(cc_out)
<1>1. n \in Nat /\ \A a \in 1 .. n : cc_out[a] \in Threads /\ cc_out[a] # x
  BY DEF QueueInv
<1>2. /\ cc_out' \in Seq(Threads) /\ Len(cc_out') = n + 1
      /\ \A a \in 1 .. n : cc_out'[a] = cc_out[a]
      /\ cc_out'[n + 1] = x
  OBVIOUS
<1>3. \A a, b \in 1 .. n + 1 : cc_out'[a] = cc_out'[b] => a = b
  BY <1>1, <1>2 DEF QueueInv
<1>4. \A a \in 1 .. n + 1 : cc_out'[a] \in Wanting'
  BY <1>1, <1>2 DEF QueueInv
<1>5. \A y \in Wanting' : \E a \in 1 .. n + 1 : cc_out'[a] = y
  BY <1>1, <1>2 DEF QueueInv
<1>6. cc_out # <<>> => cc_out' # <<>> /\ Head(cc_out') = Head(cc_out)
  OBVIOUS
<1> QED
  BY <1>2, <1>3, <1>4, <1>5, <1>6 DEF QueueInv

LEMMA QueueShorter ==
  ASSUME QueueInv, cc_out \in Seq(Threads), NEW x \in Wanting, Head(cc_out) = x,
         cc_out' = Tail(cc_out), Wanting' = Wanting \ {x}
  PROVE  QueueInv' /\ cc_out' \in Seq(Threads)
<1> DEFINE n == Len(cc_out)
<1>1. n \in Nat /\ n > 0
  BY DEF QueueInv
<1>2. cc_out # <<>> /\ cc_out[1] = x
  BY <1>1
<1>3. /\ cc_out' \in Seq(Threads) /\ Len(cc_out') = n - 1
      /\ \A a \in 1 .. n - 1 : cc_out'[a] = cc_out[a + 1]
  BY <1>1, <1>2
<1>4. \A a, b \in 1 .. n - 1 : cc_out'[a] = cc_out'[b] => a = b
  <2> SUFFICES ASSUME NEW a \in 1 .. n - 1, NEW b \in 1 .. n - 1, cc_out'[a] = cc_out'[b]
               PROVE  a = b
    OBVIOUS
  <2>1. a + 1 \in 1 .. n /\ b + 1 \in 1 .. n /\ cc_out[a + 1] = cc_out[b + 1]
    BY <1>1, <1>3
  <2>2. a + 1 = b + 1
    BY <2>1 DEF QueueInv
  <2> QED
    BY <2>2
<1>5. \A a \in 1 .. n - 1 : cc_out'[a] \in Wanting'
  <2> SUFFICES ASSUME NEW a \in 1 .. n - 1 PROVE cc_out'[a] \in Wanting'
    OBVIOUS
  <2>1. a + 1 \in 1 .. n /\ a + 1 # 1 /\ 1 \in 1 .. n
    BY <1>1
  <2>2. cc_out[a + 1] \in Wanting /\ cc_out[a + 1] # x
    BY <1>2, <2>1 DEF QueueInv
  <2> QED
    BY <1>3, <2>2
<1>6. \A y \in Wanting' : \E a \in 1 .. n - 1 : cc_out'[a] = y
  <2> SUFFICES ASSUME NEW y \in Wanting' PROVE \E a \in 1 .. n - 1 : cc_out'[a] = y
    OBVIOUS
  <2>1. PICK b \in 1 .. n : cc_out[b] = y
    BY DEF QueueInv
  <2>2. b # 1
    BY <1>2, <2>1
  <2>3. b - 1 \in 1 .. n - 1 /\ (b - 1) + 1 = b
    BY <1>1, <2>1, <2>2
  <2> QED
    BY <1>3, <2>1, <2>3
<1> QED
  BY <1>3, <1>4, <1>5, <1>6 DEF QueueInv

-----------------------------------------------------------------------------
(* The invariant. *)

(* Who wants the port finds somebody in the queue.                         *)
LEMMA QueueNotEmpty ==
  ASSUME QueueInv, cc_out \in Seq(Threads), Wanting # {}
  PROVE  cc_out # <<>>
BY DEF QueueInv

(* What neither asks nor enters or leaves the escape sequence keeps what   *)
(* was counted there.                                                      *)
LEMMA EscapeKept ==
  ASSUME EscapeInv, UNCHANGED <<rssi, escape>>, ~InEscape, ~InEscape'
  PROVE  EscapeInv'
BY DEF EscapeInv, escape

LEMMA InvInit == ModemAssumption /\ Init => ModemInv
<1> SUFFICES ASSUME ModemAssumption, Init PROVE ModemInv
  OBVIOUS
<1> USE DEF Init
<1>1. TypeOK
  <2>1. stage \in 1 .. Len(Stages) /\ try \in Nat /\ silence \in 0 .. Alive
        /\ rssi \in 0 .. RssiTries /\ stray \in Nat /\ chatter \in Nat
        /\ intruders \in Nat /\ questions \in Nat
    BY StageFacts DEF ModemAssumption
  <2>2. cc_out \in Seq(Senders \cup {"modem"}) /\ sender \in [Senders -> {"idle", "waits"}]
    OBVIOUS
  <2> QED
    BY <2>1, <2>2 DEF TypeOK
<1>2. FlagInv /\ HolderInv
  BY DEF FlagInv, HolderInv, InEscape
<1>3. QueueInv
  BY DEF QueueInv, Wanting
<1>4. StrayInv
  BY DEF StrayInv, Senders
<1>5. ChatterInv
  BY DEF ChatterInv, ChatterBounded, ModemAssumption
<1>6. EscapeInv
  BY DEF EscapeInv, InEscape
<1> QED
  BY <1>1, <1>2, <1>3, <1>4, <1>5, <1>6 DEF ModemInv

(* A try of _init_modem. *)
LEMMA AskingStep == ModemAssumption /\ ModemInv /\ Asking => ModemInv'
<1> SUFFICES ASSUME ModemAssumption, ModemInv, Asking PROVE ModemInv'
  OBVIOUS
<1>0. /\ pc = "init" /\ ~connected /\ UNCHANGED <<stop, settings, beat, port, rssi, escape>>
      /\ TypeOK /\ FlagInv /\ QueueInv /\ StrayInv /\ ChatterInv /\ EscapeInv
  BY AskingEffect DEF ModemInv
<1>1. \/ Stays /\ known' \in BOOLEAN /\ UNCHANGED <<mode, chatter>>
      \/ Stays /\ mode' = "data" /\ chatter' = 0 /\ UNCHANGED known
      \/ Connects /\ mode' = "data" /\ chatter' = 0 /\ UNCHANGED known
  BY AskingEffect DEF ModemInv
<1>2. TypeOK'
  <2>1. /\ pc' \in {"init", "pause", "ended", "duty"}
        /\ stage' \in 1 .. Len(Stages) /\ try' \in Nat /\ silence' \in 0 .. Alive
        /\ stray' \in Nat /\ chatter' \in Nat /\ mode' \in {"command", "data"}
    BY <1>0, <1>1, ModemAssumption DEF Stays, Connects, TypeOK, ModemAssumption
  <2>2. connected' \in BOOLEAN /\ known' \in BOOLEAN
    BY <1>0, <1>1, Zenon DEF Stays, Connects, TypeOK
  <2> QED
    BY <1>0, <2>1, <2>2 DEF TypeOK, port, escape
<1>3. FlagInv'
  BY <1>0, <1>1 DEF FlagInv, Stays, Connects
<1>4. QueueInv' /\ HolderInv'
  <2>1. UNCHANGED cc_out /\ UNCHANGED Wanting
    BY <1>0, <1>1 DEF Stays, Connects, Wanting, port
  <2> QED
    BY <1>0, <1>1, <2>1, QueueKept DEF HolderInv, InEscape, Stays, Connects
<1>5. StrayInv'
  BY <1>0, <1>1 DEF StrayInv, Stays, Connects, port
<1>6. ChatterInv'
  <2>1. rssi \in 0 .. RssiTries /\ RssiTries \in Nat /\ chatter \in Nat /\ RssiTries > 0
    BY <1>0 DEF TypeOK, ModemAssumption
  <2>2. CASE Stays /\ UNCHANGED <<mode, chatter>>
    BY <1>0, <2>1, <2>2 DEF Stays, ChatterInv, ChatterBounded, Pending, Allowed
  <2>3. CASE mode' = "data" /\ chatter' = 0
    BY <1>0, <2>1, <2>3 DEF ChatterInv, ChatterBounded, Pending, Allowed
  <2> QED
    BY <1>1, <2>2, <2>3
<1>7. EscapeInv'
  BY <1>0, <1>1, EscapeKept DEF InEscape, Stays, Connects
<1> QED
  BY <1>2, <1>3, <1>4, <1>5, <1>6, <1>7 DEF ModemInv

(* The head of the loop, and the first letter of the modem.                *)
LEMMA TopStep == ModemAssumption /\ ModemInv /\ (Top \/ FirstLetter) => ModemInv'
<1> SUFFICES ASSUME ModemAssumption, ModemInv, Top \/ FirstLetter PROVE ModemInv'
  OBVIOUS
<1>0. TypeOK /\ FlagInv /\ QueueInv /\ StrayInv /\ ChatterInv /\ EscapeInv
  BY DEF ModemInv
<1>1. /\ pc \in {"top", "reset"} /\ ~connected
      /\ UNCHANGED <<stop, settings, flags, beat, port, rssi, history>>
      /\ mode' \in {mode, "command"}
  BY <1>0 DEF Top, FirstLetter, FlagInv
<1>2. /\ pc' \in {"duty", "ended", "reset", "init"}
      /\ pc' = "duty" => stop
      /\ pc' = "init" => try' >= 1
      /\ stage' \in 1 .. Len(Stages) /\ try' \in Nat /\ silence' \in 0 .. Alive
  BY <1>0, <1>1, StageFacts DEF Top, FirstLetter, EntersDuty, EndsThread, ShouldTerminate,
     FullWait, TypeOK, ModemAssumption
<1>3. TypeOK'
  BY <1>0, <1>1, <1>2 DEF TypeOK, flags, port, history, escape
<1>4. FlagInv'
  BY <1>1, <1>2 DEF FlagInv, flags
<1>5. QueueInv' /\ HolderInv'
  <2>1. UNCHANGED cc_out /\ UNCHANGED Wanting
    BY <1>1, <1>2 DEF Wanting, port
  <2> QED
    BY <1>0, <1>2, <2>1, QueueKept DEF HolderInv, InEscape
<1>6. StrayInv' /\ ChatterInv'
  BY <1>0, <1>1 DEF StrayInv, ChatterInv, ChatterBounded, Pending, Allowed, flags, port,
     history
<1>7. EscapeInv'
  BY <1>0, <1>1, <1>2, EscapeKept DEF InEscape, history
<1> QED
  BY <1>3, <1>4, <1>5, <1>6, <1>7 DEF ModemInv

(* The wait between two attempts. *)
LEMMA PauseStep == ModemAssumption /\ ModemInv /\ Pause => ModemInv'
<1> SUFFICES ASSUME ModemAssumption, ModemInv, Pause PROVE ModemInv'
  OBVIOUS
<1>0. TypeOK /\ FlagInv /\ QueueInv /\ StrayInv /\ ChatterInv /\ EscapeInv /\ cc_out \in Seq(Threads)
  BY DEF ModemInv, TypeOK, Threads
<1>1. /\ pc = "pause" /\ ~connected
      /\ UNCHANGED <<stop, settings, flags, mode, beat, sender, rssi, history>>
  BY <1>0 DEF Pause, FlagInv
<1>2. /\ pc' \in {"duty", "pause", "acquire"} /\ (pc' = "duty" => stop)
      /\ stage' \in 1 .. Len(Stages) /\ try' \in Nat /\ silence' \in 0 .. Alive
  BY <1>0, <1>1 DEF Pause, EntersDuty, ShouldTerminate, FullWait, SecondLess, TypeOK,
     ModemAssumption
<1>3. QueueInv' /\ cc_out' \in Seq(Threads)
  <2>1. CASE pc' = "acquire"
    <3>1. "modem" \notin Wanting /\ Wanting' = Wanting \cup {"modem"} /\ "modem" \in Threads
          /\ cc_out' = Append(cc_out, "modem")
      BY <1>1, <2>1 DEF Wanting, Threads, Senders, Pause, EntersDuty
    <3> QED
      BY <1>0, <3>1, QueueLonger
  <2>2. CASE pc' # "acquire"
    <3>1. UNCHANGED cc_out /\ UNCHANGED Wanting
      BY <1>1, <1>2, <2>2 DEF Wanting, Pause
    <3> QED
      BY <1>0, <3>1, QueueKept
  <2> QED
    BY <2>1, <2>2
<1>4. TypeOK'
  BY <1>0, <1>1, <1>2, <1>3 DEF TypeOK, flags, history, escape, Threads
<1>5. FlagInv' /\ HolderInv'
  BY <1>1, <1>2 DEF FlagInv, HolderInv, InEscape, flags
<1>6. StrayInv' /\ ChatterInv'
  BY <1>0, <1>1 DEF StrayInv, ChatterInv, ChatterBounded, Pending, Allowed, flags, history
<1>7. EscapeInv'
  BY <1>0, <1>1, <1>2, EscapeKept DEF InEscape, history
<1> QED
  BY <1>0, <1>3, <1>4, <1>5, <1>6, <1>7 DEF ModemInv

(* The silence, "+++" and the silence. *)
LEMMA PlusStep == ModemAssumption /\ ModemInv /\ Plus => ModemInv'
<1> SUFFICES ASSUME ModemAssumption, ModemInv, Plus PROVE ModemInv'
  OBVIOUS
<1>0. TypeOK /\ FlagInv /\ QueueInv /\ HolderInv /\ StrayInv /\ ChatterInv /\ EscapeInv
      /\ cc_out \in Seq(Threads)
  BY DEF ModemInv, TypeOK, Threads
<1>1. /\ pc \in {"acquire", "guard", "plus"} /\ pc' \in {"guard", "plus", "top"} /\ ~connected
      /\ mode' \in {mode, "command"}
      /\ UNCHANGED <<stage, try, silence, stop, settings, flags, beat, sender, rssi, stray, chatter>>
  BY <1>0 DEF Plus, FlagInv
<1>2. QueueInv' /\ cc_out' \in Seq(Threads) /\ HolderInv'
  <2>0. "modem" \in Wanting /\ cc_out # <<>>
    BY <1>0, <1>1, QueueNotEmpty DEF Wanting
  <2>1. CASE pc = "plus"
    <3>1. Wanting' = Wanting \ {"modem"} /\ Head(cc_out) = "modem" /\ cc_out' = Tail(cc_out)
      BY <1>0, <1>1, <2>1 DEF Wanting, Senders, Plus, HolderInv, InEscape
    <3> QED
      BY <1>0, <2>0, <2>1, <3>1, QueueShorter DEF HolderInv, InEscape, Plus
  <2>2. CASE pc # "plus"
    <3>1. UNCHANGED cc_out /\ UNCHANGED Wanting /\ Head(cc_out) = "modem"
      BY <1>0, <1>1, <2>2 DEF Wanting, Plus, HasPort, HolderInv, InEscape
    <3> QED
        BY <1>0, <2>0, <3>1, QueueKept DEF HolderInv
  <2> QED
    BY <2>1, <2>2
<1>3. intruders' = 0 /\ (InEscape' => questions' + rssi' <= RssiTries)
      /\ (~InEscape' => questions' = 0) /\ questions' \in Nat
  <2>1. rssi' = rssi /\ rssi \in 0 .. RssiTries /\ questions \in Nat /\ RssiTries \in Nat
    BY <1>0, <1>1 DEF TypeOK, ModemAssumption
  <2>2. CASE pc = "acquire"
    <3>1. intruders' = 0 /\ questions' = 0
      BY <1>0, <2>2 DEF Plus, EscapeInv, InEscape, escape
    <3> QED
      BY <2>1, <3>1
  <2>3. CASE pc = "guard"
    <3>1. intruders' = 0 /\ questions' = questions /\ questions + rssi <= RssiTries /\ InEscape'
      BY <1>0, <2>3 DEF Plus, EscapeInv, InEscape, escape
    <3> QED
      BY <2>1, <3>1
  <2>4. CASE pc = "plus"
    <3>1. intruders' = 0 /\ questions' = 0
      BY <2>4 DEF Plus
    <3> QED
      BY <2>1, <3>1
  <2> QED
    BY <1>1, <2>2, <2>3, <2>4
<1>6. TypeOK'
  BY <1>0, <1>1, <1>2, <1>3 DEF TypeOK, flags, Threads
<1>4. FlagInv'
  BY <1>0, <1>1 DEF FlagInv, flags
<1>5. StrayInv' /\ ChatterInv'
  BY <1>0, <1>1 DEF StrayInv, ChatterInv, ChatterBounded, Pending, Allowed, flags
<1>7. EscapeInv'
  BY <1>3 DEF EscapeInv
<1> QED
  BY <1>2, <1>6, <1>4, <1>5, <1>7 DEF ModemInv

(* A turn of the duty cycle: giving up lets RssiThread ask again, and that *)
(* is why a connection may be disturbed twice as often as an answer costs. *)
LEMMA DutyStep == ModemAssumption /\ ModemInv /\ Duty => ModemInv'
<1> SUFFICES ASSUME ModemAssumption, ModemInv, Duty PROVE ModemInv'
  OBVIOUS
<1>0. TypeOK /\ FlagInv /\ QueueInv /\ StrayInv /\ ChatterInv /\ EscapeInv
  BY DEF ModemInv
<1>1. /\ pc = "duty" /\ UNCHANGED <<stop, settings, mode, port, rssi, history>>
      /\ UNCHANGED <<stage, try>>
  BY DEF Duty, EndsThread
<1>2. pc' \in {"duty", "ended", "blank"} /\ silence' \in 0 .. Alive
  BY <1>0, <1>1, ModemAssumption DEF Duty, EndsThread, SecondLess, FullWait, TypeOK,
     ModemAssumption
<1>3. connected' \in BOOLEAN /\ known' \in BOOLEAN /\ beat' \in BOOLEAN
  BY <1>0, Zenon DEF Duty, flags, TypeOK
<1>4. TypeOK'
  BY <1>0, <1>1, <1>2, <1>3 DEF TypeOK, port, history, escape
<1>5. FlagInv'
  BY <1>0, <1>1 DEF FlagInv, Duty, EndsThread, ShouldTerminate, flags
<1>6. QueueInv' /\ HolderInv'
  <2>1. UNCHANGED cc_out /\ UNCHANGED Wanting
    BY <1>1, <1>2 DEF Wanting, port
  <2> QED
    BY <1>0, <1>2, <2>1, QueueKept DEF HolderInv, InEscape
<1>7. StrayInv'
  BY <1>0, <1>1 DEF StrayInv, Duty, flags, port, history
<1>8. ChatterInv'
  <2>0. rssi \in 0 .. RssiTries /\ chatter \in Nat /\ RssiTries \in Nat \ {0}
    BY <1>0 DEF TypeOK, ModemAssumption
  <2>1. CASE pc' = "blank"
    <3>1. connected /\ UNCHANGED connected
      BY <1>0, <1>1, <2>1 DEF FlagInv, Duty, EndsThread, ShouldTerminate, flags
    <3> QED
      BY <1>0, <1>1, <2>0, <2>1, <3>1
         DEF ChatterInv, ChatterBounded, Pending, Allowed, history
  <2>2. CASE pc' = "ended"
    <3>1. ~connected' /\ UNCHANGED known
      BY <1>1, <2>2 DEF Duty, EndsThread, flags
    <3> QED
      BY <1>0, <1>1, <2>0, <2>2, <3>1
         DEF ChatterInv, ChatterBounded, Pending, Allowed, history
  <2>3. CASE pc' = "duty"
    <3>1. UNCHANGED flags
      BY <1>1, <2>3 DEF Duty, EndsThread
    <3> QED
      BY <1>0, <1>1, <2>0, <2>3, <3>1
         DEF ChatterInv, ChatterBounded, Pending, Allowed, history, flags
  <2> QED
    BY <1>2, <2>1, <2>2, <2>3
<1>9. EscapeInv'
  BY <1>0, <1>1, <1>2, EscapeKept DEF InEscape, history
<1> QED
  BY <1>4, <1>5, <1>6, <1>7, <1>8, <1>9 DEF ModemInv

(* The flag falls: the message the packer waits with becomes stray.        *)
LEMMA DisconnectStep == ModemAssumption /\ ModemInv /\ Disconnect => ModemInv'
<1> SUFFICES ASSUME ModemAssumption, ModemInv, Disconnect PROVE ModemInv'
  OBVIOUS
<1>0. TypeOK /\ FlagInv /\ QueueInv /\ StrayInv /\ ChatterInv /\ EscapeInv /\ cc_out \in Seq(Threads)
  BY DEF ModemInv, TypeOK, Threads
<1>1. /\ pc = "blank" /\ pc' = "acquire" /\ connected' = FALSE
      /\ cc_out' = Append(cc_out, "modem")
      /\ UNCHANGED <<stage, try, silence, stop, settings, known, mode, beat, sender, rssi, history>>
  BY DEF Disconnect, FlagCleared
<1>2. QueueInv' /\ cc_out' \in Seq(Threads)
  <2>1. "modem" \notin Wanting /\ Wanting' = Wanting \cup {"modem"} /\ "modem" \in Threads
    BY <1>1 DEF Wanting, Threads, Senders
  <2> QED
    BY <1>0, <1>1, <2>1, QueueLonger
<1>3. TypeOK'
  BY <1>0, <1>1, <1>2 DEF TypeOK, Threads, history, escape
<1>4. FlagInv' /\ HolderInv'
  BY <1>1 DEF FlagInv, HolderInv, InEscape
<1>5. StrayInv'
  BY <1>0, <1>1 DEF StrayInv, history, TypeOK
<1>6. ChatterInv'
  <2>0. rssi \in 0 .. RssiTries /\ chatter \in Nat /\ RssiTries \in Nat \ {0}
    BY <1>0 DEF TypeOK, ModemAssumption
  <2> QED
    BY <1>0, <1>1, <2>0 DEF ChatterInv, ChatterBounded, Pending, Allowed, history
<1>7. EscapeInv'
  BY <1>0, <1>1, EscapeKept DEF InEscape, history
<1> QED
  BY <1>2, <1>3, <1>4, <1>5, <1>6, <1>7 DEF ModemInv

(* RssiThread: a question costs one of those that were pending.            *)
LEMMA RssiStep == ModemAssumption /\ ModemInv /\ (RssiWakes \/ RssiAsks) => ModemInv'
<1> SUFFICES ASSUME ModemAssumption, ModemInv, RssiWakes \/ RssiAsks PROVE ModemInv'
  OBVIOUS
<1>0. TypeOK /\ FlagInv /\ QueueInv /\ HolderInv /\ StrayInv /\ ChatterInv /\ EscapeInv
  BY DEF ModemInv
<1>00. rssi \in 0 .. RssiTries /\ chatter \in Nat /\ RssiTries \in Nat \ {0}
  BY <1>0 DEF TypeOK, ModemAssumption
<1>1. UNCHANGED <<dialogue, stop, settings, connected, mode, beat, port, stray>>
  BY DEF RssiWakes, RssiAsks, flags, history
<1>2. rssi' \in 0 .. RssiTries /\ chatter' \in Nat
  BY <1>00 DEF RssiWakes, RssiAsks, CountUpTo, history
<1>3. known' \in BOOLEAN
  BY <1>0, Zenon DEF RssiWakes, RssiAsks, Learns, flags, TypeOK
<1>8. intruders' = 0 /\ questions' \in Nat /\ EscapeInv'
  <2>0. questions \in Nat /\ RssiTries \in Nat /\ UNCHANGED InEscape
    BY <1>0, <1>1 DEF TypeOK, ModemAssumption, InEscape, dialogue
  <2>1. intruders' = 0
    BY <1>0 DEF EscapeInv, RssiWakes, RssiAsks, history, escape
  <2>2. CASE RssiWakes
    <3>1. ~InEscape /\ questions' = questions
      BY <1>0, <2>2 DEF RssiWakes, FlagInv, InEscape, history, escape
    <3> QED
      BY <1>0, <2>0, <2>1, <3>1 DEF EscapeInv
  <2>3. CASE RssiAsks /\ InEscape
    <3>1. questions + rssi <= RssiTries /\ rssi > 0 /\ rssi' <= rssi - 1
          /\ questions' = CountUpTo(questions, RssiTries + 1)
      BY <1>0, <1>00, <2>3 DEF RssiAsks, EscapeInv
    <3>2. questions' = questions + 1
      BY <1>00, <2>0, <3>1 DEF CountUpTo
    <3>3. questions' \in Nat /\ questions' + rssi' <= RssiTries
      BY <1>00, <1>2, <2>0, <3>1, <3>2
    <3> QED
      BY <2>0, <2>1, <2>3, <3>3 DEF EscapeInv
  <2>4. CASE RssiAsks /\ ~InEscape
    BY <1>0, <2>0, <2>1, <2>4 DEF RssiAsks, EscapeInv
  <2> QED
    BY <2>1, <2>2, <2>3, <2>4
<1>4. TypeOK'
  BY <1>0, <1>1, <1>2, <1>3, <1>8 DEF TypeOK, dialogue, port
<1>5. FlagInv' /\ HolderInv' /\ StrayInv'
  BY <1>0, <1>1 DEF FlagInv, HolderInv, InEscape, StrayInv, dialogue, port
<1>6. QueueInv'
  <2>1. UNCHANGED cc_out /\ UNCHANGED Wanting
    BY <1>1 DEF Wanting, port, dialogue
  <2> QED
    BY <1>0, <2>1, QueueKept
<1>7. ChatterInv'
  <2>1. CASE RssiWakes
    BY <1>0, <1>00, <2>1
       DEF RssiWakes, ChatterInv, ChatterBounded, Pending, Allowed, history, flags, dialogue
  <2>2. CASE RssiAsks /\ mode = "data"
    <3>1. rssi > 0 /\ rssi' = rssi - 1 /\ (rssi = 1 => known')
          /\ chatter' = CountUpTo(chatter, 2 * RssiTries + 1)
      BY <2>2 DEF RssiAsks, Learns
    <3>2. chatter + rssi <= Allowed
      BY <1>0, <2>2, <3>1 DEF ChatterInv, Pending
    <3>3. Allowed' = Allowed /\ Allowed <= 2 * RssiTries
      BY <1>00, <1>1 DEF Allowed, dialogue
    <3>4. chatter' = chatter + 1
      BY <1>00, <3>1, <3>2, <3>3 DEF CountUpTo, Allowed
    <3>5. Pending' = rssi - 1
      BY <1>00, <3>1 DEF Pending
    <3> QED
      BY <1>00, <3>1, <3>2, <3>3, <3>4, <3>5 DEF ChatterInv, ChatterBounded, Allowed
  <2>3. CASE RssiAsks /\ mode # "data"
    BY <1>0, <1>1, <2>3 DEF RssiAsks, ChatterInv, ChatterBounded
  <2> QED
    BY <2>1, <2>2, <2>3
<1> QED
  BY <1>0, <1>4, <1>5, <1>6, <1>7, <1>8 DEF ModemInv

(* A sender queues for the port, and writes. *)
LEMMA WantsStep ==
  ModemAssumption /\ ModemInv /\ (\E s \in Senders : WantsPort(s)) => ModemInv'
<1> SUFFICES ASSUME ModemAssumption, ModemInv, NEW s \in Senders, WantsPort(s) PROVE ModemInv'
  OBVIOUS
<1>0. TypeOK /\ FlagInv /\ QueueInv /\ HolderInv /\ StrayInv /\ ChatterInv /\ EscapeInv
      /\ cc_out \in Seq(Threads)
  BY DEF ModemInv, TypeOK, Threads
<1>1. /\ sender[s] = "idle" /\ (s = "packer" => connected)
      /\ sender' = [sender EXCEPT ![s] = "waits"] /\ cc_out' = Append(cc_out, s)
      /\ UNCHANGED <<dialogue, stop, settings, flags, mode, beat, rssi, history>>
  BY DEF WantsPort, PortReady
<1>2. /\ QueueInv' /\ cc_out' \in Seq(Threads)
      /\ cc_out # <<>> => cc_out' # <<>> /\ Head(cc_out') = Head(cc_out)
  <2>1. s \notin Wanting /\ s \in Threads
    BY <1>1 DEF Wanting, Threads, Senders
  <2>2. Wanting' = Wanting \cup {s}
    BY <1>0, <1>1 DEF Wanting, Senders, dialogue, TypeOK
  <2> QED
    BY <1>0, <1>1, <2>1, <2>2, QueueLonger
<1>3. TypeOK'
  <2>1. sender' \in [Senders -> {"idle", "waits"}]
    BY <1>0, <1>1 DEF TypeOK
  <2> QED
    BY <1>0, <1>1, <1>2, <2>1 DEF TypeOK, Threads, dialogue, flags, history, escape
<1>4. FlagInv' /\ HolderInv'
  BY <1>0, <1>1, <1>2 DEF FlagInv, HolderInv, InEscape, dialogue, flags
<1>5. StrayInv'
  BY <1>0, <1>1 DEF StrayInv, TypeOK, Senders, flags, history
<1>6. ChatterInv'
  BY <1>0, <1>1 DEF ChatterInv, ChatterBounded, Pending, Allowed, dialogue, flags, history
<1>7. EscapeInv'
  BY <1>0, <1>1 DEF EscapeInv, InEscape, dialogue, history, escape
<1> QED
  BY <1>2, <1>3, <1>4, <1>5, <1>6, <1>7 DEF ModemInv

LEMMA WritesStep ==
  ModemAssumption /\ ModemInv /\ (\E s \in Senders : Writes(s)) => ModemInv'
<1> SUFFICES ASSUME ModemAssumption, ModemInv, NEW s \in Senders, Writes(s) PROVE ModemInv'
  OBVIOUS
<1>0. TypeOK /\ FlagInv /\ QueueInv /\ HolderInv /\ StrayInv /\ ChatterInv /\ EscapeInv
      /\ cc_out \in Seq(Threads)
  BY DEF ModemInv, TypeOK, Threads
<1>1. /\ sender[s] = "waits" /\ Head(cc_out) = s
      /\ sender' = [sender EXCEPT ![s] = "idle"] /\ cc_out' = Tail(cc_out)
      /\ stray' = IF s = "packer" /\ ~connected THEN CountUpTo(stray, 2) ELSE stray
      /\ intruders' = IF InEscape THEN CountUpTo(intruders, 1) ELSE intruders
      /\ UNCHANGED <<dialogue, stop, settings, flags, mode, beat, rssi, chatter, questions>>
  BY DEF Writes
<1>2. QueueInv' /\ cc_out' \in Seq(Threads) /\ HolderInv'
  <2>1. s \in Wanting
    BY <1>1 DEF Wanting
  <2>2. Wanting' = Wanting \ {s}
    BY <1>0, <1>1 DEF Wanting, Senders, dialogue, TypeOK
  <2>3. ~InEscape /\ ~InEscape'
    BY <1>0, <1>1 DEF HolderInv, InEscape, Senders, dialogue
  <2> QED
    BY <1>0, <1>1, <2>1, <2>2, <2>3, QueueShorter DEF HolderInv
<1>8. intruders' = intruders /\ questions' = questions /\ rssi' = rssi /\ UNCHANGED InEscape
  <2>1. ~InEscape
    BY <1>0, <1>1 DEF HolderInv, InEscape, Senders
  <2> QED
    BY <1>1, <2>1 DEF InEscape, dialogue
<1>3. stray' \in Nat
  BY <1>0, <1>1 DEF CountUpTo, TypeOK
<1>4. TypeOK'
  <2>1. sender' \in [Senders -> {"idle", "waits"}]
    BY <1>0, <1>1 DEF TypeOK
  <2> QED
    BY <1>0, <1>1, <1>2, <1>3, <1>8, <2>1 DEF TypeOK, Threads, dialogue, flags
<1>5. FlagInv'
  BY <1>0, <1>1 DEF FlagInv, dialogue, flags
<1>6. StrayInv'
  BY <1>0, <1>1 DEF StrayInv, TypeOK, Senders, flags, CountUpTo
<1>7. ChatterInv'
  BY <1>0, <1>1 DEF ChatterInv, ChatterBounded, Pending, Allowed, dialogue, flags
<1>9. EscapeInv'
  BY <1>0, <1>8 DEF EscapeInv
<1> QED
  BY <1>2, <1>4, <1>5, <1>6, <1>7, <1>9 DEF ModemInv

(* The centre, the network and the shell. *)
LEMMA WorldStep ==
  ModemAssumption /\ ModemInv /\ (Heartbeat \/ Drops \/ EditSettings \/ Terminate) => ModemInv'
<1> SUFFICES ASSUME ModemAssumption, ModemInv, Heartbeat \/ Drops \/ EditSettings \/ Terminate
             PROVE  ModemInv'
  OBVIOUS
<1>0. TypeOK /\ FlagInv /\ QueueInv /\ HolderInv /\ StrayInv /\ ChatterInv /\ EscapeInv
  BY DEF ModemInv
<1>1. UNCHANGED <<dialogue, flags, port, rssi, history>> /\ mode' \in {mode, "command"}
      /\ (stop => stop')
  BY DEF Heartbeat, Drops, EditSettings, Terminate
<1>2. stop' \in BOOLEAN /\ settings' \in BOOLEAN /\ beat' \in BOOLEAN
  BY <1>0, Zenon DEF Heartbeat, Drops, EditSettings, Terminate, TypeOK
<1>3. TypeOK'
  BY <1>0, <1>1, <1>2 DEF TypeOK, dialogue, flags, port, history, escape
<1>6. EscapeInv'
  BY <1>0, <1>1 DEF EscapeInv, InEscape, dialogue, history, escape
<1>4. FlagInv' /\ HolderInv' /\ StrayInv' /\ ChatterInv'
  BY <1>0, <1>1 DEF FlagInv, HolderInv, InEscape, StrayInv, ChatterInv, ChatterBounded, Pending,
     Allowed,
     dialogue, flags, port, history
<1>5. QueueInv'
  <2>1. UNCHANGED cc_out /\ UNCHANGED Wanting
    BY <1>1 DEF Wanting, port, dialogue
  <2> QED
    BY <1>0, <2>1, QueueKept
<1> QED
  BY <1>3, <1>4, <1>5, <1>6 DEF ModemInv

LEMMA InvStep == ModemAssumption /\ ModemInv /\ [Next]_vars => ModemInv'
<1> SUFFICES ASSUME ModemAssumption, ModemInv, [Next]_vars PROVE ModemInv'
  OBVIOUS
<1>1. CASE Next
  BY <1>1, AskingStep, TopStep, PauseStep, PlusStep, DutyStep, DisconnectStep, RssiStep,
     WantsStep, WritesStep, WorldStep DEF Next, ThreadStep
<1>2. CASE UNCHANGED vars
  <2>1. UNCHANGED cc_out /\ UNCHANGED Wanting
    BY <1>2 DEF vars, port, dialogue, Wanting
  <2>2. QueueInv'
    BY <2>1, QueueKept DEF ModemInv
  <2> QED
    BY <1>2, <2>2 DEF ModemInv, vars, dialogue, flags, port, history, escape, TypeOK, FlagInv,
       HolderInv, EscapeInv, InEscape, StrayInv, ChatterInv, ChatterBounded, Pending, Allowed
<1> QED
  BY <1>1, <1>2

-----------------------------------------------------------------------------
(* wavecom.c:274-293, 534-540, 634-635: for every number of tries, however *)
(* the modem answers and whenever the network, the shell and the senders   *)
(* come in between, at most one message of the packer goes out after the   *)
(* flag has fallen, RssiThread disturbs a connection with at most twice    *)
(* its tries, and within "+++" and its silences neither packer nor reader  *)
(* of the log writes, and RssiThread, which does not take cc_out, no more  *)
(* than the questions of one update_rssi.                                  *)
THEOREM AloneCorrect == ASSUME ModemAssumption PROVE Spec => []ModemIsLeftAlone
<1>1. Init => ModemInv
  BY InvInit
<1>2. ModemInv /\ [Next]_vars => ModemInv'
  BY InvStep
<1>3. ModemInv => ModemIsLeftAlone
  <2> SUFFICES ASSUME ModemInv PROVE ModemIsLeftAlone
    OBVIOUS
  <2>1. StrayBounded
    BY DEF ModemInv, StrayInv, StrayBounded, TypeOK
  <2>2. EscapeBounded
    <3>1. /\ intruders = 0 /\ questions \in Nat /\ rssi \in 0 .. RssiTries /\ RssiTries \in Nat
          /\ InEscape => questions + rssi <= RssiTries
          /\ ~InEscape => questions = 0
      BY DEF ModemInv, EscapeInv, TypeOK, ModemAssumption
    <3> QED
      BY <3>1 DEF EscapeBounded
  <2> QED
    BY <2>1, <2>2 DEF ModemInv, ChatterInv, ModemIsLeftAlone
<1> QED
  BY <1>1, <1>2, <1>3, PTL DEF Spec

(* main.h, wavecom.c: the senders of the CC port, and the thread when it   *)
(* gives a connection up, stand in line, each of them once, and nobody     *)
(* else is in the line.                                                    *)
THEOREM QueueCorrect == ASSUME ModemAssumption PROVE Spec => []QueueInv
<1>1. Init => ModemInv
  BY InvInit
<1>2. ModemInv /\ [Next]_vars => ModemInv'
  BY InvStep
<1>3. ModemInv => QueueInv
  BY DEF ModemInv
<1> QED
  BY <1>1, <1>2, <1>3, PTL DEF Spec

-----------------------------------------------------------------------------
(* The shell and its switch: who is on the heap, who owns the port, and    *)
(* what the pointer to the running command points to.                      *)

Size(x) == Port!Stack(x) + Overhead

Some(s) == CHOOSE x \in s : TRUE

(* FiniteSetsExt: the sum over a set of two is that of its elements.       *)
LEMMA RoomOfTwo ==
  ASSUME NEW x, NEW y, x # y, Size(x) \in Nat, Size(y) \in Nat
  PROVE  Port!Used({x, y}) = Size(x) + Size(y) /\ Port!Used({x}) = Size(x)
<1> DEFINE Sums(ts, f) ==
      f = [s \in SUBSET ts |->
             IF s = {} THEN 0 ELSE Size(Some(s)) + f[s \ {Some(s)}]]
<1>1. ASSUME NEW ts PROVE Port!Used(ts) = (CHOOSE f : Sums(ts, f))[ts]
  BY DEF Port!Used, Port!MapThenSumSet, Port!MapThenFoldSet, Size, Some
<1>2. Port!Used({x}) = Size(x)
  <2> DEFINE ts == {x}
             g == [s \in SUBSET ts |-> IF s = {} THEN 0 ELSE Size(x)]
             f == CHOOSE f : Sums(ts, f)
  <2>1. \A s \in SUBSET ts : s = {} \/ s = {x}
    OBVIOUS
  <2>2. Some({x}) = x
    BY DEF Some
  <2>3. {x} \ {x} = {}
    OBVIOUS
  <2> HIDE DEF Size, Some
  <2>9. g[{}] = 0 /\ g[{x}] = Size(x)
    OBVIOUS
  <2>10. Port!Used({x}) = f[{x}]
    BY <1>1
  <2>11. Size(Some({x})) + g[{x} \ {Some({x})}] = Size(x)
    <3> HIDE DEF g
    <3>1. Size(Some({x})) + g[{x} \ {Some({x})}] = Size(x) + 0
      BY <2>2, <2>3, <2>9, Zenon
    <3> QED
      BY <3>1
  <2>4. \A s \in SUBSET ts :
          g[s] = IF s = {} THEN 0 ELSE Size(Some(s)) + g[s \ {Some(s)}]
    <3> HIDE DEF g, ts
    <3>1. \A s \in SUBSET ts : s = {} => g[s] = 0
      BY <2>9
    <3>2. \A s \in SUBSET ts : s = {x} => g[s] = Size(Some(s)) + g[s \ {Some(s)}]
      BY <2>9, <2>11, Zenon
    <3> QED
      BY <3>1, <3>2, <2>1, Zenon DEF ts
  <2>5. Sums(ts, g)
    BY <2>4, Zenon
  <2>6. Sums(ts, f)
    BY <2>5, Zenon
  <2> HIDE DEF f
  <2>7. f[{}] = 0
    BY <2>6
  <2>8. f[{x}] = Size(x) + f[{}]
    BY <2>6, <2>2, <2>3
  <2> QED
    BY <2>7, <2>8, <2>10
<1>3. Port!Used({x, y}) = Size(x) + Size(y)
  <2> DEFINE ts == {x, y}
             g == [s \in SUBSET ts |->
                     IF s = {} THEN 0 ELSE IF s = {x} THEN Size(x)
                     ELSE IF s = {y} THEN Size(y) ELSE Size(x) + Size(y)]
             f == CHOOSE f : Sums(ts, f)
  <2>1. \A s \in SUBSET ts : s = {} \/ s = {x} \/ s = {y} \/ s = {x, y}
    OBVIOUS
  <2>2. Some({x}) = x /\ Some({y}) = y /\ Some({x, y}) \in {x, y}
    BY DEF Some
  <2>3. /\ {x} \ {x} = {} /\ {y} \ {y} = {} /\ {x, y} \ {x} = {y} /\ {x, y} \ {y} = {x}
        /\ {x} # {y} /\ {x, y} # {x} /\ {x, y} # {y} /\ {x} # {} /\ {y} # {} /\ {x, y} # {}
    OBVIOUS
  <2> HIDE DEF Size, Some
  <2>9. g[{}] = 0 /\ g[{x}] = Size(x) /\ g[{y}] = Size(y) /\ g[{x, y}] = Size(x) + Size(y)
    BY <2>3
  <2>12. Port!Used({x, y}) = f[{x, y}]
    BY <1>1
  <2>13. /\ Size(Some({x})) + g[{x} \ {Some({x})}] = Size(x)
         /\ Size(Some({y})) + g[{y} \ {Some({y})}] = Size(y)
    <3> HIDE DEF g
    <3>1. Size(Some({x})) + g[{x} \ {Some({x})}] = Size(x) + 0
      BY <2>2, <2>3, <2>9, Zenon
    <3>2. Size(Some({y})) + g[{y} \ {Some({y})}] = Size(y) + 0
      BY <2>2, <2>3, <2>9, Zenon
    <3> QED
      BY <3>1, <3>2
  <2>14. Size(Some({x, y})) + g[{x, y} \ {Some({x, y})}] = Size(x) + Size(y)
    <3> HIDE DEF g
    <3>1. Some({x, y}) = x =>
            Size(Some({x, y})) + g[{x, y} \ {Some({x, y})}] = Size(x) + Size(y)
      BY <2>3, <2>9, Zenon
    <3>2. Some({x, y}) = y =>
            Size(Some({x, y})) + g[{x, y} \ {Some({x, y})}] = Size(y) + Size(x)
      BY <2>3, <2>9, Zenon
    <3>3. Size(x) + Size(y) = Size(y) + Size(x)
      OBVIOUS
    <3> QED
      BY <3>1, <3>2, <3>3, <2>2, Zenon
  <2>4. \A s \in SUBSET ts :
          g[s] = IF s = {} THEN 0 ELSE Size(Some(s)) + g[s \ {Some(s)}]
    <3> HIDE DEF g, ts
    <3>1. \A s \in SUBSET ts : s = {} => g[s] = 0
      BY <2>9
    <3>2. \A s \in SUBSET ts : s = {x} => g[s] = Size(Some(s)) + g[s \ {Some(s)}]
      BY <2>9, <2>13, Zenon
    <3>3. \A s \in SUBSET ts : s = {y} => g[s] = Size(Some(s)) + g[s \ {Some(s)}]
      BY <2>9, <2>13, Zenon
    <3>4. \A s \in SUBSET ts : s = {x, y} => g[s] = Size(Some(s)) + g[s \ {Some(s)}]
      BY <2>9, <2>14, Zenon
    <3> QED
      BY <3>1, <3>2, <3>3, <3>4, <2>1, Zenon DEF ts
  <2>5. Sums(ts, g)
    BY <2>4, Zenon
  <2>6. Sums(ts, f)
    BY <2>5, Zenon
  <2> HIDE DEF f
  <2>7. f[{}] = 0
    BY <2>6
  <2>8. f[{x}] = Size(x) + f[{}] /\ f[{y}] = Size(y) + f[{}]
    BY <2>6, <2>2, <2>3
  <2>10. f[{x, y}] = Size(Some({x, y})) + f[{x, y} \ {Some({x, y})}]
    BY <2>6, <2>3
  <2>11. f[{x, y}] = Size(x) + Size(y)
    <3>1. f[{x}] = Size(x) /\ f[{y}] = Size(y)
      BY <2>7, <2>8
    <3>2. Some({x, y}) = x => f[{x, y}] = Size(x) + Size(y)
      BY <2>3, <2>10, <3>1, Zenon
    <3>3. Some({x, y}) = y => f[{x, y}] = Size(y) + Size(x)
      BY <2>3, <2>10, <3>1, Zenon
    <3>4. Size(x) + Size(y) = Size(y) + Size(x)
      OBVIOUS
    <3> QED
      BY <3>2, <3>3, <3>4, <2>2, Zenon
  <2> QED
    BY <2>11, <2>12
<1> QED
  BY <1>2, <1>3

Commands == Loops \cup Listeners

(* dmcli_switcher.c:56-73: who is on the heap in each state of the         *)
(* switcher.                                                               *)
SwitchInv ==
  /\ threads_pc = "boot" => alive = {} /\ final = {} /\ terminated = {}
  /\ threads_pc # "boot" /\ shell_active = TRUE =>
       "shell" \in alive /\ Port!Dm \cap alive = {}
  /\ threads_pc # "boot" /\ shell_active = FALSE =>
       "shell" \notin alive /\ Port!Dm \subseteq alive
  /\ threads_pc = "watch" =>
       /\ "shell" \notin final \cup terminated
       /\ Port!Dm \cap (final \cup terminated) = {}
  /\ threads_pc = "kill" /\ shell_active = TRUE => "shell" \in terminated
  /\ threads_pc = "kill" /\ shell_active = FALSE => Port!Dm \subseteq terminated
  /\ shell # "absent" <=> "shell" \in alive \ final
  /\ shell = "dying" => "shell" \in terminated

(* cli.c:196-240: while nobody executes a command over another one, a      *)
(* command on the heap is that of the pointer, its shell lives, and it is  *)
(* told to end or has ended only while the shell waits for it.             *)
CommandInv ==
  /\ alive \cap Commands \subseteq {current_cmd_tp}
  /\ alive \cap Commands # {} => shell # "absent"
  /\ (final \cup terminated) \cap Commands # {} => shell \in {"sigint", "dying"}

(* cli.c:210: without any carelessness the pointer is nobody's once the    *)
(* shell is told to end.                                                   *)
PointerInv ==
  /\ shell \in {"loop", "sigint"} => current_cmd_tp \in alive \cup {Port!Nobody}
  /\ shell = "loop" /\ "shell" \in terminated => current_cmd_tp = Port!Nobody
  /\ shell \in {"dying", "absent"} => current_cmd_tp = Port!Nobody

OwnerInv == "shell" \in alive \ final => Port!Dm \cap (alive \ final) = {}

ThreadInv ==
  /\ Port!TypeOK /\ OwnerInv
  /\ "execute" \notin careless => panic = FALSE /\ CommandInv
  /\ panic = FALSE => SwitchInv
  /\ careless = {} => PointerInv

(* The threads by their kinds.                                             *)
LEMMA ThreadNames ==
  /\ "shell" \notin Commands /\ "shell" \notin Port!Dm /\ Port!Dm \cap Commands = {}
  /\ Port!Nobody \notin Commands /\ Port!Nobody # "shell" /\ Port!Nobody \notin Port!Dm
  /\ Port!Commands = Commands /\ Port!Dm = {"packer", "unpacker"}
BY ShellConstants DEF Port!ShellAssumption, Port!Commands, Commands, Port!Dm, Port!Nobody

(* At first the switcher runs alone.                                       *)
LEMMA ThreadStart == Port!Init => ThreadInv
BY ThreadNames DEF Port!Init, ThreadInv, Port!TypeOK, OwnerInv, CommandInv, SwitchInv,
   PointerInv

(* main.h:14: the shell fits, the link threads fit, and so does a command  *)
(* next to the shell.                                                      *)
LEMMA RoomForAll ==
  /\ Port!Used({"shell"}) <= HeapSize
  /\ Port!Used(Port!Dm) <= HeapSize
  /\ \A t \in Commands : Port!Used({"shell", t}) <= HeapSize
<1>1. /\ Size("shell") = 2048 + Overhead
      /\ Size("packer") = 1536 + Overhead
      /\ Size("unpacker") = 512 + Overhead
  BY ThreadNames DEF Size, Port!Stack, Commands
<1>2. \A t \in Commands : Size(t) \in {1024 + Overhead, 256 + Overhead}
  BY ThreadNames, ShellConstants DEF Size, Port!Stack, Commands, Port!ShellAssumption
<1>3. /\ Overhead \in Nat /\ HeapSize \in Nat
      /\ 2048 + 1024 + 2 * Overhead <= HeapSize
  BY ShellConstants DEF Port!ShellAssumption, Port!HeapAssumption
<1> HIDE DEF Size
<1>4. Port!Used({"shell"}) <= HeapSize
  <2>1. Size("shell") \in Nat /\ Size("packer") \in Nat /\ "shell" # "packer"
    BY <1>1, <1>3
  <2>2. Port!Used({"shell"}) = Size("shell")
    BY <2>1, RoomOfTwo, Zenon
  <2> QED
    BY <2>2, <1>1, <1>3
<1>5. Port!Used(Port!Dm) <= HeapSize
  <2>1. Size("packer") \in Nat /\ Size("unpacker") \in Nat /\ "packer" # "unpacker"
    BY <1>1, <1>3
  <2>2. Port!Used(Port!Dm) = Size("packer") + Size("unpacker")
    BY <2>1, RoomOfTwo, ThreadNames, Zenon
  <2> QED
    BY <2>2, <1>1, <1>3
<1>6. ASSUME NEW t \in Commands PROVE Port!Used({"shell", t}) <= HeapSize
  <2>1. Size("shell") \in Nat /\ Size(t) \in Nat /\ "shell" # t
    BY <1>1, <1>2, <1>3, ThreadNames
  <2>2. Port!Used({"shell", t}) = Size("shell") + Size(t)
    BY <2>1, RoomOfTwo, Zenon
  <2> QED
    BY <2>2, <1>1, <1>2, <1>3
<1> QED
  BY <1>4, <1>5, <1>6

LEMMA BootStep == ThreadInv /\ Port!Boot => ThreadInv'
<1> SUFFICES ASSUME ThreadInv, Port!Boot PROVE ThreadInv'
  OBVIOUS
<1> USE ThreadNames, RoomForAll DEF Port!threads
<1>1. Port!TypeOK'
  BY DEF ThreadInv, SwitchInv, CommandInv, Port!TypeOK, Port!Boot, Port!SpawnDm,
     Port!SpawnShell, Port!Fork
<1>2. OwnerInv'
  BY DEF ThreadInv, SwitchInv, OwnerInv, Port!TypeOK, Port!Boot, Port!SpawnDm,
     Port!SpawnShell, Port!Fork
<1>3. "execute" \notin careless' => panic' = FALSE /\ CommandInv'
  BY DEF ThreadInv, SwitchInv, CommandInv, Port!TypeOK, Port!Boot, Port!SpawnDm,
     Port!SpawnShell, Port!Fork
<1>4. panic' = FALSE => SwitchInv'
  BY DEF ThreadInv, SwitchInv, Port!TypeOK, Port!Boot, Port!SpawnDm, Port!SpawnShell,
     Port!Fork
<1>5. careless' = {} => PointerInv'
  BY DEF ThreadInv, SwitchInv, CommandInv, PointerInv, Port!TypeOK, Port!Boot,
     Port!SpawnDm, Port!SpawnShell, Port!Fork
<1> QED
  BY <1>1, <1>2, <1>3, <1>4, <1>5 DEF ThreadInv

LEMMA KillShellStep == ThreadInv /\ Port!KillShell => ThreadInv'
<1> SUFFICES ASSUME ThreadInv, Port!KillShell PROVE ThreadInv'
  OBVIOUS
<1> USE ThreadNames, RoomForAll DEF Port!threads
<1>1. Port!TypeOK'
  BY DEF ThreadInv, SwitchInv, CommandInv, Port!TypeOK, Port!KillShell, Port!CommandRuns
<1>2. OwnerInv'
  BY DEF ThreadInv, SwitchInv, OwnerInv, Port!TypeOK, Port!KillShell, Port!CommandRuns
<1>3. "execute" \notin careless' => panic' = FALSE /\ CommandInv'
  BY DEF ThreadInv, SwitchInv, CommandInv, Port!TypeOK, Port!KillShell, Port!CommandRuns
<1>4. panic' = FALSE => SwitchInv'
  BY DEF ThreadInv, SwitchInv, Port!TypeOK, Port!KillShell, Port!CommandRuns
<1>5. careless' = {} => PointerInv'
  BY DEF ThreadInv, SwitchInv, CommandInv, PointerInv, Port!TypeOK, Port!KillShell,
     Port!CommandRuns
<1> QED
  BY <1>1, <1>2, <1>3, <1>4, <1>5 DEF ThreadInv

LEMMA ShellKilledStep == ThreadInv /\ Port!ShellKilled => ThreadInv'
<1> SUFFICES ASSUME ThreadInv, Port!ShellKilled PROVE ThreadInv'
  OBVIOUS
<1> USE ThreadNames, RoomForAll DEF Port!threads
<1>1. Port!TypeOK'
  BY DEF ThreadInv, SwitchInv, CommandInv, Port!TypeOK, Port!ShellKilled, Port!Waited,
     Port!Release, Port!SpawnDm, Port!Fork, Port!Freed
<1>2. OwnerInv'
  BY DEF ThreadInv, SwitchInv, OwnerInv, Port!TypeOK, Port!ShellKilled, Port!Waited,
     Port!Release, Port!SpawnDm, Port!Fork, Port!Freed
<1>3. "execute" \notin careless' => panic' = FALSE /\ CommandInv'
  BY DEF ThreadInv, SwitchInv, CommandInv, Port!TypeOK, Port!ShellKilled, Port!Waited,
     Port!Release, Port!SpawnDm, Port!Fork, Port!Freed
<1>4. panic' = FALSE => SwitchInv'
  BY DEF ThreadInv, SwitchInv, Port!TypeOK, Port!ShellKilled, Port!Waited, Port!Release,
     Port!SpawnDm, Port!Fork, Port!Freed
<1>5. careless' = {} => PointerInv'
  BY DEF ThreadInv, SwitchInv, CommandInv, PointerInv, Port!TypeOK, Port!ShellKilled,
     Port!Waited, Port!Release, Port!SpawnDm, Port!Fork, Port!Freed
<1> QED
  BY <1>1, <1>2, <1>3, <1>4, <1>5 DEF ThreadInv

LEMMA KillDmStep == ThreadInv /\ Port!KillDm => ThreadInv'
<1> SUFFICES ASSUME ThreadInv, Port!KillDm PROVE ThreadInv'
  OBVIOUS
<1> USE ThreadNames, RoomForAll DEF Port!threads
<1>1. Port!TypeOK'
  BY DEF ThreadInv, SwitchInv, CommandInv, Port!TypeOK, Port!KillDm
<1>2. OwnerInv'
  BY DEF ThreadInv, SwitchInv, OwnerInv, Port!TypeOK, Port!KillDm
<1>3. "execute" \notin careless' => panic' = FALSE /\ CommandInv'
  BY DEF ThreadInv, SwitchInv, CommandInv, Port!TypeOK, Port!KillDm
<1>4. panic' = FALSE => SwitchInv'
  BY DEF ThreadInv, SwitchInv, Port!TypeOK, Port!KillDm
<1>5. careless' = {} => PointerInv'
  BY DEF ThreadInv, SwitchInv, CommandInv, PointerInv, Port!TypeOK, Port!KillDm
<1> QED
  BY <1>1, <1>2, <1>3, <1>4, <1>5 DEF ThreadInv

LEMMA DmKilledStep == ThreadInv /\ Port!DmKilled => ThreadInv'
<1> SUFFICES ASSUME ThreadInv, Port!DmKilled PROVE ThreadInv'
  OBVIOUS
<1> USE ThreadNames, RoomForAll DEF Port!threads
<1>1. Port!TypeOK'
  BY DEF ThreadInv, SwitchInv, CommandInv, Port!TypeOK, Port!DmKilled, Port!Waited,
     Port!Release, Port!SpawnShell, Port!Fork, Port!Freed
<1>2. OwnerInv'
  BY DEF ThreadInv, SwitchInv, OwnerInv, Port!TypeOK, Port!DmKilled, Port!Waited,
     Port!Release, Port!SpawnShell, Port!Fork, Port!Freed
<1>3. "execute" \notin careless' => panic' = FALSE /\ CommandInv'
  BY DEF ThreadInv, SwitchInv, CommandInv, Port!TypeOK, Port!DmKilled, Port!Waited,
     Port!Release, Port!SpawnShell, Port!Fork, Port!Freed
<1>4. panic' = FALSE => SwitchInv'
  BY DEF ThreadInv, SwitchInv, Port!TypeOK, Port!DmKilled, Port!Waited, Port!Release,
     Port!SpawnShell, Port!Fork, Port!Freed
<1>5. careless' = {} => PointerInv'
  BY DEF ThreadInv, SwitchInv, CommandInv, PointerInv, Port!TypeOK, Port!DmKilled,
     Port!Waited, Port!Release, Port!SpawnShell, Port!Fork, Port!Freed
<1> QED
  BY <1>1, <1>2, <1>3, <1>4, <1>5 DEF ThreadInv

LEMMA ExecuteStep == ThreadInv /\ Port!Execute => ThreadInv'
<1> SUFFICES ASSUME ThreadInv, Port!Execute PROVE ThreadInv'
  OBVIOUS
<1> USE ThreadNames, RoomForAll DEF Port!threads
<1>1. Port!TypeOK'
  BY DEF ThreadInv, SwitchInv, CommandInv, Port!TypeOK, Port!Execute, Port!ShellReads,
     Port!Untidy, Port!CommandRuns, Port!threads
<1>2. OwnerInv'
  BY DEF ThreadInv, SwitchInv, OwnerInv, Port!TypeOK, Port!Execute, Port!ShellReads,
     Port!Untidy, Port!CommandRuns, Port!threads
<1>3. "execute" \notin careless' => panic' = FALSE /\ CommandInv'
  BY DEF ThreadInv, SwitchInv, CommandInv, Port!TypeOK, Port!Execute, Port!ShellReads,
     Port!Untidy, Port!CommandRuns, Port!threads
<1>4. panic' = FALSE => SwitchInv'
  BY DEF ThreadInv, SwitchInv, Port!TypeOK, Port!Execute, Port!ShellReads, Port!Untidy,
     Port!CommandRuns, Port!threads
<1>5. careless' = {} => PointerInv'
  BY DEF ThreadInv, SwitchInv, CommandInv, PointerInv, Port!TypeOK, Port!Execute,
     Port!ShellReads, Port!Untidy, Port!CommandRuns, Port!threads
<1> QED
  BY <1>1, <1>2, <1>3, <1>4, <1>5 DEF ThreadInv

LEMMA LogoutStep == ThreadInv /\ Port!Logout => ThreadInv'
<1> SUFFICES ASSUME ThreadInv, Port!Logout PROVE ThreadInv'
  OBVIOUS
<1> USE ThreadNames, RoomForAll DEF Port!threads
<1>1. Port!TypeOK'
  BY DEF ThreadInv, SwitchInv, CommandInv, Port!TypeOK, Port!Logout, Port!ShellReads,
     Port!Untidy, Port!CommandRuns, Port!threads
<1>2. OwnerInv'
  BY DEF ThreadInv, SwitchInv, OwnerInv, Port!TypeOK, Port!Logout, Port!ShellReads,
     Port!Untidy, Port!CommandRuns, Port!threads
<1>3. "execute" \notin careless' => panic' = FALSE /\ CommandInv'
  BY DEF ThreadInv, SwitchInv, CommandInv, Port!TypeOK, Port!Logout, Port!ShellReads,
     Port!Untidy, Port!CommandRuns, Port!threads
<1>4. panic' = FALSE => SwitchInv'
  BY DEF ThreadInv, SwitchInv, Port!TypeOK, Port!Logout, Port!ShellReads, Port!Untidy,
     Port!CommandRuns, Port!threads
<1>5. careless' = {} => PointerInv'
  BY DEF ThreadInv, SwitchInv, CommandInv, PointerInv, Port!TypeOK, Port!Logout,
     Port!ShellReads, Port!Untidy, Port!CommandRuns, Port!threads
<1> QED
  BY <1>1, <1>2, <1>3, <1>4, <1>5 DEF ThreadInv

LEMMA SigintStep == ThreadInv /\ Port!Sigint => ThreadInv'
<1> SUFFICES ASSUME ThreadInv, Port!Sigint PROVE ThreadInv'
  OBVIOUS
<1> USE ThreadNames, RoomForAll DEF Port!threads
<1>1. Port!TypeOK'
  BY DEF ThreadInv, SwitchInv, CommandInv, Port!TypeOK, Port!Sigint, Port!ShellReads
<1>2. OwnerInv'
  BY DEF ThreadInv, SwitchInv, OwnerInv, Port!TypeOK, Port!Sigint, Port!ShellReads
<1>3. "execute" \notin careless' => panic' = FALSE /\ CommandInv'
  BY DEF ThreadInv, SwitchInv, CommandInv, Port!TypeOK, Port!Sigint, Port!ShellReads
<1>4. panic' = FALSE => SwitchInv'
  BY DEF ThreadInv, SwitchInv, Port!TypeOK, Port!Sigint, Port!ShellReads
<1>5. careless' = {} => PointerInv'
  BY DEF ThreadInv, SwitchInv, CommandInv, PointerInv, Port!TypeOK, Port!Sigint,
     Port!ShellReads
<1> QED
  BY <1>1, <1>2, <1>3, <1>4, <1>5 DEF ThreadInv

LEMMA CommandWaitedStep == ThreadInv /\ Port!CommandWaited => ThreadInv'
<1> SUFFICES ASSUME ThreadInv, Port!CommandWaited PROVE ThreadInv'
  OBVIOUS
<1> USE ThreadNames, RoomForAll DEF Port!threads
<1>1. Port!TypeOK'
  BY DEF ThreadInv, SwitchInv, CommandInv, Port!TypeOK, Port!CommandWaited, Port!Waited,
     Port!Release, Port!Freed, Port!Forgets
<1>2. OwnerInv'
  BY DEF ThreadInv, SwitchInv, OwnerInv, Port!TypeOK, Port!CommandWaited, Port!Waited,
     Port!Release, Port!Freed, Port!Forgets
<1>3. "execute" \notin careless' => panic' = FALSE /\ CommandInv'
  BY DEF ThreadInv, SwitchInv, CommandInv, Port!TypeOK, Port!CommandWaited, Port!Waited,
     Port!Release, Port!Freed, Port!Forgets
<1>4. panic' = FALSE => SwitchInv'
  BY DEF ThreadInv, SwitchInv, Port!TypeOK, Port!CommandWaited, Port!Waited,
     Port!Release, Port!Freed, Port!Forgets
<1>5. careless' = {} => PointerInv'
  BY DEF ThreadInv, SwitchInv, CommandInv, PointerInv, Port!TypeOK, Port!CommandWaited,
     Port!Waited, Port!Release, Port!Freed, Port!Forgets
<1> QED
  BY <1>1, <1>2, <1>3, <1>4, <1>5 DEF ThreadInv

LEMMA ReapStep == ThreadInv /\ Port!Reap => ThreadInv'
<1> SUFFICES ASSUME ThreadInv, Port!Reap PROVE ThreadInv'
  OBVIOUS
<1> USE ThreadNames, RoomForAll DEF Port!threads
<1>1. Port!TypeOK'
  BY DEF ThreadInv, SwitchInv, CommandInv, Port!TypeOK, Port!Reap, Port!Release, Port!Freed
<1>2. OwnerInv'
  BY DEF ThreadInv, SwitchInv, OwnerInv, Port!TypeOK, Port!Reap, Port!Release, Port!Freed
<1>3. "execute" \notin careless' => panic' = FALSE /\ CommandInv'
  BY DEF ThreadInv, SwitchInv, CommandInv, Port!TypeOK, Port!Reap, Port!Release, Port!Freed
<1>4. panic' = FALSE => SwitchInv'
  BY DEF ThreadInv, SwitchInv, Port!TypeOK, Port!Reap, Port!Release, Port!Freed
<1>5. careless' = {} => PointerInv'
  BY DEF ThreadInv, SwitchInv, CommandInv, PointerInv, Port!TypeOK, Port!Reap,
     Port!Release, Port!Freed
<1> QED
  BY <1>1, <1>2, <1>3, <1>4, <1>5 DEF ThreadInv

LEMMA DiesStep == ThreadInv /\ Port!Dies => ThreadInv'
<1> SUFFICES ASSUME ThreadInv, Port!Dies PROVE ThreadInv'
  OBVIOUS
<1> USE ThreadNames, RoomForAll DEF Port!threads
<1>1. Port!TypeOK'
  BY DEF ThreadInv, SwitchInv, CommandInv, Port!TypeOK, Port!Dies, Port!Descendants
<1>2. OwnerInv'
  BY DEF ThreadInv, SwitchInv, OwnerInv, Port!TypeOK, Port!Dies, Port!Descendants
<1>3. "execute" \notin careless' => panic' = FALSE /\ CommandInv'
  BY DEF ThreadInv, SwitchInv, CommandInv, Port!TypeOK, Port!Dies, Port!Descendants
<1>4. panic' = FALSE => SwitchInv'
  BY DEF ThreadInv, SwitchInv, Port!TypeOK, Port!Dies, Port!Descendants
<1>5. careless' = {} => PointerInv'
  BY DEF ThreadInv, SwitchInv, CommandInv, PointerInv, Port!TypeOK, Port!Dies,
     Port!Descendants
<1> QED
  BY <1>1, <1>2, <1>3, <1>4, <1>5 DEF ThreadInv

LEMMA DeadStep == ThreadInv /\ Port!Dead => ThreadInv'
<1> SUFFICES ASSUME ThreadInv, Port!Dead PROVE ThreadInv'
  OBVIOUS
<1> USE ThreadNames, RoomForAll DEF Port!threads
<1>1. Port!TypeOK'
  BY DEF ThreadInv, SwitchInv, CommandInv, Port!TypeOK, Port!Dead, Port!Descendants,
     Port!Waited, Port!Freed
<1>2. OwnerInv'
  BY DEF ThreadInv, SwitchInv, OwnerInv, Port!TypeOK, Port!Dead, Port!Descendants,
     Port!Waited, Port!Freed
<1>3. "execute" \notin careless' => panic' = FALSE /\ CommandInv'
  BY DEF ThreadInv, SwitchInv, CommandInv, Port!TypeOK, Port!Dead, Port!Descendants,
     Port!Waited, Port!Freed
<1>4. panic' = FALSE => SwitchInv'
  BY DEF ThreadInv, SwitchInv, Port!TypeOK, Port!Dead, Port!Descendants, Port!Waited,
     Port!Freed
<1>5. careless' = {} => PointerInv'
  BY DEF ThreadInv, SwitchInv, CommandInv, PointerInv, Port!TypeOK, Port!Dead,
     Port!Descendants, Port!Waited, Port!Freed
<1> QED
  BY <1>1, <1>2, <1>3, <1>4, <1>5 DEF ThreadInv

LEMMA SetEnableStep == ThreadInv /\ Port!SetEnable => ThreadInv'
<1> SUFFICES ASSUME ThreadInv, Port!SetEnable PROVE ThreadInv'
  OBVIOUS
<1> USE ThreadNames, RoomForAll DEF Port!threads
<1>1. Port!TypeOK'
  BY DEF ThreadInv, SwitchInv, CommandInv, Port!TypeOK, Port!SetEnable, Port!threads
<1>2. OwnerInv'
  BY DEF ThreadInv, SwitchInv, OwnerInv, Port!TypeOK, Port!SetEnable, Port!threads
<1>3. "execute" \notin careless' => panic' = FALSE /\ CommandInv'
  BY DEF ThreadInv, SwitchInv, CommandInv, Port!TypeOK, Port!SetEnable, Port!threads
<1>4. panic' = FALSE => SwitchInv'
  BY DEF ThreadInv, SwitchInv, Port!TypeOK, Port!SetEnable, Port!threads
<1>5. careless' = {} => PointerInv'
  BY DEF ThreadInv, SwitchInv, CommandInv, PointerInv, Port!TypeOK, Port!SetEnable,
     Port!threads
<1> QED
  BY <1>1, <1>2, <1>3, <1>4, <1>5 DEF ThreadInv

LEMMA ExecuteForksStep ==
  ASSUME NEW t \in Commands, ThreadInv, Port!ExecuteForks(t)
  PROVE  ThreadInv'
<1> USE ThreadNames, RoomForAll DEF Port!threads
<1>1. Port!TypeOK'
  BY DEF ThreadInv, SwitchInv, CommandInv, Port!TypeOK, Port!ExecuteForks,
     Port!ShellReads, Port!Untidy, Port!CommandRuns, Port!Fork
<1>2. OwnerInv'
  BY DEF ThreadInv, SwitchInv, OwnerInv, Port!TypeOK, Port!ExecuteForks, Port!ShellReads,
     Port!Untidy, Port!CommandRuns, Port!Fork
<1>6. "execute" \notin careless' => /\ "execute" \notin careless /\ alive \cap Commands = {}
                                   /\ alive = {"shell"}
  <2>1. "execute" \notin careless' =>
          "execute" \notin careless /\ current_cmd_tp \notin alive \ final
    BY DEF Port!ExecuteForks, Port!Untidy, Port!CommandRuns
  <2>2. "execute" \notin careless' => alive \cap Commands = {}
    BY <2>1 DEF ThreadInv, CommandInv, Port!ExecuteForks, Port!ShellReads
  <2>3. "shell" \in alive /\ Port!Dm \cap alive = {}
    BY DEF ThreadInv, SwitchInv, Port!TypeOK, Port!ExecuteForks, Port!ShellReads
  <2>4. alive \subseteq {"shell"} \cup Port!Dm \cup Commands
    BY DEF ThreadInv, Port!TypeOK
  <2> QED
    BY <2>1, <2>2, <2>3, <2>4, Zenon
<1>7. "execute" \notin careless' => panic' = FALSE /\ alive' = {"shell", t}
  <2>1. {"shell"} \cup {t} = {"shell", t}
    OBVIOUS
  <2> QED
    BY <1>6, <2>1 DEF ThreadInv, CommandInv, Port!ExecuteForks, Port!Fork
<1>3. "execute" \notin careless' => panic' = FALSE /\ CommandInv'
  BY <1>6, <1>7 DEF ThreadInv, CommandInv, Port!TypeOK, Port!ExecuteForks, Port!ShellReads
<1>4. panic' = FALSE => SwitchInv'
  BY DEF ThreadInv, SwitchInv, Port!TypeOK, Port!ExecuteForks, Port!ShellReads,
     Port!Untidy, Port!CommandRuns, Port!Fork
<1>5. careless' = {} => PointerInv'
  <2>1. careless' = {} => "shell" \notin terminated'
    BY DEF Port!ExecuteForks, Port!Untidy
  <2> QED
    BY <1>7, <2>1 DEF PointerInv, Port!ExecuteForks, Port!ShellReads
<1> QED
  BY <1>1, <1>2, <1>3, <1>4, <1>5 DEF ThreadInv

LEMMA EndsStep ==
  ASSUME NEW t \in Port!Dm \cup Commands, ThreadInv, Port!Ends(t)
  PROVE  ThreadInv'
<1> USE ThreadNames, RoomForAll DEF Port!threads
<1>1. Port!TypeOK'
  BY DEF ThreadInv, SwitchInv, CommandInv, Port!TypeOK, Port!Ends
<1>2. OwnerInv'
  BY DEF ThreadInv, SwitchInv, OwnerInv, Port!TypeOK, Port!Ends
<1>3. "execute" \notin careless' => panic' = FALSE /\ CommandInv'
  BY DEF ThreadInv, SwitchInv, CommandInv, Port!TypeOK, Port!Ends
<1>4. panic' = FALSE => SwitchInv'
  BY DEF ThreadInv, SwitchInv, Port!TypeOK, Port!Ends
<1>5. careless' = {} => PointerInv'
  BY DEF ThreadInv, SwitchInv, CommandInv, PointerInv, Port!TypeOK, Port!Ends
<1> QED
  BY <1>1, <1>2, <1>3, <1>4, <1>5 DEF ThreadInv

(* Nothing changes where no thread does a step.                            *)
LEMMA ThreadStays == ThreadInv /\ UNCHANGED threads => ThreadInv'
BY DEF ThreadInv, threads, Port!TypeOK, OwnerInv, CommandInv, SwitchInv, PointerInv

(* dmcli_switcher.c, cli.c: the invariant through every step.              *)
LEMMA HeapStep == ThreadInv /\ Port!Next => ThreadInv'
<1> SUFFICES ASSUME ThreadInv, Port!Next PROVE ThreadInv'
  OBVIOUS
<1>1. CASE Port!SwitcherStep
  BY <1>1, BootStep, KillShellStep, ShellKilledStep, KillDmStep, DmKilledStep, Zenon
     DEF Port!SwitcherStep
<1>2. CASE Port!ShellRuns \/ Port!Dies \/ Port!Reap
  BY <1>2, CommandWaitedStep, DeadStep, DiesStep, ReapStep, Zenon DEF Port!ShellRuns
<1>3. ASSUME NEW t \in Port!Dm \cup Port!Commands, Port!Ends(t) PROVE ThreadInv'
  <2>1. t \in Port!Dm \cup Commands
    BY <1>3, ThreadNames
  <2> QED
    BY <1>3, <2>1, EndsStep
<1>4. ASSUME NEW t \in Port!Commands, Port!ExecuteForks(t) PROVE ThreadInv'
  <2>1. t \in Commands
    BY <1>4, ThreadNames
  <2> QED
    BY <1>4, <2>1, ExecuteForksStep
<1>5. CASE Port!Execute \/ Port!Logout \/ Port!Sigint \/ Port!SetEnable
  BY <1>5, ExecuteStep, LogoutStep, SigintStep, SetEnableStep, Zenon
<1>6. CASE Port!Halted
  BY <1>6, ThreadStays, Zenon DEF Port!Halted, Port!vars, Port!threads, threads
<1> QED
  BY <1>1, <1>2, <1>3, <1>4, <1>5, <1>6, Zenon DEF Port!Next

(* What follows from it of the port, the heap and the pointer.             *)
LEMMA ThreadShows ==
  ThreadInv => /\ Port!TypeOK /\ Port!PortHasOneOwner
               /\ Port!HeapIsLongEnough /\ Port!PointerIsAlive
<1> SUFFICES ASSUME ThreadInv
             PROVE  /\ Port!TypeOK /\ Port!PortHasOneOwner
                    /\ Port!HeapIsLongEnough /\ Port!PointerIsAlive
  OBVIOUS
<1>1. Port!PortHasOneOwner
  BY ThreadNames DEF ThreadInv, OwnerInv, SwitchInv, CommandInv, Port!TypeOK,
     Port!PortHasOneOwner, Port!Running
<1>2. Port!HeapIsLongEnough
  BY DEF ThreadInv, Port!TypeOK, Port!HeapIsLongEnough
<1>3. Port!PointerIsAlive
  BY DEF ThreadInv, PointerInv, Port!TypeOK, Port!PointerIsAlive
<1> QED
  BY <1>1, <1>2, <1>3 DEF ThreadInv

-----------------------------------------------------------------------------
(* The settings file: what each command has done to it so far.             *)

Fields == [Pin!Places -> Texts \cup {Pin!Empty}]

SettingTypes ==
  /\ file \in Fields /\ before \in Fields /\ shown \in Fields
  /\ position \in 0 .. FieldCount /\ wants \in Pin!Places \cup {Pin!None}
  /\ command \in [kind : {"none", "set", "erase", "print"}, field : Pin!Places,
                  text : Texts \cup {Pin!Empty}]
  /\ step \in {"idle", "seek", "access", "reseek", "check"}
  /\ said \in {"nothing", "OK", "error"} /\ (step # "idle" => said = "nothing")
  /\ met \in BOOLEAN /\ errors \in Nat

(* settings_modem.c:70: the position has not moved.                        *)
Unmet == met = FALSE

UnmetInv == Unmet => wants = Pin!None

(* cli_modem.c:70-95: what set has done so far.                            *)
Done == [before EXCEPT ![command.field] = command.text]

SetInv ==
  Unmet /\ command.kind = "set" =>
    /\ step \in {"seek", "access"} => file = before
    /\ step \in {"reseek", "check"} => file = Done
    /\ step \in {"access", "check"} => position = command.field
    /\ said = "OK" => file = Done

(* cli_modem.c:97-115: what erase has done so far.                         *)
EraseInv ==
  command.kind = "erase" =>
    /\ step \in {"idle", "seek", "access"} /\ command.text = Pin!Empty
    /\ Unmet /\ errors = 0 =>
         /\ step = "access" => position = command.field
         /\ step # "idle" => \A f \in Pin!Places : f < command.field => file[f] = Pin!Empty
         /\ said = "OK" => \A f \in Pin!Places : file[f] = Pin!Empty

(* cli_modem.c:117-140: what print has shown so far.                       *)
PrintInv ==
  command.kind = "print" =>
    /\ step \in {"idle", "reseek", "check"}
    /\ Unmet =>
         /\ file = before
         /\ step = "check" => position = command.field
         /\ step # "idle" => \A f \in Pin!Places : f < command.field => shown[f] = file[f]
         /\ said = "OK" => \A f \in Pin!Places : shown[f] = file[f]

FieldInv ==
  /\ SettingTypes /\ UnmetInv /\ SetInv /\ EraseInv /\ PrintInv
  /\ command.kind = "none" => step = "idle" /\ said = "nothing"

(* The places of the file are the fields.                                  *)
LEMMA PlacesFacts ==
  /\ FieldCount \in Nat \ {0} /\ Pin!Places = 0 .. FieldCount - 1
  /\ Pin!None = -1 /\ 0 \in Pin!Places
BY SettingsConstants DEF Pin!ModemSettingsAssumption, Pin!Places, Pin!None

(* An empty file, and no command yet.                                      *)
LEMMA FieldStart == Pin!Init => FieldInv
<1> SUFFICES ASSUME Pin!Init PROVE FieldInv
  OBVIOUS
<1>1. SettingTypes
  <2>1. file \in Fields /\ before = file /\ shown = file
    BY DEF Pin!Init, Fields
  <2>2. command \in [kind : {"none", "set", "erase", "print"}, field : Pin!Places,
                     text : Texts \cup {Pin!Empty}]
    BY PlacesFacts DEF Pin!Init, Pin!Nothing
  <2>3. /\ position = 0 /\ wants = Pin!None /\ step = "idle" /\ said = "nothing"
        /\ met = FALSE /\ errors = 0
    BY DEF Pin!Init
  <2>4. before \in Fields /\ shown \in Fields /\ met \in BOOLEAN
    BY <2>1, <2>3, Zenon
  <2>5. /\ position \in 0 .. FieldCount /\ wants \in Pin!Places \cup {Pin!None}
        /\ errors \in Nat
    BY <2>3, PlacesFacts
  <2> QED
    BY <2>1, <2>2, <2>3, <2>4, <2>5, Zenon DEF SettingTypes
<1>2. command.kind = "none" /\ step = "idle" /\ said = "nothing"
  BY DEF Pin!Init, Pin!Nothing
<1> QED
  BY <1>1, <1>2, PlacesFacts DEF FieldInv, UnmetInv, SetInv, EraseInv, PrintInv, Pin!Init

LEMMA SetCommandStep == FieldInv /\ Pin!SetCommand => FieldInv'
<1> SUFFICES ASSUME FieldInv, Pin!SetCommand PROVE FieldInv'
  OBVIOUS
<1> USE PlacesFacts
<1>1. SettingTypes'
  BY DEF FieldInv, SettingTypes, Fields, Pin!SetCommand, Pin!Begin, Pin!modem
<1>2. UnmetInv' /\ (command'.kind = "none" => step' = "idle" /\ said' = "nothing")
  BY DEF FieldInv, SettingTypes, Unmet, UnmetInv, Pin!SetCommand, Pin!Begin, Pin!modem
<1>3. SetInv'
  BY DEF FieldInv, SettingTypes, Fields, Unmet, UnmetInv, SetInv, Done, Pin!SetCommand,
     Pin!Begin, Pin!modem
<1>4. EraseInv'
  BY DEF FieldInv, SettingTypes, Fields, Unmet, UnmetInv, EraseInv, Pin!SetCommand,
     Pin!Begin, Pin!modem
<1>5. PrintInv'
  BY DEF FieldInv, SettingTypes, Fields, Unmet, UnmetInv, PrintInv, Pin!SetCommand,
     Pin!Begin, Pin!modem
<1> QED
  BY <1>1, <1>2, <1>3, <1>4, <1>5 DEF FieldInv

LEMMA EraseCommandStep == FieldInv /\ Pin!EraseCommand => FieldInv'
<1> SUFFICES ASSUME FieldInv, Pin!EraseCommand PROVE FieldInv'
  OBVIOUS
<1> USE PlacesFacts
<1>1. SettingTypes'
  BY DEF FieldInv, SettingTypes, Fields, Pin!EraseCommand, Pin!Begin, Pin!Nothing, Pin!modem
<1>2. UnmetInv' /\ (command'.kind = "none" => step' = "idle" /\ said' = "nothing")
  BY DEF FieldInv, SettingTypes, Unmet, UnmetInv, Pin!EraseCommand, Pin!Begin,
     Pin!Nothing, Pin!modem
<1>3. SetInv'
  BY DEF FieldInv, SettingTypes, Fields, Unmet, UnmetInv, SetInv, Done, Pin!EraseCommand,
     Pin!Begin, Pin!Nothing, Pin!modem
<1>4. EraseInv'
  BY DEF FieldInv, SettingTypes, Fields, Unmet, UnmetInv, EraseInv, Pin!EraseCommand,
     Pin!Begin, Pin!Nothing, Pin!modem
<1>5. PrintInv'
  BY DEF FieldInv, SettingTypes, Fields, Unmet, UnmetInv, PrintInv, Pin!EraseCommand,
     Pin!Begin, Pin!Nothing, Pin!modem
<1> QED
  BY <1>1, <1>2, <1>3, <1>4, <1>5 DEF FieldInv

LEMMA PrintCommandStep == FieldInv /\ Pin!PrintCommand => FieldInv'
<1> SUFFICES ASSUME FieldInv, Pin!PrintCommand PROVE FieldInv'
  OBVIOUS
<1> USE PlacesFacts
<1>1. SettingTypes'
  BY DEF FieldInv, SettingTypes, Fields, Pin!PrintCommand, Pin!Begin, Pin!Nothing, Pin!modem
<1>2. UnmetInv' /\ (command'.kind = "none" => step' = "idle" /\ said' = "nothing")
  BY DEF FieldInv, SettingTypes, Unmet, UnmetInv, Pin!PrintCommand, Pin!Begin,
     Pin!Nothing, Pin!modem
<1>3. SetInv'
  BY DEF FieldInv, SettingTypes, Fields, Unmet, UnmetInv, SetInv, Done, Pin!PrintCommand,
     Pin!Begin, Pin!Nothing, Pin!modem
<1>4. EraseInv'
  BY DEF FieldInv, SettingTypes, Fields, Unmet, UnmetInv, EraseInv, Pin!PrintCommand,
     Pin!Begin, Pin!Nothing, Pin!modem
<1>5. PrintInv'
  BY DEF FieldInv, SettingTypes, Fields, Unmet, UnmetInv, PrintInv, Pin!PrintCommand,
     Pin!Begin, Pin!Nothing, Pin!modem
<1> QED
  BY <1>1, <1>2, <1>3, <1>4, <1>5 DEF FieldInv

LEMMA SeekToWriteStep == FieldInv /\ Pin!SeekToWrite => FieldInv'
<1> SUFFICES ASSUME FieldInv, Pin!SeekToWrite PROVE FieldInv'
  OBVIOUS
<1> USE PlacesFacts
<1>1. SettingTypes'
  BY DEF FieldInv, SettingTypes, Fields, Pin!SeekToWrite, Pin!Seek, Pin!modem, Pin!ghosts
<1>2. UnmetInv' /\ (command'.kind = "none" => step' = "idle" /\ said' = "nothing")
  BY DEF FieldInv, SettingTypes, Unmet, UnmetInv, Pin!SeekToWrite, Pin!Seek, Pin!modem,
     Pin!ghosts
<1>3. SetInv'
  BY DEF FieldInv, SettingTypes, Fields, Unmet, UnmetInv, SetInv, Done, Pin!SeekToWrite,
     Pin!Seek, Pin!modem, Pin!ghosts
<1>4. EraseInv'
  BY DEF FieldInv, SettingTypes, Fields, Unmet, UnmetInv, EraseInv, Pin!SeekToWrite,
     Pin!Seek, Pin!modem, Pin!ghosts
<1>5. PrintInv'
  BY DEF FieldInv, SettingTypes, Fields, Unmet, UnmetInv, PrintInv, Pin!SeekToWrite,
     Pin!Seek, Pin!modem, Pin!ghosts
<1> QED
  BY <1>1, <1>2, <1>3, <1>4, <1>5 DEF FieldInv

LEMMA WriteStep == FieldInv /\ Pin!Write => FieldInv'
<1> SUFFICES ASSUME FieldInv, Pin!Write PROVE FieldInv'
  OBVIOUS
<1> USE PlacesFacts
<1>1. SettingTypes'
  BY DEF FieldInv, SettingTypes, Fields, Pin!Write, Pin!Ends, Pin!modem, Pin!ghosts
<1>2. UnmetInv' /\ (command'.kind = "none" => step' = "idle" /\ said' = "nothing")
  BY DEF FieldInv, SettingTypes, Unmet, UnmetInv, Pin!Write, Pin!Ends, Pin!modem, Pin!ghosts
<1>3. SetInv'
  BY DEF FieldInv, SettingTypes, Fields, Unmet, UnmetInv, SetInv, Done, Pin!Write,
     Pin!Ends, Pin!modem, Pin!ghosts
<1>4. EraseInv'
  BY DEF FieldInv, SettingTypes, Fields, Unmet, UnmetInv, EraseInv, Pin!Write, Pin!Ends,
     Pin!modem, Pin!ghosts
<1>5. PrintInv'
  BY DEF FieldInv, SettingTypes, Fields, Unmet, UnmetInv, PrintInv, Pin!Write, Pin!Ends,
     Pin!modem, Pin!ghosts
<1> QED
  BY <1>1, <1>2, <1>3, <1>4, <1>5 DEF FieldInv

LEMMA WriteFailsStep == FieldInv /\ Pin!WriteFails => FieldInv'
<1> SUFFICES ASSUME FieldInv, Pin!WriteFails PROVE FieldInv'
  OBVIOUS
<1> USE PlacesFacts
<1>1. SettingTypes'
  <2>1. errors' \in Nat
    BY DEF FieldInv, SettingTypes, Pin!WriteFails
  <2>2. /\ command' \in [kind : {"none", "set", "erase", "print"}, field : Pin!Places,
                         text : Texts \cup {Pin!Empty}]
        /\ step' \in {"idle", "access"}
        /\ said' \in {"nothing", "OK", "error"} /\ (step' # "idle" => said' = "nothing")
    BY DEF FieldInv, SettingTypes, Pin!WriteFails, Pin!Ends
  <2>3. UNCHANGED <<file, before, shown, position, wants, met>>
    BY DEF Pin!WriteFails, Pin!modem
  <2> QED
    BY <2>1, <2>2, <2>3 DEF FieldInv, SettingTypes, Fields
<1>2. UnmetInv' /\ (command'.kind = "none" => step' = "idle" /\ said' = "nothing")
  BY DEF FieldInv, SettingTypes, Unmet, UnmetInv, Pin!WriteFails, Pin!Ends, Pin!modem
<1>3. SetInv'
  BY DEF FieldInv, SettingTypes, Fields, Unmet, UnmetInv, SetInv, Done, Pin!WriteFails,
     Pin!Ends, Pin!modem
<1>4. EraseInv'
  BY DEF FieldInv, SettingTypes, Fields, Unmet, UnmetInv, EraseInv, Pin!WriteFails,
     Pin!Ends, Pin!modem
<1>5. PrintInv'
  BY DEF FieldInv, SettingTypes, Fields, Unmet, UnmetInv, PrintInv, Pin!WriteFails,
     Pin!Ends, Pin!modem
<1> QED
  BY <1>1, <1>2, <1>3, <1>4, <1>5 DEF FieldInv

LEMMA SeekToReadStep == FieldInv /\ Pin!SeekToRead => FieldInv'
<1> SUFFICES ASSUME FieldInv, Pin!SeekToRead PROVE FieldInv'
  OBVIOUS
<1> USE PlacesFacts
<1>1. SettingTypes'
  BY DEF FieldInv, SettingTypes, Fields, Pin!SeekToRead, Pin!Seek, Pin!modem, Pin!ghosts
<1>2. UnmetInv' /\ (command'.kind = "none" => step' = "idle" /\ said' = "nothing")
  BY DEF FieldInv, SettingTypes, Unmet, UnmetInv, Pin!SeekToRead, Pin!Seek, Pin!modem,
     Pin!ghosts
<1>3. SetInv'
  BY DEF FieldInv, SettingTypes, Fields, Unmet, UnmetInv, SetInv, Done, Pin!SeekToRead,
     Pin!Seek, Pin!modem, Pin!ghosts
<1>4. EraseInv'
  BY DEF FieldInv, SettingTypes, Fields, Unmet, UnmetInv, EraseInv, Pin!SeekToRead,
     Pin!Seek, Pin!modem, Pin!ghosts
<1>5. PrintInv'
  BY DEF FieldInv, SettingTypes, Fields, Unmet, UnmetInv, PrintInv, Pin!SeekToRead,
     Pin!Seek, Pin!modem, Pin!ghosts
<1> QED
  BY <1>1, <1>2, <1>3, <1>4, <1>5 DEF FieldInv

LEMMA CheckStep == FieldInv /\ Pin!Check => FieldInv'
<1> SUFFICES ASSUME FieldInv, Pin!Check PROVE FieldInv'
  OBVIOUS
<1> USE PlacesFacts
<1>1. SettingTypes'
  BY DEF FieldInv, SettingTypes, Fields, Pin!Check, Pin!Ends, Pin!AfterRead, Pin!Found,
     Pin!modem, Pin!ghosts
<1>2. UnmetInv' /\ (command'.kind = "none" => step' = "idle" /\ said' = "nothing")
  BY DEF FieldInv, SettingTypes, Unmet, UnmetInv, Pin!Check, Pin!Ends, Pin!AfterRead,
     Pin!Found, Pin!modem, Pin!ghosts
<1>3. SetInv'
  BY DEF FieldInv, SettingTypes, Fields, Unmet, UnmetInv, SetInv, Done, Pin!Check,
     Pin!Ends, Pin!AfterRead, Pin!Found, Pin!modem, Pin!ghosts
<1>4. EraseInv'
  BY DEF FieldInv, SettingTypes, Fields, Unmet, UnmetInv, EraseInv, Pin!Check, Pin!Ends,
     Pin!AfterRead, Pin!Found, Pin!modem, Pin!ghosts
<1>5. PrintInv'
  BY DEF FieldInv, SettingTypes, Fields, Unmet, UnmetInv, PrintInv, Pin!Check, Pin!Ends,
     Pin!AfterRead, Pin!Found, Pin!modem, Pin!ghosts
<1> QED
  BY <1>1, <1>2, <1>3, <1>4, <1>5 DEF FieldInv

LEMMA ShowsStep == FieldInv /\ Pin!Shows => FieldInv'
<1> SUFFICES ASSUME FieldInv, Pin!Shows PROVE FieldInv'
  OBVIOUS
<1> USE PlacesFacts
<1>1. SettingTypes'
  BY DEF FieldInv, SettingTypes, Fields, Pin!Shows, Pin!Ends, Pin!AfterRead, Pin!Found,
     Pin!modem, Pin!ghosts
<1>2. UnmetInv' /\ (command'.kind = "none" => step' = "idle" /\ said' = "nothing")
  BY DEF FieldInv, SettingTypes, Unmet, UnmetInv, Pin!Shows, Pin!Ends, Pin!AfterRead,
     Pin!Found, Pin!modem, Pin!ghosts
<1>3. SetInv'
  BY DEF FieldInv, SettingTypes, Fields, Unmet, UnmetInv, SetInv, Done, Pin!Shows,
     Pin!Ends, Pin!AfterRead, Pin!Found, Pin!modem, Pin!ghosts
<1>4. EraseInv'
  BY DEF FieldInv, SettingTypes, Fields, Unmet, UnmetInv, EraseInv, Pin!Shows, Pin!Ends,
     Pin!AfterRead, Pin!Found, Pin!modem, Pin!ghosts
<1>5. PrintInv'
  BY DEF FieldInv, SettingTypes, Fields, Unmet, UnmetInv, PrintInv, Pin!Shows, Pin!Ends,
     Pin!AfterRead, Pin!Found, Pin!modem, Pin!ghosts
<1> QED
  BY <1>1, <1>2, <1>3, <1>4, <1>5 DEF FieldInv

LEMMA ModemSeeksStep == FieldInv /\ Pin!ModemSeeks => FieldInv'
<1> SUFFICES ASSUME FieldInv, Pin!ModemSeeks PROVE FieldInv'
  OBVIOUS
<1> USE PlacesFacts
<1>1. SettingTypes'
  BY DEF FieldInv, SettingTypes, Fields, Pin!ModemSeeks, Pin!ghosts
<1>2. UnmetInv' /\ (command'.kind = "none" => step' = "idle" /\ said' = "nothing")
  BY DEF FieldInv, SettingTypes, Unmet, UnmetInv, Pin!ModemSeeks, Pin!ghosts
<1>3. SetInv'
  BY DEF FieldInv, SettingTypes, Fields, Unmet, UnmetInv, SetInv, Done, Pin!ModemSeeks,
     Pin!ghosts
<1>4. EraseInv'
  BY DEF FieldInv, SettingTypes, Fields, Unmet, UnmetInv, EraseInv, Pin!ModemSeeks,
     Pin!ghosts
<1>5. PrintInv'
  BY DEF FieldInv, SettingTypes, Fields, Unmet, UnmetInv, PrintInv, Pin!ModemSeeks,
     Pin!ghosts
<1> QED
  BY <1>1, <1>2, <1>3, <1>4, <1>5 DEF FieldInv

LEMMA ModemReadsStep == FieldInv /\ Pin!ModemReads => FieldInv'
<1> SUFFICES ASSUME FieldInv, Pin!ModemReads PROVE FieldInv'
  OBVIOUS
<1> USE PlacesFacts
<1>1. SettingTypes'
  BY DEF FieldInv, SettingTypes, Fields, Pin!ModemReads, Pin!AfterRead, Pin!ghosts
<1>2. UnmetInv' /\ (command'.kind = "none" => step' = "idle" /\ said' = "nothing")
  BY DEF FieldInv, SettingTypes, Unmet, UnmetInv, Pin!ModemReads, Pin!AfterRead, Pin!ghosts
<1>3. SetInv'
  BY DEF FieldInv, SettingTypes, Fields, Unmet, UnmetInv, SetInv, Done, Pin!ModemReads,
     Pin!AfterRead, Pin!ghosts
<1>4. EraseInv'
  BY DEF FieldInv, SettingTypes, Fields, Unmet, UnmetInv, EraseInv, Pin!ModemReads,
     Pin!AfterRead, Pin!ghosts
<1>5. PrintInv'
  BY DEF FieldInv, SettingTypes, Fields, Unmet, UnmetInv, PrintInv, Pin!ModemReads,
     Pin!AfterRead, Pin!ghosts
<1> QED
  BY <1>1, <1>2, <1>3, <1>4, <1>5 DEF FieldInv

LEMMA FieldStays == FieldInv /\ UNCHANGED fields => FieldInv'
BY DEF FieldInv, fields, SettingTypes, Unmet, UnmetInv, SetInv, Done, EraseInv, PrintInv

(* settings_modem.c, cli_modem.c: the invariant through every step.        *)
LEMMA FieldStep == FieldInv /\ Pin!Next => FieldInv'
BY SetCommandStep, EraseCommandStep, PrintCommandStep, SeekToWriteStep, WriteStep,
   WriteFailsStep, SeekToReadStep, CheckStep, ShowsStep, ModemSeeksStep, ModemReadsStep,
   Zenon DEF Pin!Next, Pin!Shell

(* A command that said OK has done what it should.                         *)
LEMMA FieldShows == FieldInv => Pin!CommandIsTrue
<1> SUFFICES ASSUME FieldInv, said = "OK", Unmet, command.kind = "erase" => errors = 0
             PROVE  file = Pin!Result /\ (command.kind = "print" => shown = file)
  BY DEF Pin!CommandIsTrue, FieldInv, SettingTypes, Unmet
<1>1. CASE command.kind = "set"
  BY <1>1 DEF FieldInv, SetInv, Done, Pin!Result
<1>2. CASE command.kind = "erase"
  <2>1. \A f \in Pin!Places : file[f] = Pin!Empty
    BY <1>2 DEF FieldInv, EraseInv
  <2>2. file \in Fields
    BY DEF FieldInv, SettingTypes
  <2>3. file = [f \in Pin!Places |-> Pin!Empty]
    BY <2>1, <2>2 DEF Fields
  <2> QED
    BY <1>2, <2>3 DEF Pin!Result
<1>3. CASE command.kind = "print"
  <2>1. file = before /\ \A f \in Pin!Places : shown[f] = file[f]
    BY <1>3 DEF FieldInv, PrintInv
  <2>2. file \in Fields /\ shown \in Fields
    BY DEF FieldInv, SettingTypes
  <2>3. shown = file
    BY <2>1, <2>2 DEF Fields
  <2> QED
    BY <1>3, <2>1, <2>3 DEF Pin!Result
<1>4. command.kind \in {"none", "set", "erase", "print"}
  BY DEF FieldInv, SettingTypes
<1> QED
  BY <1>1, <1>2, <1>3, <1>4 DEF FieldInv

-----------------------------------------------------------------------------
(* The stream: an escaped message is a pile of pieces, taken down from the *)
(* front.                                                                  *)

(* Induction, said of a set of numbers.                                    *)
LEMMA Induction ==
  ASSUME NEW T, 0 \in T, \A n \in Nat : n \in T => n + 1 \in T
  PROVE  \A n \in Nat : n \in T
<1> DEFINE U == {n \in Nat : n \notin T}
<1>1. ASSUME U # {} PROVE FALSE
  <2>1. U \subseteq Nat
    OBVIOUS
  <2>2. PICK n \in U : \A m \in U : ~(<<m, n>> \in OpToRel(<, Nat))
    BY <1>1, <2>1, NatLessThanWellFounded, WFMin
  <2>3. \A a, b \in Nat : a < b => <<a, b>> \in OpToRel(<, Nat)
    BY DEF OpToRel
  <2>4. \A m \in U : ~(m < n)
    BY <2>1, <2>2, <2>3, Zenon
  <2>5. n # 0 /\ n \in Nat
    BY <2>2
  <2>6. n - 1 \in Nat /\ n - 1 < n /\ n = (n - 1) + 1
    BY <2>5
  <2>7. n - 1 \in T
    BY <2>4, <2>6
  <2> QED
    BY <2>2, <2>6, <2>7
<1> QED
  BY <1>1

(* SequencesExt: the pieces of a sequence put together, one by one.        *)
Piled(s, f, n) ==
  f = [k \in 1 .. n |-> IF k = 1 THEN s[k] ELSE f[k - 1] \o s[k]]

(* There is such a pile of every height.                                   *)
LEMMA PileExists ==
  ASSUME NEW s
  PROVE  \A n \in Nat : \E f : Piled(s, f, n)
<1> DEFINE T == {n \in Nat : \E f : Piled(s, f, n)}
<1>1. 0 \in T
  <2>1. Piled(s, [k \in 1 .. 0 |-> s[k]], 0)
    BY DEF Piled
  <2> QED
    BY <2>1
<1>2. ASSUME NEW n \in Nat, n \in T PROVE n + 1 \in T
  <2>1. PICK f : Piled(s, f, n)
    BY <1>2
  <2> DEFINE m == n + 1
             g == [k \in 1 .. m |->
                     IF k = m THEN (IF m = 1 THEN s[m] ELSE f[m - 1] \o s[m]) ELSE f[k]]
  <2>2. \A k \in 1 .. n : f[k] = IF k = 1 THEN s[k] ELSE f[k - 1] \o s[k]
    BY <2>1 DEF Piled
  <2>3. \A k \in 1 .. n : g[k] = f[k]
    OBVIOUS
  <2>4. g[m] = IF m = 1 THEN s[m] ELSE f[m - 1] \o s[m]
    OBVIOUS
  <2>5. ASSUME NEW k \in 1 .. m
        PROVE  g[k] = IF k = 1 THEN s[k] ELSE g[k - 1] \o s[k]
    <3> HIDE DEF g
    <3>1. CASE k = m
      <4>1. m # 1 => g[m - 1] = f[m - 1]
        BY <2>3
      <4> QED
        BY <4>1, <2>4, <3>1
    <3>2. CASE k # m
      <4>1. g[k] = f[k] /\ k \in 1 .. n /\ (k # 1 => g[k - 1] = f[k - 1])
        BY <2>3, <3>2
      <4> QED
        BY <4>1, <2>2
    <3> QED
      BY <3>1, <3>2
  <2>6. Piled(s, g, m)
    BY <2>5, Zenon DEF Piled
  <2> QED
    BY <2>6
<1> HIDE DEF T
<1>3. \A n \in Nat : n \in T
  BY <1>1, <1>2, Induction
<1> QED
  BY <1>3 DEF T

(* FlattenSeq is the top of the pile.                                      *)
LEMMA PileOfSeq ==
  ASSUME NEW s, Len(s) \in Nat \ {0}
  PROVE  \E f : Piled(s, f, Len(s)) /\ Udp!FlattenSeq(s) = f[Len(s)]
<1> DEFINE f == CHOOSE f : Piled(s, f, Len(s))
<1>1. Piled(s, f, Len(s))
  BY PileExists, Zenon
<1>2. Udp!FlattenSeq(s) = f[Len(s)]
  BY Zenon DEF Udp!FlattenSeq, Piled
<1> QED
  BY <1>1, <1>2, Zenon

(* Every piece but the first goes on what is there already.                *)
LEMMA PileSteps ==
  ASSUME NEW s, NEW n \in Nat, NEW f, Piled(s, f, n)
  PROVE  \A k \in 1 .. n - 1 : f[k + 1] = f[k] \o s[k + 1]
<1>1. \A k \in 1 .. n : f[k] = IF k = 1 THEN s[k] ELSE f[k - 1] \o s[k]
  BY DEF Piled
<1> TAKE k \in 1 .. n - 1
<1>2. k + 1 \in 1 .. n /\ k + 1 # 1 /\ (k + 1) - 1 = k
  OBVIOUS
<1> QED
  BY <1>1, <1>2, Zenon

(* A pile of sequences is a sequence.                                      *)
LEMMA PileOfLines ==
  ASSUME NEW S, NEW n \in Nat, NEW s \in [1 .. n -> Seq(S)], NEW f, Piled(s, f, n)
  PROVE  \A k \in 1 .. n : f[k] \in Seq(S)
<1>1. \A k \in 1 .. n : f[k] = IF k = 1 THEN s[k] ELSE f[k - 1] \o s[k]
  BY DEF Piled
<1> DEFINE T == {k \in Nat : k + 1 \in 1 .. n => f[k + 1] \in Seq(S)}
<1>2. 0 \in T
  BY <1>1
<1>3. ASSUME NEW k \in Nat, k \in T PROVE k + 1 \in T
  <2>1. SUFFICES ASSUME k + 2 \in 1 .. n PROVE f[k + 2] \in Seq(S)
    OBVIOUS
  <2>2. f[k + 1] \in Seq(S) /\ s[k + 2] \in Seq(S)
    BY <1>3, <2>1
  <2>3. f[k + 2] = f[k + 1] \o s[k + 2]
    <3>1. k + 2 # 1 /\ (k + 2) - 1 = k + 1
      OBVIOUS
    <3> QED
      BY <1>1, <2>1, <3>1, Zenon
  <2> QED
    BY <2>2, <2>3, ConcatProperties
<1> HIDE DEF T
<1>4. \A k \in Nat : k \in T
  BY <1>2, <1>3, Induction
<1>5. \A k \in 1 .. n : k - 1 \in Nat /\ (k - 1) + 1 = k
  OBVIOUS
<1> QED
  BY <1>4, <1>5 DEF T

(* What remains of a pile, and of an end behind it, from each piece on.    *)
Unpiled(S, s, e, n, R, k) ==
  /\ R \in [k .. n -> Seq(S)] /\ R[n] = e
  /\ \A l \in k .. n - 1 : R[l] = s[l + 1] \o R[l + 1]

(* One piece more comes off the pile.                                      *)
LEMMA UnpiledMore ==
  \A S : \A n \in Nat : \A s \in [1 .. n -> Seq(S)] : \A e \in Seq(S) :
  \A k \in 0 .. n - 1 : \A R : Unpiled(S, s, e, n, R, k + 1) =>
    \E Q : Unpiled(S, s, e, n, Q, k) /\ Q[k] = s[k + 1] \o R[k + 1]
<1> SUFFICES
      ASSUME NEW S, NEW n \in Nat, NEW s \in [1 .. n -> Seq(S)], NEW e \in Seq(S),
             NEW k \in 0 .. n - 1, NEW R, Unpiled(S, s, e, n, R, k + 1)
      PROVE  \E Q : Unpiled(S, s, e, n, Q, k) /\ Q[k] = s[k + 1] \o R[k + 1]
  BY Zenon
<1> DEFINE q == s[k + 1] \o R[k + 1]
<1>1. R \in [k + 1 .. n -> Seq(S)] /\ R[n] = e
  BY DEF Unpiled
<1>2. q \in Seq(S)
  BY <1>1, ConcatProperties
<1> HIDE DEF q
<1> DEFINE Q == [l \in k .. n |-> IF l = k THEN q ELSE R[l]]
<1>3. Q \in [k .. n -> Seq(S)] /\ Q[n] = e /\ Q[k] = q
  BY <1>1, <1>2
<1>4. \A l \in k + 1 .. n : Q[l] = R[l]
  OBVIOUS
<1> HIDE DEF Q
<1>5. ASSUME NEW l \in k .. n - 1 PROVE Q[l] = s[l + 1] \o Q[l + 1]
  <2>1. CASE l = k
    <3>1. k + 1 \in k + 1 .. n
      OBVIOUS
    <3>2. Q[k + 1] = R[k + 1]
      BY <3>1, <1>4, Zenon
    <3> QED
      BY <2>1, <3>2, <1>3, Zenon DEF q
  <2>2. CASE l # k
    <3>1. l \in k + 1 .. n - 1 /\ l \in k + 1 .. n /\ l + 1 \in k + 1 .. n
      BY <2>2
    <3>2. R[l] = s[l + 1] \o R[l + 1]
      BY <3>1, Zenon DEF Unpiled
    <3> QED
      BY <3>1, <3>2, <1>4, Zenon
  <2> QED
    BY <2>1, <2>2
<1>6. Unpiled(S, s, e, n, Q, k)
  BY <1>3, <1>5, Zenon DEF Unpiled
<1> QED
  BY <1>3, <1>6, Zenon DEF q

(* The whole of a pile, taken down.                                        *)
LEMMA UnpiledAll ==
  ASSUME NEW S, NEW n \in Nat, n # 0, NEW s \in [1 .. n -> Seq(S)], NEW e \in Seq(S),
         NEW f, Piled(s, f, n)
  PROVE  \E R : Unpiled(S, s, e, n, R, 0) /\ R[0] = f[n] \o e
<1>0. \A k \in 0 .. n - 1 : \A R : Unpiled(S, s, e, n, R, k + 1) =>
        \E Q : Unpiled(S, s, e, n, Q, k) /\ Q[k] = s[k + 1] \o R[k + 1]
  <2>1. n \in Nat
    OBVIOUS
  <2>2. \A n1 \in Nat : \A s1 \in [1 .. n1 -> Seq(S)] : \A e1 \in Seq(S) :
        \A k \in 0 .. n1 - 1 : \A R : Unpiled(S, s1, e1, n1, R, k + 1) =>
          \E Q : Unpiled(S, s1, e1, n1, Q, k) /\ Q[k] = s1[k + 1] \o R[k + 1]
    BY UnpiledMore, Zenon
  <2>3. \A e1 \in Seq(S) :
        \A k \in 0 .. n - 1 : \A R : Unpiled(S, s, e1, n, R, k + 1) =>
          \E Q : Unpiled(S, s, e1, n, Q, k) /\ Q[k] = s[k + 1] \o R[k + 1]
    BY <2>1, <2>2, Zenon
  <2> QED
    BY <2>3, Zenon
<1>1. /\ \A k \in 1 .. n : f[k] \in Seq(S)
      /\ f[1] = s[1]
      /\ \A k \in 1 .. n - 1 : f[k + 1] = f[k] \o s[k + 1]
  <2>1. \A k \in 1 .. n : f[k] \in Seq(S)
    BY PileOfLines
  <2>2. f[1] = s[1]
    <3>1. 1 \in 1 .. n
      OBVIOUS
    <3> QED
      BY <3>1, Zenon DEF Piled
  <2>3. \A k \in 1 .. n - 1 : f[k + 1] = f[k] \o s[k + 1]
    BY PileSteps
  <2> QED
    BY <2>1, <2>2, <2>3, Zenon
<1> DEFINE Good(k) == \E R : Unpiled(S, s, e, n, R, k) /\ f[k] \o R[k] = f[n] \o e
           T == {d \in Nat : d < n => Good(n - d)}
<1>2. 0 \in T
  <2> DEFINE R == [k \in n .. n |-> e]
  <2>1. R \in [n .. n -> Seq(S)] /\ R[n] = e /\ n .. n - 1 = {} /\ n - 0 = n
    OBVIOUS
  <2> HIDE DEF R
  <2>2. Unpiled(S, s, e, n, R, n)
    BY <2>1, Zenon DEF Unpiled
  <2>3. Good(n)
    BY <2>1, <2>2, Zenon
  <2> HIDE DEF Good
  <2> QED
    BY <2>1, <2>3
<1>3. ASSUME NEW d \in Nat, d \in T PROVE d + 1 \in T
  <2> DEFINE k == n - (d + 1)
  <2> HIDE DEF Good
  <2>1. SUFFICES ASSUME d + 1 < n PROVE Good(k)
    OBVIOUS
  <2>2. k \in 1 .. n - 1 /\ k + 1 = n - d /\ d < n
    BY <2>1
  <2>3. Good(k + 1)
    BY <1>3, <2>2
  <2> HIDE DEF k, T
  <2>4. PICK R : Unpiled(S, s, e, n, R, k + 1) /\ f[k + 1] \o R[k + 1] = f[n] \o e
    BY <2>3, Zenon DEF Good
  <2>5. PICK Q : Unpiled(S, s, e, n, Q, k) /\ Q[k] = s[k + 1] \o R[k + 1]
    <3>1. k \in 0 .. n - 1 /\ n \in Nat
      BY <2>2
    <3> QED
      BY <3>1, <2>4, <1>0, Zenon
  <2>6. f[k] \in Seq(S) /\ s[k + 1] \in Seq(S) /\ R[k + 1] \in Seq(S)
    BY <1>1, <2>2, <2>4 DEF Unpiled
  <2>7. (f[k] \o s[k + 1]) \o R[k + 1] = f[k] \o (s[k + 1] \o R[k + 1])
    <3>1. \A a, b, c \in Seq(S) : (a \o b) \o c = a \o (b \o c)
      BY ConcatAssociative
    <3> QED
      BY <2>6, <3>1, Zenon
  <2>8. f[k + 1] = f[k] \o s[k + 1]
    BY <1>1, <2>2
  <2>9. f[k] \o Q[k] = f[n] \o e
    BY <2>4, <2>5, <2>7, <2>8, Zenon
  <2> QED
    BY <2>5, <2>9, Zenon DEF Good
<1> HIDE DEF T
<1>4. \A d \in Nat : d \in T
  BY <1>2, <1>3, Induction
<1>5. Good(1)
  <2>1. n - 1 \in T /\ n - 1 < n /\ n - (n - 1) = 1 /\ n - 1 \in Nat
    BY <1>4
  <2> QED
    BY <2>1 DEF T
<1>6. PICK R : Unpiled(S, s, e, n, R, 1) /\ f[1] \o R[1] = f[n] \o e
  BY <1>5
<1>7. PICK Q : Unpiled(S, s, e, n, Q, 0) /\ Q[0] = s[1] \o R[1]
  <2>1. 0 \in 0 .. n - 1 /\ 0 + 1 = 1 /\ n \in Nat
    OBVIOUS
  <2>2. Unpiled(S, s, e, n, R, 0 + 1)
    BY <1>6, <2>1
  <2>3. \E Q : Unpiled(S, s, e, n, Q, 0) /\ Q[0] = s[0 + 1] \o R[0 + 1]
    BY <2>1, <2>2, <1>0, Zenon
  <2> QED
    BY <2>1, <2>3, Zenon
<1> QED
  BY <1>1, <1>6, <1>7, Zenon

(* The bytes that mean something are different ones.                       *)
LEMMA ByteNames ==
  /\ Udp!DLE \in Udp!Bytes /\ Udp!ETX \in Udp!Bytes
  /\ Udp!DLE # Udp!ETX /\ Udp!None # Udp!DLE
BY DEF Udp!DLE, Udp!ETX, Udp!None, Udp!Bytes

(* A sequence that begins with one element, and with two.                  *)
LEMMA OneBefore ==
  ASSUME NEW S, NEW a \in S, NEW s \in Seq(S)
  PROVE  /\ <<a>> \in Seq(S) /\ <<a>> \o s \in Seq(S) /\ <<a>> \o s # <<>>
         /\ Head(<<a>> \o s) = a /\ Tail(<<a>> \o s) = s
<1>1. <<a>> \in Seq(S) /\ Len(<<a>>) = 1 /\ <<a>>[1] = a
  OBVIOUS
<1> DEFINE o == <<a>>
<1> HIDE DEF o
<1>2. o \in Seq(S) /\ Len(o) = 1 /\ o[1] = a
  BY <1>1 DEF o
<1> DEFINE t == o \o s
<1>3. /\ t \in Seq(S) /\ Len(t) = 1 + Len(s) /\ Len(s) \in Nat
      /\ \A k \in 1 .. 1 + Len(s) : t[k] = IF k <= 1 THEN o[k] ELSE s[k - 1]
  <2>1. /\ t \in Seq(S) /\ Len(t) = Len(o) + Len(s)
        /\ \A k \in 1 .. Len(o) + Len(s) : t[k] = IF k <= Len(o) THEN o[k] ELSE s[k - Len(o)]
    BY <1>2, ConcatProperties
  <2>2. Len(s) \in Nat
    BY LenProperties
  <2> HIDE DEF t
  <2> QED
    BY <1>2, <2>1, <2>2
<1> HIDE DEF t
<1>4. t # <<>> /\ Head(t) = a
  <2>1. t[1] = a
    BY <1>2, <1>3
  <2> QED
    BY <1>3, <2>1
<1>5. Tail(t) = s
  <2>1. /\ Tail(t) \in Seq(S) /\ Len(Tail(t)) = Len(t) - 1
        /\ \A k \in 1 .. Len(Tail(t)) : Tail(t)[k] = t[k + 1]
    BY <1>3, <1>4, HeadTailProperties
  <2>2. Len(Tail(t)) = Len(s)
    BY <1>3, <2>1
  <2>3. \A k \in 1 .. Len(s) : Tail(t)[k] = s[k]
    BY <1>3, <2>1, <2>2
  <2> QED
    BY <2>1, <2>2, <2>3, SeqEqual
<1> QED
  BY <1>1, <1>3, <1>4, <1>5, Zenon DEF t, o

LEMMA TwoBefore ==
  ASSUME NEW S, NEW a \in S, NEW b \in S, NEW s \in Seq(S)
  PROVE  /\ <<a, b>> \in Seq(S) /\ <<a, b>> \o s \in Seq(S) /\ <<a, b>> \o s # <<>>
         /\ Head(<<a, b>> \o s) = a /\ Tail(<<a, b>> \o s) = <<b>> \o s
<1>1. <<a, b>> = <<a>> \o <<b>> /\ <<a>> \in Seq(S) /\ <<b>> \in Seq(S)
  <2>1. <<a>> \in Seq(S) /\ <<b>> \in Seq(S)
    OBVIOUS
  <2>2. <<a, b>> = Append(<<a>>, b)
    OBVIOUS
  <2>3. Append(<<a>>, b) = <<a>> \o <<b>>
    BY <2>1, AppendIsConcat
  <2> QED
    BY <2>1, <2>2, <2>3, Zenon
<1> DEFINE x == <<a>>
           y == <<b>>
<1> HIDE DEF x, y
<1>2. (x \o y) \o s = x \o (y \o s)
  <2>1. x \in Seq(S) /\ y \in Seq(S)
    BY <1>1 DEF x, y
  <2> QED
    BY <2>1, ConcatAssociative
<1>3. <<a, b>> \o s = <<a>> \o (<<b>> \o s)
  BY <1>1, <1>2, Zenon DEF x, y
<1>4. <<a, b>> \in Seq(S)
  OBVIOUS
<1> DEFINE t == <<b>> \o s
<1>5. t \in Seq(S)
  BY OneBefore
<1> HIDE DEF t
<1>6. /\ <<a>> \o t \in Seq(S) /\ <<a>> \o t # <<>>
      /\ Head(<<a>> \o t) = a /\ Tail(<<a>> \o t) = t
  BY <1>5, OneBefore
<1> QED
  BY <1>3, <1>4, <1>6, Zenon DEF t

(* A beginning of a sequence and its next element.                         *)
LEMMA OneMore ==
  ASSUME NEW S, NEW s \in Seq(S), NEW k \in 0 .. Len(s) - 1
  PROVE  SubSeq(s, 1, k + 1) = Append(SubSeq(s, 1, k), s[k + 1])
<1> DEFINE p == SubSeq(s, 1, k)
           q == SubSeq(s, 1, k + 1)
<1>0. Len(s) \in Nat /\ \A l \in 1 .. Len(s) : s[l] \in S
  BY LenProperties, ElementOfSeq
<1>1. p \in Seq(S) /\ Len(p) = k /\ \A l \in 1 .. k : p[l] = s[l]
  BY <1>0, SubSeqProperties
<1>2. q \in Seq(S) /\ Len(q) = k + 1 /\ \A l \in 1 .. k + 1 : q[l] = s[l]
  BY <1>0, SubSeqProperties
<1> HIDE DEF p, q
<1> DEFINE e == s[k + 1]
           r == Append(p, e)
<1>3. e \in S
  BY <1>0
<1> HIDE DEF e
<1>4. /\ r \in Seq(S) /\ Len(r) = k + 1
      /\ \A l \in 1 .. k : r[l] = p[l]
      /\ r[k + 1] = e
  BY <1>1, <1>3, AppendProperties
<1> HIDE DEF r
<1>5. \A l \in 1 .. k + 1 : q[l] = r[l]
  BY <1>1, <1>2, <1>4 DEF e
<1>6. q = r
  BY <1>2, <1>4, <1>5, SeqEqual
<1> QED
  BY <1>6 DEF p, q, r, e

(* The last element stays last until it is the first one.                  *)
LEMMA LastOfTail ==
  ASSUME NEW S, NEW s \in Seq(S), s # <<>>
  PROVE  /\ Tail(s) \in Seq(S) /\ Head(s) \in S
         /\ Tail(s) # <<>> => Tail(s)[Len(Tail(s))] = s[Len(s)]
         /\ Tail(s) = <<>> => Head(s) = s[Len(s)]
<1>1. /\ Head(s) \in S /\ Tail(s) \in Seq(S) /\ Len(Tail(s)) = Len(s) - 1
      /\ \A k \in 1 .. Len(Tail(s)) : Tail(s)[k] = s[k + 1]
  BY HeadTailProperties
<1>2. Len(s) \in Nat
  BY LenProperties
<1> DEFINE t == Tail(s)
<1>3. t # <<>> => Len(t) \in Nat \ {0}
  BY <1>1, EmptySeq
<1>4. t = <<>> => Len(s) = 1
  BY <1>1, <1>2
<1>5. Head(s) = s[1]
  OBVIOUS
<1> HIDE DEF t
<1>6. t # <<>> => t[Len(t)] = s[Len(s)]
  BY <1>1, <1>2, <1>3 DEF t
<1> QED
  BY <1>1, <1>4, <1>5, <1>6 DEF t

(* What is still to come of a message from each of its bytes on.           *)
Rest(m, R) ==
  /\ R \in [0 .. Len(m) -> Seq(Udp!Bytes)] /\ R[Len(m)] = <<Udp!ETX>>
  /\ \A k \in 0 .. Len(m) - 1 : R[k] = Udp!Escaped(m[k + 1]) \o R[k + 1]

(* An escaped byte is one or two bytes.                                    *)
LEMMA EscapedIsSeq ==
  ASSUME NEW b \in Udp!Bytes
  PROVE  Udp!Escaped(b) \in Seq(Udp!Bytes)
<1>1. <<b>> \in Seq(Udp!Bytes) /\ <<Udp!DLE, b>> \in Seq(Udp!Bytes)
  BY ByteNames, OneBefore, TwoBefore, EmptySeq
<1> QED
  BY <1>1, Zenon DEF Udp!Escaped

(* What an ETX is put behind ends in it.                                   *)
LEMMA EndsInEtx ==
  ASSUME NEW s \in Seq(Udp!Bytes), NEW w, w = s \o <<Udp!ETX>>
  PROVE  w \in Seq(Udp!Bytes) /\ w # <<>> /\ w[Len(w)] = Udp!ETX
<1> DEFINE e == Udp!ETX
           o == <<e>>
<1>1. e \in Udp!Bytes
  BY ByteNames
<1> HIDE DEF e
<1>2. o \in Seq(Udp!Bytes) /\ Len(o) = 1 /\ o[1] = e
  BY <1>1
<1> HIDE DEF o
<1>3. /\ s \o o \in Seq(Udp!Bytes) /\ Len(s \o o) = Len(s) + Len(o)
      /\ \A k \in 1 .. Len(s) + Len(o) :
           (s \o o)[k] = IF k <= Len(s) THEN s[k] ELSE o[k - Len(s)]
  BY <1>2, ConcatProperties
<1>4. w = s \o o
  BY DEF o, e
<1>5. Len(s) \in Nat
  BY LenProperties
<1>6. /\ w \in Seq(Udp!Bytes) /\ Len(w) = Len(s) + 1
      /\ \A k \in 1 .. Len(s) + 1 : w[k] = IF k <= Len(s) THEN s[k] ELSE o[k - Len(s)]
  BY <1>2, <1>3, <1>4, Zenon
<1>7. w[Len(s) + 1] = o[(Len(s) + 1) - Len(s)]
  BY <1>5, <1>6
<1>8. (Len(s) + 1) - Len(s) = 1
  BY <1>5
<1>9. w[Len(w)] = e
  BY <1>2, <1>6, <1>7, <1>8, Zenon
<1>10. w # <<>>
  BY <1>5, <1>6
<1> QED
  BY <1>6, <1>9, <1>10 DEF e

(* wavecom.c, UdpSdWrite: what is written, from its first byte on.         *)
LEMMA WrittenIsRest ==
  ASSUME NEW m \in Seq(Udp!Bytes)
  PROVE  /\ \E R : Rest(m, R) /\ R[0] = Udp!Written(m)
         /\ Udp!Written(m) \in Seq(Udp!Bytes) /\ Udp!Written(m) # <<>>
         /\ Udp!Written(m)[Len(Udp!Written(m))] = Udp!ETX
<1> DEFINE n == Len(m)
           q == [k \in 1 .. n |-> Udp!Escaped(m[k])]
           e == <<Udp!ETX>>
           w == Udp!FlattenSeq(q) \o e
<1>0. Udp!Written(m) = w
  BY Zenon DEF Udp!Written
<1>1. n \in Nat
  BY LenProperties
<1>2. \A k \in 1 .. n : Udp!Escaped(m[k]) \in Seq(Udp!Bytes)
  BY ElementOfSeq, EscapedIsSeq
<1> HIDE DEF n
<1>3. q \in [1 .. n -> Seq(Udp!Bytes)] /\ \A k \in 1 .. n : q[k] = Udp!Escaped(m[k])
  BY <1>2
<1>4. Len(q) = n
  BY <1>1, <1>3
<1>5. e \in Seq(Udp!Bytes)
  BY ByteNames, EmptySeq, OneBefore
<1> HIDE DEF q, e
<1>6. CASE n = 0
  <2>1. Udp!FlattenSeq(q) = <<>>
    <3>1. Udp!FlattenSeq(q) = q
      BY <1>4, <1>6, Zenon DEF Udp!FlattenSeq
    <3>2. q = <<>>
      BY <1>3, <1>6
    <3> QED
      BY <3>1, <3>2
  <2>2. w = e
    BY <2>1, <1>5, ConcatEmptySeq
  <2> DEFINE R == [k \in 0 .. 0 |-> e]
  <2>3. R \in [0 .. 0 -> Seq(Udp!Bytes)] /\ R[0] = e /\ 0 .. 0 - 1 = {}
    BY <1>5
  <2> HIDE DEF R
  <2>4. Rest(m, R)
    BY <2>3, <1>6, Zenon DEF Rest, n, e
  <2>5. <<>> \in Seq(Udp!Bytes)
    BY EmptySeq
  <2>6. w = <<>> \o <<Udp!ETX>>
    BY <2>1, Zenon DEF e
  <2> HIDE DEF w
  <2>7. w \in Seq(Udp!Bytes) /\ w # <<>> /\ w[Len(w)] = Udp!ETX
    BY <2>5, <2>6, EndsInEtx
  <2> QED
    BY <2>2, <2>3, <2>4, <2>7, <1>0, Zenon
<1>7. CASE n # 0
  <2>1. PICK f : Piled(q, f, n) /\ Udp!FlattenSeq(q) = f[n]
    <3>1. Len(q) \in Nat \ {0}
      BY <1>1, <1>4, <1>7
    <3> QED
      BY <3>1, <1>4, PileOfSeq, Zenon
  <2>2. PICK R : Unpiled(Udp!Bytes, q, e, n, R, 0) /\ R[0] = f[n] \o e
    BY <1>1, <1>3, <1>5, <1>7, <2>1, UnpiledAll
  <2>3. R[0] = w
    BY <2>1, <2>2, Zenon
  <2>4. f[n] \in Seq(Udp!Bytes)
    <3>1. n \in 1 .. n
      BY <1>1, <1>7
    <3>2. \A k \in 1 .. n : f[k] \in Seq(Udp!Bytes)
      BY <1>1, <1>3, <2>1, PileOfLines
    <3> QED
      BY <3>1, <3>2
  <2>5. w = f[n] \o <<Udp!ETX>>
    BY <2>1, Zenon DEF e
  <2> HIDE DEF w
  <2>6. w \in Seq(Udp!Bytes) /\ w # <<>> /\ w[Len(w)] = Udp!ETX
    BY <2>4, <2>5, EndsInEtx
  <2>7. Rest(m, R)
    <3>1. /\ R \in [0 .. n -> Seq(Udp!Bytes)] /\ R[n] = e
          /\ \A k \in 0 .. n - 1 : R[k] = q[k + 1] \o R[k + 1]
      BY <2>2, Zenon DEF Unpiled
    <3>2. \A k \in 0 .. n - 1 : q[k + 1] = Udp!Escaped(m[k + 1])
      BY <1>1, <1>3
    <3>3. \A k \in 0 .. n - 1 : R[k] = Udp!Escaped(m[k + 1]) \o R[k + 1]
      BY <3>1, <3>2, Zenon
    <3> QED
      BY <3>1, <3>3, Zenon DEF Rest, n, e
  <2> QED
    BY <2>3, <2>6, <2>7, <1>0, Zenon
<1> QED
  BY <1>6, <1>7

(* link_cc_unpacker.c: what is on the line and what was read make up the   *)
(* message, byte for byte.                                                 *)
HalfRead(m) ==
  \E R : Rest(m, R) /\ \E k \in 0 .. Len(m) :
    /\ got = SubSeq(m, 1, k)
    /\ \/ prev_c = Udp!None /\ line = R[k]
       \/ prev_c = Udp!DLE /\ k < Len(m) /\ line = <<m[k + 1]>> \o R[k + 1]

WholeRead == line = <<>> /\ prev_c = Udp!None /\ got = Append(msg, Udp!ETX)

StreamInv ==
  /\ msg \in Seq(Udp!Bytes) /\ line \in Seq(Udp!Bytes)
  /\ prev_c \in {Udp!None, Udp!DLE}
  /\ line = <<>> => prev_c = Udp!None
  /\ line # <<>> => line[Len(line)] = Udp!ETX
  /\ ~split => WholeRead \/ HalfRead(msg)

(* At first nothing is on the line.                                        *)
LEMMA StreamStart == ASSUME Udp!Init PROVE StreamInv
<1>1. /\ msg = <<>> /\ line = <<>> /\ prev_c = Udp!None
      /\ got = <<Udp!ETX>> /\ split = FALSE
  BY DEF Udp!Init
<1>2. <<>> \in Seq(Udp!Bytes)
  BY EmptySeq
<1>3. Append(<<>>, Udp!ETX) = <<Udp!ETX>>
  OBVIOUS
<1>4. WholeRead
  BY <1>1, <1>3, Zenon DEF WholeRead
<1> QED
  BY <1>1, <1>2, <1>4, Zenon DEF StreamInv

LEMMA SendStep == ASSUME StreamInv, Udp!Send PROVE StreamInv'
<1>1. /\ line = <<>> /\ msg' \in Udp!Messages /\ line' = Udp!Written(msg')
      /\ got' = <<>> /\ split' = FALSE /\ prev_c' = prev_c
  BY DEF Udp!Send
<1>2. prev_c = Udp!None
  BY <1>1, Zenon DEF StreamInv
<1>3. msg' \in Seq(Udp!Bytes)
  <2>1. msg' \in UNION {[1 .. n -> Udp!Bytes] : n \in 0 .. MaxLen}
    BY <1>1, Zenon DEF Udp!Messages, Udp!BoundedSeq, Udp!SeqOf
  <2>2. MaxLen \in Nat
    BY EscapeConstants DEF Udp!EscapeAssumption
  <2>3. PICK n \in 0 .. MaxLen : msg' \in [1 .. n -> Udp!Bytes]
    BY <2>1
  <2>4. n \in Nat
    BY <2>2, <2>3
  <2> QED
    BY <2>3, <2>4
<1>4. PICK R : Rest(msg', R) /\ R[0] = Udp!Written(msg')
  BY <1>3, WrittenIsRest
<1>5. /\ line' \in Seq(Udp!Bytes) /\ line' # <<>>
      /\ line'[Len(line')] = Udp!ETX
  <2> DEFINE m == msg'
  <2>1. m \in Seq(Udp!Bytes)
    BY <1>3
  <2> HIDE DEF m
  <2>2. /\ Udp!Written(m) \in Seq(Udp!Bytes) /\ Udp!Written(m) # <<>>
        /\ Udp!Written(m)[Len(Udp!Written(m))] = Udp!ETX
    BY <2>1, WrittenIsRest
  <2> QED
    BY <1>1, <2>2, Zenon DEF m
<1>6. HalfRead(msg)'
  <2>1. 0 \in 0 .. Len(msg')
    BY <1>3, LenProperties
  <2>2. got' = SubSeq(msg', 1, 0)
    BY <1>1, SubSeqEmpty
  <2>3. prev_c' = Udp!None /\ line' = R[0]
    BY <1>1, <1>2, <1>4, Zenon
  <2> QED
    BY <1>4, <2>1, <2>2, <2>3, Zenon DEF HalfRead
<1> QED
  BY <1>1, <1>2, <1>3, <1>5, <1>6, Zenon DEF StreamInv

(* What the reader makes of one byte while a message comes as it is.       *)
LEMMA TakeReads ==
  ASSUME StreamInv, HalfRead(msg), line # <<>>, line' = Tail(line), msg' = msg,
         IF Udp!IsEscape(Head(line))
         THEN prev_c' = Udp!DLE /\ got' = got
         ELSE prev_c' = Udp!None /\ got' = Append(got, Head(line))
  PROVE  (WholeRead \/ HalfRead(msg))'
<1>0. msg \in Seq(Udp!Bytes)
  BY DEF StreamInv
<1>1. PICK R : Rest(msg, R) /\ \E k \in 0 .. Len(msg) :
        /\ got = SubSeq(msg, 1, k)
        /\ \/ prev_c = Udp!None /\ line = R[k]
           \/ prev_c = Udp!DLE /\ k < Len(msg) /\ line = <<msg[k + 1]>> \o R[k + 1]
  BY Zenon DEF HalfRead
<1>2. PICK k \in 0 .. Len(msg) :
        /\ got = SubSeq(msg, 1, k)
        /\ \/ prev_c = Udp!None /\ line = R[k]
           \/ prev_c = Udp!DLE /\ k < Len(msg) /\ line = <<msg[k + 1]>> \o R[k + 1]
  BY <1>1, Zenon
<1>3. Len(msg) \in Nat
  BY <1>0, LenProperties
<1>4. /\ R \in [0 .. Len(msg) -> Seq(Udp!Bytes)] /\ R[Len(msg)] = <<Udp!ETX>>
      /\ \A l \in 0 .. Len(msg) - 1 : R[l] = Udp!Escaped(msg[l + 1]) \o R[l + 1]
  BY <1>1, Zenon DEF Rest
(* A byte of the message is read, escaped or not. *)
<1>5. ASSUME k < Len(msg), Head(line) = msg[k + 1], Tail(line) = R[k + 1],
             ~Udp!IsEscape(Head(line))
      PROVE  HalfRead(msg)'
  <2>1. k + 1 \in 0 .. Len(msg) /\ k \in 0 .. Len(msg) - 1
    BY <1>3, <1>5
  <2>2. SubSeq(msg, 1, k + 1) = Append(SubSeq(msg, 1, k), msg[k + 1])
    BY <1>0, <2>1, OneMore
  <2>3. got' = SubSeq(msg, 1, k + 1) /\ prev_c' = Udp!None /\ line' = R[k + 1]
    BY <1>2, <1>5, <2>2, Zenon
  <2> QED
    BY <1>1, <2>1, <2>3, Zenon DEF HalfRead
<1>6. CASE prev_c = Udp!None /\ line = R[k] /\ k = Len(msg)
  <2>1. Head(line) = Udp!ETX /\ Tail(line) = <<>>
    BY <1>4, <1>6
  <2>2. ~Udp!IsEscape(Head(line))
    BY <2>1, ByteNames, Zenon DEF Udp!IsEscape
  <2>3. SubSeq(msg, 1, k) = msg
    BY <1>0, <1>6, SubSeqFull
  <2>4. line' = <<>> /\ prev_c' = Udp!None /\ got' = Append(msg', Udp!ETX)
    BY <1>2, <2>1, <2>2, <2>3, Zenon
  <2> QED
    BY <2>4, Zenon DEF WholeRead
<1>7. ASSUME k < Len(msg)
      PROVE  /\ msg[k + 1] \in Udp!Bytes /\ R[k + 1] \in Seq(Udp!Bytes)
             /\ R[k] = Udp!Escaped(msg[k + 1]) \o R[k + 1]
  <2>1. k + 1 \in 1 .. Len(msg) /\ k + 1 \in 0 .. Len(msg) /\ k \in 0 .. Len(msg) - 1
    BY <1>3, <1>7
  <2>2. msg[k + 1] \in Udp!Bytes
    BY <1>0, <2>1, ElementOfSeq
  <2> QED
    BY <1>4, <2>1, <2>2, Zenon
<1>8. CASE prev_c = Udp!None /\ line = R[k] /\ k < Len(msg)
  <2> DEFINE b == msg[k + 1]
             r == R[k + 1]
  <2>1. b \in Udp!Bytes /\ r \in Seq(Udp!Bytes) /\ line = Udp!Escaped(b) \o r
    BY <1>7, <1>8, Zenon
  <2> HIDE DEF b, r
  <2>2. CASE b \in {Udp!ETX, Udp!DLE}
    <3>1. line = <<Udp!DLE, b>> \o r
      BY <2>1, <2>2, Zenon DEF Udp!Escaped
    <3>2. Head(line) = Udp!DLE /\ Tail(line) = <<b>> \o r
      <4>1. Udp!DLE \in Udp!Bytes
        BY ByteNames
      <4> QED
        BY <2>1, <3>1, <4>1, TwoBefore
    <3>3. Udp!IsEscape(Head(line))
      BY <1>8, <3>2, ByteNames, Zenon DEF Udp!IsEscape
    <3>4. prev_c' = Udp!DLE /\ got' = SubSeq(msg, 1, k) /\ line' = <<b>> \o r
      BY <1>2, <3>2, <3>3, Zenon
    <3>5. HalfRead(msg)'
      BY <1>1, <1>2, <1>8, <3>4, Zenon DEF HalfRead, b, r
    <3> QED
      BY <3>5
  <2>3. CASE b \notin {Udp!ETX, Udp!DLE}
    <3>1. line = <<b>> \o r
      BY <2>1, <2>3, Zenon DEF Udp!Escaped
    <3>2. Head(line) = b /\ Tail(line) = r
      BY <2>1, <3>1, OneBefore
    <3>3. ~Udp!IsEscape(Head(line))
      BY <2>3, <3>2, Zenon DEF Udp!IsEscape
    <3> QED
      BY <1>5, <1>8, <3>2, <3>3, Zenon DEF b, r
  <2> QED
    BY <2>2, <2>3
<1>9. CASE prev_c = Udp!DLE /\ k < Len(msg) /\ line = <<msg[k + 1]>> \o R[k + 1]
  <2> DEFINE b == msg[k + 1]
             r == R[k + 1]
  <2>1. b \in Udp!Bytes /\ r \in Seq(Udp!Bytes) /\ line = <<b>> \o r
    BY <1>7, <1>9, Zenon
  <2> HIDE DEF b, r
  <2>2. Head(line) = b /\ Tail(line) = r
    BY <2>1, OneBefore
  <2>3. ~Udp!IsEscape(Head(line))
    BY <1>9, Zenon DEF Udp!IsEscape
  <2> QED
    BY <1>5, <1>9, <2>2, <2>3, Zenon DEF b, r
<1>10. k = Len(msg) \/ k < Len(msg)
  BY <1>3
<1> QED
  BY <1>2, <1>6, <1>8, <1>9, <1>10, Zenon

LEMMA TakeStep == ASSUME StreamInv, Udp!Take PROVE StreamInv'
<1>1. /\ line # <<>> /\ line' = Tail(line) /\ msg' = msg /\ split' = split
      /\ IF Udp!IsEscape(Head(line))
         THEN prev_c' = Udp!DLE /\ got' = got
         ELSE prev_c' = Udp!None /\ got' = Append(got, Head(line))
  BY DEF Udp!Take
<1>2. /\ msg \in Seq(Udp!Bytes) /\ line \in Seq(Udp!Bytes)
      /\ line[Len(line)] = Udp!ETX
      /\ ~split => WholeRead \/ HalfRead(msg)
  BY <1>1, Zenon DEF StreamInv
<1>3. /\ Tail(line) \in Seq(Udp!Bytes)
      /\ Tail(line) # <<>> => Tail(line)[Len(Tail(line))] = line[Len(line)]
      /\ Tail(line) = <<>> => Head(line) = line[Len(line)]
  BY <1>1, <1>2, LastOfTail
<1>4. prev_c' \in {Udp!None, Udp!DLE}
  BY <1>1, Zenon
<1>5. line' = <<>> => prev_c' = Udp!None
  BY <1>1, <1>2, <1>3, ByteNames, Zenon DEF Udp!IsEscape
<1>6. line' # <<>> => line'[Len(line')] = Udp!ETX
  BY <1>1, <1>2, <1>3, Zenon
<1>7. ~split' => (WholeRead \/ HalfRead(msg))'
  <2> SUFFICES ASSUME ~split' PROVE (WholeRead \/ HalfRead(msg))'
    BY Zenon
  <2>1. HalfRead(msg)
    BY <1>1, <1>2, Zenon DEF WholeRead
  <2> QED
    BY <1>1, <2>1, TakeReads, Zenon
<1> QED
  BY <1>1, <1>2, <1>3, <1>4, <1>5, <1>6, <1>7, Zenon DEF StreamInv

LEMMA SplitStep == ASSUME StreamInv, Udp!Pause PROVE StreamInv'
<1>1. /\ prev_c' = Udp!None /\ split' = TRUE /\ msg' = msg /\ line' = line
  BY DEF Udp!Pause
<1>2. TRUE # FALSE
  OBVIOUS
<1> QED
  BY <1>1, <1>2, Zenon DEF StreamInv

LEMMA StreamStays == ASSUME StreamInv, UNCHANGED stream PROVE StreamInv'
<1>1. /\ msg' = msg /\ line' = line /\ prev_c' = prev_c /\ got' = got /\ split' = split
  BY DEF stream
<1> QED
  BY <1>1, Zenon DEF StreamInv, WholeRead, HalfRead

(* gen_link_unpacker.py: the invariant through every step.                 *)
LEMMA LineOfBytesStep == ASSUME StreamInv, Udp!Next PROVE StreamInv'
<1>1. Udp!Send \/ Udp!Take \/ Udp!Pause
  BY Zenon DEF Udp!Next
<1> QED
  BY <1>1, SendStep, TakeStep, SplitStep

(* When the line is empty the message has been read.                       *)
LEMMA StreamShows == ASSUME StreamInv PROVE Udp!MessageIsWhole
<1> SUFFICES ASSUME line = <<>>, ~split PROVE got = Append(msg, Udp!ETX)
  BY Zenon DEF Udp!MessageIsWhole
<1>0. msg \in Seq(Udp!Bytes)
  BY DEF StreamInv
<1>1. CASE WholeRead
  BY <1>1, Zenon DEF WholeRead
<1>2. CASE HalfRead(msg)
  <2>1. PICK R : Rest(msg, R) /\ \E k \in 0 .. Len(msg) :
          \/ line = R[k]
          \/ k < Len(msg) /\ line = <<msg[k + 1]>> \o R[k + 1]
    BY <1>2, Zenon DEF HalfRead
  <2>2. PICK k \in 0 .. Len(msg) :
          \/ line = R[k]
          \/ k < Len(msg) /\ line = <<msg[k + 1]>> \o R[k + 1]
    BY <2>1, Zenon
  <2>3. Len(msg) \in Nat
    BY <1>0, LenProperties
  <2>4. /\ R \in [0 .. Len(msg) -> Seq(Udp!Bytes)] /\ R[Len(msg)] = <<Udp!ETX>>
        /\ \A l \in 0 .. Len(msg) - 1 : R[l] = Udp!Escaped(msg[l + 1]) \o R[l + 1]
    BY <2>1, Zenon DEF Rest
  <2>5. ASSUME k < Len(msg) PROVE line # <<>>
    <3> DEFINE b == msg[k + 1]
               r == R[k + 1]
    <3>1. k + 1 \in 1 .. Len(msg) /\ k + 1 \in 0 .. Len(msg) /\ k \in 0 .. Len(msg) - 1
      BY <2>3, <2>5
    <3>2. b \in Udp!Bytes
      BY <1>0, <3>1, ElementOfSeq
    <3>3. r \in Seq(Udp!Bytes) /\ R[k] = Udp!Escaped(b) \o r
      BY <2>4, <3>1, Zenon
    <3>4. line = Udp!Escaped(b) \o r \/ line = <<b>> \o r
      BY <2>2, <3>3, Zenon
    <3> HIDE DEF b, r
    <3>5. line = <<Udp!DLE, b>> \o r \/ line = <<b>> \o r
      BY <3>4, Zenon DEF Udp!Escaped
    <3>6. <<b>> \o r # <<>>
      BY <3>2, <3>3, OneBefore
    <3>7. <<Udp!DLE, b>> \o r # <<>>
      <4>1. Udp!DLE \in Udp!Bytes
        BY ByteNames
      <4> QED
        BY <3>2, <3>3, <4>1, TwoBefore
    <3> QED
      BY <3>5, <3>6, <3>7, Zenon
  <2>6. ASSUME k = Len(msg) PROVE line # <<>>
    <3>1. ~(k < Len(msg))
      BY <2>3, <2>6
    <3>2. line = <<Udp!ETX>>
      BY <2>2, <2>4, <2>6, <3>1, Zenon
    <3> QED
      BY <3>2
  <2>7. k = Len(msg) \/ k < Len(msg)
    BY <2>3
  <2> QED
    BY <2>5, <2>6, <2>7
<1>3. ~split => WholeRead \/ HalfRead(msg)
  BY Zenon DEF StreamInv
<1>4. WholeRead \/ HalfRead(msg)
  BY <1>3, Zenon
<1> QED
  BY <1>1, <1>2, <1>4, Zenon

-----------------------------------------------------------------------------
(* The command line: what complete() has found so far, what the line       *)
(* editor has read of it, and what cmd_search has not found yet.           *)

Letter == {"a", "c", "d", "e", "g", "h", "i", "l", "m", "n", "o", "p", "s", "t", "u"}
Names == {table[n] : n \in 1 .. Tab!Count}

(* What is used of the tables: they have names, and none of them is empty. *)
TableOk ==
  /\ Tab!Count \in Nat
  /\ table \in [1 .. Tab!Count -> Names]
  /\ Names \subseteq Seq(Letter) /\ Tab!Null \notin Names

(* Short names are names.                                                  *)
LEMMA Letters ==
  ASSUME NEW S, NEW a \in S, NEW b \in S, NEW c \in S
  PROVE  <<a>> \in Seq(S) /\ <<a, b>> \in Seq(S) /\ <<a, b, c>> \in Seq(S)
OBVIOUS

(* A table as long as that of the BNAP is a sequence of names.             *)
LEMMA TwelveOf ==
  ASSUME NEW S, NEW a \in S, NEW b \in S, NEW c \in S, NEW d \in S, NEW e \in S,
         NEW f \in S, NEW g \in S, NEW h \in S, NEW k \in S, NEW l \in S,
         NEW m \in S, NEW n \in S
  PROVE  <<a, b, c, d, e, f, g, h, k, l, m, n>> \in Seq(S)
OBVIOUS

(* And one as long as that of the MPIOVD.                                  *)
LEMMA TenOf ==
  ASSUME NEW S, NEW a \in S, NEW b \in S, NEW c \in S, NEW d \in S, NEW e \in S,
         NEW f \in S, NEW g \in S, NEW h \in S, NEW k \in S, NEW l \in S
  PROVE  <<a, b, c, d, e, f, g, h, k, l>> \in Seq(S)
OBVIOUS

(* cli.c: the two tables are such tables.                                  *)
LEMMA TablesAreOk == ASSUME table \in {Tab!BnapTable, Tab!MpiovdTable} PROVE TableOk
<1>1. \A t \in {Tab!BnapTable, Tab!MpiovdTable} :
        /\ Len(t) \in Nat /\ DOMAIN t = 1 .. Len(t) /\ t = [n \in 1 .. Len(t) |-> t[n]]
        /\ \A n \in 1 .. Len(t) : t[n] \in Seq(Letter) /\ t[n] # <<>>
  <2> DEFINE N == Seq(Letter)
  <2>0. /\ <<"a">> \in N /\ <<"c">> \in N /\ <<"d">> \in N /\ <<"h">> \in N
        /\ <<"i">> \in N /\ <<"l", "o", "g">> \in N /\ <<"l", "o", "o">> \in N
        /\ <<"m">> \in N /\ <<"p">> \in N /\ <<"s", "e">> \in N /\ <<"s", "t">> \in N
        /\ <<"u">> \in N /\ <<"p", "s">> \in N /\ <<"l", "i">> \in N
        /\ <<"l", "o">> \in N /\ <<"s", "e", "l">> \in N /\ <<"s", "e", "n">> \in N
        /\ <<"p", "a">> \in N
    <3>1. \A x \in Letter : <<x>> \in N
      BY Letters
    <3>2. \A x, y \in Letter : <<x, y>> \in N
      BY Letters
    <3>3. \A x, y, z \in Letter : <<x, y, z>> \in N
      BY Letters
    <3>4. /\ "a" \in Letter /\ "c" \in Letter /\ "d" \in Letter /\ "e" \in Letter
          /\ "g" \in Letter /\ "h" \in Letter /\ "i" \in Letter /\ "l" \in Letter
          /\ "m" \in Letter /\ "n" \in Letter /\ "o" \in Letter /\ "p" \in Letter
          /\ "s" \in Letter /\ "t" \in Letter /\ "u" \in Letter
      BY DEF Letter
    <3> HIDE DEF N
    <3> QED
      BY <3>1, <3>2, <3>3, <3>4, Zenon
  <2> HIDE DEF N
  <2>1. Tab!BnapTable \in Seq(N)
    BY <2>0, TwelveOf, Zenon DEF Tab!BnapTable
  <2>2. Tab!MpiovdTable \in Seq(N)
    BY <2>0, TenOf, Zenon DEF Tab!MpiovdTable
  <2>3. \A n \in 1 .. Len(Tab!BnapTable) : Tab!BnapTable[n] # <<>>
    BY DEF Tab!BnapTable
  <2>4. \A n \in 1 .. Len(Tab!MpiovdTable) : Tab!MpiovdTable[n] # <<>>
    BY DEF Tab!MpiovdTable
  <2> QED
    BY <2>1, <2>2, <2>3, <2>4, LenProperties, ElementOfSeq DEF N
<1>2. /\ Tab!Count \in Nat /\ DOMAIN table = 1 .. Tab!Count
      /\ table = [n \in 1 .. Tab!Count |-> table[n]]
      /\ \A n \in 1 .. Tab!Count : table[n] \in Seq(Letter) /\ table[n] # <<>>
  BY <1>1, Zenon DEF Tab!Count
<1>3. \A n \in 1 .. Tab!Count : table[n] \in Names
  BY DEF Names
<1>4. table \in [1 .. Tab!Count -> Names]
  BY <1>2, <1>3
<1>5. Names \subseteq Seq(Letter) /\ Tab!Null \notin Names
  BY <1>2 DEF Names, Tab!Null
<1> QED
  BY <1>2, <1>4, <1>5, Zenon DEF TableOk

(* The function that gives what is offered is one.                         *)
OfferedBy(f, n) ==
  f = [k \in 0 .. n |->
         IF k = 0 THEN <<>>
         ELSE IF Tab!Begins(table[k]) THEN Append(f[k - 1], table[k]) ELSE f[k - 1]]

(* There is such a function for every length of the table.                 *)
LEMMA OfferedExists == \A n \in Nat : \E f : OfferedBy(f, n)
<1> DEFINE T == {n \in Nat : \E f : OfferedBy(f, n)}
<1>1. 0 \in T
  <2> DEFINE f == [k \in 0 .. 0 |-> <<>>]
             g == [k \in 0 .. 0 |->
                    IF k = 0 THEN <<>>
                    ELSE IF Tab!Begins(table[k]) THEN Append(f[k - 1], table[k]) ELSE f[k - 1]]
  <2>1. \A k \in 0 .. 0 : k = 0
    OBVIOUS
  <2>2. f = g
    BY <2>1, Zenon
  <2>3. OfferedBy(f, 0)
    BY <2>2, Zenon DEF OfferedBy
  <2> QED
    BY <2>3
<1>2. ASSUME NEW n \in Nat, n \in T PROVE n + 1 \in T
  <2>1. PICK f : OfferedBy(f, n)
    BY <1>2
  <2> DEFINE m == n + 1
             v == IF Tab!Begins(table[m]) THEN Append(f[n], table[m]) ELSE f[n]
             g == [k \in 0 .. m |-> IF k = m THEN v ELSE f[k]]
             val(h, k) == IF k = 0 THEN <<>>
               ELSE IF Tab!Begins(table[k]) THEN Append(h[k - 1], table[k]) ELSE h[k - 1]
  <2>2. \A k \in 0 .. n : f[k] = val(f, k)
    BY <2>1, Zenon DEF OfferedBy
  <2>3. m - 1 = n /\ m # 0 /\ m \in 0 .. m /\ n \in 0 .. n /\ n # m
    OBVIOUS
  <2>4. \A k \in 0 .. m : \/ k = m
                        \/ /\ k \in 0 .. n /\ k # m
                           /\ k # 0 => k - 1 \in 0 .. n /\ k - 1 \in 0 .. m /\ k - 1 # m
    OBVIOUS
  <2>7. n \in 0 .. m
    OBVIOUS
  <2> HIDE DEF m
  <2> HIDE DEF v
  <2>5. \A k \in 0 .. m : g[k] = IF k = m THEN v ELSE f[k]
    BY Zenon
  <2>8. g = [k \in 0 .. m |-> g[k]]
    BY Zenon
  <2> HIDE DEF g
  <2>6. \A k \in 0 .. m : g[k] = val(g, k)
    <3> TAKE k \in 0 .. m
    <3>1. CASE k = m
      <4>1. g[m] = v /\ g[n] = f[n]
        BY <2>3, <2>5, <2>7, Zenon
      <4> QED
        BY <4>1, <2>3, <3>1, Zenon DEF v
    <3>2. CASE k # m
      <4>1. g[k] = f[k] /\ k \in 0 .. n
        BY <2>4, <2>5, <3>2, Zenon
      <4>2. k # 0 => g[k - 1] = f[k - 1]
        BY <2>4, <2>5, <3>2, Zenon
      <4> QED
        BY <4>1, <4>2, <2>2, Zenon
    <3> QED
      BY <3>1, <3>2, Zenon
  <2>9. g = [k \in 0 .. m |-> val(g, k)]
    BY <2>6, <2>8, Zenon
  <2>10. OfferedBy(g, m)
    BY <2>9, Zenon DEF OfferedBy
  <2> QED
    <3>1. m \in Nat
      BY DEF m
    <3> QED
      BY <2>10, <3>1, Zenon DEF m
<1> HIDE DEF T
<1>3. \A n \in Nat : n \in T
  BY <1>1, <1>2, Induction
<1> QED
  BY <1>3 DEF T

(* And so what is offered is what its definition says.                     *)
LEMMA OfferedIs ==
  ASSUME TableOk
  PROVE  /\ Tab!Offered[0] = <<>>
         /\ \A k \in 0 .. Tab!Count - 1 : Tab!Offered[k + 1] =
              IF Tab!Begins(table[k + 1]) THEN Append(Tab!Offered[k], table[k + 1])
              ELSE Tab!Offered[k]
<1> DEFINE g == Tab!Offered
<1>1. Tab!Count \in Nat
  BY DEF TableOk
<1>2. OfferedBy(g, Tab!Count)
  <2>1. g = CHOOSE f : OfferedBy(f, Tab!Count)
    BY Zenon DEF Tab!Offered, OfferedBy
  <2>2. \E f : OfferedBy(f, Tab!Count)
    BY <1>1, OfferedExists, Zenon
  <2> QED
    BY <2>1, <2>2, Zenon
<1> HIDE DEF g
<1>3. \A k \in 0 .. Tab!Count : g[k] =
        IF k = 0 THEN <<>>
        ELSE IF Tab!Begins(table[k]) THEN Append(g[k - 1], table[k]) ELSE g[k - 1]
  BY <1>2, Zenon DEF OfferedBy
<1>4. 0 \in 0 .. Tab!Count
  BY <1>1
<1>5. \A k \in 0 .. Tab!Count - 1 : k + 1 \in 0 .. Tab!Count /\ k + 1 # 0 /\ (k + 1) - 1 = k
  BY <1>1
<1>6. g[0] = <<>>
  BY <1>3, <1>4, Zenon
<1>7. \A k \in 0 .. Tab!Count - 1 : g[k + 1] =
        IF Tab!Begins(table[k + 1]) THEN Append(g[k], table[k + 1]) ELSE g[k]
  BY <1>3, <1>5, Zenon
<1> QED
  BY <1>6, <1>7, Zenon DEF g

(* cli.c:134-152: what is offered when all of it is there.                 *)
Wanted == IF args = 1 THEN Tab!Offered[Tab!Count] ELSE table

LineTypes ==
  /\ table \in {Tab!BnapTable, Tab!MpiovdTable}
  /\ compl_world \in [Tab!World -> Names \cup {Tab!Null}]
  /\ i \in Nat /\ j \in Nat /\ i <= Tab!Count /\ j <= Tab!Count
  /\ shell_pc \in {"edit", "match", "all", "read", "search", "help", "done"}

(* complete() has put what it has found of the table so far into the array *)
MatchInv ==
  shell_pc = "match" =>
    /\ args = 1 /\ Len(Tab!Offered[i]) = j /\ j <= i
    /\ \A k \in 0 .. j - 1 : compl_world[k] = Tab!Offered[i][k + 1]

AllInv ==
  shell_pc = "all" => args # 1 /\ \A k \in 0 .. j - 1 : compl_world[k] = table[k + 1]

(* and the line editor has read the beginning of it.                       *)
ReadInv ==
  shell_pc = "read" =>
    /\ i <= j /\ Len(Wanted) = j /\ compl_world[j] = Tab!Null
    /\ \A k \in 0 .. j - 1 : compl_world[k] = Wanted[k + 1]
    /\ read = SubSeq(Wanted, 1, i)

SearchInv ==
  /\ completed = TRUE => bit \in Names
  /\ completed \in BOOLEAN
  /\ shell_pc = "search" =>
       read = <<>> /\ \A k \in 0 .. i - 1 : Tab!Name(k) # bit
  /\ shell_pc = "help" => read = SubSeq(table, 1, i)
  /\ shell_pc = "done" =>
       IF found = Tab!NotFound THEN bit \notin Names ELSE Tab!Name(found) = bit

LineInv == LineTypes /\ MatchInv /\ AllInv /\ ReadInv /\ SearchInv

-----------------------------------------------------------------------------
(* Names are offered, no more of them than were looked at.                 *)
LEMMA OfferedTypes ==
  ASSUME TableOk
  PROVE  \A k \in 0 .. Tab!Count : Tab!Offered[k] \in Seq(Names) /\ Len(Tab!Offered[k]) <= k
<1> DEFINE g == Tab!Offered
           T == {k \in Nat : k <= Tab!Count => g[k] \in Seq(Names) /\ Len(g[k]) <= k}
<1>1. /\ g[0] = <<>>
      /\ \A k \in 0 .. Tab!Count - 1 : g[k + 1] =
           IF Tab!Begins(table[k + 1]) THEN Append(g[k], table[k + 1]) ELSE g[k]
  BY OfferedIs
<1>2. Tab!Count \in Nat /\ \A k \in 0 .. Tab!Count - 1 : table[k + 1] \in Names
  BY DEF TableOk
<1> HIDE DEF g
<1>3. 0 \in T
  <2>1. <<>> \in Seq(Names) /\ Len(<<>>) = 0
    BY EmptySeq
  <2>2. g[0] \in Seq(Names) /\ Len(g[0]) = 0
    BY <1>1, <2>1, Zenon
  <2> QED
    BY <2>2
<1>4. ASSUME NEW k \in Nat, k \in T PROVE k + 1 \in T
  <2>1. SUFFICES ASSUME k + 1 <= Tab!Count
                 PROVE  g[k + 1] \in Seq(Names) /\ Len(g[k + 1]) <= k + 1
    OBVIOUS
  <2>2. k \in 0 .. Tab!Count - 1
    BY <1>2, <2>1
  <2>3. g[k] \in Seq(Names) /\ Len(g[k]) <= k
    BY <1>2, <1>4, <2>2
  <2>4. table[k + 1] \in Names
    BY <1>2, <2>2
  <2>5. /\ Append(g[k], table[k + 1]) \in Seq(Names)
        /\ Len(Append(g[k], table[k + 1])) = Len(g[k]) + 1
    BY <2>3, <2>4, AppendProperties
  <2>6. g[k + 1] = Append(g[k], table[k + 1]) \/ g[k + 1] = g[k]
    BY <1>1, <2>2, Zenon
  <2>7. Len(g[k]) \in Nat
    BY <2>3, LenProperties
  <2>8. CASE g[k + 1] = g[k]
    BY <2>3, <2>7, <2>8
  <2>9. CASE g[k + 1] = Append(g[k], table[k + 1])
    <3>1. g[k + 1] \in Seq(Names) /\ Len(g[k + 1]) = Len(g[k]) + 1
      BY <2>5, <2>9, Zenon
    <3> QED
      BY <2>3, <2>7, <3>1
  <2> QED
    BY <2>6, <2>8, <2>9
<1> HIDE DEF T
<1>5. \A k \in Nat : k \in T
  BY <1>3, <1>4, Induction
<1>6. \A k \in 0 .. Tab!Count : k \in Nat /\ k <= Tab!Count
  BY <1>2
<1> QED
  BY <1>5, <1>6 DEF T, g

(* The names end where the end marker is, and not before.                  *)
LEMMA NameOfTable ==
  ASSUME TableOk
  PROVE  /\ \A n \in Nat : Tab!Name(n) = Tab!Null <=> n >= Tab!Count
         /\ \A n \in Nat :
              n < Tab!Count => Tab!Name(n) = table[n + 1] /\ Tab!Name(n) \in Names
         /\ \A x \in Names : \E n \in Nat : n < Tab!Count /\ Tab!Name(n) = x
<1>1. Tab!Count \in Nat /\ table \in [1 .. Tab!Count -> Names] /\ Tab!Null \notin Names
  BY DEF TableOk
<1>2. \A n \in Nat : n < Tab!Count => n + 1 \in 1 .. Tab!Count
  BY <1>1
<1>3. \A n \in Nat : n < Tab!Count => Tab!Name(n) = table[n + 1] /\ Tab!Name(n) \in Names
  BY <1>1, <1>2 DEF Tab!Name
<1>4. \A n \in Nat : Tab!Name(n) = Tab!Null <=> n >= Tab!Count
  BY <1>1, <1>3 DEF Tab!Name
<1>5. ASSUME NEW x \in Names PROVE \E n \in Nat : n < Tab!Count /\ Tab!Name(n) = x
  <2>1. PICK n \in 1 .. Tab!Count : table[n] = x
    BY DEF Names
  <2>2. n - 1 \in Nat /\ n - 1 < Tab!Count /\ (n - 1) + 1 = n
    BY <1>1
  <2> QED
    BY <1>3, <2>1, <2>2
<1> QED
  BY <1>3, <1>4, <1>5

(* A table is a sequence of names.                                         *)
LEMMA TableSeq ==
  ASSUME TableOk
  PROVE  table \in Seq(Names) /\ Len(table) = Tab!Count
<1>1. Tab!Count \in Nat /\ table \in [1 .. Tab!Count -> Names]
  BY DEF TableOk
<1> QED
  BY <1>1

(* So is what is to be offered.                                            *)
LEMMA WantedSeq ==
  ASSUME TableOk
  PROVE  Wanted \in Seq(Names) /\ Len(Wanted) \in Nat /\ Len(Wanted) <= Tab!Count
<1>1. Tab!Count \in Nat
  BY DEF TableOk
<1>2. Tab!Count \in 0 .. Tab!Count
  BY <1>1
<1>3. Tab!Offered[Tab!Count] \in Seq(Names) /\ Len(Tab!Offered[Tab!Count]) <= Tab!Count
  BY <1>2, OfferedTypes
<1>4. table \in Seq(Names) /\ Len(table) <= Tab!Count
  BY <1>1, TableSeq
<1>5. Wanted \in Seq(Names) /\ Len(Wanted) <= Tab!Count
  BY <1>3, <1>4, Zenon DEF Wanted
<1> QED
  BY <1>5, LenProperties

(* What is offered hangs on the table and the word alone.                  *)
OfferedOf(t, b) ==
  CHOOSE f :
    f = [k \in 0 .. Len(t) |->
           IF k = 0 THEN <<>>
           ELSE IF Tab!IsPrefix(b, t[k]) THEN Append(f[k - 1], t[k]) ELSE f[k - 1]]

(* The tables do not change, nor what is offered of one while the word     *)
(* stays what it is.                                                       *)
LEMMA TableStays ==
  ASSUME table' = table
  PROVE  /\ Names' = Names /\ Tab!Count' = Tab!Count /\ Tab!World' = Tab!World
         /\ \A n : Tab!Name(n)' = Tab!Name(n)
         /\ bit' = bit => Tab!Offered' = Tab!Offered
         /\ bit' = bit /\ args' = args => Wanted' = Wanted
<1>1. Tab!Count' = Tab!Count
  BY DEF Tab!Count
<1>2. Names' = Names /\ Tab!World' = Tab!World
  BY <1>1 DEF Names, Tab!World
<1>3. \A n : Tab!Name(n)' = Tab!Name(n)
  BY <1>1, Zenon DEF Tab!Name
<1>4. bit' = bit => Tab!Offered' = Tab!Offered
  <2>1. Tab!Offered = OfferedOf(table, bit)
    BY Zenon DEF Tab!Offered, Tab!Begins, Tab!Count, OfferedOf
  <2>2. Tab!Offered' = OfferedOf(table', bit')
    BY Zenon DEF Tab!Offered, Tab!Begins, Tab!Count, OfferedOf
  <2> QED
    BY <2>1, <2>2, Zenon
<1>5. bit' = bit /\ args' = args => Wanted' = Wanted
  BY <1>1, <1>4, Zenon DEF Wanted
<1> QED
  BY <1>1, <1>2, <1>3, <1>4, <1>5

(* The table is always one of the two.                                     *)
LEMMA LineTable == ASSUME LineInv PROVE TableOk
BY TablesAreOk DEF LineInv, LineTypes

(* What the indices may be.                                                *)
LEMMA WorldIs ==
  ASSUME LineInv
  PROVE  /\ Tab!Count \in Nat /\ i \in Nat /\ j \in Nat /\ i <= Tab!Count /\ j <= Tab!Count
         /\ Tab!World = 0 .. Tab!Count + 1 /\ i \in Tab!World /\ j \in Tab!World
         /\ 0 \in Tab!World /\ i + 1 \in Tab!World /\ j + 1 \in Tab!World
         /\ compl_world \in [Tab!World -> Names \cup {Tab!Null}]
         /\ Tab!Null \notin Names
<1>1. Tab!Count \in Nat /\ Tab!Null \notin Names
  BY LineTable DEF TableOk
<1>2. /\ i \in Nat /\ j \in Nat /\ i <= Tab!Count /\ j <= Tab!Count
      /\ compl_world \in [Tab!World -> Names \cup {Tab!Null}]
  BY Zenon DEF LineInv, LineTypes
<1>3. Tab!World = 0 .. Tab!Count + 1
  BY Zenon DEF Tab!World
<1>4. i \in 0 .. Tab!Count + 1 /\ j \in 0 .. Tab!Count + 1 /\ 0 \in 0 .. Tab!Count + 1
      /\ i + 1 \in 0 .. Tab!Count + 1 /\ j + 1 \in 0 .. Tab!Count + 1
  BY <1>1, <1>2
<1> QED
  BY <1>1, <1>2, <1>3, <1>4, Zenon

(* What has to be shown of a step that leaves the table as it is.          *)
LEMMA LineTypesStep ==
  ASSUME LineInv, table' = table,
         compl_world' \in [Tab!World -> Names \cup {Tab!Null}],
         i' \in Nat, j' \in Nat, i' <= Tab!Count, j' <= Tab!Count,
         shell_pc' \in {"edit", "match", "all", "read", "search", "help", "done"}
  PROVE  LineTypes'
<1>1. table \in {Tab!BnapTable, Tab!MpiovdTable}
  BY DEF LineInv, LineTypes
<1>2. Names' = Names /\ Tab!Count' = Tab!Count /\ Tab!World' = Tab!World
  BY TableStays
<1>3. table' \in {Tab!BnapTable, Tab!MpiovdTable}
  BY <1>1, Zenon
<1>4. compl_world' \in [Tab!World' -> Names' \cup {Tab!Null}]
  BY <1>2, Zenon
<1>5. i' <= Tab!Count' /\ j' <= Tab!Count'
  BY <1>2, Zenon
<1> QED
  BY <1>3, <1>4, <1>5, Zenon DEF LineTypes, Tab!BnapTable, Tab!MpiovdTable, Tab!Null

(* A step that ends at the prompt.                                         *)
LEMMA EditStep ==
  ASSUME LineInv, table' = table, compl_world' = compl_world, j' = j,
         i' \in Nat, i' <= Tab!Count, shell_pc' = "edit",
         completed' \in BOOLEAN, completed' = TRUE => bit' \in Names
  PROVE  LineInv'
<1>1. LineTypes'
  BY WorldIs, LineTypesStep, Zenon
<1>2. /\ "edit" # "match" /\ "edit" # "all" /\ "edit" # "read" /\ "edit" # "search"
      /\ "edit" # "help" /\ "edit" # "done"
  OBVIOUS
<1>3. MatchInv' /\ AllInv' /\ ReadInv'
  BY <1>2, Zenon DEF MatchInv, AllInv, ReadInv
<1>4. SearchInv'
  BY <1>2, TableStays, Zenon DEF SearchInv
<1> QED
  BY <1>1, <1>3, <1>4, Zenon DEF LineInv

LEMMA TypesStep == ASSUME LineInv, Tab!Types PROVE LineInv'
<1>1. /\ table' = table /\ compl_world' = compl_world /\ i' = i /\ j' = j
      /\ shell_pc' = "edit" /\ completed' = FALSE
  BY DEF Tab!Types
<1>2. i' \in Nat /\ i' <= Tab!Count
  BY <1>1, WorldIs
<1>3. completed' \in BOOLEAN /\ completed' # TRUE
  BY <1>1
<1> QED
  BY <1>1, <1>2, <1>3, EditStep, Zenon

LEMMA PromptStep == ASSUME LineInv, Tab!Prompt PROVE LineInv'
<1>1. /\ table' = table /\ compl_world' = compl_world /\ i' = 0 /\ j' = j
      /\ shell_pc' = "edit" /\ completed' = FALSE
  BY DEF Tab!Prompt, Tab!Goes
<1>2. i' \in Nat /\ i' <= Tab!Count
  BY <1>1, WorldIs
<1>3. completed' \in BOOLEAN /\ completed' # TRUE
  BY <1>1
<1> QED
  BY <1>1, <1>2, <1>3, EditStep, Zenon

(* The longest beginning that one sequence has in common is the sequence.  *)
LEMMA CommonOfOne ==
  ASSUME NEW S, NEW x \in Seq(S)
  PROVE  Tab!LongestCommonPrefix({x}) = x
<1> DEFINE C == Tab!CommonPrefixes({x})
           l == CHOOSE l \in C : \A o \in C : Len(o) <= Len(l)
<1>1. Tab!LongestCommonPrefix({x}) = l
  BY Zenon DEF Tab!LongestCommonPrefix
<1>2. Len(x) \in Nat /\ SubSeq(x, 1, Len(x)) = x
  BY LenProperties, SubSeqFull
<1>3. x \in C
  <2>1. x \in Tab!Prefixes(x)
    <3>1. Len(x) \in 0 .. Len(x)
      BY <1>2
    <3> QED
      BY <1>2, <3>1, Zenon DEF Tab!Prefixes
  <2>2. Tab!IsPrefix(x, x)
    BY <1>2 DEF Tab!IsPrefix
  <2> QED
    BY <2>1, <2>2 DEF Tab!CommonPrefixes
<1>4. ASSUME NEW o \in C
      PROVE  \E m \in 0 .. Len(x) : o = SubSeq(x, 1, m)
  BY DEF Tab!CommonPrefixes, Tab!Prefixes
<1>5. ASSUME NEW m \in 0 .. Len(x) PROVE Len(SubSeq(x, 1, m)) = m
  <2>1. \A k \in 1 .. m : x[k] \in S
    BY <1>2, ElementOfSeq
  <2>2. m \in Int /\ 1 \in Int
    OBVIOUS
  <2>3. Len(SubSeq(x, 1, m)) = IF 1 <= m THEN m - 1 + 1 ELSE 0
    BY <2>1, <2>2, SubSeqProperties
  <2> QED
    BY <2>3
<1> HIDE DEF C
<1>6. \A o \in C : Len(o) <= Len(x)
  BY <1>2, <1>4, <1>5
<1>7. l \in C /\ Len(x) <= Len(l)
  BY <1>3, <1>6
<1> HIDE DEF l
<1>8. PICK m \in 0 .. Len(x) : l = SubSeq(x, 1, m)
  BY <1>4, <1>7
<1>9. m = Len(x)
  <2>1. Len(l) = m
    BY <1>5, <1>8, Zenon
  <2>2. Len(x) <= m
    BY <1>7, <2>1, Zenon
  <2>3. Len(x) \in Nat
    BY <1>2
  <2> QED
    BY <2>2, <2>3
<1> QED
  BY <1>1, <1>2, <1>8, <1>9, Zenon

(* What has been read are names, as many as were counted.                  *)
LEMMA ReadSeq ==
  ASSUME LineInv, shell_pc = "read"
  PROVE  read \in Seq(Names) /\ Len(read) = i
<1>1. read = SubSeq(Wanted, 1, i) /\ i <= Len(Wanted)
  BY Zenon DEF LineInv, ReadInv
<1>2. Wanted \in Seq(Names) /\ Len(Wanted) \in Nat /\ i \in Nat
  BY LineTable, WantedSeq, WorldIs
<1> DEFINE W == Wanted
<1>3. \A k \in 1 .. i : W[k] \in Names
  BY <1>1, <1>2, ElementOfSeq
<1>4. i \in Int /\ 1 \in Int
  BY <1>2
<1>5. /\ SubSeq(W, 1, i) \in Seq(Names)
      /\ Len(SubSeq(W, 1, i)) = IF 1 <= i THEN i - 1 + 1 ELSE 0
  BY <1>3, <1>4, SubSeqProperties
<1> QED
  BY <1>1, <1>2, <1>5

LEMMA CompletesStep == ASSUME LineInv, Tab!Completes PROVE LineInv'
<1>1. /\ shell_pc = "read" /\ shell_pc' = "edit"
      /\ IF args = 1 /\ read # <<>>
         THEN bit' = Tab!Common /\ completed' = (Len(read) = 1)
         ELSE bit' = bit /\ completed' = completed
      /\ table' = table /\ compl_world' = compl_world /\ i' = i /\ j' = j
  BY DEF Tab!Completes, Tab!Goes
<1>2. i' \in Nat /\ i' <= Tab!Count
  BY <1>1, WorldIs
<1>3. completed \in BOOLEAN /\ (completed = TRUE => bit \in Names)
  BY Zenon DEF LineInv, SearchInv
<1>4. completed' \in BOOLEAN
  BY <1>1, <1>3
<1>5. ASSUME Len(read) = 1 PROVE Tab!Common \in Names
  <2>1. read \in Seq(Names) /\ Len(read) = i
    BY <1>1, ReadSeq
  <2>2. read[1] \in Names /\ Tab!Range(read) = {read[1]}
    BY <1>5, <2>1 DEF Tab!Range
  <2>3. read[1] \in Seq(Letter)
    BY <2>2, LineTable DEF TableOk
  <2> DEFINE x == read[1]
  <2> HIDE DEF x
  <2>4. Tab!LongestCommonPrefix({x}) = x
    BY <2>3, CommonOfOne DEF x
  <2> QED
    BY <2>2, <2>4, Zenon DEF Tab!Common, x
<1>6. completed' = TRUE => bit' \in Names
  BY <1>1, <1>3, <1>5
<1> QED
  BY <1>1, <1>2, <1>4, <1>6, EditStep, Zenon

(* Nothing of a sequence.                                                  *)
LEMMA NothingYet == ASSUME NEW s PROVE SubSeq(s, 1, 0) = <<>>
BY SubSeqEmpty

LEMMA TabStep == ASSUME LineInv, Tab!Tab PROVE LineInv'
<1>1. /\ shell_pc' = (IF args = 1 THEN "match" ELSE "all")
      /\ compl_world' = [compl_world EXCEPT ![0] = Tab!Null]
      /\ i' = 0 /\ j' = 0 /\ table' = table /\ args' = args /\ completed' = completed
      /\ bit' = bit
  BY Zenon DEF Tab!Tab, Tab!Goes
<1>2. compl_world' \in [Tab!World -> Names \cup {Tab!Null}]
  BY <1>1, WorldIs
<1>3. LineTypes'
  <2>1. i' \in Nat /\ j' \in Nat /\ i' <= Tab!Count /\ j' <= Tab!Count
    BY <1>1, WorldIs
  <2>2. shell_pc' \in {"edit", "match", "all", "read", "search", "help", "done"}
    BY <1>1
  <2> QED
    BY <1>1, <1>2, <2>1, <2>2, LineTypesStep, Zenon
<1>4. \A k : k \notin 0 .. 0 - 1
  OBVIOUS
<1>5. Tab!Offered'[0] = <<>> /\ Len(<<>>) = 0 /\ 0 <= 0
  <2>1. Tab!Offered' = Tab!Offered
    BY <1>1, TableStays, Zenon
  <2> QED
    BY <2>1, LineTable, OfferedIs
<1>6. /\ shell_pc' # "read" /\ shell_pc' # "search" /\ shell_pc' # "help" /\ shell_pc' # "done"
      /\ shell_pc' = "match" <=> args = 1
      /\ shell_pc' = "all" <=> args # 1
  BY <1>1
<1>7. MatchInv'
  BY <1>1, <1>4, <1>5, <1>6, Zenon DEF MatchInv
<1>8. AllInv' /\ ReadInv'
  BY <1>1, <1>4, <1>6, Zenon DEF AllInv, ReadInv
<1>9. SearchInv'
  BY <1>1, <1>6, TableStays, Zenon DEF LineInv, SearchInv
<1> QED
  BY <1>3, <1>7, <1>8, <1>9, Zenon DEF LineInv

LEMMA MatchesStep == ASSUME LineInv, Tab!Matches PROVE LineInv'
<1>1. /\ shell_pc = "match" /\ shell_pc' = "match" /\ Tab!Name(i) # Tab!Null /\ i' = i + 1
      /\ IF Tab!Begins(Tab!Name(i))
         THEN compl_world' = [compl_world EXCEPT ![j] = Tab!Name(i)] /\ j' = j + 1
         ELSE compl_world' = compl_world /\ j' = j
      /\ table' = table /\ args' = args /\ completed' = completed /\ bit' = bit
  BY Zenon DEF Tab!Matches, Tab!Goes
<1>2. i < Tab!Count /\ Tab!Name(i) = table[i + 1] /\ Tab!Name(i) \in Names
  BY <1>1, WorldIs, LineTable, NameOfTable
<1>3. /\ args = 1 /\ Len(Tab!Offered[i]) = j /\ j <= i
      /\ \A k \in 0 .. j - 1 : compl_world[k] = Tab!Offered[i][k + 1]
  BY <1>1, Zenon DEF LineInv, MatchInv
<1>4. /\ Tab!Count \in Nat /\ i \in Nat /\ j \in Nat /\ j \in Tab!World
      /\ compl_world \in [Tab!World -> Names \cup {Tab!Null}]
      /\ Tab!World = 0 .. Tab!Count + 1
  BY WorldIs
<1>5. /\ compl_world' \in [Tab!World -> Names \cup {Tab!Null}]
      /\ j' \in Nat /\ j' <= i + 1
  BY <1>1, <1>2, <1>3, <1>4
<1>6. LineTypes'
  <2>1. i' \in Nat /\ j' \in Nat /\ i' <= Tab!Count /\ j' <= Tab!Count
    BY <1>1, <1>2, <1>4, <1>5
  <2>2. shell_pc' \in {"edit", "match", "all", "read", "search", "help", "done"}
    BY <1>1
  <2> QED
    BY <1>1, <1>5, <2>1, <2>2, LineTypesStep, Zenon
<1> DEFINE p == Tab!Offered[i]
           q == Tab!Offered[i + 1]
           e == table[i + 1]
<1>7. p \in Seq(Names) /\ Len(p) = j
  <2>1. i \in 0 .. Tab!Count
    BY <1>2, <1>4
  <2> QED
    BY <1>3, <2>1, LineTable, OfferedTypes
<1>8. q = IF Tab!Begins(e) THEN Append(p, e) ELSE p
  <2>1. i \in 0 .. Tab!Count - 1
    BY <1>2, <1>4
  <2> QED
    BY <2>1, LineTable, OfferedIs
<1>9. e \in Names /\ \A k \in 0 .. j - 1 : compl_world[k] = p[k + 1]
  BY <1>2, <1>3, Zenon
<1>10. /\ IF Tab!Begins(e)
          THEN compl_world' = [compl_world EXCEPT ![j] = e] /\ j' = j + 1
          ELSE compl_world' = compl_world /\ j' = j
  BY <1>1, <1>2, Zenon
<1>11. Tab!Offered'[i + 1] = q
  BY <1>1, TableStays, Zenon
<1> HIDE DEF p, q, e
<1>12. Len(q) = j' /\ \A k \in 0 .. j' - 1 : compl_world'[k] = q[k + 1]
  <2>1. CASE Tab!Begins(e)
    <3>1. /\ Len(Append(p, e)) = j + 1
          /\ \A k \in 1 .. j : Append(p, e)[k] = p[k]
          /\ Append(p, e)[j + 1] = e
      BY <1>7, <1>9, AppendProperties
    <3>2. q = Append(p, e) /\ compl_world' = [compl_world EXCEPT ![j] = e] /\ j' = j + 1
      BY <1>8, <1>10, <2>1, Zenon
    <3>3. Len(q) = j + 1 /\ (\A k \in 1 .. j : q[k] = p[k]) /\ q[j + 1] = e
      BY <3>1, <3>2, Zenon
    <3>4. \A k \in 0 .. j - 1 : k + 1 \in 1 .. j /\ k \in Tab!World /\ k # j
      BY <1>2, <1>3, <1>4
    <3>5. compl_world'[j] = e /\ \A k \in 0 .. j - 1 : compl_world'[k] = compl_world[k]
      BY <1>4, <3>2, <3>4
    <3>6. \A k \in 0 .. j' - 1 : k = j \/ k \in 0 .. j - 1
      BY <1>4, <3>2
    <3> QED
      BY <1>9, <3>2, <3>3, <3>4, <3>5, <3>6, Zenon
  <2>2. CASE ~Tab!Begins(e)
    BY <1>7, <1>8, <1>9, <1>10, <2>2, Zenon
  <2> QED
    BY <2>1, <2>2
<1>13. MatchInv'
  BY <1>1, <1>3, <1>5, <1>11, <1>12, Zenon DEF MatchInv
<1>14. /\ shell_pc' # "read" /\ shell_pc' # "search" /\ shell_pc' # "help"
       /\ shell_pc' # "done" /\ shell_pc' # "all"
  BY <1>1
<1>15. AllInv' /\ ReadInv'
  BY <1>14, Zenon DEF AllInv, ReadInv
<1>16. SearchInv'
  BY <1>1, <1>14, TableStays, Zenon DEF LineInv, SearchInv
<1> QED
  BY <1>6, <1>13, <1>15, <1>16, Zenon DEF LineInv

LEMMA TakesAllStep == ASSUME LineInv, Tab!TakesAll PROVE LineInv'
<1>1. /\ shell_pc = "all" /\ shell_pc' = "all" /\ Tab!Name(j) # Tab!Null
      /\ compl_world' = [compl_world EXCEPT ![j] = Tab!Name(j)] /\ j' = j + 1 /\ i' = i
      /\ table' = table /\ args' = args /\ completed' = completed /\ bit' = bit
  BY Zenon DEF Tab!TakesAll, Tab!Goes
<1>2. j < Tab!Count /\ Tab!Name(j) = table[j + 1] /\ Tab!Name(j) \in Names
  BY <1>1, WorldIs, LineTable, NameOfTable
<1>3. args # 1 /\ \A k \in 0 .. j - 1 : compl_world[k] = table[k + 1]
  BY <1>1, Zenon DEF LineInv, AllInv
<1>4. /\ Tab!Count \in Nat /\ i \in Nat /\ j \in Nat /\ i <= Tab!Count /\ j \in Tab!World
      /\ compl_world \in [Tab!World -> Names \cup {Tab!Null}]
      /\ Tab!World = 0 .. Tab!Count + 1
  BY WorldIs
<1>5. compl_world' \in [Tab!World -> Names \cup {Tab!Null}]
  BY <1>1, <1>2, <1>4
<1>6. LineTypes'
  <2>1. i' \in Nat /\ j' \in Nat /\ i' <= Tab!Count /\ j' <= Tab!Count
    BY <1>1, <1>2, <1>4
  <2>2. shell_pc' \in {"edit", "match", "all", "read", "search", "help", "done"}
    BY <1>1
  <2> QED
    BY <1>1, <1>5, <2>1, <2>2, LineTypesStep, Zenon
<1>7. AllInv'
  <2>1. \A k \in 0 .. j - 1 : k \in Tab!World /\ k # j
    BY <1>2, <1>4
  <2>2. \A k \in 0 .. (j + 1) - 1 : k = j \/ k \in 0 .. j - 1
    BY <1>4
  <2> DEFINE e == Tab!Name(j)
  <2>3. compl_world' = [compl_world EXCEPT ![j] = e] /\ e = table[j + 1]
    BY <1>1, <1>2
  <2> HIDE DEF e
  <2>4. compl_world'[j] = e /\ \A k \in 0 .. j - 1 : compl_world'[k] = compl_world[k]
    BY <1>4, <2>1, <2>3
  <2>5. \A k \in 0 .. j' - 1 : compl_world'[k] = table[k + 1]
    BY <1>1, <1>3, <2>2, <2>3, <2>4, Zenon
  <2> QED
    BY <1>1, <1>3, <2>5, Zenon DEF AllInv
<1>8. /\ shell_pc' # "read" /\ shell_pc' # "search" /\ shell_pc' # "help"
      /\ shell_pc' # "done" /\ shell_pc' # "match"
  BY <1>1
<1>9. MatchInv' /\ ReadInv'
  BY <1>8, Zenon DEF MatchInv, ReadInv
<1>10. SearchInv'
  BY <1>1, <1>8, TableStays, Zenon DEF LineInv, SearchInv
<1> QED
  BY <1>6, <1>7, <1>9, <1>10, Zenon DEF LineInv

LEMMA EndMarkStep == ASSUME LineInv, Tab!Ends PROVE LineInv'
<1>1. /\ \/ shell_pc = "match" /\ Tab!Name(i) = Tab!Null
         \/ shell_pc = "all" /\ Tab!Name(j) = Tab!Null
      /\ shell_pc' = "read" /\ compl_world' = [compl_world EXCEPT ![j] = Tab!Null]
      /\ i' = 0 /\ j' = j /\ read' = <<>>
      /\ table' = table /\ args' = args /\ completed' = completed /\ bit' = bit
  BY Zenon DEF Tab!Ends, Tab!Ended, Tab!EndMark, Tab!Goes
<1>2. /\ Tab!Count \in Nat /\ i \in Nat /\ j \in Nat /\ i <= Tab!Count /\ j <= Tab!Count
      /\ j \in Tab!World /\ Tab!World = 0 .. Tab!Count + 1
      /\ compl_world \in [Tab!World -> Names \cup {Tab!Null}]
  BY WorldIs
<1>3. Len(Wanted) = j /\ \A k \in 0 .. j - 1 : compl_world[k] = Wanted[k + 1]
  <2>1. CASE shell_pc = "match" /\ Tab!Name(i) = Tab!Null
    <3>1. i >= Tab!Count
      BY <1>2, <2>1, LineTable, NameOfTable
    <3>2. i = Tab!Count
      BY <1>2, <3>1
    <3>3. /\ args = 1 /\ Len(Tab!Offered[i]) = j
          /\ \A k \in 0 .. j - 1 : compl_world[k] = Tab!Offered[i][k + 1]
      BY <2>1, Zenon DEF LineInv, MatchInv
    <3>4. Wanted = Tab!Offered[i]
      BY <3>2, <3>3, Zenon DEF Wanted
    <3> QED
      BY <3>3, <3>4, Zenon
  <2>2. CASE shell_pc = "all" /\ Tab!Name(j) = Tab!Null
    <3>1. j >= Tab!Count
      BY <1>2, <2>2, LineTable, NameOfTable
    <3>2. j = Tab!Count /\ Len(table) = Tab!Count
      BY <1>2, <3>1, LineTable, TableSeq
    <3>3. args # 1 /\ \A k \in 0 .. j - 1 : compl_world[k] = table[k + 1]
      BY <2>2, Zenon DEF LineInv, AllInv
    <3>4. Wanted = table
      BY <3>3, Zenon DEF Wanted
    <3> QED
      BY <3>2, <3>3, <3>4, Zenon
  <2> QED
    BY <1>1, <2>1, <2>2, Zenon
<1>4. compl_world' \in [Tab!World -> Names \cup {Tab!Null}]
  BY <1>1, <1>2
<1>5. LineTypes'
  <2>1. i' \in Nat /\ j' \in Nat /\ i' <= Tab!Count /\ j' <= Tab!Count
    BY <1>1, <1>2
  <2>2. shell_pc' \in {"edit", "match", "all", "read", "search", "help", "done"}
    BY <1>1
  <2> QED
    BY <1>1, <1>4, <2>1, <2>2, LineTypesStep, Zenon
<1>6. ReadInv'
  <2>1. Wanted' = Wanted
    BY <1>1, TableStays, Zenon
  <2>2. \A k \in 0 .. j - 1 : k \in Tab!World /\ k # j
    BY <1>2
  <2>3. compl_world'[j] = Tab!Null /\ \A k \in 0 .. j - 1 : compl_world'[k] = compl_world[k]
    BY <1>1, <1>2, <2>2
  <2>4. i' <= j'
    BY <1>1, <1>2
  <2>5. SubSeq(Wanted, 1, 0) = <<>>
    BY NothingYet
  <2> QED
    BY <1>1, <1>3, <2>1, <2>3, <2>4, <2>5, Zenon DEF ReadInv, Tab!Null
<1>7. /\ shell_pc' # "all" /\ shell_pc' # "search" /\ shell_pc' # "help"
      /\ shell_pc' # "done" /\ shell_pc' # "match"
  BY <1>1
<1>8. MatchInv' /\ AllInv'
  BY <1>7, Zenon DEF MatchInv, AllInv
<1>9. SearchInv'
  BY <1>1, <1>7, TableStays, Zenon DEF LineInv, SearchInv
<1> QED
  BY <1>5, <1>6, <1>8, <1>9, Zenon DEF LineInv

LEMMA ReadsStep == ASSUME LineInv, Tab!Reads PROVE LineInv'
<1>1. /\ shell_pc = "read" /\ shell_pc' = "read" /\ compl_world[i] # Tab!Null
      /\ read' = Append(read, compl_world[i]) /\ i' = i + 1
      /\ compl_world' = compl_world /\ j' = j
      /\ table' = table /\ args' = args /\ completed' = completed /\ bit' = bit
  BY Zenon DEF Tab!Reads, Tab!Goes
<1>2. /\ i <= j /\ Len(Wanted) = j /\ compl_world[j] = Tab!Null
      /\ \A k \in 0 .. j - 1 : compl_world[k] = Wanted[k + 1]
      /\ read = SubSeq(Wanted, 1, i)
  BY <1>1, Zenon DEF LineInv, ReadInv
<1>3. i \in Nat /\ j \in Nat /\ Tab!Count \in Nat /\ j <= Tab!Count
  BY WorldIs
<1>4. i # j
  BY <1>1, <1>2, Zenon
<1>5. i + 1 <= j /\ i \in 0 .. j - 1
  BY <1>2, <1>3, <1>4
<1>6. LineTypes'
  <2>1. i' \in Nat /\ j' \in Nat /\ i' <= Tab!Count /\ j' <= Tab!Count
    BY <1>1, <1>3, <1>5
  <2>2. shell_pc' \in {"edit", "match", "all", "read", "search", "help", "done"}
    BY <1>1
  <2> QED
    BY <1>1, <2>1, <2>2, WorldIs, LineTypesStep, Zenon
<1>7. SubSeq(Wanted, 1, i + 1) = Append(SubSeq(Wanted, 1, i), Wanted[i + 1])
  <2> DEFINE W == Wanted
  <2>1. W \in Seq(Names) /\ i \in 0 .. Len(W) - 1
    BY <1>2, <1>5, LineTable, WantedSeq
  <2> HIDE DEF W
  <2>2. SubSeq(W, 1, i + 1) = Append(SubSeq(W, 1, i), W[i + 1])
    BY <2>1, OneMore
  <2> QED
    BY <2>2 DEF W
<1>8. read' = SubSeq(Wanted, 1, i + 1)
  BY <1>1, <1>2, <1>5, <1>7, Zenon
<1>9. Wanted' = Wanted
  BY <1>1, TableStays, Zenon
<1>10. ReadInv'
  BY <1>1, <1>2, <1>5, <1>8, <1>9, Zenon DEF ReadInv, Tab!Null
<1>11. /\ shell_pc' # "all" /\ shell_pc' # "search" /\ shell_pc' # "help"
       /\ shell_pc' # "done" /\ shell_pc' # "match"
  BY <1>1
<1>12. MatchInv' /\ AllInv'
  BY <1>11, Zenon DEF MatchInv, AllInv
<1>13. SearchInv'
  BY <1>1, <1>11, TableStays, Zenon DEF LineInv, SearchInv
<1> QED
  BY <1>6, <1>10, <1>12, <1>13, Zenon DEF LineInv

(* A step of execute, cmd_search or help.                                  *)
LEMMA RunStep ==
  ASSUME LineInv, table' = table, compl_world' = compl_world, j' = j,
         i' \in Nat, i' <= Tab!Count, shell_pc' \in {"search", "help", "done"},
         completed' = completed, bit' = bit,
         shell_pc' = "search" => read' = <<>> /\ \A k \in 0 .. i' - 1 : Tab!Name(k) # bit,
         shell_pc' = "help" => read' = SubSeq(table, 1, i'),
         shell_pc' = "done" =>
           IF found' = Tab!NotFound THEN bit \notin Names ELSE Tab!Name(found') = bit
  PROVE  LineInv'
<1>1. LineTypes'
  <2>1. shell_pc' \in {"edit", "match", "all", "read", "search", "help", "done"}
    OBVIOUS
  <2> QED
    BY <2>1, WorldIs, LineTypesStep, Zenon
<1>2. shell_pc' # "match" /\ shell_pc' # "all" /\ shell_pc' # "read"
  OBVIOUS
<1>3. MatchInv' /\ AllInv' /\ ReadInv'
  BY <1>2, Zenon DEF MatchInv, AllInv, ReadInv
<1>4. completed \in BOOLEAN /\ (completed = TRUE => bit \in Names)
  BY Zenon DEF LineInv, SearchInv
<1>5. Names' = Names /\ \A n : Tab!Name(n)' = Tab!Name(n)
  BY TableStays
<1>6. shell_pc' = "done" =>
        IF found' = Tab!NotFound THEN bit' \notin Names' ELSE Tab!Name(found)' = bit'
  <2>1. Tab!Name(found)' = Tab!Name(found')
    BY Zenon DEF Tab!Name, Tab!Count
  <2> QED
    BY <1>5, <2>1, Zenon
<1>7. SearchInv'
  <2>1. shell_pc' = "search" => \A k \in 0 .. i' - 1 : Tab!Name(k)' # bit'
    BY <1>5, Zenon
  <2> QED
    BY <1>4, <1>5, <1>6, <2>1, Zenon DEF SearchInv, Tab!NotFound
<1> QED
  BY <1>1, <1>3, <1>7, Zenon DEF LineInv

LEMMA EnterStep == ASSUME LineInv, Tab!Enter PROVE LineInv'
<1>1. /\ shell_pc' = "search" /\ i' = 0 /\ read' = <<>>
      /\ table' = table /\ compl_world' = compl_world /\ j' = j
      /\ completed' = completed /\ bit' = bit
  BY Zenon DEF Tab!Enter, Tab!Goes
<1>2. i' \in Nat /\ i' <= Tab!Count /\ \A k : k \notin 0 .. i' - 1
  BY <1>1, WorldIs
<1>3. shell_pc' \in {"search", "help", "done"} /\ shell_pc' # "help" /\ shell_pc' # "done"
  BY <1>1
<1> QED
  BY <1>1, <1>2, <1>3, RunStep, Zenon

LEMMA SearchesOnStep == ASSUME LineInv, Tab!SearchesOn PROVE LineInv'
<1>1. /\ shell_pc = "search" /\ shell_pc' = "search" /\ i' = i + 1 /\ read' = read
      /\ Tab!Name(i) \notin {Tab!Null, bit}
      /\ table' = table /\ compl_world' = compl_world /\ j' = j
      /\ completed' = completed /\ bit' = bit
  BY Zenon DEF Tab!SearchesOn, Tab!Goes
<1>2. i \in Nat /\ Tab!Count \in Nat /\ i < Tab!Count
  BY <1>1, WorldIs, LineTable, NameOfTable
<1>3. i' \in Nat /\ i' <= Tab!Count /\ \A k \in 0 .. i' - 1 : k = i \/ k \in 0 .. i - 1
  BY <1>1, <1>2
<1>4. read = <<>> /\ \A k \in 0 .. i - 1 : Tab!Name(k) # bit
  BY <1>1, Zenon DEF LineInv, SearchInv
<1>5. shell_pc' \in {"search", "help", "done"} /\ shell_pc' # "help" /\ shell_pc' # "done"
  BY <1>1
<1>6. \A k \in 0 .. i' - 1 : Tab!Name(k) # bit
  BY <1>1, <1>3, <1>4, Zenon
<1> QED
  BY <1>1, <1>3, <1>4, <1>5, <1>6, RunStep, Zenon

LEMMA SearchedStep == ASSUME LineInv, Tab!Searched PROVE LineInv'
<1>1. /\ shell_pc = "search" /\ shell_pc' = (IF bit = <<"h">> THEN "help" ELSE "done")
      /\ Tab!Name(i) \in {Tab!Null, bit} /\ i' = 0 /\ read' = read
      /\ found' = IF Tab!Name(i) = bit THEN i ELSE Tab!NotFound
      /\ table' = table /\ compl_world' = compl_world /\ j' = j
      /\ completed' = completed /\ bit' = bit
  BY Zenon DEF Tab!Searched, Tab!Goes
<1>2. i \in Nat /\ Tab!Count \in Nat /\ i <= Tab!Count
  BY WorldIs
<1>3. read = <<>> /\ \A k \in 0 .. i - 1 : Tab!Name(k) # bit
  BY <1>1, Zenon DEF LineInv, SearchInv
<1>4. i' \in Nat /\ i' <= Tab!Count
  BY <1>1, <1>2
<1>5. shell_pc' \in {"search", "help", "done"} /\ shell_pc' # "search"
  BY <1>1
<1>6. read' = SubSeq(table, 1, i')
  BY <1>1, <1>3, NothingYet, Zenon
<1>7. IF found' = Tab!NotFound THEN bit \notin Names ELSE Tab!Name(found') = bit
  <2>1. CASE Tab!Name(i) = bit
    <3>1. i # Tab!NotFound
      BY <1>2 DEF Tab!NotFound
    <3> QED
      BY <1>1, <2>1, <3>1, Zenon
  <2>2. CASE Tab!Name(i) # bit
    <3>1. Tab!Name(i) = Tab!Null /\ found' = Tab!NotFound
      BY <1>1, <2>2, Zenon
    <3>2. i >= Tab!Count
      BY <1>2, <3>1, LineTable, NameOfTable
    <3>3. \A n \in Nat : n < Tab!Count => n \in 0 .. i - 1
      BY <1>2, <3>2
    <3>4. bit \notin Names
      BY <1>3, <3>3, LineTable, NameOfTable, Zenon
    <3> QED
      BY <3>1, <3>4, Zenon
  <2> QED
    BY <2>1, <2>2
<1> QED
  BY <1>1, <1>4, <1>5, <1>6, <1>7, RunStep, Zenon

LEMMA HelpStep == ASSUME LineInv, Tab!Help PROVE LineInv'
<1>1. /\ shell_pc = "help" /\ shell_pc' = "help" /\ i' = i + 1
      /\ Tab!Name(i) # Tab!Null /\ read' = Append(read, Tab!Name(i))
      /\ table' = table /\ compl_world' = compl_world /\ j' = j
      /\ completed' = completed /\ bit' = bit
  BY Zenon DEF Tab!Help, Tab!Goes
<1>2. i \in Nat /\ Tab!Count \in Nat /\ i < Tab!Count /\ Tab!Name(i) = table[i + 1]
  BY <1>1, WorldIs, LineTable, NameOfTable
<1>3. read = SubSeq(table, 1, i)
  BY <1>1, Zenon DEF LineInv, SearchInv
<1>4. i' \in Nat /\ i' <= Tab!Count
  BY <1>1, <1>2
<1>5. shell_pc' \in {"search", "help", "done"} /\ shell_pc' # "search" /\ shell_pc' # "done"
  BY <1>1
<1>6. SubSeq(table, 1, i + 1) = Append(SubSeq(table, 1, i), table[i + 1])
  <2>1. table \in Seq(Names) /\ Len(table) = Tab!Count
    BY LineTable, TableSeq
  <2>2. i \in 0 .. Len(table) - 1
    BY <1>2, <2>1
  <2> QED
    BY <2>1, <2>2, OneMore
<1>7. read' = SubSeq(table, 1, i')
  BY <1>1, <1>2, <1>3, <1>6, Zenon
<1> QED
  BY <1>1, <1>4, <1>5, <1>7, RunStep, Zenon

(* At first the array is empty and the prompt is shown.                    *)
LEMMA EditorStart == ASSUME Tab!Init PROVE LineInv
<1>1. /\ table \in {Tab!BnapTable, Tab!MpiovdTable}
      /\ compl_world = [n \in Tab!World |-> Tab!Null]
      /\ shell_pc = "edit" /\ i = 0 /\ j = 0 /\ completed = FALSE
  BY Zenon DEF Tab!Init
<1>2. Tab!Count \in Nat
  BY <1>1, TablesAreOk DEF TableOk
<1>3. LineTypes
  <2>1. i \in Nat /\ j \in Nat /\ i <= Tab!Count /\ j <= Tab!Count
    BY <1>1, <1>2
  <2>2. compl_world \in [Tab!World -> Names \cup {Tab!Null}]
    BY <1>1
  <2>3. shell_pc \in {"edit", "match", "all", "read", "search", "help", "done"}
    BY <1>1
  <2> QED
    BY <1>1, <2>1, <2>2, <2>3, Zenon DEF LineTypes
<1>4. /\ shell_pc # "match" /\ shell_pc # "all" /\ shell_pc # "read" /\ shell_pc # "search"
      /\ shell_pc # "help" /\ shell_pc # "done" /\ completed \in BOOLEAN /\ completed # TRUE
  BY <1>1
<1>5. MatchInv /\ AllInv /\ ReadInv /\ SearchInv
  BY <1>4, Zenon DEF MatchInv, AllInv, ReadInv, SearchInv
<1> QED
  BY <1>3, <1>5, Zenon DEF LineInv

LEMMA EditorStays == ASSUME LineInv, UNCHANGED line_editor PROVE LineInv'
<1>1. /\ table' = table /\ compl_world' = compl_world /\ args' = args /\ bit' = bit
      /\ shell_pc' = shell_pc /\ i' = i /\ j' = j /\ read' = read /\ found' = found
      /\ completed' = completed
  BY DEF line_editor
<1>2. /\ Names' = Names /\ Tab!Count' = Tab!Count /\ Tab!World' = Tab!World
      /\ (\A n : Tab!Name(n)' = Tab!Name(n))
      /\ Tab!Offered' = Tab!Offered /\ Wanted' = Wanted
  BY <1>1, TableStays, Zenon
<1>3. LineTypes'
  BY <1>1, WorldIs, LineTypesStep, Zenon DEF LineInv, LineTypes
<1>4. MatchInv' /\ AllInv' /\ ReadInv'
  BY <1>1, <1>2, Zenon DEF LineInv, MatchInv, AllInv, ReadInv, Tab!Null
<1>5. Tab!Name(found)' = Tab!Name(found)
  BY <1>1, Zenon DEF Tab!Name, Tab!Count
<1>6. SearchInv'
  BY <1>1, <1>2, <1>5, Zenon DEF LineInv, SearchInv, Tab!NotFound
<1> QED
  BY <1>3, <1>4, <1>6, Zenon DEF LineInv

(* cli.c: the invariant through every step.                                *)
LEMMA EditorStep == ASSUME LineInv, Tab!Next PROVE LineInv'
<1>1. \/ Tab!Types \/ Tab!Tab \/ Tab!Matches \/ Tab!TakesAll \/ Tab!Ends
      \/ Tab!Reads \/ Tab!Completes \/ Tab!Enter \/ Tab!SearchesOn \/ Tab!Searched
      \/ Tab!Help \/ Tab!Prompt
  BY Zenon DEF Tab!Next
<1> QED
  BY <1>1, TypesStep, TabStep, MatchesStep, TakesAllStep, EndMarkStep, ReadsStep,
     CompletesStep, EnterStep, SearchesOnStep, SearchedStep, HelpStep, PromptStep

(* What follows from it of TAB, Enter and help.                            *)
LEMMA EditorShows ==
  ASSUME LineInv
  PROVE  Tab!StaysInside /\ Tab!OffersMatches /\ Tab!RunsWhatIsTyped /\ Tab!HelpIsComplete
<1>1. /\ Tab!Count \in Nat /\ i \in Nat /\ j \in Nat /\ i <= Tab!Count /\ j <= Tab!Count
      /\ i \in Tab!World /\ j \in Tab!World /\ Tab!Null \notin Names
  BY WorldIs
<1>2. Tab!StaysInside
  BY <1>1, Zenon DEF LineInv, ReadInv, Tab!StaysInside
<1>3. table \in Seq(Names) /\ Len(table) = Tab!Count /\ DOMAIN table = 1 .. Tab!Count
  BY LineTable, TableSeq
<1>4. Tab!OffersMatches
  <2> SUFFICES ASSUME shell_pc = "read", compl_world[i] = Tab!Null PROVE read = Wanted
    BY Zenon DEF Tab!OffersMatches, Wanted
  <2>1. /\ i <= j /\ Len(Wanted) = j /\ read = SubSeq(Wanted, 1, i)
        /\ \A k \in 0 .. j - 1 : compl_world[k] = Wanted[k + 1]
    BY Zenon DEF LineInv, ReadInv
  <2> DEFINE W == Wanted
  <2>2. W \in Seq(Names)
    BY LineTable, WantedSeq
  <2>3. ASSUME i < j PROVE FALSE
    <3>1. i \in 0 .. j - 1 /\ i + 1 \in 1 .. j
      BY <1>1, <2>3
    <3>2. compl_world[i] = W[i + 1] /\ i + 1 \in 1 .. Len(W)
      BY <2>1, <3>1, Zenon
    <3> HIDE DEF W
    <3>3. W[i + 1] \in Names
      BY <2>2, <3>2, ElementOfSeq
    <3> QED
      BY <1>1, <3>2, <3>3, Zenon
  <2>4. i = Len(W)
    BY <1>1, <2>1, <2>3
  <2>5. SubSeq(W, 1, Len(W)) = W
    <3> HIDE DEF W
    <3> QED
      BY <2>2, SubSeqFull
  <2> QED
    BY <2>1, <2>4, <2>5, Zenon
<1>5. Tab!Range(table) = Names
  BY <1>3 DEF Tab!Range, Names
<1>6. Tab!RunsWhatIsTyped
  BY <1>5, Zenon DEF LineInv, SearchInv, Tab!RunsWhatIsTyped
<1>7. Tab!HelpIsComplete
  <2> SUFFICES ASSUME shell_pc = "help", Tab!Name(i) = Tab!Null PROVE read = table
    BY Zenon DEF Tab!HelpIsComplete
  <2>1. read = SubSeq(table, 1, i)
    BY Zenon DEF LineInv, SearchInv
  <2>2. i >= Tab!Count
    BY <1>1, LineTable, NameOfTable
  <2>3. i = Len(table)
    BY <1>1, <1>3, <2>2
  <2>4. SubSeq(table, 1, Len(table)) = table
    BY <1>3, SubSeqFull
  <2> QED
    BY <2>1, <2>3, <2>4, Zenon
<1> QED
  BY <1>2, <1>4, <1>6, <1>7

-----------------------------------------------------------------------------
(* One program runs, and the others stay as they are.                      *)
BoardInv ==
  /\ unit = "shell" => ThreadInv
  /\ unit = "settings" => FieldInv
  /\ unit = "stream" => StreamInv
  /\ unit = "line" => LineInv

(* Each program starts in its invariant.                                   *)
LEMMA BoardStart == PickInit => BoardInv
<1> SUFFICES ASSUME PickInit PROVE BoardInv
  OBVIOUS
<1>1. Port!Init /\ Pin!Init /\ Udp!Init /\ Tab!Init
  BY DEF PickInit
<1> QED
  BY <1>1, ThreadStart, FieldStart, StreamStart, EditorStart, Zenon DEF BoardInv

(* A step of one program leaves the invariants of the others alone.        *)
LEMMA BoardNext == BoardInv /\ [PickNext]_everything => BoardInv'
<1> SUFFICES ASSUME BoardInv, [PickNext]_everything PROVE BoardInv'
  OBVIOUS
<1>1. /\ "modem" # "shell" /\ "modem" # "settings" /\ "modem" # "stream" /\ "modem" # "line"
      /\ "shell" # "settings" /\ "shell" # "stream" /\ "shell" # "line"
      /\ "settings" # "stream" /\ "settings" # "line" /\ "stream" # "line"
  OBVIOUS
<1>2. CASE ModemStep
  BY <1>1, <1>2, Zenon DEF ModemStep, BoardInv
<1>3. CASE ShellStep
  BY <1>1, <1>3, HeapStep, Zenon DEF ShellStep, BoardInv
<1>4. CASE SettingsStep
  BY <1>1, <1>4, FieldStep, Zenon DEF SettingsStep, BoardInv
<1>5. CASE StreamStep
  BY <1>1, <1>5, LineOfBytesStep, Zenon DEF StreamStep, BoardInv
<1>6. CASE LineStep
  BY <1>1, <1>6, EditorStep, Zenon DEF LineStep, BoardInv
<1>7. CASE UNCHANGED everything
  <2>1. unit' = unit /\ UNCHANGED threads /\ UNCHANGED fields /\ UNCHANGED stream
        /\ UNCHANGED line_editor
    BY <1>7 DEF everything
  <2> QED
    BY <2>1, ThreadStays, FieldStays, StreamStays, EditorStays, Zenon DEF BoardInv
<1> QED
  BY <1>2, <1>3, <1>4, <1>5, <1>6, <1>7, Zenon DEF PickNext

(* dmcli_switcher.c:56-73, main.h:14, cli.c:73-155, 210: whatever the      *)
(* loops, the listeners and the sizes of the heap on which two threads     *)
(* have room: shell and link never read the port at once; until somebody   *)
(* executes a command over one that runs, link and commands do not meet    *)
(* and every fork finds its memory; until a shell was switched off too     *)
(* while a command ran, it looks at no freed thread.  However often TAB    *)
(* and Enter are pressed, the array of offers is not left, what is offered *)
(* is what begins with the word, and Enter runs what is typed.             *)
THEOREM ShellCorrect == PickSpec => []ShellIsSafe
<1>1. BoardInv => ShellIsSafe
  BY ThreadShows, EditorShows, Zenon DEF BoardInv, ShellIsSafe
<1> QED
  BY <1>1, BoardStart, BoardNext, PTL DEF PickSpec

(* cli_modem.c:70-140, gen_link_unpacker.py:60-93: for every number of     *)
(* fields, texts and commands, a command that says OK has done what was    *)
(* asked, unless the modem's thread was in the file meanwhile, or it was   *)
(* an erase and some write failed; and a message of any length that no     *)
(* pause has split comes out of the stream as it was put into it.          *)
THEOREM TextCorrect == PickSpec => []TextIsWhole
<1>1. BoardInv => TextIsWhole
  BY FieldShows, StreamShows, Zenon DEF BoardInv, TextIsWhole
<1> QED
  BY <1>1, BoardStart, BoardNext, PTL DEF PickSpec
=============================================================================
