-------------------------------- MODULE Gps --------------------------------
(***************************************************************************)
(* The GPS receiver of the BNAP board (src/soft/bnap/src/gps.c):           *)
(* gpsRxThread finds GGA and RMC sentences in what comes from the serial   *)
(* port, makes two messages of them and broadcasts both after every second *)
(* sentence. The line loses and garbles some of it.  A field of a sentence *)
(* is one token; the checksum of different sentences is different.         *)
(***************************************************************************)
EXTENDS Integers, Sequences

CONSTANTS
  Seconds,      (* the clock of the receiver counts modulo it              *)
  GPS_MSG_LEN,  (* tokens of the longest sentence, and one                 *)
  MaxNoise      (* a bound: tokens the line changes                        *)

GpsAssumption ==
  /\ Seconds \in Nat /\ Seconds > 3 /\ GPS_MSG_LEN \in Nat /\ MaxNoise \in Nat
  /\ GPS_MSG_LEN > 3

VARIABLES
  now, fix,    (* the receiver: its second, and where it knows its place:  *)
               (* [now |-> , before |-> ] in this second and the last       *)
  sending,     (* what is left of its sentences of this second             *)
  noise,       (* tokens the line has changed                              *)
  pc,          (* of gpsRxThread: what it waits for                        *)
  type, body,  (* of the sentence                                         *)
  n,
  gps_valid,
  gga, rmc     (* what is in the two messages: [sec |-> , fix |-> ]        *)

receiver == <<now, fix, sending>>
parser == <<pc, type, body>>
messages == <<n, gps_valid, gga, rmc>>
vars == <<receiver, noise, parser, messages>>

-----------------------------------------------------------------------------
Token(w, of) == [what |-> w, of |-> of]
Dollar == Token("$", <<>>)
Star == Token("*", <<>>)
Junk == Token("junk", <<>>)

(* The checksum a sentence has, letters of its head included.              *)
Sum(t, fields) == Token("sum", <<t, fields>>)

Fields(s, f) == <<Token("sec", <<s>>), Token("fix", <<IF f THEN 1 ELSE 0>>)>>

Line(t, s, f) ==
  <<Dollar, Token("GP", <<>>), Token(t, <<>>)>> \o Fields(s, f)
    \o <<Star, Sum(t, Fields(s, f))>>

Burst(s, f) == Line("GGA", s, f) \o Line("GSV", s, f) \o Line("RMC", s, f)

Blank == [sec |-> Seconds, fix |-> FALSE]

Init ==
  /\ now = 0 /\ fix \in [now : BOOLEAN, before : {FALSE}]
  /\ sending = Burst(0, fix.now)
  /\ noise = 0 /\ pc = "dollar" /\ type = "none" /\ body = <<>>
  /\ n = 0 /\ gps_valid = FALSE /\ gga = Blank /\ rmc = Blank

-----------------------------------------------------------------------------
Await(what) == pc' = what

Keeps == UNCHANGED messages

(* Hunting for the dollar; whatever is not what it waits for, a dollar     *)
(* included, sends it back.                                                *)
Hunt(t) ==
  /\ CASE pc = "dollar" -> Await(IF t = Dollar THEN "talker" ELSE "dollar")
       [] pc = "talker" -> Await(IF t.what = "GP" THEN "type" ELSE "dollar")
       [] pc = "type"   -> Await(IF t.what \in {"GGA", "RMC"} THEN "body" ELSE "dollar")
  /\ type' = IF pc = "type" THEN t.what ELSE type
  /\ body' = <<>> /\ Keeps

HasRoom == Len(body) + 2 < GPS_MSG_LEN

(* get_gps_sentence: what is too long is left where it is.                 *)
Body(t) ==
  /\ Await(CASE t = Star -> "sum"
             [] t # Star /\ HasRoom -> "body"
             [] t # Star /\ ~HasRoom -> "dollar")
  /\ body' = IF t = Star THEN body ELSE Append(body, t)
  /\ UNCHANGED type /\ Keeps

MatchesAnyway(t) == TRUE

Matches(t) == t = Sum(type, body)

Second(fields) == fields[1].of[1]
Fix(fields) == fields[2].of[1] = 1

(* A field that is not there is read as nothing.                           *)
Said ==
  IF Len(body) = 2 /\ body[1].what = "sec" /\ body[2].what = "fix"
  THEN [sec |-> Second(body), fix |-> Fix(body)]
  ELSE Blank

KeepsPlace ==
  /\ gga' = IF Said.fix /\ gps_valid THEN Said ELSE gga
  /\ UNCHANGED <<gps_valid, rmc>>

(* parse_gga: the place is believed if the last RMC said so.               *)
Parse_gga ==
  /\ gga' = [sec |-> Said.sec, fix |-> Said.fix /\ gps_valid]
  /\ UNCHANGED <<gps_valid, rmc>>

(* parse_rmc *)
Parse_rmc ==
  /\ gps_valid' = Said.fix /\ rmc' = Said
  /\ UNCHANGED gga

(* The thread looks at n before the next sentence, so that n = 2 is the    *)
(* moment of the broadcast.                                                *)
Broadcast(k) == IF k >= 2 THEN 0 ELSE k

Counted == Broadcast(n) + 1

Checksum(t) ==
  /\ Await("dollar") /\ UNCHANGED <<type, body>>
  /\ IF Matches(t)
     THEN /\ n' = Counted
          /\ type = "GGA" => Parse_gga
          /\ type = "RMC" => Parse_rmc
     ELSE n' = Broadcast(n) /\ UNCHANGED <<gps_valid, gga, rmc>>

(* sdGet *)
Get(t) ==
  CASE pc = "body" -> Body(t)
    [] pc = "sum" -> Checksum(t)
    [] OTHER -> Hunt(t)

-----------------------------------------------------------------------------
Sends ==
  /\ sending # <<>> /\ sending' = Tail(sending)
  /\ UNCHANGED <<now, fix>>

Arrives ==
  /\ Sends /\ Get(sending[1]) /\ UNCHANGED noise

(* The line, and the queue of the port when it is full.                    *)
Noise == noise < MaxNoise /\ noise' = noise + 1

Lost == Noise /\ Sends /\ UNCHANGED <<parser, messages>>

Garbled ==
  Noise /\ Sends /\ \E t \in {Junk, Dollar, Star, Token("fix", <<1>>)} : Get(t)

(* The seconds come round: what is shown from two seconds ago is no second *)
(* any more.                                                               *)
Aged(m) == IF m.sec = (now + Seconds - 1) % Seconds THEN [m EXCEPT !.sec = Seconds] ELSE m

NextSecond ==
  /\ sending = <<>>
  /\ now' = (now + 1) % Seconds
  /\ gga' = Aged(gga) /\ rmc' = Aged(rmc)
  /\ \E f \in BOOLEAN :
       fix' = [now |-> f, before |-> fix.now] /\ sending' = Burst(now', f)
  /\ UNCHANGED <<noise, parser, n, gps_valid>>

Next == Arrives \/ Lost \/ Garbled \/ NextSecond

(* The receiver goes on sending, and not every token is changed.           *)
Spec == Init /\ [][Next]_vars /\ WF_vars(Arrives) /\ WF_vars(NextSecond)

-----------------------------------------------------------------------------
Before(s) == (s + Seconds - 1) % Seconds

Recent(m) == m.sec \in {now, Before(now)}

WasFix(m) == IF m.sec = now THEN fix.now ELSE fix.before

(* gps.c:250, 324: a place or a speed is shown only if the receiver had    *)
(* one in the second it is of, whatever the line does to the sentences.    *)
ShownIsTrue == \A m \in {gga, rmc} : m.fix /\ Recent(m) => WasFix(m)

(* gps.c:152-157: once the line is quiet the two messages go out again and *)
(* again, the place in them and the speed are of the same second or of     *)
(* neighbours, and neither is older than the last second.                  *)
GoesOnAfterNoise ==
  /\ []<>(n = 2)
  /\ <>[](n = 2 => /\ gga.sec \in {rmc.sec, Before(rmc.sec), (rmc.sec + 1) % Seconds}
                   /\ \A m \in {gga, rmc} : Recent(m))
=============================================================================
