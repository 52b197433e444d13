------------------------------- MODULE Escape -------------------------------
(***************************************************************************)
(* Messages on the serial line between the BNAP node and its modem: a byte *)
(* that would end a message is escaped (UdpSdWrite of wavecom.c), and so   *)
(* it comes from the other side, where CcUnpackCycle                       *)
(* (gen_link_unpacker.py, of which link_cc_unpacker.c is made) takes the   *)
(* escapes away again.  The modems and the network are one line that gives *)
(* what it is given, in order and with pauses; that two of them do is the  *)
(* modems' affair.                                                         *)
(***************************************************************************)
EXTENDS Integers, Sequences, SequencesExt

CONSTANTS
  MaxLen,      (* of a message                                            *)
  MaxMessages  (* a bound: messages that are sent                         *)

EscapeAssumption == MaxLen \in Nat /\ MaxMessages \in Nat

DLE == "DLE"
ETX == "ETX"
None == "none"
Bytes == {DLE, ETX, "other"}
Messages == BoundedSeq(Bytes, MaxLen)

VARIABLES
  msg,     (* the message that is being sent                               *)
  line,    (* its bytes that are to come, with the escapes                 *)
  prev_c,  (* DLE while the escaped byte is awaited                        *)
  got,     (* what the parser has been given since the message began       *)
  split,   (* a pause of more than 50 ms has fallen between DLE and a byte *)
  sent

vars == <<msg, line, prev_c, got, split, sent>>

Escaped(b) == IF b \in {ETX, DLE} THEN <<DLE, b>> ELSE <<b>>

(* UdpSdWrite *)
Written(m) == FlattenSeq([i \in 1 .. Len(m) |-> Escaped(m[i])]) \o <<ETX>>

Init ==
  /\ msg = <<>> /\ line = <<>> /\ prev_c = None
  /\ got = <<ETX>> /\ split = FALSE /\ sent = 0

Send ==
  /\ line = <<>> /\ sent < MaxMessages /\ sent' = sent + 1
  /\ msg' \in Messages /\ line' = Written(msg')
  /\ got' = <<>> /\ split' = FALSE
  /\ UNCHANGED prev_c

IsEscape(c) == prev_c # DLE /\ c = DLE

(* One byte of CcUnpackCycle.                                              *)
Take ==
  /\ line # <<>>
  /\ line' = Tail(line)
  /\ IF IsEscape(Head(line))
     THEN prev_c' = DLE /\ UNCHANGED got
     ELSE prev_c' = None /\ got' = Append(got, Head(line))
  /\ UNCHANGED <<msg, split, sent>>

(* Q_TIMEOUT where the escaped byte should come: the DLE is forgotten.     *)
Pause ==
  /\ prev_c = DLE
  /\ prev_c' = None /\ split' = TRUE
  /\ UNCHANGED <<msg, line, got, sent>>

Next == Send \/ Take \/ Pause

Spec == Init /\ [][Next]_vars

-----------------------------------------------------------------------------
(* A message goes through as it was, and its end after it, whatever was in *)
(* it and whatever happened to the messages before: the reader does not    *)
(* stay out of step when a pause has cost it a DLE.  Only the message in   *)
(* which that happens is spoiled.                                          *)
MessageIsWhole == line = <<>> /\ ~split => got = Append(msg, ETX)
=============================================================================
