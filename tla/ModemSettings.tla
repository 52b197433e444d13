---------------------------- MODULE ModemSettings ----------------------------
(***************************************************************************)
(* The settings of the modem in the EEPROM of the BNAP node: the shell     *)
(* command modem (src/soft/bnap/src/gsm/cli_modem.c) sets, erases and      *)
(* shows them, the modem's thread reads them when it connects (wavecom.c). *)
(* Both use one open file, whose position they move (settings_modem.c);    *)
(* nothing keeps them apart.  A field of the file is one cell, which holds *)
(* a text and its end.                                                     *)
(***************************************************************************)
EXTENDS Integers

CONSTANTS
  FieldCount,  (* pin, apn, user, pass, server, port, listen: in this order *)
  Texts,       (* what a field may be set to                               *)
  MaxCommands, (* a bound: commands of the shell                           *)
  MaxReads,    (* a bound: fields the modem's thread reads                 *)
  MaxErrors    (* a bound: writes that fail                                *)

ModemSettingsAssumption ==
  /\ FieldCount \in Nat \ {0} /\ Texts \subseteq STRING
  /\ {MaxCommands, MaxReads, MaxErrors} \subseteq Nat

Places == 0 .. FieldCount - 1
Pin == 0                       (* EEPROM_MODEM_PIN_OFFSET                  *)
Empty == ""

VARIABLES
  file, position,   (* ModemSettingsFile                                   *)
  command,          (* what the shell does: set, erase, print; at what field, *)
  step,             (* and idle, seek, access, reseek, check           *)
  said, shown,      (* what it has said of it                              *)
  wants,            (* the field the modem's thread has sought, or nobody   *)
  before,           (* the file as it was before the command               *)
  met,              (* the thread has moved the position during the command *)
  commands, reads, errors

modem == <<wants, reads>>
ghosts == <<before, commands, errors>>
vars == <<file, position, command, step, said, shown, modem, met, ghosts>>

None == -1
Nothing == [kind |-> "none", field |-> 0, text |-> Empty]

(* __set: nothing too long for the field, and four digits for the PIN.     *)
Fits(f, t) == t # "long" /\ (f = Pin => t = "1234")

Init ==
  /\ file \in {c \in [Places -> Texts \cup {Empty}] :
                 \A f \in Places : c[f] = Empty \/ Fits(f, c[f])}
  /\ position = 0
  /\ command = Nothing /\ step = "idle" /\ said = "nothing"
  /\ shown = file /\ wants = None /\ before = file /\ met = FALSE
  /\ commands = 0 /\ reads = 0 /\ errors = 0

-----------------------------------------------------------------------------
Begin(c, s) ==
  /\ step = "idle" /\ commands < MaxCommands /\ commands' = commands + 1
  /\ command' = c /\ step' = s /\ said' = "nothing"
  /\ before' = file /\ met' = (wants # None)
  /\ UNCHANGED <<file, position, shown, modem, errors>>

SetCommand ==
  \E f \in Places, t \in Texts :
    /\ Fits(f, t)
    /\ Begin([kind |-> "set", field |-> f, text |-> t], "seek")

EraseCommand == Begin([Nothing EXCEPT !.kind = "erase"], "seek")

PrintCommand == Begin([Nothing EXCEPT !.kind = "print"], "reseek")

WriteWhereItIs(to) == step' = to /\ UNCHANGED position

(* chFileStreamSeek *)
Seek(to) == position' = command.field /\ step' = to

SeekToWrite ==
  /\ step = "seek" /\ Seek("access")
  /\ UNCHANGED <<file, command, said, shown, modem, met, ghosts>>

Ends(what) == step' = "idle" /\ said' = what

(* chFileStreamWrite: where the position is by then.                       *)
Write ==
  /\ step = "access" /\ position < FieldCount
  /\ file' = [file EXCEPT ![position] = command.text] /\ position' = position + 1
  /\ IF command.kind = "set"
     THEN step' = "reseek" /\ UNCHANGED <<command, said>>
     ELSE IF command.field = FieldCount - 1
     THEN Ends("OK") /\ UNCHANGED command
     ELSE command' = [command EXCEPT !.field = @ + 1] /\ UNCHANGED <<step, said>>
  /\ UNCHANGED <<shown, modem, met, ghosts>>

(* The end of the file, or a failure of the bus: erase takes no notice.    *)
WriteFails ==
  /\ step = "access"
  /\ \/ position = FieldCount /\ UNCHANGED errors
     \/ errors < MaxErrors /\ errors' = errors + 1
  /\ IF command.kind = "set"
     THEN Ends("error") /\ UNCHANGED command
     ELSE IF command.field = FieldCount - 1
     THEN Ends("OK") /\ UNCHANGED command
     ELSE command' = [command EXCEPT !.field = @ + 1] /\ UNCHANGED <<step, said>>
  /\ UNCHANGED <<file, position, shown, modem, met, before, commands>>

SeekToRead ==
  /\ step = "reseek" /\ Seek("check")
  /\ UNCHANGED <<file, command, said, shown, modem, met, ghosts>>

(* What a read gives: nothing at the end of the file.                      *)
Found == IF position < FieldCount THEN file[position] ELSE Empty

AfterRead == position' = IF position < FieldCount THEN position + 1 ELSE position

(* The end of __write_and_check. *)
Check ==
  /\ step = "check" /\ command.kind = "set"
  /\ AfterRead
  /\ Ends(IF position < FieldCount /\ Found = command.text THEN "OK" ELSE "error")
  /\ UNCHANGED <<file, command, shown, modem, met, ghosts>>

(* cli_modem_print_all, a field. *)
Shows ==
  /\ step = "check" /\ command.kind = "print"
  /\ AfterRead
  /\ shown' = [shown EXCEPT ![command.field] = Found]
  /\ IF command.field = FieldCount - 1
     THEN Ends("OK") /\ UNCHANGED command
     ELSE /\ command' = [command EXCEPT !.field = @ + 1]
          /\ step' = "reseek" /\ UNCHANGED said
  /\ UNCHANGED <<file, modem, met, ghosts>>

-----------------------------------------------------------------------------
(* read_modem_param in the modem's thread: seek, and read when the bus is  *)
(* free.                                                                   *)
ModemSeeks ==
  /\ wants = None /\ reads < MaxReads /\ reads' = reads + 1
  /\ wants' \in Places /\ position' = wants'
  /\ met' = TRUE
  /\ UNCHANGED <<file, command, step, said, shown, ghosts>>

ModemReads ==
  /\ wants # None /\ wants' = None
  /\ AfterRead /\ met' = TRUE
  /\ UNCHANGED <<file, command, step, said, shown, reads, ghosts>>

Shell ==
  \/ SetCommand \/ EraseCommand \/ PrintCommand
  \/ SeekToWrite \/ Write \/ WriteFails \/ SeekToRead \/ Check \/ Shows

Next == Shell \/ ModemSeeks \/ ModemReads

Spec == Init /\ [][Next]_vars

-----------------------------------------------------------------------------
Result ==
  CASE command.kind = "set" -> [before EXCEPT ![command.field] = command.text]
    [] command.kind = "erase" -> [f \in Places |-> Empty]
    [] OTHER -> before

(* When a command has said that it did what it should, and the modem's     *)
(* thread has not moved the position meanwhile nor a write failed that     *)
(* erase takes no notice of, it did that and nothing else; whatever was    *)
(* spoiled before.  What was printed is what is there.                     *)
CommandIsTrue ==
  said = "OK" /\ ~met /\ (command.kind = "erase" => errors = 0) =>
    /\ file = Result
    /\ command.kind = "print" => shown = file

(* "check written data" (cli_modem.c:88): what set found right is in its   *)
(* field.                                                                  *)
SetIsChecked ==
  said = "OK" /\ command.kind = "set" => file[command.field] = command.text
=============================================================================
