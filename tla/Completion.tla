----------------------------- MODULE Completion -----------------------------
(***************************************************************************)
(* The commands of a shell and what the operator makes of them             *)
(* (src/soft/bnap/src/cli/cli.c, src/soft/mpiovd/src/link/cli.c, which do  *)
(* the same with tables of their own): TAB asks for the names that begin   *)
(* with what is typed, in an array that is never made anew and that the    *)
(* line editor reads to its first NULL; Enter looks the name up; help      *)
(* names all commands.  A name is as many of its first letters as it takes *)
(* to tell it from the others.                                             *)
(***************************************************************************)
EXTENDS Integers, Sequences, SequencesExt, FiniteSetsExt

CONSTANT MaxLines   (* times the operator presses TAB or Enter             *)

CompletionAssumption == MaxLines \in Nat

(* chibiutils: agps, clear, date, help, info, logout, loop, modem, param,  *)
(* selftest, storage, uname.                                               *)
BnapTable ==
  <<<<"a">>, <<"c">>, <<"d">>, <<"h">>, <<"i">>, <<"l", "o", "g">>,
    <<"l", "o", "o">>, <<"m">>, <<"p">>, <<"s", "e">>, <<"s", "t">>, <<"u">>>>

(* ps, uname, help, clear, list, logout, selftest, sensors, storage, param. *)
MpiovdTable ==
  <<<<"p", "s">>, <<"u">>, <<"h">>, <<"c">>, <<"l", "i">>, <<"l", "o">>,
    <<"s", "e", "l">>, <<"s", "e", "n">>, <<"s", "t">>, <<"p", "a">>>>

Null == <<>>         (* no name is empty                                   *)
NotFound == -1

VARIABLES
  table,             (* chibiutils without its end marker                  *)
  compl_world,       (* as many as chibiutils with it, and one             *)
  args, bit,         (* what is typed: the number of words, the first one  *)
  shell_pc,          (* edit, match, all, end, read, search, help          *)
  i, j,              (* of complete(), cmd_search() and help_clicmd(); the *)
                     (* index of the line editor                           *)
  read,              (* the names the operator saw last                    *)
  found,             (* what cmd_search returned                           *)
  completed,         (* the line editor has put a whole name there         *)
  pressed

vars == <<table, compl_world, args, bit, shell_pc, i, j, read, found, completed, pressed>>

Count == Len(table)
(* Rows of C arrays begin with 0; behind the last one is the end marker.   *)
Name(n) == IF n < Count THEN table[n + 1] ELSE Null
World == 0 .. Count + 1

(* A static array is empty at first. *)
Init ==
  /\ table \in {BnapTable, MpiovdTable}
  /\ compl_world = [n \in World |-> Null]
  /\ args = 0 /\ bit = Null /\ shell_pc = "edit" /\ i = 0 /\ j = 0
  /\ read = <<>> /\ found = NotFound /\ completed = FALSE /\ pressed = 0

Beginnings == UNION {{SubSeq(table[n], 1, l) : l \in 1 .. Len(table[n])} : n \in 1 .. Count}

(* What may be typed: a beginning of a name, or no such thing.             *)
Words == Beginnings \cup {<<"x">>, <<"l", "x">>}

Goes(from, to) == shell_pc = from /\ shell_pc' = to

Types ==
  /\ shell_pc = "edit" /\ pressed < MaxLines
  /\ \/ args' = 0 /\ bit' = Null
     \/ args' \in {1, 2} /\ bit' \in Words
  /\ completed' = FALSE
  /\ UNCHANGED <<table, compl_world, shell_pc, i, j, read, found, pressed>>

-----------------------------------------------------------------------------
(* complete *)

Tab ==
  /\ Goes("edit", IF args = 1 THEN "match" ELSE "all")
  /\ pressed < MaxLines /\ pressed' = pressed + 1
  /\ compl_world' = [compl_world EXCEPT ![0] = Null]
  /\ i' = 0 /\ j' = 0
  /\ UNCHANGED <<table, args, bit, read, found, completed>>

(* strstr finds the word where the name begins. *)
Begins(n) == IsPrefix(bit, n)

Matches ==
  /\ Goes("match", "match") /\ Name(i) # Null
  /\ i' = i + 1
  /\ IF Begins(Name(i))
     THEN compl_world' = [compl_world EXCEPT ![j] = Name(i)] /\ j' = j + 1
     ELSE UNCHANGED <<compl_world, j>>
  /\ UNCHANGED <<table, args, bit, read, found, completed, pressed>>

TakesAll ==
  /\ Goes("all", "all") /\ Name(j) # Null
  /\ compl_world' = [compl_world EXCEPT ![j] = Name(j)] /\ j' = j + 1
  /\ UNCHANGED <<table, args, bit, i, read, found, completed, pressed>>

EndMark == compl_world' = [compl_world EXCEPT ![j] = Null]

Ended ==
  \/ Goes("match", "read") /\ Name(i) = Null
  \/ Goes("all", "read") /\ Name(j) = Null

Ends ==
  /\ Ended /\ EndMark
  /\ i' = 0 /\ read' = <<>>
  /\ UNCHANGED <<table, args, bit, j, found, completed, pressed>>

-----------------------------------------------------------------------------
(* The line editor: it shows what is offered, and puts what all of it has  *)
(* in common in place of the word; a whole name is followed by a blank,    *)
(* behind which another word begins.                                       *)
Reads ==
  /\ Goes("read", "read") /\ i \in World /\ compl_world[i] # Null
  /\ read' = Append(read, compl_world[i]) /\ i' = i + 1
  /\ UNCHANGED <<table, compl_world, args, bit, j, found, completed, pressed>>

Common == LongestCommonPrefix(Range(read))

Completes ==
  /\ Goes("read", "edit") /\ i \in World /\ compl_world[i] = Null
  /\ IF args = 1 /\ read # <<>>
     THEN /\ bit' = Common /\ completed' = (Len(read) = 1)
          /\ args' = IF Len(read) = 1 THEN 2 ELSE 1
     ELSE UNCHANGED <<args, bit, completed>>
  /\ UNCHANGED <<table, compl_world, i, j, read, found, pressed>>

-----------------------------------------------------------------------------
(* execute, cmd_search *)

Enter ==
  /\ Goes("edit", "search") /\ args > 0
  /\ pressed < MaxLines /\ pressed' = pressed + 1
  /\ i' = 0 /\ found' = NotFound /\ read' = <<>>
  /\ UNCHANGED <<table, compl_world, args, bit, j, completed>>

SearchesOn ==
  /\ Goes("search", "search") /\ Name(i) \notin {Null, bit} /\ i' = i + 1
  /\ UNCHANGED <<table, compl_world, args, bit, j, read, found, completed, pressed>>

(* strcmp, and what is done then: help names the commands, the others are  *)
(* not of this module, and a name that is not there is told to be unknown. *)
Searched ==
  /\ Name(i) \in {Null, bit}
  /\ Goes("search", IF bit = <<"h">> THEN "help" ELSE "done")
  /\ found' = IF Name(i) = bit THEN i ELSE NotFound
  /\ i' = 0
  /\ UNCHANGED <<table, compl_world, args, bit, j, read, completed, pressed>>

Help ==
  /\ Goes("help", "help") /\ Name(i) # Null
  /\ read' = Append(read, Name(i)) /\ i' = i + 1
  /\ UNCHANGED <<table, compl_world, args, bit, j, found, completed, pressed>>

(* The prompt again. *)
Prompt ==
  /\ \/ Goes("help", "edit") /\ Name(i) = Null
     \/ Goes("done", "edit")
  /\ args' = 0 /\ bit' = Null /\ i' = 0 /\ found' = NotFound /\ completed' = FALSE
  /\ UNCHANGED <<table, compl_world, j, read, pressed>>

Next ==
  \/ Types \/ Tab \/ Matches \/ TakesAll \/ Ends
  \/ Reads \/ Completes \/ Enter \/ SearchesOn \/ Searched \/ Help \/ Prompt

Spec == Init /\ [][Next]_vars

-----------------------------------------------------------------------------
(* cli.c:73, 139-155: what is written and what is read is inside of the    *)
(* array, and the NULL that ends it is there while it is read.             *)
StaysInside ==
  /\ shell_pc \in {"match", "all"} => j \in World
  /\ shell_pc = "read" => i \in World /\ j \in World /\ compl_world[j] = Null

(* The names among the first n of the table that begin with what is typed. *)
Offered[n \in 0 .. Count] ==
  IF n = 0 THEN <<>>
  ELSE IF Begins(table[n]) THEN Append(Offered[n - 1], table[n]) ELSE Offered[n - 1]

(* cli.c:134-152: the operator is offered the commands that begin with     *)
(* what was typed, in the order of the table, and nothing of an earlier    *)
(* TAB; without one word to go by, all of them.                            *)
OffersMatches ==
  shell_pc = "read" /\ compl_world[i] = Null =>
    read = IF args = 1 THEN Offered[Count] ELSE table

(* cli.c:93-102, 111: Enter runs the command of that name and no other,    *)
(* and a name that TAB has completed is always a command.                  *)
RunsWhatIsTyped ==
  shell_pc = "done" =>
    /\ IF found = NotFound THEN bit \notin Range(table) ELSE Name(found) = bit
    /\ completed => found # NotFound

(* cli.c:256-260: help leaves no command out. *)
HelpIsComplete == shell_pc = "help" /\ Name(i) = Null => read = table
=============================================================================
