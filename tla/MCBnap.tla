------------------------------- MODULE MCBnap -------------------------------
(* Five programs of the BNAP board that share no state, each explored by   *)
(* itself: the modem's connection (gsm/wavecom.c), the shell that shares   *)
(* the DM port (cli/cli.c, link/dmcli_switcher.c), the modem's settings    *)
(* file (gsm/cli_modem.c), the messages inside the modem's stream and the  *)
(* command line (cli/cli.c).  A behaviour picks one of them and leaves the *)
(* others where they start.                                                *)
EXTENDS Modem

CONSTANTS
  Loops, Listeners, HeapSize, Overhead,        (* of ShellSwitch           *)
  FieldCount, Texts, MaxCommands, MaxReads, MaxErrors, (* of ModemSettings *)
  MaxLen, MaxMessages,                         (* of Escape                *)
  MaxLines                                     (* of Completion            *)

VARIABLE unit

ASSUME ModemConstants == ModemAssumption

(* cli.c, dmcli_switcher.c: the threads on the heap. *)
VARIABLES
  sh_enable, threads_pc, shell_active, alive, final, terminated, shell,
  current_cmd_tp, panic, careless
threads == <<sh_enable, threads_pc, shell_active, alive, final, terminated, shell,
  current_cmd_tp, panic, careless>>
Port == INSTANCE ShellSwitch WITH pc <- threads_pc
ASSUME ShellConstants == Port!ShellAssumption /\ Port!HeapAssumption

(* cli_modem.c, settings_modem.c: the modem's settings in their file. *)
VARIABLES
  file, position, command, step, said, shown, wants, before, met, commands,
  reads, errors
fields == <<file, position, command, step, said, shown, wants, before, met,
  commands, reads, errors>>
Pin == INSTANCE ModemSettings
ASSUME SettingsConstants == Pin!ModemSettingsAssumption

(* gen_link_unpacker.py: messages inside a stream of bytes. *)
VARIABLES
  msg, line, prev_c, got, split, sent
stream == <<msg, line, prev_c, got, split, sent>>
Udp == INSTANCE Escape
ASSUME EscapeConstants == Udp!EscapeAssumption

(* cli.c: the names of commands, and TAB. *)
VARIABLES
  table, compl_world, args, bit, shell_pc, i, j, read, found, completed, pressed
line_editor == <<table, compl_world, args, bit, shell_pc, i, j, read, found,
  completed, pressed>>
Tab == INSTANCE Completion
ASSUME CompletionConstants == Tab!CompletionAssumption

(* One unit runs; the others stay in an initial state. *)
PickInit ==
  /\ unit \in {"modem", "shell", "settings", "stream", "line"}
  /\ unit # "modem" => settings = TRUE
  /\ unit # "shell" => sh_enable = 1
  /\ unit # "settings" => file = [f \in Pin!Places |-> Pin!Empty]
  /\ Init
  /\ Port!Init
  /\ Pin!Init
  /\ Udp!Init
  /\ Tab!Init
  /\ unit # "line" => table = Tab!BnapTable

ModemStep ==
  /\ unit = "modem" /\ Next
  /\ UNCHANGED <<unit, threads, fields, stream, line_editor>>

ShellStep ==
  /\ unit = "shell" /\ Port!Next
  /\ UNCHANGED <<unit, vars, fields, stream, line_editor>>

SettingsStep ==
  /\ unit = "settings" /\ Pin!Next
  /\ UNCHANGED <<unit, vars, threads, stream, line_editor>>

StreamStep ==
  /\ unit = "stream" /\ Udp!Next
  /\ UNCHANGED <<unit, vars, threads, fields, line_editor>>

LineStep ==
  /\ unit = "line" /\ Tab!Next
  /\ UNCHANGED <<unit, vars, threads, fields, stream>>

PickNext == ModemStep \/ ShellStep \/ SettingsStep \/ StreamStep \/ LineStep

everything == <<unit, vars, threads, fields, stream, line_editor>>

PickSpec == PickInit /\ [][PickNext]_everything

(* The fairness of the specification that runs; that of the others asks    *)
(* for nothing, for none of their steps is possible.                       *)
On(u, A) == unit = u /\ A

PickFairness ==
  /\ WF_vars(On("modem", ThreadStep)) /\ WF_vars(On("modem", RssiAsks))
  /\ \A s \in Senders : WF_vars(On("modem", Writes(s)))
  /\ <>[][WellAnswered]_vars
  /\ WF_threads(On("shell", Port!SwitcherStep)) /\ WF_threads(On("shell", Port!ShellRuns))
  /\ SF_threads(On("shell", Port!Dies))
  /\ \A t \in Port!Dm \cup Port!Commands : WF_threads(On("shell", Port!Ends(t)))

FairPickSpec == PickSpec /\ PickFairness

-----------------------------------------------------------------------------
(* wavecom.c:41, 591-636, cli_modem.c:223: a silent connection is given    *)
(* up, a lost one comes back as soon as the network works for good, and    *)
(* who waits for the end of the thread does not wait for ever.             *)
ModemComesBack ==
  unit = "modem" => SilenceIsNoticed /\ Reconnects /\ TerminateEnds

(* dmcli_switcher.c:56-73, main.h:14, cli.c:210: one owner of the port,    *)
(* room for every thread that is forked, and no look at freed memory, each *)
(* until the operator does what the code is not made for (careless); and   *)
(* (cli.c:73-155) TAB, Enter and help mean the commands of the table.      *)
ShellIsSafe ==
  /\ unit = "shell" =>
       Port!TypeOK /\ Port!PortHasOneOwner /\ Port!HeapIsLongEnough /\ Port!PointerIsAlive
  /\ unit = "line" =>
       Tab!StaysInside /\ Tab!OffersMatches /\ Tab!RunsWhatIsTyped /\ Tab!HelpIsComplete

(* dmcli_switcher.c:56-73: the port goes to whom SH_enable gives it.       *)
PortFollowsFlag == unit = "shell" => Port!PortFollowsFlag

(* cli_modem.c:70-140, gen_link_unpacker.py:60-93: a settings command that *)
(* says it did something did that and nothing else, unless it met the      *)
(* modem's thread or an erase met a disk error, and a message comes out of *)
(* the stream as it was put into it.                                       *)
TextIsWhole ==
  /\ unit = "settings" => Pin!CommandIsTrue
  /\ unit = "stream" => Udp!MessageIsWhole
=============================================================================
