------------------------------ MODULE MCGround ------------------------------
(* Four programs on the ground that share no state, each explored by       *)
(* itself: the loader of firmware (mpiovd/stm32loader.py), the displays of *)
(* telemetry (face, som), the tuner of parameters (face/tuner) and the     *)
(* serial port under them (som/qextserialport).  A behaviour picks one of  *)
(* them and leaves the others where they start.                            *)
EXTENDS Integers, Sequences

CONSTANTS
  Blocks, MaxLoss,                           (* of Loader                  *)
  QueueSize, Timeout,                        (* of Displays                *)
  OnboardParamCount, Values, Low, High,      (* of Tuner                   *)
  MaxRefreshes, MaxSets, MaxLostDatagrams,
  Rates, Timeouts, BasicBlockSize,           (* of SerialPort              *)
  MaxBytes, MaxChanges, MaxErrors

VARIABLE unit

MCJob == [erase |-> TRUE, write |-> TRUE, verify |-> TRUE]

(* stm32loader.py. *)
VARIABLES
  cmd, block, at, job, data, outcome, released, down, up, chip, place, flash,
  loader_lost
loader == <<cmd, block, at, job, data, outcome, released, down, up, chip, place, flash,
  loader_lost>>
Flash == INSTANCE Loader WITH lost <- loader_lost
ASSUME LoaderConstants == Flash!LoaderAssumption

(* link.py, telemetry.py, hud.py, serialproxy.py, Window.cpp. *)
VARIABLES
  silent, m, input, waited, q_tlm, tlm, since, hud, reader, writer, proxy,
  misused, heard, green, timer, gap
displays == <<silent, m, input, waited, q_tlm, tlm, since, hud, reader, writer,
  proxy, misused, heard, green, timer, gap>>
Desk == INSTANCE Displays
ASSUME DisplayConstants == Desk!DisplayAssumption

(* main.py, parameters.py. *)
VARIABLES
  value, mail, next, port, pc, result, params, tree, clean, refreshes,
  sets, tuner_lost
tuner == <<value, mail, next, port, pc, result, params, tree, clean, refreshes,
  sets, tuner_lost>>
Tune == INSTANCE Tuner WITH MaxLoss <- MaxLostDatagrams, lost <- tuner_lost
ASSUME TunerConstants == Tune!TunerAssumption

(* qextserialport.cpp, qextserialport_unix.cpp. *)
VARIABLES
  isOpen, tty_settings, settingsDirtyFlags, termios, spaced, queryMode, notifier,
  queued, tty_buf, tty_first, tty_len, qio, got, dropped, tty_sent, changes, errors
tty == <<isOpen, tty_settings, settingsDirtyFlags, termios, spaced, queryMode,
  notifier, queued, tty_buf, tty_first, tty_len, qio, got, dropped, tty_sent, changes,
  errors>>
Tty == INSTANCE SerialPort WITH
  settings <- tty_settings, buf <- tty_buf, first <- tty_first, len <- tty_len,
  sent <- tty_sent
ASSUME PortConstants == Tty!PortAssumption

(* One unit runs; the others stay in an initial state. *)
PickInit ==
  /\ unit \in {"loader", "displays", "tuner", "serial"}
  /\ unit # "loader" => job = MCJob /\ chip = "sync" /\ flash = [b \in 1 .. Blocks |-> "old"]
  /\ unit # "tuner" => value = [p \in Tune!Params |-> Low]
  /\ unit # "serial" => tty_settings = Tty!Default /\ queryMode = "Polling"
  /\ Flash!Init
  /\ Desk!Init
  /\ Tune!Init
  /\ Tty!Init

LoaderStep ==
  /\ unit = "loader" /\ Flash!Next
  /\ UNCHANGED <<unit, displays, tuner, tty>>

DisplaysStep ==
  /\ unit = "displays" /\ Desk!Next
  /\ UNCHANGED <<unit, loader, tuner, tty>>

TunerStep ==
  /\ unit = "tuner" /\ Tune!Next
  /\ UNCHANGED <<unit, loader, displays, tty>>

SerialStep ==
  /\ unit = "serial" /\ Tty!Next
  /\ UNCHANGED <<unit, loader, displays, tuner>>

PickNext == LoaderStep \/ DisplaysStep \/ TunerStep \/ SerialStep

everything == <<unit, loader, displays, tuner, tty>>

PickSpec == PickInit /\ [][PickNext]_everything

(* The fairness of the specification that runs; that of the others asks    *)
(* for nothing, for none of their steps is possible.                       *)
On(u, A) == unit = u /\ A

PickFairness ==
  /\ WF_loader(On("loader", Flash!Host))
  /\ WF_displays(On("displays", Desk!TimesOut)) /\ WF_displays(On("displays", Desk!Puts))
  /\ WF_displays(On("displays", Desk!Gets)) /\ WF_displays(On("displays", Desk!Hud))
  /\ WF_displays(On("displays", Desk!ReaderGoes /\ reader' = "ended"))
  /\ WF_displays(On("displays", Desk!WriterGoes /\ writer' = "ended"))
  /\ WF_displays(On("displays", Desk!Closes)) /\ WF_displays(On("displays", Desk!Tick))
  /\ WF_tuner(On("tuner", Tune!Board)) /\ WF_tuner(On("tuner", Tune!Opens))
  /\ WF_tuner(On("tuner", Tune!Receive)) /\ WF_tuner(On("tuner", Tune!TimesOut))

FairPickSpec == PickSpec /\ PickFairness

-----------------------------------------------------------------------------
(* stm32loader.py:417-420: "Verification OK" is true.                      *)
SaidIsWritten == unit = "loader" => Flash!SaidIsWritten

(* Window.cpp:103-122, serialproxy.py:83-102, main.py:55-87: a green label *)
(* is recent, nobody touches a port the proxy has closed, and after a      *)
(* whole refresh the tuner shows what the node has.                        *)
ScreensAreRight ==
  /\ unit = "displays" => Desk!LabelsAreRecent
  /\ unit = "tuner" => Tune!TreeIsBoards

(* qextserialport.cpp:280-330, qextserialport_unix.cpp:170-520: no byte is *)
(* reordered or doubled, and the device is set as the settings say, but    *)
(* for the data bits once space parity was used, or with eight of them.    *)
PortIsAsSet ==
  unit = "serial" => Tty!BytesInOrder /\ Tty!DeviceFollowsSettings

(* stm32loader.py:434-435, main.py:62-87: the chip is let go, and a        *)
(* refresh ends, whatever is lost.                                         *)
LossEndsNothing ==
  /\ unit = "loader" => Flash!Ends
  /\ unit = "tuner" => Tune!RefreshEnds

(* hud.py:79-83, serialproxy.py:83-102, telemetry.py:861-862: the          *)
(* processes of a closed window end, and a vehicle that fell silent is     *)
(* warned of if the last it said was no sensors.                           *)
AllEndsAndIsTold == unit = "displays" => Desk!AllEndsAndIsTold
=============================================================================
