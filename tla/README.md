# Verification of the volat3 nodes

volat3 is the electronics of a vehicle: the **BNAP** node (SAM7, ChibiOS/RT)
receives GPS and sensor data, logs them to an SD card, talks to a control centre
(CC) over a GSM modem and to a diagnostic port (DM); the **MPIOVD** node (STM32,
ChibiOS/RT) measures and counts, and sends what it has over a serial line. On
the ground and in the cab there are displays, a tuner of parameters and a
loader of firmware. This directory holds TLA+ models of the parts of these
programs that have to be right and are hard to test, the TLC runs that check
them, and theorems that TLAPS proves. All paths below are relative to the
repository; `bnap/`, `mpiovd/`, `face/` and `som/` stand for `src/soft/bnap/` and
so on.

## 1. Inventory

| Component | State | Operations | Interacts with |
|---|---|---|---|
| Vehicle log, `bnap/src/storage/storage.c` | the blocks of the card; `tip`, `used`, `mtime`; one block buffer | mount (binary search), record, read, wipe | clock, flags `time_good`, `time_proved` |
| Log threads, `microsd.c`, `cli_storage.c` | `Storage.semaphore`, the requests in progress, the card in its slot | writer with its insert and remove handlers, CC and DM readers, `storage stat`, `storage wipe` | vehicle log, `cc_out`, `dm_out`, shell |
| System time, `bnap/src/time/timekeeper.c` | `SysTimeUsec`, `SysTimeShift`, `PpsTimeStamp` | tick and pulse interrupts, correction thread, boot | GPS receiver, RTC, vehicle log |
| RTC, `ds1338.c`, `i2c_local.c` | the registers of the chip, one buffer, the bus | set, get, `date` | system time, EEPROM |
| GPS, `bnap/src/gps.c` | `gps_timp`, two messages, the sentence so far | hunt for a sentence, check, parse GGA and RMC, broadcast | system time, packers |
| Ports, packers, unpackers, `bnap/src/link/` | `cc_out`, `dm_out`, `cc_in`, `dm_in`; one structure per message; one parser state | wait for an event, limit the rate, copy, lock, write; parse, decode, broadcast | everything that sends |
| Modem, `bnap/src/gsm/` | `modem_connected`, `fake_rssi`, tries, the settings file | connect, watch heartbeats, reconnect, RSSI, `modem` commands, `modem cross` | CC port, EEPROM, shell |
| Parameters, `bnap/src/param/`, `mpiovd/src/parameters/` | the registry in RAM, the file in the EEPROM | load, save, set, send | MAVLink messages, shell |
| Shell, `bnap/src/cli/`, `dmcli_switcher.c` | which threads are alive, a heap for them | start and stop the link or the shell on the DM port, commands | all threads it terminates |
| Texts, heartbeats, load, LEDs, `bnap/src/` `bnap_ui.c`, `mavlink_dbg.c`, `sanity.c` | one structure, counters of ticks, two parameters of LEDs | print, beat, compute the load, blink | packers |
| Trip and uptime, `mpiovd/src/storage.c` | counters in RAM, a ring of double words in the EEPROM | fsck, load, save, `storage dump`, `storage trip N` | pulse interrupt, shell |
| Mail, `mpiovd/src/link/`, `autopilot.c`, `sanity.c` | two boxes, one payload slot per mail, the confirmation box | sort in, sort out, commands, parameters, telemetry, heartbeats | link threads, shell |
| Shells, USB and CAN, `mpiovd/src/link/` | threads on the heap, `shell_tp`, the shared interrupt, the USB driver with its endpoints, the queues of the port | switch the UART, follow the plug, describe the device, read and write, commands | link threads, the host |
| Sensors, `mpiovd/src/sensors/`, `dsp/` | two readings of the contacts, accumulators of the filters, `SPI_SAMPLE_FLAG`, `raw_data`, `mavlink_mpiovd_sensors_struct` | check voltage on and off, normalise, sweep, filter, compute, send, print | mail, CAN, shell |
| Loader, `mpiovd/stm32loader.py` | what it read, what it waits for | sync, erase, write, verify, release | the boot loader of the chip |
| Displays, `face/`, `som/telemetry` | queues, the last message, labels and their timers | receive, queue, draw, end | serial port, UDP |
| Tuner, `face/tuner` | the tree of parameters | refresh, transmit | the parameters of MPIOVD |
| Serial port, `som/qextserialport` | settings and which of them are dirty, read buffer, the device | open, close, set, read | the kernel |

What is hard here: power may go at any time and nothing but the data themselves
says where the log or the counter ended; the clock jumps when the GPS answers;
one buffer, one structure per message, one parser and two ports are shared by up
to ten threads of different priorities; a card and a plug come and go; the shell
ends threads that wait for something; every line loses some of what is said on
it. `PROJECT.json` lists the hazards with their lines and the properties that
cover them.

What makes each component correct:

* log: a mount goes on where the log stopped; a record costs only the oldest
  one; a record number always leads to a record; the search ends.
* log threads: one user of the buffer; one writer to a port; downloads and
  `storage wipe` end; a download contains what it was asked for.
* time: the corrected clock is exact however late the thread runs; a sentence is
  used for the pulse it belongs to; the RTC shows what it was set to; noise on
  the line puts no false position into a message.
* modem: what packer and RSSI thread write into a connection that is given up is
  bounded; into the silences around `+++` goes nothing but a bounded number of the RSSI
  thread's questions; a silent connection is given up and comes back.
* messages: what is set was asked for by one message; what goes out is one
  message, not parts of two; a repeated request is answered.
* parameters: in range whatever the EEPROM holds; a save that ends is whole.
* shells: one reader of a port, room for each thread, no use of a freed one; a port
  is not stopped in use; TAB, Enter and help mean the commands of the table; what
  `param` says was done was done.
* counters: after any power failure the last value written twice is loaded; what
  was counted is saved.
* mail: a value is confirmed before the next one overwrites it; no mail is busy
  for ever.
* sensors: a steady contact is reported; readings with the check voltage on stay
  out of the filters; a filter stays in range and follows its input; what is sent
  and printed is made of what was measured.
* ground: "Verification OK" is true; a green label is recent; a refresh shows
  what the node has; programs end.

## 2. Modules

| Module | Models | Run |
|---|---|---|
| `RecordLog` | what the log promises: a bounded set of records | refined by `BnapStorage` |
| `BnapStorage` | `bnap/.../storage.c`: card, mount, record, wipe, clock, power | `bnap_store`, `safety` |
| `BnapStorage_proofs` | theorems about the log, the parameters and their command | TLAPS |
| `MicroSd` | the threads around it: `microsd.c`, `cli_storage.c`, port users | `micro_sd`, `safety` |
| `MicroSd_proofs` | theorems about it | TLAPS |
| `ParamStore` | parameters and their file, both boards | `bnap_store` |
| `ParamShell` | the command `param`, both boards | `bnap_store` |
| `TimeSync` | `timekeeper.c` with clock, receiver and boot | `clocks` |
| `TimeSync_proofs` | theorems about it, the receiver and the LEDs | TLAPS |
| `Gps` | `gps.c` | `clocks` |
| `Rtc` | `ds1338.c`, its registers, BCD and bus | `clocks` |
| `CpuLoad` | the load of the processor, both boards | `clocks` |
| `Broadcast` | events, texts, the rate of heartbeats, the DM packer | `clocks` |
| `Leds` | the LED threads of `bnap_ui.c` | `clocks` |
| `Messages` | requests for parameters over two links, `memcpy_ts`, the shared parser | `messages` |
| `Messages_proofs` | theorems about it | TLAPS |
| `Modem` | `wavecom.c`, RSSI thread, users of `cc_out` | `bnap_board` |
| `Modem_proofs` | theorems about the five programs of the run | TLAPS |
| `ModemSettings` | the settings file of the modem | `bnap_board` |
| `Escape` | the DLE escapes of the modem's stream | `bnap_board` |
| `ShellSwitch` | `cli.c`, `dmcli_switcher.c`: threads on the heap | `bnap_board` |
| `Completion` | the table of commands, TAB, Enter and help, both boards | `bnap_board` |
| `MpiovdMail` | the mails of MPIOVD | `mpiovd_mail` |
| `MpiovdMail_proofs` | theorems about it | TLAPS |
| `Odometer` | what a counter promises | refined by `TripStore` |
| `TripStore` | `storage.c` of MPIOVD, one counter | `mpiovd_board` |
| `AlphaBeta` | `dsp.c`, one analog channel | `mpiovd_board` |
| `Mpiovd_proofs` | theorems about the programs of this run | TLAPS |
| `UsbShells` | `linkmgr.c`, `can_usb.c`, `cli.c` of MPIOVD | `mpiovd_board` |
| `UsbCdc` | `usb_local.c` under the manager of `can_usb.c`, with a host | `mpiovd_board` |
| `Contacts` | `discrete.c`, `spi_local.c`, the gate in `adc_local.c` | `mpiovd_board` |
| `Telemetry` | `mavsender.c`, what it makes of `raw_data`, and who reads it: `can_local.c`, `sensors_cmd.c` | `mpiovd_board` |
| `Loader` | `stm32loader.py` against the boot loader | `ground` |
| `Displays` | `face/link.py`, `telemetry.py`, `hud.py`, `serialproxy.py`; `som/telemetry/Window.cpp` | `ground` |
| `Tuner` | `face/tuner/main.py` against `param.c` of MPIOVD | `ground` |
| `SerialPort` | `QextSerialPort` as built for Linux | `ground` |
| `Ground_proofs` | theorems about these four programs | TLAPS |

`MCBnapStorage` and `MCMessages` give constants to one module. `MCBnapStore`,
`MCSafety`, `MCBnap`, `MCTime`, `MCMpiovd` and `MCGround` put together programs of
one board that share no state: the variable `unit` picks one of them in the
first state, its `Next` runs and the variables of the others stay at one of
their initial values. So a run explores the sum of the state spaces, never
their product, each property says `unit = ...` and is about the behaviours of its
program alone, and the fairness of the others asks for nothing, as none of their
steps is possible. Nothing is lost by this, for these programs have no variable
in common; those that interact (log threads, ports and modem cross; packers,
unpackers and parameters; the modem and the users of its port; counters and
power) are in one module each. All but `MCSafety` have constants of their own,
with named assumptions, and get their values from the cfg: the theorems about what
is put together there (`PickSpec`) are for every value.

### BnapStorage

`card` maps a block to the stamp of its record. `Blank` is a block that is erased
or torn: `_check_block` cannot tell them apart, since both fail the signature or
the CRC. `NoTime` (-1) is the stamp of a record written with `time_good` but
before the first fix. The loop of `bnapStorageMount` is one action per turn
(`MountBegin`, `SearchKnee`, `MountEnd`), because the clock may be corrected or
the power fail between two turns; everything else is one action per function.
`Record` takes a tick (a block write takes milliseconds), so two records share a
stamp only if the clock is set back between them. `head` and `session` are history variables: the tip when the log
was last ready, and the number of records since the mount.

`Spec` lets the clock do anything; `SteadySpec` adds the postulates of
`storage.c:249-260` and `microsd.c:6-13` as conditions on the environment
(`Postulates`):

* while a card is searched, the clock is past all its records;
* while it is mounted, a correction may set the clock behind the last record, by
  `VoidLimit` at most, and the log waits (`DoRecord` erases beyond that);
* a record is written with a proved time, and no two at the same microsecond;
* an erase, once begun, is not cut by a power failure.

Nothing is said about the flags at a mount: the writer mounts about a second after
the boot (`microsd.c:149-156`), with the time of the RTC, and so does the model,
before or after the first fix. While no card is in use, the clock may be
anywhere. The code enforces none of these postulates; outside of them the search
does lose its way (section 6). The last one is there because any part of the card
may be left by an erase that is cut: `MountResumes` fails then, and a `RecordLog`
that allowed it would allow the loss of everything.

### MicroSd

`pc` says where each thread is; the semaphores are those of ChibiOS: a counter
and a FIFO queue, and a signal hands the semaphore over. Between `SemWait` and the
action after it a thread may be in `blocked`. A record is a serial number, and
`Mount` takes the result that `BnapStorage` proves (two blocks early in the one
exceptional case); without a card it finds anything, as the code ignores the
status of its reads. A failing `chDbgCheck` sets `panic`, which stops the model.
The committed `chconf.h` turns these checks off together with the definition of
`NEED_MODEM_CROSS`: `CrossBuilt` chooses between the two builds.

`QuietNext` states what the users of the log have to respect, and the code does
not see to: a request comes while the log is mounted and not empty, cards are
changed while nobody reads, a card stays out until the writer has noticed. It
removes no step of a thread, only steps of the environment and the
initialisation of the log while a reader is active.

### ParamStore

A record of the file is a name and a value; who loads or saves goes through the
file record by record, every read, write, seek and comparison being a step, with
the one buffer and the one position everybody shares. `board` chooses between
BNAP, which has a semaphore around it, and MPIOVD, which has none: there
`crossed` notes that two threads have been in the file, and the properties are
about behaviours without that (`Safe`). The EEPROM is blank at first, of this
firmware, or of a former one with other names in other places; a power failure
tears the record being written between its two parts.

`ParamShell` has the command of the operator step by step, the two ways in which
the boards search a name, and the Parameters thread that may set the same parameter
between any two steps; what is said is a list of short answers.

### TimeSync, Rtc, Gps, CpuLoad, Broadcast, Leds

`TimeSync`: all times are relative to GPS time, a clock is its error, a stamp its
age in seconds. A second has `Period` slots; slots pass only while
`TimekeeperThread` cannot run, for it has a higher priority than the GPS thread.
The crystals are exact; their drift within a second is what the next correction
removes. `HealthyStep` states the environment of a working receiver: a sentence
only in a second whose pulse was seen and within the timeout, no pulse inside
the tick between a correction and its application, the bus free within a second.

`Rtc` sends the registers byte by byte, in BCD, from the one static buffer that is
filled before the bus is taken; `timekeeper` and `date` may meet there, which `met`
notes. `Gps` reads tokens of sentences, of which the line may lose or change
`MaxNoise`; what a second really was like is `fix`, so that `ShownIsTrue` compares
what is sent with what was so. `CpuLoad` lets ticks come between any two reads of
the counters, which wrap at `Wrap`. `Broadcast` has the printers, the button, the
heartbeats with a clock that wraps, and the packer that takes events one by one.
`Leds` has the two threads that read their parameter once to decide and once to
sleep; a sleep of 0 is taken to end.

### Messages, Modem, ModemSettings, Escape

`Messages`: priorities are guards (`Parameters` above CC above DM), a structure has
two parts and is read and written part by part, `memcpy_ts` compares and tries
again. `Modem` takes an AT command with its answer as one step and leaves open
what the modem answers; `cc_out` has a FIFO queue; `stray` counts messages of the
packer that go into a connection that was given up, `chatter` the questions of the RSSI
thread inside a connection, `questions` those inside the silences around `+++`, and
`intruders` everything else written there. What the CC reader of the log writes looks
at no flag in the code (`microsd.c:199`) and is counted nowhere but in `intruders`. `ModemSettings` has the file position the shell and the modem's thread
both move. `Escape` has three bytes: DLE, ETX and any other.

### ShellSwitch, UsbShells, UsbCdc, Completion

A thread on the heap is `alive` until somebody waits for it, `final` when it has
ended, `terminated` when it was told to. A pointer may outlive its thread;
looking at one whose memory was freed is what `PointerIsAlive` and
`NoFreedThread` are about. The operator may execute a command while another one
runs, or switch the shell off then: the code is not made for that, `careless` and
`both` (two shells at once, on MPIOVD) note it, and the properties name the cases in
which they hold.

`UsbCdc` has the descriptors as items with lengths, the three callbacks, the two
queues and the manager's start and stop; driver and host are external: the host
reads what is described and configures the device once between two resets of the
bus. `Completion` has the tables of both boards, each name cut to the letters that
tell it from the others, and the one static array that TAB fills and the line editor
(external, its sources are not in the repository) reads up to the first NULL.

### MpiovdMail, TripStore

`MpiovdMail`: a box is a sequence, a mail is busy while its payload is set, and the
threads look at payload and result of the post as the code does, each in its own
way. `TripStore`: a slot holds two words; `save` writes one after the other, and a
power failure can come before, between and inside the writes (`Half1`, `Half2`: a
word that is neither old nor new). `fsck` and the two reads behind it are one
action, `Load`. The operator is assumed not to switch the power off inside
`storage trip N`.

### Contacts, AlphaBeta, Telemetry

A word is the set of its bits. The wiring of the first board (`Mirror`), the late
bit of the SPI (`Received`) and the code that undoes both (`Reordered`, `Lifted`)
are all there; a contact may move at any time, and `steady` has those that did not
during a cycle. The ADC interrupt may come between any two steps of the thread
that switches flag and voltage. `AlphaBeta` computes with the real widths divided
down (`Half`, `OutModulus`), and its length may be set while it runs. `Telemetry`
begins where `raw_data` is written: a round of `TLM_Sender` reads level by level while
interrupts bring others, and two threads of a lower priority read the structure byte
by byte while the next round may go on. The logarithm of `_supply_compensate` is a
function from levels to millivolts that the run tabulates.

### Loader, Displays, Tuner, SerialPort

`Loader` is at a step (`at`) of a command (`cmd`), of which the table `Steps` has the
tokens and answers, for a block of the file, and goes on as the options of the `job`
say, against a boot loader that may be slower than the timeout; both directions lose up
to `MaxLoss` tokens, so an answer may be taken for that of a later command. `Displays` has a clock of seconds
and messages that stop at any time. `Tuner` models both ends: the tree of the
window, and the registry of MPIOVD with its checks. `SerialPort` has the settings
as the program wants them, as `termios` has them, and the dirty flags between.

## 3. Runs

| Run | Specification | Properties | Shows |
|---|---|---|---|
| `bnap_store` | `FairPickSpec` | `ServedRecordsExist`, `SteadyInv`, `MountResumes`, `ImplementsRecordLog`, `MountTerminates` (log); `ParamsAreValid`, `SaveIsWhole`, `JobsEnd` (parameters) | what BNAP keeps survives power losses |
| `micro_sd` | `FairSpec` | `DownloadIsSound`, `JobsEnd` | records are sent once while the log goes on, with one user of each port and of the buffer; downloads end; `storage wipe` ends unless the card is taken out |
| `safety` | `PickSpec` | `PortExclusive`, `SessionSorted` | the log with any clock, the ports with any cards, requests and `modem cross` |
| `messages` | `FairSpec` | `MessagesAreWhole`, `AnswerComes` | a client that waits and repeats is served rightly |
| `mpiovd_mail` | `FairSpec` | `OneValueAtATime`, `AnswerComes` | values wait for their confirmation; requests are answered |
| `bnap_board` | `FairPickSpec` | `ModemIsLeftAlone`, `ModemComesBack`, `ShellIsSafe`, `PortFollowsFlag`, `TextIsWhole` | modem, shell, settings, stream, command line |
| `clocks` | `FairPickSpec` | `ClockExact`, `TimeIsKept`, `NoiseHoldsNothing`, `ShownIsTrue`, `LoadIsShare`, `BroadcastsGoOut` | what runs by time |
| `mpiovd_board` | `FairPickSpec` | `TripInv`, `LoadRestores`, `ImplementsOdometer`, `TripIsSaved`, `FilterFollows`, `PortsHaveOwners`, `PlugIsNoticed`, `InputsAreRight` | counters, filter, shells, USB port, contacts and analog inputs of MPIOVD |
| `ground` | `FairPickSpec` | `SaidIsWritten`, `ScreensAreRight`, `PortIsAsSet`, `LossEndsNothing`, `AllEndsAndIsTold` | the programs on the ground |
| `bnap_storage_wipe_in_place` | violation | `WipedLogStartsOver` | a log wiped because of the clock refuses records and is wiped again (`storage.c:20`) |
| `micro_sd_single_record` | violation | `SingleRecordIsSent` | `first==last` sends nothing (`oblique.xml:63`) |
| `mpiovd_heartbeat` | violation | `HeartbeatsGoOn` | a heartbeat that met a full box stays busy; there is none ever after (`sanity.c:51`) |

Where a property of an MC module joins several of the module it is about, they
are defined there, each with its own comment: `DownloadIsSound` has `SendsSoundly`,
`OneUserEach` and `NoPanic`, `TimeIsKept` has `SentenceMatchesPulse` and `BootBehind`, `InputsAreRight` has
`OnePoweredSweep` and `BytesAreTrue`, `NoFrameWithoutCan`, `ValuesAreOrdered` of
`Telemetry`, `FilterFollows` has `StaysInRange`, `ParamsAreValid` has `ConfirmIsTrue` and
`PrintsAllowed` of `ParamShell`; `PortsHaveOwners` has the invariants of `UsbCdc`,
`ShellIsSafe` those of `Completion`, `ShownIsTrue` and `BroadcastsGoOut` the properties of
`Leds`; `ModemIsLeftAlone` has `StrayBounded`, `ChatterBounded` and `EscapeBounded`. One module of each run is extended
(`BnapStorage`, `TripStore`, `TimeSync`, `Modem`, `Messages`), so that its properties are those the theorems
name; they hold of the other units as well, where its variables stay as they are.

**Bounds.** The log has five blocks where it is steady: two turns of the search
with both outcomes and a full wrap, and the clock runs long enough to fill the
card and write three more records, over its end and after a mount two blocks early; three blocks, the smallest card on which the two ends of the ring and
its middle differ, and four ticks where the clock jumps by -4 to 1. The theorems
remove these bounds, and those below, for every invariant, action property and
refinement; what is left to them is liveness. `MicroSd` needs a card of three
blocks to be full during a download, one message per record (a second only
repeats lock, write, unlock), one insertion or wipe and four records so that a
full card goes on recording; with `modem cross` one reader and one record are
enough, for only the ports are looked at. Two parameters, one that may be off, are
what a load can confuse; two values of each a copy can mix; one client at a time
sends, while the other link is noise. A mailbox of three places is full with one
mail of each kind, one of four when telemetry is posted while nobody fetches.
The modem tries twice and stays silent for two units: one try that fails and one
that wraps. Four seconds of GPS are two broadcasts and a wrong one between them;
`MaxNoise` is two, a lost and a changed token. Counters of ticks wrap at 16 with a
period of 3 and one late tick, the clock of heartbeats at 4 with periods to 2: they
begin again inside a period and between two. The ring of the counter has four
slots and counts to six, once around and on. Samples to 3, lengths to 3 and two
changes reach both ends of the accumulator from each length. Two bits of a word
of the contacts are a tetrad to turn round and a byte to be late; each has all its
positions, and the masks are the sound ones and none. The serial port reads two
bytes with a buffer block of one, so that each block boundary is crossed, one
setting is changed and one call fails. Of `Telemetry` two sensors, two levels and two
changes are a round that sees an old and a new one; one of its two readers runs at a
time (`MCMpiovd`), as they share nothing they write. A queue of the USB port holds two
bytes and the port is started twice, so that a byte of the first time could be left in
the second. Two events per LED are one that comes while it is lit. TAB or Enter is
pressed twice, so that the array of completion holds an earlier answer; the tables are
the real ones. The loader has two blocks and loses two
tokens; the tuner has two parameters, two refreshes, one value set by another and
one lost datagram; a queue of two is full and a label has a timer of three.

Deadlock is checked in `micro_sd`, `messages` and `mpiovd_mail`, whose systems never
stop. In the others a unit may: after `panic`, or with `modem cross`, or where its
bounds are used up.

**Fairness.** There is no round robin (`CH_TIME_QUANTUM` is 0, `bnap/chconf.h:63`),
but every thread of every priority sleeps or waits for its port, bus or event in
each turn of its loop, so a thread that can run does run: weak fairness per
thread in `MicroSd`, `ParamStore`, `Messages`, `MpiovdMail`, `Modem`, `ShellSwitch`,
`UsbShells`, of the mount in `BnapStorage`, of the saving thread (which wakes by a
timer) in `TripStore`, of time and the thread in `TimeSync`, of each process on the
ground. `SetRtc` is fair if the chips on the I2C bus answer: every transaction waits
for them without a limit (`TIME_INFINITE`), and the bus is released after it. A
shell looks at `chThdShouldTerminate` in every turn of its loop, whatever it does
in between, which is strong fairness of `Dies`; the packer of `Broadcast` meets a
text between two heartbeats (`chEvtWaitOne` takes the lowest bit first, but a
heartbeat has a period), which is strong fairness of taking it. Three statements
are about an environment that is good from some time on: the network of `Modem`
(`WellAnswered`), the links of `Messages` and the ground station of `MpiovdMail` that
repeats its request. Requests, card changes, plugs, fixes, sentences, noise and shell
commands are never fair, nor is a semaphore: it is granted in the order of its
queue, which the models have.

## 4. Theorems

`BnapStorage_proofs` (of the log for every card of at least three blocks, every
limit, every set of corrections):

* `TypeCorrect`: `Spec => []TypeOK`.
* `SteadyCorrect`: `SteadySpec => [](TypeOK /\ SteadyInv)`. `SteadyInv` is the
  inductive invariant. "The mount finds the tip" is not inductive: one has to know
  that the stamps ascend up to `head`, that those behind it are older than block
  0 (`KneeInv`), where blank blocks may be (`BlankInv`: behind head, as one
  stretch up to the end, or at head itself, torn), that all records have a stamp,
  which is past while the card is searched, so that the check of a block returns it
  (`PastInv`), and that the search has the knee between its two blocks (`MountInv`).
  The last block may break the order after a mount two blocks early; `KneeInv` says
  exactly when that is seen. That a record is the newest is no postulate but follows
  (`RecordIsNewest`): `DoRecord` waits while the clock is behind `mtime`.
* `MountCorrect`, `ServedCorrect`: `MountResumes` and `ServedRecordsExist` from it,
  under the same postulates; the mount need not wait for the time to be proved.
* `OrderCorrect`: `Spec => []SessionSorted`, for a clock that jumps as it likes.
  `SessionInv` adds that `mtime` is the newest stamp of the session, with which
  `DoRecord` compares the clock, and that all stamps are `NoTime` until the time is
  proved; a proof of the time is lost only together with the session.
* `CardImplementsRecordLog`: `SteadySpec => ImplementsRecordLog`, a refinement under
  the same postulates (an erase is completed). A
  record, a mount and an erase map to steps of `RecordLog`. It needs, besides
  `SteadyInv`, that no two blocks have the same stamp (`Distinct`), and that the
  block at the tip is occupied only on a full card, so that a record costs the
  oldest one and only then.
* `ParamsCorrect`: `PickSpec => []ParamsAreValid`, for every registry whose names
  differ and whose defaults are in range. Whose turn it is (`TurnInv`) and who is
  alone in the file (`AloneInv`: by the semaphore on BNAP, on MPIOVD until `crossed`)
  say that the position is at the record of who is in it and that what was written
  is there until it is verified (`FileInv`). `RangeInv` separates the boards: MPIOVD
  starts with defaults and checks each value; BNAP starts with zeroes, which a zero
  in the file leaves in place, and is right because a file of this firmware has none
  where zero is not allowed. For the command `param`, `WordsInv` says what each place
  in it knows of the arguments and of the value just written.
* `SaveCorrect`: `PickSpec => SaveIsWhole`, an action property; `WholeInv` has, of a
  save that goes on, the records it has behind it.

`MicroSd_proofs` (for every set of readers and users of the ports, every card):

* `PortCorrect`: `Spec => []PortExclusive`, and `BufCorrect`: `QuietSpec => []OneUserEach`,
  which adds the buffer.
  The invariant ties the counter and the queue of each semaphore to the threads
  between their wait and their signal: who is blocked is queued, once; while the
  counter is 1 nobody is inside; one thread at most is inside and not blocked.
  For the ports this survives the initialisation of the log's semaphore; for the
  log it needs the rules of `QuietNext`.
* `DownloadCorrect`: `QuietSpec => DownloadIsSound`. A download names records by how old
  they are, and each record that is written on a full card moves every number down by
  one. `CardInv` says that no record is twice on the card and that it is written from
  its first block on, `RingInv` that `tip` and `used` say how far from the mount until
  the last reader has ended, and `DownInv` that what was sent is under no number from
  `curr` on. `NumbersMove` is the arithmetic of it: after a record a number stands for
  what it did, for what the next one did, or for the block just written. That no
  `chDbgCheck` fails needs `SlotInv` besides: a reader that is under way has a card.

`TimeSync_proofs` (for every period, timeout and error of the RTC):

* `ClockCorrect`: `HealthySpec => []ClockExact`, and the lemma `SentenceMatches`
  behind it: `HealthySpec => SentenceMatchesPulse`, for a receiver that sends a sentence
  only for a pulse that was seen, within the timeout, and a bus that is free within a
  second; without these rules the code does take a late sentence for the next pulse
  (section 6). A sentence that waits is of the second that
  goes on, whose pulse was stamped. For this one has to know where the thread can
  be then: it waits for the sentence since the pulse or later (`NmeaInv`), it has
  the pulse still before it (`PpsInv`), or it keeps the bus since a slot of the
  second before (`BusInv`); and until the sentence is used the clock is that of the
  stamp (`StampInv`).
* `KeptCorrect`: `PickSpec => TimeIsKept`. What the thread sets the RTC to is less than
  two seconds old (`RtcInv`), and so is the time of a boot; as long as nobody met a
  caller, the one static buffer has what that caller has filled of it, and the chip what
  he has sent (`CallInv`, `ChipInv`).
* `ShownCorrect`: `PickSpec => []ShownIsTrue`. What is on the line are tokens of this
  second or noise, and each of the two messages that shows a fix is of a second that had
  one (`GpsInv`); a LED blinks no more often than it has heard (`LedInv`).
* `ShareCorrect`: `PickSpec => LoadIsShare`. Until a counter begins again, the difference
  of two readings is what went by between them (`LoadInv`); the idle thread stands still
  while the load is computed, so that its part is no more than the whole.
* `RateCorrect`: `PickSpec => Tlm!RateIsKept`, the part of `BroadcastsGoOut` that is no
  liveness: no packer sends heartbeats faster than their period, though the clock
  they are compared with wraps.

`Messages_proofs` (for all parameters and requests):

* `AnswersCorrect`: `Spec => []AnswersAreWhole`, if `memcpy_ts` may make three copies
  (the code allows it five), for any clients on both links, patient or not. That a
  copy agrees with the structure when it is sent is not inductive. `CopyInv` says why
  it does after three: the second copy is up to date unless the Parameters thread has
  written meanwhile, and then it sleeps for longer than the third takes. `SlotInv`,
  `RamInv` and `CellInv` say that the structure is whole once there is news of it, that
  all values are in range or off, and that what waits for the thread has a name.
* `MessagesCorrect`: `Spec => []MessagesAreWhole`, under the three conditions of the
  run: the copies, one link on which anybody asks, a client that waits (`~Impatient`).
  With a second client the code does mix two messages (section 6). `SoleInv` has the
  structure of a `param_set` as it was decoded until the thread has taken it, for the
  next request comes only when nothing of the last one is pending.

`Modem_proofs` (for every number of tries, every timeout, every set of commands,
listeners and fields, every word):

* `AloneCorrect`: `Spec => []ModemIsLeftAlone`. Whether one message at most goes into a
  connection that was given up depends on who stands in the queue of `cc_out` when
  the flag falls. The invariant `ModemInv` has the queue (`QueueInv`), where the thread
  is while the flag is set (`FlagInv`), the message that may yet go out with those that
  went (`StrayInv`), and the questions `RssiThread` may still ask with those it asked
  (`ChatterInv`). Inside `+++` and its silences the thread is at the head of the queue
  (`HolderInv`), so that everybody who takes `cc_out` stays out; `RssiThread`, which
  takes nothing, is bounded by what it may still ask (`EscapeInv`).
* `QueueCorrect`: `Spec => []QueueInv`: everybody who is between acquire and release is
  in the queue once, and nobody else.
* `ShellCorrect`: `PickSpec => []ShellIsSafe`. `ThreadInv` says which threads are on the
  heap in each state of the switcher (`SwitchInv`), that a command on it is that of the
  pointer and ends only while the shell waits for it (`CommandInv`), and when the
  pointer is nobody's (`PointerInv`), the first two while nobody executes a command over
  another one, the last while nobody is careless at all. That a fork finds
  its memory then is arithmetic (`HeapAssumption`: two threads fit, as `main.h:14` sizes
  the heap for two). For the command line, `LineInv` has what is in the array up to
  where each loop has come, and what of it was read.
* `TextCorrect`: `PickSpec => []TextIsWhole`. `FieldInv` says what each command has done
  to the settings file so far, as long as the modem's thread did not meet it;
  `StreamInv` that what was received and what is still on the line make up the message,
  byte for byte, with an escape between them or not. Left out are commands that met the
  modem's thread, and erasures during which a write failed: these do say OK falsely
  (section 6).

`MpiovdMail_proofs` (for a box of any size, any number of parameters):

* `TypeCorrect`, and `ValueCorrect`: `Spec => []OneValueAtATime`. One value is on its way
  at most because the sender waits for its own confirmation; the invariant follows
  that confirmation through both boxes and the link thread.
* `ClaimCorrect`: `Spec => []Claimed`: a request is in the inbox exactly as long as its
  mail has a payload. That what it says stays as it was does not follow: the structure
  is decoded before anybody looks at the payload (`link_sortin.c:61`).

`Mpiovd_proofs`:

* `TripCorrect` (for every ring of at least two slots, every bound of the counter):
  `TripInv` is inductive: slot n holds the newest value, up to it
  the scan of `fsck` passes, right behind it the scan stops, and only the slot
  written next may be torn.
* `LoadCorrect`: `Spec => LoadRestores`.
* `CounterImplementsOdometer`: `Spec => ImplementsOdometer`, a refinement: with the
  power off the value is what is stored, and each step is a step of `Odometer`.
* `GateCorrect`: `Input!Spec => []Input!OnePoweredSweep` of `Contacts`, for every word
  and wiring.
* `InputsCorrect`: `PickSpec => []InputsAreRight`, for a word of any length in groups of
  any length, any sensors, levels and supplies; of the contacts in the test modes and
  where the norm is open (`discrete.c:82`, section 6). The way through `Received`, `Reordered`
  and `Lifted` gives each bit back (`ReadsTheLine`, from the uniqueness of quotient and
  remainder, `OneQuotient`); `ContactInv` has, of a contact that does not move, the two
  readings that both saw it. `RoundInv` has for each byte told or to be told a level
  that was there since the round began; that more is never told as less is arithmetic of
  divisions (`QuotientOrder`) through each formula of the code.
* `OwnersCorrect`: `PickSpec => []PortsHaveOwners`, for any commands and queues of any
  room. `ShellsInv` says which of CAN and the shell on USB the pointer of the manager is
  (`InterruptInv`), always; and, while there was one shell at a time and no command in its
  way (`Calm`), what each pointer points to and that it is on the heap (`PointersInv`,
  `HeapInv`), and who has the UART in each state of its manager (`UartInv`). `CdcInv`
  follows the host through its enumeration: it is at the bus only while the pull-up is
  shown (`BusInv`), the driver is as far as the host has led it (`DriverInv`), and the
  host knows what it has read (`KnownInv`). What it reads is computed from the
  descriptors: their lengths add up to what the first one says (`EndsOf`), so that the
  first nine bytes are its first item and the rest is all of it.
* `RangeCorrect`: `Spec => StaysInRange` of `AlphaBeta` (its instance `Dsp`), for
  every rest, sample, length and width of the accumulator with room for them
  (`RoomAssumption`): near an end of the range what is taken off outweighs what is
  added, or the reverse.

`Ground_proofs` (for a file of any length, a line that loses any number of tokens, every
period of the labels, every number of parameters):

* `SaidCorrect`: `PickSpec => []SaidIsWritten`. The loader reads whatever comes next as
  the answer to what it said last. `LineInv` lists, for each place in each command,
  what may be on the way in both directions: an acknowledgement that comes after the
  first answers is that of the last token, since the chip says nothing unasked and
  nothing is said twice but the first token, whose late answer `get` sees off. From it
  follow what is in the flash (`FlashInv`) and what was read of it (`DataInv`), up to an
  exception, after which the program writes nothing more.
* `ScreensCorrect`: `PickSpec => []ScreensAreRight`. `DisplayInv` measures the silence
  against the timer of the label; `TunerInv` finds, of a refresh that nothing disturbed, a
  number up to which the table is filled and from which on the answers wait (`Heard`).
* `SerialCorrect`: `PickSpec => []PortIsAsSet`, for every block of the buffer and any number
  of bytes, changes of settings and failing calls. A byte is in one of four places: with
  the reader, in the buffer, in the kernel or still to come; their numbers ascend within
  and across them (`BytesInv`), and while no call fails nothing is between them. That a
  buffer doubled until it has room has room is an induction of its own
  (`DoubledHasRoom`). What is not dirty is as the device has it (`SettingsInv`), but for
  the data bits once space parity was used, or with eight of them.

The MC modules that put programs together have their invariant joined likewise
(`StoreInv`, `BoardInv`, `GroundInv`, `SensorsInv`, `OwnersInv`): a step of one program leaves the variables of
the others alone, or `unit` is not theirs.

The proofs rest on the named assumptions about the constants and on nothing else.
Each is evaluated by TLC: as an assumption of the module, or of the MC module that gives
the constants by `INSTANCE`; where the theorem is about such a program by itself it has
the assumption as a hypothesis (`TimeSyncAssumption`, `ModemAssumption`,
`FilterAssumption`, `RoomAssumption`). Where a function is defined by recursion over a
length (`Offered`, `Doubled`, `Ends`) or a word is of any length, the induction is by a least
counterexample (lemma `Induction`), and the function, which its definition only
chooses, is shown to exist first (`OfferedExists`, `GrownExists`).

**Only model-checked:** all liveness (`MountTerminates`, `JobsEnd`, `AnswerComes`,
`ModemComesBack`, `PortFollowsFlag`, `NoiseHoldsNothing`, `BroadcastsGoOut` but for the
rate, `TripIsSaved`, `PlugIsNoticed`, `LossEndsNothing`, `AllEndsAndIsTold`, and that a
filter converges, in `FilterFollows`): liveness under fairness is out of the prover's
reach.

## 5. Not modelled

* Conversions with no order of steps to get wrong: the CRC and the bytes of a record,
  the digits of a position in NMEA, MAVLink frames, the text of AT commands, the
  setting of the GPS receiver.
* Both nodes: the LED of MPIOVD, the watchdog, reboot commands, interrupt tables, board
  and configuration headers (`chconf.h`, ...), the settings of the UART, the texts of
  commands (`cli_cmd.c`), the bytes that `cross.c` passes on. `softdebounce.c` is called
  by nobody.
* Generated MAVLink headers (`som/telemetry/common.h`, ...).
* Programs: what draws (`gloss.py`, `hud.py` past its data, Qt layout), plots, the
  design of the FIR filter; the Windows and OSX parts of `qextserialport` and its
  enumerators; `circus`, `bom_grabber`, `stuff`, `hello`, `matrixgui`, `tester`.
* Hardware, documents, art.

## 6. What the models say about the code

Three statements of the repository are contradicted by runs (section 3). What
follows the models show as well, without a run of their own; where a property
would fail because of it, the property names the case it leaves out.

BNAP, the log:

* Records written before the first fix have the stamp -1 (`storage.c:263`), which
  `_check_block` returns for a block without a record: a mount searches past them,
  although `microsd.c:12-13` count on the stamps. A boot is up to three seconds
  behind, and the newest records then look as if they came from the future
  (`storage.c:163`) until the first fix. An erase cut by a power failure leaves any
  part of the card, and the next mount may find a knee inside it. `SteadySpec`
  excludes the three.
* A full card with the newest record in its last block is mounted two blocks
  early (`storage.c:308, 322`).
* With an empty log `used - 1` is 0xFFFFFFFF (`microsd.c:190, 225`) and a request
  goes on to records that do not exist.
* A card inserted again initialises the semaphore others hold or wait for
  (`microsd.c:111`, `storage.h:53`, `cli_storage.c:112`).
* A writer without a card never looks at `chThdShouldTerminate`
  (`microsd.c:149-156`), so `storage wipe` waits for the next card.
* `modem cross` keeps `cc_out` while the CC reader waits for it with the log
  locked, the DM reader waits for the log with `dm_out` locked, and the shell
  waits for `dm_out` (`cli_modem.c:237-240`).
* `date` sets the clock the comment at `microsd.c:7-8` wants left to the receiver.

BNAP, the rest:

* A sentence that is late is used for a pulse of the next second
  (`timekeeper.c:116-117`), unless the receiver is healthy.
* The chip's stopped oscillator clears `time_good` (`ds1338.c:140`), but
  `TimekeeperInit` may set it again (`timekeeper.c:163`).
* Messages from two links at once mix in the "local copy for thread safety" of a
  `param_set` (`param.c:231, 233`).
* `modem set` may report a text as written that went elsewhere: the modem's thread
  seeks in the same stream (`settings_modem.c:70`) between the seek and the write,
  or the seek and the check, of the shell (`cli_modem.c:80, 88`).
* `RssiThread` asks without `cc_out` (`wavecom.c:280, 667`). Woken between the lines that
  clear `fake_rssi` and `modem_connected` (629, 634) it goes on asking into the silences
  of `+++` (534-540), which are there so that the modem takes it for an escape.
* An erase of the modem's settings takes no notice of a failing write and says OK.
* `chThdSleepUntil` with a time already past sleeps for the whole range of ticks.

MPIOVD:

* The counts between the last save and `storage dump` are lost when the dump
  loads the counter again (`storage.c:427`; 384 adds without the semaphore); `fsck`
  repairs nothing, whatever its comment says (147); `storage trip N` cut by a power
  failure leaves a ring in which a later failure does not roll back to the last
  value.
* The load of a period in which a counter of ticks wraps may come out above 100 %
  (`sanity.c:124`).
* `discrete.c:82` complements after the mask: an input whose norm is ground or
  supply is always reported as an alarm, against the table at line 68.
* `param.c:243` accepts `index == OnboardParamCount`; `set_parameter` panics on
  types the registry has none of (210-212).
* Two shells at once share `shell_tp`; a shell told to end while a command of its
  own runs, or a command that starts or kills threads meanwhile, leaves pointers
  to freed threads.
* `help` prints the `help` of each command, and that of `list` is NULL
  (`mpiovd/src/link/cli.c:54`, 96-98): what is printed there are the bytes at address 0.
* The endpoint 2 of the port is described with 8 bytes and one direction
  (`usb_local.c`), and configured with 16 and with the state of the other one; nothing
  is ever sent there.

Ground:

* `link.py:41-47` queues the last message again when none comes, so the timers of
  `telemetry.py:861-862` see a silent link as a live one.
* Space parity with 8 data bits, which "will never happen"
  (`qextserialport_unix.cpp:407`), happens, and sets `CS5`; leaving space parity leaves
  `CSIZE` one bit too large; a failed read
  chops one byte too many and returns -1 after consuming data; a change of settings
  discards input; a timeout past 25.5 s does not fit `VTIME`.
* `Window.cpp:218` takes the letter N or S from the longitude; the `buff` of 317-318
  is not initialised.
* `analog.py` names parameters that MPIOVD does not have, and raises on an empty
  field, after which it has sent the parameters before it and no other.

## 7. Plan

Done: all modules and theorems above. What could come next:

1. Larger words and more masks in the run of `Contacts`; two counters in `TripStore`,
   which share the file but not their slots.
2. What the shell on the port of `UsbCdc` is sent, with the end of line and the echo of
   the line editor, once its sources are in the repository.
