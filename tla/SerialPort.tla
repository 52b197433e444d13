----------------------------- MODULE SerialPort -----------------------------
(***************************************************************************)
(* The serial port of the display in the cab: class QextSerialPort of      *)
(* src/soft/som/qextserialport/src as it is built for Linux, with its read *)
(* buffer and its settings, used from one thread as Window.cpp does.  The  *)
(* bytes that come are the numbers 1, 2, ...                               *)
(***************************************************************************)
EXTENDS Integers, Sequences, SequencesExt

CONSTANTS
  Rates,           (* two baud rates will do                               *)
  Timeouts,        (* of reading, in milliseconds, besides -1 for none      *)
  BasicBlockSize,  (* of the read buffer; 4096                             *)
  MaxBytes,        (* a bound: bytes that come                             *)
  MaxChanges,      (* a bound: settings that are changed                   *)
  MaxErrors        (* a bound: calls of the system that fail               *)

PortAssumption ==
  /\ BasicBlockSize \in Nat \ {0} /\ Timeouts \subseteq Nat
  /\ {MaxBytes, MaxChanges, MaxErrors} \subseteq Nat

FieldValues ==
  [BaudRate |-> Rates, DataBits |-> 5 .. 8, Parity |-> {"none", "even", "space"},
   StopBits |-> 1 .. 2, FlowControl |-> {"off", "hardware"}, Timeout |-> Timeouts \cup {-1}]

Fields == DOMAIN FieldValues

PortSettings ==
  [BaudRate : FieldValues.BaudRate, DataBits : FieldValues.DataBits, Parity : FieldValues.Parity,
   StopBits : FieldValues.StopBits, FlowControl : FieldValues.FlowControl, Timeout : FieldValues.Timeout]

VARIABLES
  isOpen, settings,
  settingsDirtyFlags,  (* fields                                           *)
  termios,             (* of the device: what it has for each field         *)
  spaced,              (* space parity has been used since it was opened    *)
  queryMode, notifier, (* and whether there is a readNotifier              *)
  queued,              (* bytes in the queue of the device                 *)
  buf, first, len,     (* the read buffer; buf is a function of 0 ..        *)
                       (* capacity - 1                                     *)
  qio,                 (* what QIODevice has read ahead                    *)
  got,                 (* what the program has read                        *)
  dropped,             (* bytes the device or the port has thrown away      *)
  sent, changes, errors

configuration == <<isOpen, settings, settingsDirtyFlags, termios, spaced, queryMode, notifier>>
buffer == <<buf, first, len>>
data == <<queued, buffer, qio, got, dropped>>
bounds == <<sent, changes, errors>>
vars == <<configuration, data, bounds>>

-----------------------------------------------------------------------------
Default ==
  [BaudRate |-> CHOOSE r \in Rates : TRUE, DataBits |-> 8, Parity |-> "none",
   StopBits |-> 1, FlowControl |-> "off", Timeout |-> CHOOSE t \in Timeouts : TRUE]

FiveWithTwo(bits, stop) == bits = 5 /\ stop = 2

(* The constructor with settings: from the default, DataBits before        *)
(* StopBits.                                                               *)
Constructed(s) ==
  [s EXCEPT !.StopBits = IF FiveWithTwo(s.DataBits, 2) THEN Default.StopBits ELSE @]

Cell(b, i) == IF i \in DOMAIN b THEN b[i] ELSE 0  (* no byte                   *)

Buffered(b, f, l) == [i \in 1 .. l |-> Cell(b, f + i - 1)]

BlockSpace == IF DOMAIN buf = {} THEN 0 ELSE Max(DOMAIN buf) + 1
NoCells == [i \in {} |-> 0]

Init ==
  /\ isOpen = FALSE /\ settings \in {Constructed(s) : s \in PortSettings}
  /\ settingsDirtyFlags = Fields /\ termios = Default /\ spaced = FALSE
  /\ queryMode \in {"Polling", "EventDriven"} /\ notifier = FALSE
  /\ queued = <<>> /\ buf = NoCells /\ first = 0 /\ len = 0
  /\ qio = <<>> /\ got = <<>> /\ dropped = {} /\ sent = 0 /\ changes = 0 /\ errors = 0

-----------------------------------------------------------------------------
(* Settings. *)

Csize(s) ==
  IF s.Parity # "space" THEN s.DataBits
  ELSE IF s.DataBits = 8 THEN 5 ELSE s.DataBits + 1

Vtime(timeout) == IF timeout = -1 THEN 0 ELSE (timeout \div 100) % 256

(* Space parity is simulated by one more bit.                              *)
WithBits(s, dirty) ==
  IF "Parity" \in dirty /\ s.Parity = "space" THEN dirty \cup {"DataBits"} ELSE dirty

(* updatePortSettings, of a port that is open *)
Updated(t, s, dirty) ==
  [f \in Fields |->
     IF f \notin WithBits(s, dirty) THEN t[f]
     ELSE CASE f = "DataBits" -> Csize(s)
            [] f = "Parity" -> IF s.Parity = "space" THEN "none" ELSE s.Parity
            [] f = "Timeout" -> Vtime(s.Timeout)
            [] OTHER -> s[f]]

(* TCSAFLUSH: what has not been read is thrown away.                       *)
Flushed == queued' = <<>> /\ dropped' = dropped \cup Range(queued)

UpdatePortSettings(s, dirty) ==
  IF isOpen /\ dirty # {}
  THEN /\ termios' = Updated(termios, s, dirty) /\ settingsDirtyFlags' = {}
       /\ spaced' = (spaced \/ s.Parity = "space")
       /\ Flushed
  ELSE /\ settingsDirtyFlags' = dirty
       /\ UNCHANGED <<termios, spaced, queued, dropped>>

Accepts(s, f, v) ==
  /\ f = "DataBits" => ~FiveWithTwo(v, s.StopBits)
  /\ f = "StopBits" => ~FiveWithTwo(s.DataBits, v)

Differs(f, v) == settings[f] # v

(* setBaudRate, setDataBits and the others *)
Set(f, v) ==
  /\ Differs(f, v)
  /\ settings' = IF Accepts(settings, f, v) THEN [settings EXCEPT ![f] = v] ELSE settings
  /\ UpdatePortSettings(settings',
       settingsDirtyFlags \cup IF Accepts(settings, f, v) THEN {f} ELSE {})
  /\ UNCHANGED <<isOpen, queryMode, notifier, buffer, qio, got>>

SetQueryMode ==
  /\ queryMode' = IF queryMode = "Polling" THEN "EventDriven" ELSE "Polling"
  /\ UNCHANGED <<isOpen, settings, settingsDirtyFlags, termios, spaced, notifier, data>>

ChangesSettings ==
  /\ changes < MaxChanges /\ changes' = changes + 1
  /\ \/ \E f \in Fields : \E v \in FieldValues[f] : Set(f, v)
     \/ SetQueryMode
  /\ UNCHANGED <<sent, errors>>

(* The device may refuse to be opened.                                     *)
Open ==
  /\ ~isOpen /\ isOpen' = TRUE
  /\ \E old \in {Default} : termios' = Updated(old, settings, Fields)
  /\ settingsDirtyFlags' = {} /\ spaced' = (settings.Parity = "space")
  /\ notifier' = (queryMode = "EventDriven")
  /\ UNCHANGED <<settings, queryMode, data, bounds>>

(* The buffer of QIODevice may survive.                                    *)
Close ==
  /\ isOpen /\ isOpen' = FALSE /\ notifier' = FALSE
  /\ queued' = <<>> /\ first' = 0 /\ len' = 0 /\ qio' \in {<<>>, qio}
  /\ dropped' = dropped \cup Range(queued) \cup Range(Buffered(buf, first, len))
                  \cup (Range(qio) \ Range(qio'))
  /\ UNCHANGED <<settings, settingsDirtyFlags, termios, spaced, queryMode, buf, got, bounds>>

-----------------------------------------------------------------------------
(* The read buffer. *)

MaxOf(a, b) == IF a > b THEN a ELSE b

(* A capacity that has room, doubled from the one there is.                *)
Doubled(c, need) ==
  LET grown[k \in 0 .. need] ==
        IF k = 0 THEN c
        ELSE IF grown[k - 1] < need THEN 2 * grown[k - 1] ELSE grown[k - 1]
  IN grown[need]

AlwaysFits(size) == first + len + size > 2 * BlockSpace

NoRoom(size) == first + len + size > BlockSpace

Start(size) == IF NoRoom(size) THEN 0 ELSE first

(* reserve, and the bytes that are read into the place.                    *)
Filled(bytes, size) ==
  LET capacity == IF NoRoom(size)
                  THEN Doubled(MaxOf(BlockSpace, BasicBlockSize), len + size)
                  ELSE BlockSpace
      kept == Buffered(buf, first, len) \o bytes
  IN [i \in 0 .. capacity - 1 |->
        IF i - Start(size) \in 0 .. Len(kept) - 1 THEN kept[i - Start(size) + 1]
        ELSE Cell(buf, i)]

(* chop: of more than there is, it clears the buffer.                      *)
Chopped(l, size, start) == IF size >= l THEN <<0, 0>> ELSE <<start, l - size>>

(* _q_canRead: it takes what the device has, or the read fails and returns *)
(* -1, and as many as were asked for and one more are given back.          *)
CanRead ==
  /\ isOpen /\ notifier /\ queued # <<>>
  /\ LET size == Len(queued)
     IN \/ /\ buf' = Filled(queued, size)
           /\ first' = Start(size) /\ len' = len + size
           /\ queued' = <<>> /\ UNCHANGED errors
        \/ /\ errors < MaxErrors /\ errors' = errors + 1
           /\ buf' = Filled(<<>>, size)
           /\ LET kept == Chopped(len + size, size + 1, Start(size))
              IN first' = kept[1] /\ len' = kept[2]
           /\ UNCHANGED queued
  /\ UNCHANGED dropped
  /\ UNCHANGED <<configuration, qio, got, sent, changes>>

(* read, when QIODevice has nothing ahead: readData gives it all there is. *)
(* When the device cannot be read then, what came from the buffer is lost  *)
(* too.  readAll asks for what bytesAvailable says.                        *)
Taken(all) ==
  \E n \in 0 .. Len(all) :
    got' = got \o SubSeq(all, 1, n) /\ qio' = SubSeq(all, n + 1, Len(all))

ReadData ==
  /\ qio = <<>> /\ len + Len(queued) > 0
  /\ first' = first + len /\ len' = 0 /\ UNCHANGED buf
  /\ \/ Taken(Buffered(buf, first, len) \o queued) /\ queued' = <<>> /\ UNCHANGED errors
     \/ errors < MaxErrors /\ errors' = errors + 1 /\ UNCHANGED <<queued, qio, got>>

Read ==
  /\ isOpen
  /\ \/ qio # <<>> /\ Taken(qio) /\ UNCHANGED <<queued, buffer, errors>>
     \/ ReadData
  /\ UNCHANGED <<configuration, dropped, sent, changes>>

Arrives ==
  /\ sent < MaxBytes /\ sent' = sent + 1
  /\ IF isOpen
     THEN queued' = Append(queued, sent') /\ UNCHANGED dropped
     ELSE dropped' = dropped \cup {sent'} /\ UNCHANGED queued
  /\ UNCHANGED <<configuration, buffer, qio, got, changes, errors>>

Next == ChangesSettings \/ Open \/ Close \/ CanRead \/ Read \/ Arrives

Spec == Init /\ [][Next]_vars

-----------------------------------------------------------------------------
Held == got \o qio \o Buffered(buf, first, len) \o queued

(* Whatever is read when, and wherever a byte waits, the program has the   *)
(* bytes in the order they came and each once; and when no call has        *)
(* failed, the ones it will not have are those that came while it was      *)
(* closed or waited when the settings changed or it was closed.            *)
BytesInOrder ==
  /\ \A i, j \in DOMAIN Held : i < j => Held[i] < Held[j]
  /\ errors = 0 => /\ Range(Held) \cup dropped = 1 .. sent
                   /\ Range(Held) \cap dropped = {}

(* The device is set the way the settings say, whatever was changed before *)
(* or after it was opened: but for its data bits once space parity has     *)
(* been used (it keeps the bit more).  Five bits never go with two stop    *)
(* bits.                                                                   *)
DeviceFollowsSettings ==
  /\ ~FiveWithTwo(settings.DataBits, settings.StopBits)
  /\ isOpen =>
       /\ \A f \in {"BaudRate", "StopBits", "FlowControl"} : termios[f] = settings[f]
       /\ termios.Timeout = Vtime(settings.Timeout)
       /\ termios.Parity = IF settings.Parity = "space" THEN "none" ELSE settings.Parity
       /\ IF settings.Parity = "space"
          THEN settings.DataBits < 8 => termios.DataBits = settings.DataBits + 1
          ELSE spaced \/ termios.DataBits = settings.DataBits

(* A comment at the case of 8 data bits with space parity: "this will      *)
(* never happen".                                                          *)
SpaceHasRoom == isOpen /\ settings.Parity = "space" => settings.DataBits < 8
=============================================================================
