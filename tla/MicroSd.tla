------------------------------ MODULE MicroSd ------------------------------
(***************************************************************************)
(* The threads that share the vehicle log of the BNAP node                 *)
(* (src/soft/bnap/src/storage/microsd.c, cli_storage.c): the writer, which *)
(* also mounts and unmounts the card, two readers that answer download     *)
(* requests of the control centre (cc) and of the diagnostic port (dm),    *)
(* the shell commands that stop them, and the users of the serial ports    *)
(* the readers contend with.  One buffer, Storage.buf, serves them all;    *)
(* Storage.semaphore guards it.                                            *)
(*                                                                         *)
(* What a record is and how the mount finds the tip is the subject of      *)
(* module BnapStorage: here a record is its serial number, and the clock   *)
(* only decides whether DoRecord writes.                                   *)
(***************************************************************************)
EXTENDS Integers, Sequences, FiniteSets

CONSTANTS
  Capacity,   (* blocks of the card                                         *)
  Messages,   (* messages _fill_buf stores in a record                      *)
  MaxEvents,  (* bound on the cards put in and the wipes                    *)
  MaxSerial,  (* bound on the records written                               *)
  MaxRec,     (* bound on the record numbers a request names                *)
  MaxWord,    (* UINT32_MAX                                                 *)
  Readers,    (* the reader threads                                         *)
  PortUsers,  (* the other threads that write to the ports                  *)
  CrossBuilt  (* NEED_MODEM_CROSS, which also turns the checks off          *)

ASSUME MicroSdAssumption ==
  /\ Capacity \in Nat /\ Capacity >= 3
  /\ Messages \in Nat \ {0}
  /\ MaxEvents \in Nat /\ MaxSerial \in Nat /\ MaxRec \in Nat /\ MaxWord \in Nat
  /\ Capacity <= MaxWord /\ MaxRec <= MaxWord
  /\ Readers \subseteq {"cc", "dm"}
  /\ PortUsers \subseteq {"modem", "packer_cc", "packer_dm"}
  /\ CrossBuilt \in BOOLEAN

Threads == Readers \cup PortUsers \cup {"writer", "shell"}

Locks == {"storage", "cc_out", "dm_out"}

(* The port a thread writes to. *)
Port(t) == IF t \in {"dm", "packer_dm"} THEN "dm_out" ELSE "cc_out"

VARIABLES
  pc,         (* thread -> where it is                                      *)
  term,       (* thread -> chThdTerminate was called on it                  *)
  free,       (* lock -> its semaphore's counter                            *)
  queue,      (* lock -> the threads queued on it, first in first out       *)
  blocked,    (* the threads that wait for a semaphore                      *)
  inserted,   (* the card is in the slot                                    *)
  active,     (* the driver is connected to the card that is in the slot    *)
  card,       (* block -> serial number of its record, 0 for an erased one  *)
  tip, used,  (* BnapStorage_t                                              *)
  events,     (* how often a card was put in or a wipe asked for            *)
  buf,        (* what Storage.buf holds: a serial number, 0 for anything else *)
  serial,     (* records written so far                                     *)
  curr, last, (* reader -> the request handler's locals, 0 outside of it    *)
  left,       (* reader -> messages of the record still to send             *)
  sent,       (* history: reader -> records this download has sent          *)
  victim,     (* the thread the shell is terminating, 1, 2 or 3             *)
  panic       (* a chDbgCheck failed: the system is halted                  *)

sync  == <<free, queue, blocked>>
log   == <<card, tip, used, serial>>
job   == <<curr, last, left, sent>>
slot  == <<inserted, active, events>>
cli   == <<term, victim>>
vars  == <<pc, cli, sync, slot, log, buf, job, panic>>

Blocks == 0 .. Capacity - 1

Init ==
  /\ pc = [t \in Threads |-> IF t = "writer" THEN "absent" ELSE "idle"]
  /\ term = [t \in Threads |-> FALSE]
  (* Storage.semaphore is not initialised before the first insertion.      *)
  /\ free = [l \in Locks |-> IF l = "storage" THEN 0 ELSE 1]
  /\ queue = [l \in Locks |-> <<>>]
  /\ blocked = {}
  /\ inserted \in BOOLEAN
  /\ active = FALSE /\ events = 0
  /\ card = [b \in Blocks |-> 0]
  /\ tip = 0 /\ used = 0 /\ serial = 0 /\ buf = 0
  /\ curr = [r \in Readers |-> 0] /\ last = [r \in Readers |-> 0]
  /\ left = [r \in Readers |-> 0] /\ sent = [r \in Readers |-> {}]
  /\ victim = 1
  /\ panic = FALSE

-----------------------------------------------------------------------------
(* ChibiOS semaphores: a signal hands the semaphore to the first waiter.   *)

SemWait(l, t) ==
  IF free[l] > 0
  THEN /\ free' = [free EXCEPT ![l] = @ - 1]
       /\ UNCHANGED <<queue, blocked>>
  ELSE /\ queue' = [queue EXCEPT ![l] = Append(@, t)]
       /\ blocked' = blocked \cup {t}
       /\ UNCHANGED free

SemSignal(l) ==
  IF queue[l] = <<>>
  THEN /\ free' = [free EXCEPT ![l] = @ + 1]
       /\ UNCHANGED <<queue, blocked>>
  ELSE /\ queue' = [queue EXCEPT ![l] = Tail(@)]
       /\ blocked' = blocked \ {Head(queue[l])}
       /\ UNCHANGED free

(* chSemInit(&semaphore, 1): the threads that were queued are forgotten.   *)
SemInit(l) ==
  /\ free' = [free EXCEPT ![l] = 1]
  /\ queue' = [queue EXCEPT ![l] = <<>>]
  /\ UNCHANGED blocked

(* Thread t is at place p and can run. *)
At(t, p) == ~panic /\ pc[t] = p /\ t \notin blocked

Goto(t, p) == pc' = [pc EXCEPT ![t] = p]

(* Thread t goes from place p to place q. *)
Step(t, p, q) == At(t, p) /\ Goto(t, q)

(* The condition of a thread's loop, chThdShouldTerminate. *)
LoopTop(t, p) == IF term[t] THEN "dead" ELSE p

-----------------------------------------------------------------------------
(* MmcWriterThread. *)

WriterSeesCard ==
  /\ Step("writer", "absent", "settle") /\ inserted
  /\ UNCHANGED <<cli, sync, slot, log, buf, job, panic>>

WriterCardBounced ==
  /\ Step("writer", "settle", "absent") /\ ~inserted
  /\ UNCHANGED <<cli, sync, slot, log, buf, job, panic>>

(* _insert_handler: bnapStorageObjectInit and bnapStorageStart. *)
WriterInitsStorage ==
  /\ Step("writer", "settle", "connect") /\ inserted
  /\ SemInit("storage")
  /\ active' = FALSE
  /\ UNCHANGED <<cli, inserted, events, log, buf, job, panic>>

(* bnapStorageConnect fails: the main cycle starts without a log. *)
ConnectFails ==
  /\ Step("writer", "connect", LoopTop("writer", "work"))
  /\ UNCHANGED <<cli, sync, slot, log, buf, job, panic>>

Connect ==
  /\ Step("writer", "connect", "mount") /\ inserted
  /\ active' = TRUE
  /\ SemWait("storage", "writer")
  /\ UNCHANGED <<cli, inserted, events, log, buf, job, panic>>

(* bnapStorageMount, as BnapStorage describes its result.  It does not     *)
(* look at the status of its reads: without the card it finds anything.    *)
Mount ==
  LET newest  == CHOOSE b \in Blocks : \A c \in Blocks : card[c] <= card[b]
      isFull  == \A b \in Blocks : card[b] # 0
  IN  /\ Step("writer", "mount", LoopTop("writer", "work"))
      /\ tip' \in IF ~active THEN Blocks
                  ELSE {IF isFull /\ newest = Capacity - 1 THEN Capacity - 2
                        ELSE IF card[newest] = 0 THEN 0 ELSE newest + 1}
      /\ used' \in IF ~active THEN {tip', Capacity}
                   ELSE {IF isFull THEN Capacity ELSE tip'}
      /\ buf' = 0
      /\ SemSignal("storage")
      /\ UNCHANGED <<cli, slot, card, serial, job, panic>>

(* _remove_handler. *)
WriterMissesCard ==
  /\ Step("writer", "work", "absent") /\ ~inserted
  /\ UNCHANGED <<cli, sync, slot, log, buf, job, panic>>

WriterTakesLog ==
  /\ Step("writer", "work", "record") /\ inserted
  /\ SemWait("storage", "writer")
  /\ UNCHANGED <<cli, slot, log, buf, job, panic>>

(* bnapStorageDoRecord while the time is not good, or behind mtime. *)
RecordRefused ==
  /\ Step("writer", "record", LoopTop("writer", "work"))
  /\ SemSignal("storage")
  /\ UNCHANGED <<cli, slot, log, buf, job, panic>>

(* bnapStorageDoRecord, first half: _fill_buf. *)
RecordFill ==
  /\ Step("writer", "record", "store")
  /\ serial < MaxSerial
  /\ serial' = serial + 1
  /\ buf' = serial'
  /\ UNCHANGED <<cli, sync, slot, card, tip, used, job, panic>>

(* Second half: the block is written, tip and used move on; chDbgCheck     *)
(* halts the system when the write failed.                                 *)
RecordStore ==
  /\ Step("writer", "store", LoopTop("writer", "work"))
  /\ panic' = (~active /\ ~CrossBuilt)
  /\ card' = IF active THEN [card EXCEPT ![tip] = buf] ELSE card
  /\ tip' = (tip + 1) % Capacity
  /\ used' = IF used + 1 >= Capacity THEN Capacity ELSE used + 1
  /\ SemSignal("storage")
  /\ UNCHANGED <<cli, slot, serial, buf, job>>

-----------------------------------------------------------------------------
(* MmcReaderCcThread and MmcReaderDmThread: one request at a time, the     *)
(* events that arrive meanwhile stay pending.                              *)

(* OBLIQUE_STORAGE_REQUEST_COUNT: used is read under the lock. *)
CountRequest(r) ==
  /\ Step(r, "idle", "count") /\ inserted
  /\ SemWait("storage", r)
  /\ UNCHANGED <<cli, slot, log, buf, job, panic>>

CountAnswer(r) ==
  /\ Step(r, "count", LoopTop(r, "idle"))
  /\ SemSignal("storage")
  /\ UNCHANGED <<cli, slot, log, buf, job, panic>>

(* The last record number of a request, cut to Storage.used in uint32_t    *)
(* arithmetic and without the lock.                                        *)
Clamped(n) == IF n >= used THEN (used - 1) % (MaxWord + 1) ELSE n

PortKept(r) == UNCHANGED sync

(* The dm handler keeps its port for the whole download, the cc handler    *)
(* takes it message by message.                                            *)
PortTaken(r) == IF r = "dm" THEN SemWait(Port(r), r) ELSE UNCHANGED sync

(* The head of _oblique_storage_request_handler_cc/dm. *)
DownloadRequest(r, n, m) ==
  /\ Step(r, "idle", "next") /\ inserted
  /\ n <= m
  /\ curr' = [curr EXCEPT ![r] = n]
  /\ last' = [last EXCEPT ![r] = Clamped(m)]
  /\ PortTaken(r)
  /\ UNCHANGED <<cli, slot, log, buf, left, sent, panic>>

NextRecord(r) ==
  /\ Step(r, "next", "read") /\ curr[r] < last[r]
  /\ SemWait("storage", r)
  /\ UNCHANGED <<cli, slot, log, buf, job, panic>>

(* release_dm_out at the end of the dm handler. *)
PortGivenBack(r) == IF r = "dm" THEN SemSignal(Port(r)) ELSE UNCHANGED sync

DownloadDone(r) ==
  /\ Step(r, "next", LoopTop(r, "idle")) /\ curr[r] >= last[r]
  /\ PortGivenBack(r)
  /\ curr' = [curr EXCEPT ![r] = 0] /\ last' = [last EXCEPT ![r] = 0]
  /\ sent' = [sent EXCEPT ![r] = {}]
  /\ UNCHANGED <<cli, slot, log, buf, left, panic>>

Rec2BlockNewestFirst(rec) == (tip + 2 * Capacity - 1 - rec) % Capacity

(* _rec2block: record 0 is the oldest one. *)
Rec2Block(rec) == IF used < Capacity THEN rec ELSE (tip + rec) % Capacity

(* bnapStorageGetRecord with its three chDbgChecks.  Without the checks a  *)
(* block beyond the card, or a failed read, leaves the buffer as it was.   *)
GetRecord(r) ==
  LET block == Rec2Block(curr[r])
      good  == used # 0 /\ curr[r] < used /\ active
  IN  /\ Step(r, "read", "send")
      /\ panic' = (~good /\ ~CrossBuilt)
      /\ buf' = IF active /\ block \in Blocks THEN card[block] ELSE buf
      /\ left' = [left EXCEPT ![r] = Messages]
      /\ UNCHANGED <<cli, sync, slot, log, curr, last, sent>>

(* acquire_cc_out before a message; dm has its port already. *)
TakePort(r) ==
  /\ Step(r, "send", "write") /\ left[r] > 0
  /\ IF r = "cc" THEN SemWait(Port(r), r) ELSE UNCHANGED sync
  /\ UNCHANGED <<cli, slot, log, buf, job, panic>>

WriteMessage(r) ==
  /\ Step(r, "write", "send")
  /\ left' = [left EXCEPT ![r] = @ - 1]
  /\ IF r = "cc" THEN SemSignal(Port(r)) ELSE UNCHANGED sync
  /\ UNCHANGED <<cli, slot, log, buf, curr, last, sent, panic>>

RecordSent(r) ==
  /\ Step(r, "send", "next") /\ left[r] = 0
  /\ SemSignal("storage")
  /\ curr' = [curr EXCEPT ![r] = @ + 1]
  /\ sent' = [sent EXCEPT ![r] = @ \cup {buf}]
  /\ UNCHANGED <<cli, slot, log, buf, last, left, panic>>

(* A thread that waits for its next event was asked to end. *)
Exits(t) ==
  /\ Step(t, "idle", "dead") /\ term[t]
  /\ UNCHANGED <<cli, sync, slot, log, buf, job, panic>>

-----------------------------------------------------------------------------
(* The other users of the ports: _etx_combo of the modem keeps cc_out for  *)
(* three seconds, the packers take their port for one message.             *)

(* DmCliSwitcherThread: the dm packer and the shell share a port and are   *)
(* never alive at the same time.                                           *)
ShellUp == \A u \in PortUsers \cap {"packer_dm"} : pc[u] = "idle"

UserTakesPort(u) ==
  /\ Step(u, "idle", "write") /\ ~term[u]
  /\ u = "packer_dm" => pc["shell"] = "idle"
  /\ SemWait(Port(u), u)
  /\ UNCHANGED <<cli, slot, log, buf, job, panic>>

UserGivesPort(u) ==
  /\ Step(u, "write", LoopTop(u, "idle"))
  /\ SemSignal(Port(u))
  /\ UNCHANGED <<cli, slot, log, buf, job, panic>>

-----------------------------------------------------------------------------
(* The shell: "storage stat", "storage wipe" and "modem cross".            *)

Victims(command) ==
  IF command = "wipe" THEN <<"writer", "cc", "dm">>
  ELSE <<"modem", "packer_cc", "writer">>

ShellWipe ==
  /\ Step("shell", "idle", "wipe") /\ ShellUp /\ inserted
  /\ events < MaxEvents /\ events' = events + 1
  /\ UNCHANGED <<cli, sync, inserted, active, log, buf, job, panic>>

ShellCross ==
  /\ Step("shell", "idle", "cross") /\ ShellUp /\ CrossBuilt
  /\ UNCHANGED <<cli, sync, slot, log, buf, job, panic>>

(* cli_terminate_thread: ask the thread, if it was ever created, to end,   *)
(* and wait until it has.                                                  *)
ShellTerminates(command) ==
  LET t == Victims(command)[victim]
  IN  /\ At("shell", command)
      /\ t \in Threads /\ ~term[t] /\ pc[t] # "dead"
      /\ term' = [term EXCEPT ![t] = TRUE]
      /\ UNCHANGED <<pc, victim, sync, slot, log, buf, job, panic>>

ShellJoins(command) ==
  LET t == Victims(command)[victim]
  IN  /\ At("shell", command)
      /\ t \in Threads => pc[t] = "dead"
      /\ IF victim < 3
         THEN victim' = victim + 1 /\ UNCHANGED pc
         ELSE victim' = 1 /\ Goto("shell", IF command = "wipe" THEN "lock" ELSE "cross_cc")
      /\ UNCHANGED <<term, sync, slot, log, buf, job, panic>>

ShellStat ==
  /\ Step("shell", "idle", "stat") /\ ShellUp /\ inserted
  /\ SemWait("storage", "shell")
  /\ UNCHANGED <<cli, slot, log, buf, job, panic>>

ShellStatDone ==
  /\ Step("shell", "stat", "idle")
  /\ SemSignal("storage")
  /\ UNCHANGED <<cli, slot, log, buf, job, panic>>

ShellLocksLog ==
  /\ Step("shell", "lock", "erase")
  /\ SemWait("storage", "shell")
  /\ UNCHANGED <<cli, slot, log, buf, job, panic>>

(* bnapStorageWipe: used keeps its value until the next mount. *)
ShellErases ==
  /\ Step("shell", "erase", "restart")
  /\ card' = IF active THEN [b \in Blocks |-> 0] ELSE card
  /\ tip' = 0
  /\ SemSignal("storage")
  /\ UNCHANGED <<cli, slot, used, serial, buf, job, panic>>

(* MicrosdInit. *)
ShellRestarts ==
  /\ At("shell", "restart")
  /\ pc' = [t \in Threads |-> IF t = "writer" THEN "absent"
                              ELSE IF t \in Readers \cup {"shell"} THEN "idle" ELSE pc[t]]
  /\ term' = [t \in Threads |-> IF t \in Readers \cup {"writer"} THEN FALSE ELSE term[t]]
  /\ UNCHANGED <<victim, sync, slot, log, buf, job, panic>>

(* "modem cross" takes the ports, and keeps them for good. *)
CrossLocksCc ==
  /\ Step("shell", "cross_cc", "cross_dm")
  /\ SemWait("cc_out", "shell")
  /\ UNCHANGED <<cli, slot, log, buf, job, panic>>

CrossLocksDm ==
  /\ Step("shell", "cross_dm", "crossed")
  /\ SemWait("dm_out", "shell")
  /\ UNCHANGED <<cli, slot, log, buf, job, panic>>

-----------------------------------------------------------------------------
CardInserted ==
  /\ ~panic /\ ~inserted
  /\ events < MaxEvents /\ events' = events + 1
  /\ inserted' = TRUE
  /\ UNCHANGED <<pc, cli, sync, active, log, buf, job, panic>>

CardRemoved ==
  /\ ~panic /\ inserted
  /\ inserted' = FALSE
  /\ active' = FALSE
  /\ UNCHANGED <<pc, cli, sync, events, log, buf, job, panic>>

WriterStep ==
  \/ WriterSeesCard \/ WriterCardBounced
  \/ Connect \/ Mount
  \/ WriterMissesCard \/ WriterTakesLog
  \/ RecordRefused \/ RecordFill \/ RecordStore

Request(r) ==
  \/ CountRequest(r)
  \/ \E n, m \in 0 .. MaxRec : DownloadRequest(r, n, m)

ReaderStep(r) ==
  \/ CountAnswer(r)
  \/ NextRecord(r) \/ DownloadDone(r) \/ GetRecord(r)
  \/ TakePort(r) \/ WriteMessage(r) \/ RecordSent(r)
  \/ Exits(r)

ShellStep ==
  \/ \E command \in {"wipe", "cross"} : ShellTerminates(command) \/ ShellJoins(command)
  \/ ShellStatDone
  \/ ShellLocksLog \/ ShellErases \/ ShellRestarts

CrossStep == ShellCross \/ CrossLocksCc \/ CrossLocksDm

UserStep(u) == UserTakesPort(u) \/ UserGivesPort(u) \/ Exits(u)

Next ==
  \/ WriterStep \/ WriterInitsStorage \/ ConnectFails
  \/ \E r \in Readers : Request(r) \/ ReaderStep(r)
  \/ \E u \in PortUsers : UserStep(u)
  \/ ShellStat \/ ShellWipe \/ ShellStep \/ CrossStep
  \/ CardInserted \/ CardRemoved

Spec == Init /\ [][Next]_vars

(***************************************************************************)
(* What the users of the log have to respect for it to work, none of which *)
(* the code enforces: a request comes while the log is mounted and not     *)
(* empty; the card connects, stays in while the log is in use, and stays   *)
(* out until the writer has noticed; and the log is initialised, at boot,  *)
(* for a new card or after a wipe, while no reader uses it. The shell      *)
(* does without "modem cross".                                             *)
(***************************************************************************)
Mounted == pc["writer"] \in {"work", "record", "store"}

NoReader == pc["shell"] # "stat" /\ \A r \in Readers : pc[r] \in {"idle", "dead"}

LogUnused ==
  /\ NoReader
  /\ pc["writer"] \in {"absent", "settle", "work", "dead"}
  /\ pc["shell"] # "erase"

QuietNext ==
  \/ WriterStep
  \/ (NoReader /\ WriterInitsStorage)
  \/ \E r \in Readers : ReaderStep(r)
  \/ \E r \in Readers : Mounted /\ used > 0 /\ Request(r)
  \/ (Mounted /\ ShellStat)
  \/ \E u \in PortUsers : UserStep(u)
  \/ ShellWipe \/ ShellStep
  \/ (pc["writer"] # "work" /\ CardInserted)
  \/ (LogUnused /\ CardRemoved)

QuietSpec == Init /\ [][QuietNext]_vars

(* Every thread that can run does so in the end: there is no round robin   *)
(* (CH_TIME_QUANTUM is 0), but each thread, of whatever priority, sleeps   *)
(* or waits for its port, bus or event in every turn of its loop.          *)
FairSpec ==
  /\ QuietSpec
  /\ WF_vars(WriterStep)
  /\ WF_vars(NoReader /\ WriterInitsStorage)
  /\ \A r \in Readers : WF_vars(ReaderStep(r))
  /\ \A u \in PortUsers : WF_vars(UserGivesPort(u))
  /\ WF_vars(ShellStep)

-----------------------------------------------------------------------------
UsesBuf(t) ==
  \/ (pc[t] \in {"mount", "record", "store", "read"} /\ t \notin blocked)
  \/ (t \in Readers /\ pc[t] \in {"send", "write"})

Holds(t, l) ==
  \/ l = "storage" /\ (UsesBuf(t) \/ (pc[t] \in {"count", "stat", "erase"} /\ t \notin blocked))
  \/ l = Port(t) /\ t \in PortUsers \cup {"cc"} /\ pc[t] = "write" /\ t \notin blocked
  \/ l = "dm_out" /\ t = "dm" /\ (pc[t] \in {"read", "send", "write"}
                                   \/ (pc[t] = "next" /\ t \notin blocked))
  \/ l = "cc_out" /\ t = "shell" /\ (pc[t] = "crossed"
                                      \/ (pc[t] = "cross_dm" /\ t \notin blocked))

(* Each semaphore's counter stays that of one free or taken resource: no   *)
(* path signals twice or forgets to wait.                                  *)
TypeOK ==
  /\ free \in [Locks -> {0, 1}]
  /\ \A l \in Locks : free[l] = 0 \/ queue[l] = <<>>
  /\ blocked \subseteq Threads
  /\ card \in [Blocks -> 0 .. serial]
  /\ tip \in Blocks /\ used \in 0 .. Capacity
  /\ serial \in 0 .. MaxSerial /\ buf \in 0 .. serial
  /\ curr \in [Readers -> 0 .. MaxRec + Capacity] /\ last \in [Readers -> 0 .. Capacity]
  /\ left \in [Readers -> 0 .. Messages]
  /\ sent \in [Readers -> SUBSET (0 .. serial)]

(* "Semaphore for mutual access" (storage.h:53): one thread at a time uses *)
(* the buffer of the log.                                                  *)
BufExclusive == \A t, u \in Threads : UsesBuf(t) /\ UsesBuf(u) => t = u

(* No chDbgCheck fails: a download names only records that exist when it   *)
(* reads them, although the request was checked without the lock.          *)
NoPanic == ~panic

(* One thread at a time writes to a port, and no message of another thread *)
(* gets into a download on the diagnostic port, even where the semaphore   *)
(* of the log is initialised while it is in use.                           *)
PortExclusive ==
  \A t, u \in Threads, l \in Locks \ {"storage"} : Holds(t, l) /\ Holds(u, l) => t = u

(* Both, where the semaphore of the log is initialised only while no       *)
(* reader is active.                                                       *)
OneUserEach == PortExclusive /\ BufExclusive

SendsSoundly ==
  \A r \in Readers :
    pc[r] = "send" /\ pc'[r] = "next" => buf # 0 /\ buf \notin sent[r]

(* microsd.c:181-245, storage.h:53: a download sends records, not blocks   *)
(* that were never written, and none of them twice, although the writer    *)
(* moves the tip (and with it the meaning of a record number on a full     *)
(* card) between two records; and no check of the code fails.              *)
DownloadIsSound == [](TypeOK /\ OneUserEach /\ NoPanic) /\ [][SendsSoundly]_vars

(* A download ends, whatever the modem, the packers, the writer and the    *)
(* other reader hold meanwhile.                                            *)
DownloadEnds ==
  \A r \in Readers : pc[r] \notin {"idle", "dead"} ~> pc[r] \in {"idle", "dead"}

(* "storage wipe" ends with the threads running again, unless the card is  *)
(* taken out: the writer does not look at chThdShouldTerminate without it. *)
WipeEnds == pc["shell"] = "wipe" ~> pc["shell"] = "idle" \/ ~inserted

(* Both: nobody holds the log, a port or the buffer for ever.              *)
JobsEnd == DownloadEnds /\ WipeEnds

-----------------------------------------------------------------------------
(* What the documentation says and the code does not do.                   *)

(* oblique.xml:63, "If you want single record than set first==last": a     *)
(* download ends with nothing sent only if its first record does not       *)
(* exist.                                                                  *)
SingleRecordIsSent ==
  [][\A r \in Readers :
       pc[r] = "next" /\ pc'[r] \in {"idle", "dead"} /\ sent[r] = {}
         => curr[r] >= used]_vars
=============================================================================
