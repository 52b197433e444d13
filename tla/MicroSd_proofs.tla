--------------------------- MODULE MicroSd_proofs ---------------------------
(***************************************************************************)
(* Proofs about MicroSd for every set of readers and port users, every     *)
(* card and every bound: one thread at a time writes to a port, whatever   *)
(* happens to card and log; while the rules of QuietNext are kept one at a *)
(* time uses the buffer of the log, and a download sends each record once. *)
(*                                                                         *)
(* The first argument is about a semaphore and its queue.  A thread is     *)
(* InLock from its wait to its signal; it waits there if it is blocked at  *)
(* the place right behind the wait; otherwise it holds the semaphore.  The *)
(* second is about the ring of blocks: a record that is written moves the  *)
(* numbers of the others down, by one at most, so that what was sent never *)
(* has a number that is still to be read.                                  *)
(***************************************************************************)
EXTENDS MicroSd, TLAPS

(* The places of a thread right behind its wait for semaphore l.           *)
WaitsAt(t, l) ==
  \/ t \in PortUsers \cup {"cc"} /\ l = Port(t) /\ pc[t] = "write"
  \/ t = "dm" /\ l = "dm_out" /\ pc[t] = "next"
  \/ t = "shell" /\ l = "cc_out" /\ pc[t] = "cross_dm"
  \/ t = "shell" /\ l = "dm_out" /\ pc[t] = "crossed"
  \/ l = "storage" /\ pc[t] \in {"mount", "record", "count", "read", "stat", "erase"}

(* The places between the wait for l and its signal.                       *)
InLock(t, l) ==
  \/ WaitsAt(t, l)
  \/ t = "dm" /\ l = "dm_out" /\ pc[t] \in {"read", "send", "write"}
  \/ t = "shell" /\ l = "cc_out" /\ pc[t] = "crossed"
  \/ l = "storage" /\ (pc[t] = "store" \/ (t \in Readers /\ pc[t] \in {"send", "write"}))

Holder(t, l) == InLock(t, l) /\ ~(WaitsAt(t, l) /\ t \in blocked)

Queued(t, l) == \E i \in 1 .. Len(queue[l]) : queue[l][i] = t

Places ==
  {"idle", "dead", "absent", "settle", "connect", "mount", "work", "record", "store",
   "count", "next", "read", "send", "write", "stat", "wipe", "lock", "erase", "restart",
   "cross", "cross_cc", "cross_dm", "crossed"}

SyncType ==
  /\ pc \in [Threads -> Places]
  /\ free \in [Locks -> Nat]
  /\ queue \in [Locks -> Seq(Threads)]
  /\ blocked \subseteq Threads

(* Who is queued waits, and is queued once.                                *)
QueueInv(l) ==
  /\ \A t \in Threads : Queued(t, l) => WaitsAt(t, l) /\ t \in blocked
  /\ \A i, j \in 1 .. Len(queue[l]) : queue[l][i] = queue[l][j] => i = j

(* Who waits is queued, nobody is inside while the semaphore is free, and  *)
(* one thread at most holds it.                                            *)
LockInv(l) ==
  /\ free[l] \in {0, 1}
  /\ \A t \in Threads : WaitsAt(t, l) /\ t \in blocked => Queued(t, l)
  /\ free[l] = 1 => \A t \in Threads : ~InLock(t, l)
  /\ \A t, u \in Threads : Holder(t, l) /\ Holder(u, l) => t = u

-----------------------------------------------------------------------------
(* Who joins a queue is its last.                                          *)
LEMMA AppendQueue ==
  ASSUME NEW S, NEW s \in Seq(S), NEW e \in S
  PROVE  /\ Append(s, e) \in Seq(S)
         /\ Len(Append(s, e)) = Len(s) + 1
         /\ \A i \in 1 .. Len(s) : Append(s, e)[i] = s[i]
         /\ Append(s, e)[Len(s) + 1] = e
OBVIOUS

(* When the first leaves a queue the others move up.                       *)
LEMMA TailQueue ==
  ASSUME NEW S, NEW s \in Seq(S), s # <<>>
  PROVE  /\ Head(s) = s[1] /\ Head(s) \in S /\ Len(s) \in Nat \ {0}
         /\ Tail(s) \in Seq(S) /\ Len(Tail(s)) = Len(s) - 1
         /\ \A i \in 1 .. Len(s) - 1 : Tail(s)[i] = s[i + 1]
OBVIOUS

(* A place is right behind one wait only.                                  *)
LEMMA OneWait ==
  ASSUME NEW t \in Threads, NEW l \in Locks, NEW k \in Locks, WaitsAt(t, l), WaitsAt(t, k)
  PROVE  l = k
BY DEF WaitsAt, Port, Locks

(* The places of the threads that do not move are the same.                *)
LEMMA OthersStay ==
  ASSUME SyncType, NEW t \in Threads, NEW q, pc' = [pc EXCEPT ![t] = q],
         NEW u \in Threads, u # t, NEW l
  PROVE  WaitsAt(u, l)' = WaitsAt(u, l) /\ InLock(u, l)' = InLock(u, l)
<1>1. pc'[u] = pc[u]
  BY DEF SyncType
<1>2. WaitsAt(u, l)' = WaitsAt(u, l)
  BY <1>1 DEF WaitsAt, Port
<1> QED
  BY <1>1, <1>2 DEF InLock

-----------------------------------------------------------------------------
(* What a step of thread t does to a semaphore k.                          *)

(* t moves, and neither waits for k nor signals it.                        *)
LEMMA MoveKeeps ==
  ASSUME SyncType, NEW k \in Locks, NEW t \in Threads, NEW q, QueueInv(k),
         t \notin blocked, pc' = [pc EXCEPT ![t] = q],
         queue'[k] = queue[k], free'[k] = free[k],
         t \in blocked' => ~WaitsAt(t, k)',
         \A u \in Threads \ {t} : WaitsAt(u, k) => (u \in blocked' <=> u \in blocked)
  PROVE  /\ QueueInv(k)'
         /\ LockInv(k) /\ InLock(t, k)' = InLock(t, k) => LockInv(k)'
<1>1. \A u \in Threads : Queued(u, k)' <=> Queued(u, k)
  BY DEF Queued
<1>2. ~Queued(t, k)
  BY DEF QueueInv
<1>3. \A u \in Threads \ {t} : WaitsAt(u, k)' = WaitsAt(u, k) /\ InLock(u, k)' = InLock(u, k)
  BY OthersStay
<1>4. QueueInv(k)'
  <2>1. \A u \in Threads : Queued(u, k)' => WaitsAt(u, k)' /\ u \in blocked'
    BY <1>1, <1>2, <1>3 DEF QueueInv
  <2> QED
    BY <2>1 DEF QueueInv
<1>5. ASSUME LockInv(k), InLock(t, k)' = InLock(t, k) PROVE LockInv(k)'
  <2>1. \A u \in Threads : Holder(u, k)' <=> Holder(u, k)
    <3>1. Holder(t, k)' <=> Holder(t, k)
      BY <1>5 DEF Holder
    <3>2. \A u \in Threads \ {t} : Holder(u, k)' <=> Holder(u, k)
      BY <1>3 DEF Holder
    <3> QED
      BY <3>1, <3>2
  <2>2. \A u \in Threads : InLock(u, k)' = InLock(u, k)
    BY <1>3, <1>5
  <2>3. \A u \in Threads : WaitsAt(u, k)' /\ u \in blocked' => Queued(u, k)'
    BY <1>1, <1>3, <1>5 DEF LockInv
  <2> QED
    BY <1>5, <2>1, <2>2, <2>3 DEF LockInv
<1> QED
  BY <1>4, <1>5

(* t waits for k: it holds the semaphore, or is the last of the queue.     *)
LEMMA WaitKeeps ==
  ASSUME SyncType, NEW k \in Locks, NEW t \in Threads, NEW q, QueueInv(k),
         t \notin blocked, pc' = [pc EXCEPT ![t] = q],
         SemWait(k, t), WaitsAt(t, k)'
  PROVE  /\ QueueInv(k)'
         /\ LockInv(k) /\ ~InLock(t, k) => LockInv(k)'
<1>1. \A u \in Threads \ {t} : WaitsAt(u, k)' = WaitsAt(u, k) /\ InLock(u, k)' = InLock(u, k)
  BY OthersStay
<1>2. ~Queued(t, k) /\ InLock(t, k)' /\ queue[k] \in Seq(Threads)
  BY DEF QueueInv, InLock, SyncType
<1>3. CASE free[k] > 0
  <2>1. /\ free' = [free EXCEPT ![k] = @ - 1] /\ queue' = queue /\ blocked' = blocked
    BY <1>3 DEF SemWait
  <2>2. \A u \in Threads : Queued(u, k)' <=> Queued(u, k)
    BY <2>1 DEF Queued
  <2>3. QueueInv(k)'
    <3>1. \A u \in Threads : Queued(u, k)' => WaitsAt(u, k)' /\ u \in blocked'
      BY <1>1, <1>2, <2>1, <2>2 DEF QueueInv
    <3> QED
      BY <2>1, <3>1 DEF QueueInv
  <2>4. ASSUME LockInv(k) PROVE LockInv(k)'
    <3>1. free[k] = 1 /\ free'[k] = 0
      BY <1>3, <2>1, <2>4 DEF LockInv, SyncType
    <3>2. \A u \in Threads \ {t} : ~InLock(u, k)'
      BY <1>1, <2>4, <3>1 DEF LockInv
    <3>3. \A u \in Threads : WaitsAt(u, k)' /\ u \in blocked' => Queued(u, k)'
      BY <2>1, <3>2 DEF InLock
    <3>4. \A u, v \in Threads : Holder(u, k)' /\ Holder(v, k)' => u = v
      BY <3>2 DEF Holder
    <3> QED
      BY <3>1, <3>3, <3>4 DEF LockInv
  <2> QED
    BY <2>3, <2>4
<1>4. CASE ~(free[k] > 0)
  <2>1. /\ queue'[k] = Append(queue[k], t) /\ blocked' = blocked \cup {t} /\ free' = free
    BY <1>4 DEF SemWait, SyncType
  <2>2. \A u \in Threads : Queued(u, k)' <=> Queued(u, k) \/ u = t
    BY <1>2, <2>1, AppendQueue DEF Queued
  <2>3. QueueInv(k)'
    <3>1. \A u \in Threads : Queued(u, k)' => WaitsAt(u, k)' /\ u \in blocked'
      BY <1>1, <2>1, <2>2 DEF QueueInv
    <3>2. \A i, j \in 1 .. Len(queue'[k]) : queue'[k][i] = queue'[k][j] => i = j
      <4>1. \A i \in 1 .. Len(queue[k]) : queue[k][i] # t
        BY <1>2 DEF Queued
      <4> QED
        BY <1>2, <2>1, <4>1, AppendQueue DEF QueueInv
    <3> QED
      BY <3>1, <3>2 DEF QueueInv
  <2>4. ASSUME LockInv(k) PROVE LockInv(k)'
    <3>1. free'[k] = 0
      BY <1>4, <2>1, <2>4 DEF LockInv
    <3>2. \A u \in Threads : WaitsAt(u, k)' /\ u \in blocked' => Queued(u, k)'
      BY <1>1, <2>1, <2>2, <2>4 DEF LockInv
    <3>3. ~Holder(t, k)' /\ \A u \in Threads \ {t} : Holder(u, k)' <=> Holder(u, k)
      BY <1>1, <2>1 DEF Holder
    <3> QED
      BY <2>4, <3>1, <3>2, <3>3 DEF LockInv
  <2> QED
    BY <2>3, <2>4
<1> QED
  BY <1>3, <1>4

(* t signals k: the first of the queue holds it then, or nobody.           *)
LEMMA SignalKeeps ==
  ASSUME SyncType, NEW k \in Locks, NEW t \in Threads, NEW q, QueueInv(k),
         t \notin blocked, pc' = [pc EXCEPT ![t] = q], SemSignal(k)
  PROVE  /\ QueueInv(k)'
         /\ LockInv(k) /\ InLock(t, k) /\ ~InLock(t, k)' => LockInv(k)'
<1>1. \A u \in Threads \ {t} : WaitsAt(u, k)' = WaitsAt(u, k) /\ InLock(u, k)' = InLock(u, k)
  BY OthersStay
<1>2. ~Queued(t, k) /\ queue[k] \in Seq(Threads)
  BY DEF QueueInv, SyncType
<1>3. CASE queue[k] = <<>>
  <2>1. /\ free' = [free EXCEPT ![k] = @ + 1] /\ queue' = queue /\ blocked' = blocked
        /\ \A u \in Threads : ~Queued(u, k) /\ ~Queued(u, k)'
    BY <1>3 DEF SemSignal, Queued
  <2>2. QueueInv(k)'
    BY <2>1 DEF QueueInv
  <2>3. ASSUME LockInv(k), InLock(t, k), ~InLock(t, k)' PROVE LockInv(k)'
    <3>1. free[k] = 0 /\ free'[k] = 1
      BY <2>1, <2>3 DEF LockInv, SyncType
    <3>2. Holder(t, k)
      BY <2>3 DEF Holder
    <3>3. \A u \in Threads : ~InLock(u, k)'
      BY <1>1, <2>1, <2>3, <3>2 DEF LockInv, Holder
    <3> QED
      BY <3>1, <3>3 DEF LockInv, Holder, InLock
  <2> QED
    BY <2>2, <2>3
<1>4. CASE queue[k] # <<>>
  <2> DEFINE h == queue[k][1]
  <2>1. /\ queue'[k] = Tail(queue[k]) /\ blocked' = blocked \ {h} /\ free' = free /\ h \in Threads
        /\ Len(queue[k]) \in Nat \ {0}
    BY <1>2, <1>4, TailQueue DEF SemSignal, SyncType
  <2>2. Queued(h, k) /\ h # t
    BY <1>2, <2>1 DEF Queued
  <2>3. \A i \in 1 .. Len(queue'[k]) : i + 1 \in 1 .. Len(queue[k]) /\ queue'[k][i] = queue[k][i + 1]
    BY <1>2, <1>4, <2>1, TailQueue
  <2>4. \A u \in Threads : Queued(u, k)' <=> Queued(u, k) /\ u # h
    <3>1. ASSUME NEW u \in Threads, Queued(u, k)' PROVE Queued(u, k) /\ u # h
      <4>1. PICK i \in 1 .. Len(queue'[k]) : queue'[k][i] = u
        BY <3>1 DEF Queued
      <4>2. i + 1 \in 1 .. Len(queue[k]) /\ queue[k][i + 1] = u /\ i + 1 # 1 /\ 1 \in 1 .. Len(queue[k])
        BY <2>1, <2>3, <4>1
      <4> QED
        BY <4>2 DEF Queued, QueueInv
    <3>2. ASSUME NEW u \in Threads, Queued(u, k), u # h PROVE Queued(u, k)'
      <4>1. PICK i \in 1 .. Len(queue[k]) : queue[k][i] = u
        BY <3>2 DEF Queued
      <4>2. i # 1 /\ i - 1 \in 1 .. Len(queue[k]) - 1
        BY <2>1, <3>2, <4>1
      <4>3. Len(queue'[k]) = Len(queue[k]) - 1 /\ queue'[k][i - 1] = queue[k][i]
        BY <1>2, <1>4, <2>1, <4>2, TailQueue
      <4> QED
        BY <4>1, <4>2, <4>3 DEF Queued
    <3> QED
      BY <3>1, <3>2
  <2>5. QueueInv(k)'
    <3>1. \A u \in Threads : Queued(u, k)' => WaitsAt(u, k)' /\ u \in blocked'
      BY <1>1, <1>2, <2>1, <2>4 DEF QueueInv
    <3>2. ASSUME NEW i \in 1 .. Len(queue'[k]), NEW j \in 1 .. Len(queue'[k]),
                 queue'[k][i] = queue'[k][j]
          PROVE  i = j
      <4>1. i + 1 = j + 1
        BY <2>3, <3>2 DEF QueueInv
      <4> QED
        BY <2>1, <4>1
    <3> QED
      BY <3>1, <3>2 DEF QueueInv
  <2>6. ASSUME LockInv(k), InLock(t, k), ~InLock(t, k)' PROVE LockInv(k)'
    <3>1. Holder(t, k) /\ free[k] = 0 /\ free'[k] = 0
      BY <2>1, <2>6 DEF LockInv, Holder
    <3>2. \A u \in Threads : Holder(u, k)' => u = h
      BY <1>1, <2>1, <2>6, <3>1 DEF Holder, LockInv
    <3>3. \A u \in Threads : WaitsAt(u, k)' /\ u \in blocked' => Queued(u, k)'
      BY <1>1, <2>1, <2>4, <2>6 DEF LockInv, InLock
    <3> QED
      BY <3>1, <3>2, <3>3 DEF LockInv
  <2> QED
    BY <2>5, <2>6
<1> QED
  BY <1>3, <1>4

-----------------------------------------------------------------------------
(* What a step of a thread does to all semaphores.                         *)

Queues == SyncType /\ \A k \in Locks : QueueInv(k)

(* The queues stay right, and so does each semaphore that was.             *)
Kept == Queues' /\ \A k \in Locks : LockInv(k) => LockInv(k)'

(* Moving, waiting and signalling keep the types.                          *)
LEMMA StepKeepsType ==
  ASSUME SyncType, NEW t \in Threads, NEW q \in Places, pc' = [pc EXCEPT ![t] = q],
         \/ UNCHANGED sync
         \/ \E l \in Locks : SemWait(l, t)
         \/ \E l \in Locks : SemSignal(l)
  PROVE  SyncType'
<1>1. pc' \in [Threads -> Places]
  BY DEF SyncType
<1>2. CASE UNCHANGED sync
  BY <1>1, <1>2 DEF SyncType, sync
<1>3. ASSUME NEW l \in Locks, SemWait(l, t) PROVE SyncType'
  <2>1. CASE free[l] > 0
    <3>1. free[l] - 1 \in Nat
      BY <2>1 DEF SyncType
    <3> QED
      BY <1>1, <1>3, <2>1, <3>1 DEF SyncType, SemWait
  <2>2. CASE ~(free[l] > 0)
    <3>1. Append(queue[l], t) \in Seq(Threads)
      BY AppendQueue DEF SyncType
    <3> QED
      BY <1>1, <1>3, <2>2, <3>1 DEF SyncType, SemWait
  <2> QED
    BY <2>1, <2>2
<1>4. ASSUME NEW l \in Locks, SemSignal(l) PROVE SyncType'
  <2>1. CASE queue[l] = <<>>
    <3>1. free[l] + 1 \in Nat
      BY DEF SyncType
    <3> QED
      BY <1>1, <1>4, <2>1, <3>1 DEF SyncType, SemSignal
  <2>2. CASE queue[l] # <<>>
    <3>1. Tail(queue[l]) \in Seq(Threads)
      BY <2>2, TailQueue DEF SyncType
    <3> QED
      BY <1>1, <1>4, <2>2, <3>1 DEF SyncType, SemSignal
  <2> QED
    BY <2>1, <2>2
<1> QED
  BY <1>2, <1>3, <1>4

(* It goes on without a semaphore.                                         *)
LEMMA PlainStep ==
  ASSUME Queues, NEW t \in Threads, NEW q \in Places, t \notin blocked,
         pc' = [pc EXCEPT ![t] = q], UNCHANGED sync,
         \A k \in Locks : InLock(t, k)' = InLock(t, k)
  PROVE  Kept
<1>1. SyncType'
  BY StepKeepsType DEF Queues
<1>2. ASSUME NEW k \in Locks PROVE QueueInv(k)' /\ (LockInv(k) => LockInv(k)')
  BY MoveKeeps DEF Queues, sync
<1> QED
  BY <1>1, <1>2 DEF Kept, Queues

(* It waits for one.                                                       *)
LEMMA WaitStep ==
  ASSUME Queues, NEW t \in Threads, NEW q \in Places, t \notin blocked,
         pc' = [pc EXCEPT ![t] = q], NEW l \in Locks, SemWait(l, t),
         ~InLock(t, l), WaitsAt(t, l)',
         \A k \in Locks \ {l} : InLock(t, k)' = InLock(t, k)
  PROVE  Kept
<1>1. SyncType'
  BY StepKeepsType DEF Queues
<1>2. QueueInv(l)' /\ (LockInv(l) => LockInv(l)')
  BY WaitKeeps DEF Queues
<1>3. ASSUME NEW k \in Locks \ {l} PROVE QueueInv(k)' /\ (LockInv(k) => LockInv(k)')
  <2>1. ~WaitsAt(t, k)'
    BY DEF WaitsAt, Port, Locks
  <2>2. queue'[k] = queue[k] /\ free'[k] = free[k] /\ \A u \in Threads \ {t} : u \in blocked' <=> u \in blocked
    BY DEF SemWait, Queues, SyncType
  <2> QED
    BY <2>1, <2>2, MoveKeeps DEF Queues
<1> QED
  BY <1>1, <1>2, <1>3 DEF Kept, Queues

(* It signals one.                                                         *)
LEMMA SignalStep ==
  ASSUME Queues, NEW t \in Threads, NEW q \in Places, t \notin blocked,
         pc' = [pc EXCEPT ![t] = q], NEW l \in Locks, SemSignal(l),
         InLock(t, l), ~InLock(t, l)',
         \A k \in Locks \ {l} : InLock(t, k)' = InLock(t, k)
  PROVE  Kept
<1>1. SyncType'
  BY StepKeepsType DEF Queues
<1>2. QueueInv(l)' /\ (LockInv(l) => LockInv(l)')
  BY SignalKeeps DEF Queues
<1>3. ASSUME NEW k \in Locks \ {l} PROVE QueueInv(k)' /\ (LockInv(k) => LockInv(k)')
  <2>1. queue'[k] = queue[k] /\ free'[k] = free[k] /\ blocked' \subseteq blocked
    BY DEF SemSignal, Queues, SyncType
  <2>2. ASSUME NEW u \in Threads \ {t}, WaitsAt(u, k), u \in blocked PROVE u \in blocked'
    <3>1. CASE queue[l] = <<>>
      BY <2>2, <3>1 DEF SemSignal
    <3>2. CASE queue[l] # <<>>
      <4>1. Head(queue[l]) \in Threads /\ Queued(Head(queue[l]), l)
        BY <3>2, TailQueue DEF Queues, SyncType, Queued
      <4>2. WaitsAt(Head(queue[l]), l)
        BY <4>1 DEF Queues, QueueInv
      <4>3. u # Head(queue[l])
        BY <2>2, <4>2, OneWait
      <4> QED
        BY <2>2, <3>2, <4>3 DEF SemSignal
    <3> QED
      BY <3>1, <3>2
  <2> QED
    BY <2>1, <2>2, MoveKeeps DEF Queues
<1> QED
  BY <1>1, <1>2, <1>3 DEF Kept, Queues

-----------------------------------------------------------------------------
(* What t does between two places, as the three lemmas want it.            *)
LEMMA StepPlaces ==
  ASSUME Queues, NEW t \in Threads, NEW p, NEW q, Step(t, p, q)
  PROVE  pc' = [pc EXCEPT ![t] = q] /\ pc[t] = p /\ pc'[t] = q /\ t \notin blocked
BY DEF Step, At, Goto, Queues, SyncType

(* The loop of a thread ends or goes on.                                   *)
LEMMA LoopTops == \A t, p : LoopTop(t, p) = "dead" \/ LoopTop(t, p) = p
BY DEF LoopTop

(* The writer keeps the semaphores right (microsd.c:141-173): each record  *)
(* and each mount is between one wait and one signal.                      *)
LEMMA WriterKeeps ==
  ASSUME Queues, WriterStep \/ ConnectFails
  PROVE  Kept
<1> DEFINE t == "writer"
           Out == {"absent", "settle", "connect", "work", "dead"}
<1> USE MicroSdAssumption
<1>1. t \in Threads /\ t \notin Readers /\ t \notin PortUsers /\ "storage" \in Locks
  BY DEF Threads, Locks
<1>2. ASSUME NEW p \in Out, NEW q \in Out, Step(t, p, q), UNCHANGED sync
      PROVE  Kept
  <2>1. \A k \in Locks : InLock(t, k)' = InLock(t, k)
    BY <1>1, <1>2, StepPlaces DEF InLock, WaitsAt, Port, Locks
  <2>2. q \in Places
    BY DEF Places
  <2> QED
    BY <1>1, <1>2, <2>1, <2>2, StepPlaces, PlainStep
<1>3. ASSUME NEW p \in Out, NEW q \in {"mount", "record"}, Step(t, p, q), SemWait("storage", t)
      PROVE  Kept
  <2>1. ~InLock(t, "storage") /\ WaitsAt(t, "storage")'
    BY <1>1, <1>3, StepPlaces DEF InLock, WaitsAt, Port
  <2>2. \A k \in Locks \ {"storage"} : InLock(t, k)' = InLock(t, k)
    BY <1>1, <1>3, StepPlaces DEF InLock, WaitsAt, Port, Locks
  <2>3. q \in Places
    BY DEF Places
  <2> QED
    BY <1>1, <1>3, <2>1, <2>2, <2>3, StepPlaces, WaitStep
<1>4. ASSUME NEW p \in {"mount", "record", "store"}, NEW q \in Out, Step(t, p, q), SemSignal("storage")
      PROVE  Kept
  <2>1. InLock(t, "storage") /\ ~InLock(t, "storage")'
    BY <1>1, <1>4, StepPlaces DEF InLock, WaitsAt, Port
  <2>2. \A k \in Locks \ {"storage"} : InLock(t, k)' = InLock(t, k)
    BY <1>1, <1>4, StepPlaces DEF InLock, WaitsAt, Port, Locks
  <2>3. q \in Places
    BY DEF Places
  <2> QED
    BY <1>1, <1>4, <2>1, <2>2, <2>3, StepPlaces, SignalStep
<1>5. CASE RecordFill
  <2>1. Step(t, "record", "store") /\ UNCHANGED sync
    BY <1>5 DEF RecordFill, sync
  <2>2. \A k \in Locks : InLock(t, k)' = InLock(t, k)
    BY <1>1, <2>1, StepPlaces DEF InLock, WaitsAt, Port, Locks
  <2>3. "store" \in Places
    BY DEF Places
  <2> QED
    BY <1>1, <2>1, <2>2, <2>3, StepPlaces, PlainStep
<1>6. LoopTop(t, "work") \in Out
  BY LoopTops
<1>7. CASE WriterSeesCard \/ WriterCardBounced \/ WriterMissesCard \/ ConnectFails
  BY <1>2, <1>6, <1>7 DEF WriterSeesCard, WriterCardBounced, WriterMissesCard, ConnectFails
<1>8. CASE Connect \/ WriterTakesLog
  BY <1>3, <1>8 DEF Connect, WriterTakesLog
<1>9. CASE Mount \/ RecordRefused \/ RecordStore
  BY <1>4, <1>6, <1>9 DEF Mount, RecordRefused, RecordStore
<1> QED
  BY <1>5, <1>7, <1>8, <1>9 DEF WriterStep

(* So do the readers (microsd.c:181-335): the cc reader takes its port for *)
(* a message, the dm reader for a download, the log for a record.          *)
LEMMA ReaderKeeps ==
  ASSUME Queues, NEW r \in Readers, Request(r) \/ ReaderStep(r)
  PROVE  Kept
<1> USE MicroSdAssumption
<1>1. /\ r \in Threads /\ r \in {"cc", "dm"} /\ r \notin PortUsers
      /\ Port(r) = IF r = "dm" THEN "dm_out" ELSE "cc_out"
      /\ \A l \in Locks : l \in {"storage", "cc_out", "dm_out"}
      /\ Port(r) \in Locks /\ "storage" \in Locks
  BY DEF Threads, Locks, Port
<1>2. ASSUME NEW p, NEW q \in Places, Step(r, p, q), UNCHANGED sync,
             \/ p \in {"idle", "dead"} /\ q \in {"idle", "dead"}
             \/ r = "cc" /\ p \in {"idle", "dead", "next"} /\ q \in {"idle", "dead", "next"}
             \/ p = "read" /\ q = "send"
             \/ r = "dm" /\ p \in {"send", "write"} /\ q \in {"send", "write"}
      PROVE  Kept
  <2>1. \A k \in Locks : InLock(r, k)' = InLock(r, k)
    BY <1>1, <1>2, StepPlaces DEF InLock, WaitsAt
  <2> QED
    BY <1>1, <1>2, <2>1, StepPlaces, PlainStep
<1>3. ASSUME NEW p, NEW q \in Places, NEW l \in Locks, Step(r, p, q), SemWait(l, r),
             \/ l = "storage" /\ p = "idle" /\ q = "count"
             \/ l = "storage" /\ p = "next" /\ q = "read"
             \/ l = "dm_out" /\ r = "dm" /\ p = "idle" /\ q = "next"
             \/ l = "cc_out" /\ r = "cc" /\ p = "send" /\ q = "write"
      PROVE  Kept
  <2>1. ~InLock(r, l) /\ WaitsAt(r, l)'
    BY <1>1, <1>3, StepPlaces DEF InLock, WaitsAt
  <2>2. \A k \in Locks \ {l} : InLock(r, k)' = InLock(r, k)
    BY <1>1, <1>3, StepPlaces DEF InLock, WaitsAt
  <2> QED
    BY <1>1, <1>3, <2>1, <2>2, StepPlaces, WaitStep
<1>4. ASSUME NEW p, NEW q \in Places, NEW l \in Locks, Step(r, p, q), SemSignal(l),
             \/ l = "storage" /\ p = "count" /\ q \in {"idle", "dead"}
             \/ l = "storage" /\ p = "send" /\ q = "next"
             \/ l = "dm_out" /\ r = "dm" /\ p = "next" /\ q \in {"idle", "dead"}
             \/ l = "cc_out" /\ r = "cc" /\ p = "write" /\ q = "send"
      PROVE  Kept
  <2>1. InLock(r, l) /\ ~InLock(r, l)'
    BY <1>1, <1>4, StepPlaces DEF InLock, WaitsAt
  <2>2. \A k \in Locks \ {l} : InLock(r, k)' = InLock(r, k)
    BY <1>1, <1>4, StepPlaces DEF InLock, WaitsAt
  <2> QED
    BY <1>1, <1>4, <2>1, <2>2, StepPlaces, SignalStep
<1>5. LoopTop(r, "idle") \in {"idle", "dead"} /\ {"idle", "dead", "count", "next", "read", "send", "write"} \subseteq Places
  BY LoopTops DEF Places
<1>6. CASE CountRequest(r) \/ CountAnswer(r)
  BY <1>1, <1>3, <1>4, <1>5, <1>6 DEF CountRequest, CountAnswer
<1>7. ASSUME NEW n, NEW m, DownloadRequest(r, n, m) PROVE Kept
  <2>1. CASE r = "dm"
    BY <1>1, <1>3, <1>5, <1>7, <2>1 DEF DownloadRequest, PortTaken
  <2>2. CASE r # "dm"
    BY <1>1, <1>2, <1>5, <1>7, <2>2 DEF DownloadRequest, PortTaken
  <2> QED
    BY <2>1, <2>2
<1>8. CASE NextRecord(r) \/ RecordSent(r)
  BY <1>1, <1>3, <1>4, <1>5, <1>8 DEF NextRecord, RecordSent
<1>9. CASE DownloadDone(r)
  <2>1. CASE r = "dm"
    BY <1>1, <1>4, <1>5, <1>9, <2>1 DEF DownloadDone, PortGivenBack
  <2>2. CASE r # "dm"
    BY <1>1, <1>2, <1>5, <1>9, <2>2 DEF DownloadDone, PortGivenBack
  <2> QED
    BY <2>1, <2>2
<1>10. CASE GetRecord(r) \/ Exits(r)
  BY <1>2, <1>5, <1>10 DEF GetRecord, Exits, sync
<1>11. CASE TakePort(r) \/ WriteMessage(r)
  <2>1. CASE r = "cc"
    BY <1>1, <1>3, <1>4, <1>5, <1>11, <2>1 DEF TakePort, WriteMessage
  <2>2. CASE r = "dm"
    BY <1>2, <1>5, <1>11, <2>2 DEF TakePort, WriteMessage
  <2> QED
    BY <1>1, <2>1, <2>2
<1> QED
  BY <1>6, <1>7, <1>8, <1>9, <1>10, <1>11 DEF Request, ReaderStep

(* So do the packers and the modem with their ports.                       *)
LEMMA UserKeeps ==
  ASSUME Queues, NEW u \in PortUsers, UserStep(u)
  PROVE  Kept
<1> USE MicroSdAssumption
<1>1. /\ u \in Threads /\ u \notin {"cc", "dm", "shell", "writer"} /\ u \notin Readers
      /\ \A l \in Locks : l \in {"storage", "cc_out", "dm_out"}
      /\ Port(u) \in Locks /\ Port(u) # "storage"
  BY DEF Threads, Locks, Port
<1>2. LoopTop(u, "idle") \in {"idle", "dead"} /\ {"idle", "dead", "write"} \subseteq Places
  BY LoopTops DEF Places
<1>3. CASE UserTakesPort(u)
  <2>1. Step(u, "idle", "write") /\ SemWait(Port(u), u)
    BY <1>3 DEF UserTakesPort
  <2>2. ~InLock(u, Port(u)) /\ WaitsAt(u, Port(u))'
    BY <1>1, <2>1, StepPlaces DEF InLock, WaitsAt
  <2>3. \A k \in Locks \ {Port(u)} : InLock(u, k)' = InLock(u, k)
    BY <1>1, <2>1, StepPlaces DEF InLock, WaitsAt
  <2> QED
    BY <1>1, <1>2, <2>1, <2>2, <2>3, StepPlaces, WaitStep
<1>4. CASE UserGivesPort(u)
  <2>1. PICK q \in {"idle", "dead"} : Step(u, "write", q) /\ SemSignal(Port(u))
    BY <1>2, <1>4 DEF UserGivesPort
  <2>2. InLock(u, Port(u)) /\ ~InLock(u, Port(u))'
    BY <1>1, <2>1, StepPlaces DEF InLock, WaitsAt
  <2>3. \A k \in Locks \ {Port(u)} : InLock(u, k)' = InLock(u, k)
    BY <1>1, <2>1, StepPlaces DEF InLock, WaitsAt
  <2> QED
    BY <1>1, <1>2, <2>1, <2>2, <2>3, StepPlaces, SignalStep
<1>5. CASE Exits(u)
  <2>1. Step(u, "idle", "dead") /\ UNCHANGED sync
    BY <1>5 DEF Exits
  <2>2. \A k \in Locks : InLock(u, k)' = InLock(u, k)
    BY <1>1, <2>1, StepPlaces DEF InLock, WaitsAt
  <2> QED
    BY <1>1, <1>2, <2>1, <2>2, StepPlaces, PlainStep
<1> QED
  BY <1>3, <1>4, <1>5 DEF UserStep

(* Nobody comes to a semaphore or leaves it.                               *)
LEMMA SamePlaces ==
  ASSUME Queues, pc' \in [Threads -> Places], UNCHANGED sync,
         \A t \in Threads, k \in Locks : WaitsAt(t, k)' = WaitsAt(t, k) /\ InLock(t, k)' = InLock(t, k)
  PROVE  Kept
<1>1. queue' = queue /\ free' = free /\ blocked' = blocked
  BY DEF sync
<1>2. \A t, k : Queued(t, k)' = Queued(t, k)
  BY <1>1 DEF Queued
<1>3. \A t \in Threads, k \in Locks : Holder(t, k)' = Holder(t, k)
  BY <1>1 DEF Holder
<1>4. SyncType'
  BY <1>1 DEF Queues, SyncType
<1>5. ASSUME NEW k \in Locks PROVE QueueInv(k)' /\ (LockInv(k) => LockInv(k)')
  BY <1>1, <1>2, <1>3 DEF Queues, QueueInv, LockInv
<1> QED
  BY <1>4, <1>5 DEF Kept, Queues

(* The shell keeps the semaphores right too, cli_storage.c, cross.c; its   *)
(* restart of the others is RestartKeeps.                                  *)
LEMMA ShellKeeps ==
  ASSUME Queues,
         ShellStat \/ ShellWipe \/ (ShellStep /\ ~ShellRestarts) \/ CrossStep
  PROVE  Kept
<1> DEFINE t == "shell"
           Out == {"idle", "wipe", "cross", "lock", "restart", "cross_cc"}
<1> USE MicroSdAssumption
<1>1. /\ t \in Threads /\ t \notin Readers /\ t \notin PortUsers
      /\ \A l \in Locks : l \in {"storage", "cc_out", "dm_out"}
      /\ {"storage", "cc_out", "dm_out"} \subseteq Locks
      /\ Out \cup {"stat", "erase", "cross_dm", "crossed"} \subseteq Places
  BY DEF Threads, Locks, Places
<1>2. ASSUME NEW p \in Out, NEW q \in Out, Step(t, p, q), UNCHANGED sync
      PROVE  Kept
  <2>1. \A k \in Locks : InLock(t, k)' = InLock(t, k)
    BY <1>1, <1>2, StepPlaces DEF InLock, WaitsAt
  <2> QED
    BY <1>1, <1>2, <2>1, StepPlaces, PlainStep
<1>3. ASSUME NEW p, NEW q \in Places, NEW l \in Locks, Step(t, p, q), SemWait(l, t),
             \/ l = "storage" /\ p \in {"idle", "lock"} /\ q \in {"stat", "erase"}
             \/ l = "cc_out" /\ p = "cross_cc" /\ q = "cross_dm"
             \/ l = "dm_out" /\ p = "cross_dm" /\ q = "crossed"
      PROVE  Kept
  <2>1. ~InLock(t, l) /\ WaitsAt(t, l)'
    BY <1>1, <1>3, StepPlaces DEF InLock, WaitsAt
  <2>2. \A k \in Locks \ {l} : InLock(t, k)' = InLock(t, k)
    BY <1>1, <1>3, StepPlaces DEF InLock, WaitsAt
  <2> QED
    BY <1>1, <1>3, <2>1, <2>2, StepPlaces, WaitStep
<1>4. ASSUME NEW p \in {"stat", "erase"}, NEW q \in Out, Step(t, p, q), SemSignal("storage")
      PROVE  Kept
  <2>1. InLock(t, "storage") /\ ~InLock(t, "storage")'
    BY <1>1, <1>4, StepPlaces DEF InLock, WaitsAt
  <2>2. \A k \in Locks \ {"storage"} : InLock(t, k)' = InLock(t, k)
    BY <1>1, <1>4, StepPlaces DEF InLock, WaitsAt
  <2> QED
    BY <1>1, <1>4, <2>1, <2>2, StepPlaces, SignalStep
<1>5. ASSUME UNCHANGED <<pc, sync>> PROVE Kept
  BY <1>5, SamePlaces DEF Queues, SyncType, InLock, WaitsAt, Port
<1>6. CASE ShellWipe \/ ShellCross
  BY <1>2, <1>6 DEF ShellWipe, ShellCross
<1>7. ASSUME NEW command \in {"wipe", "cross"}, ShellTerminates(command) \/ ShellJoins(command)
      PROVE  Kept
  <2>1. CASE UNCHANGED pc
    BY <1>5, <1>7, <2>1 DEF ShellTerminates, ShellJoins
  <2>2. CASE At(t, command) /\ Goto(t, IF command = "wipe" THEN "lock" ELSE "cross_cc") /\ UNCHANGED sync
    BY <1>2, <2>2 DEF Step
  <2> QED
    BY <1>7, <2>1, <2>2 DEF ShellTerminates, ShellJoins
<1>8. CASE ShellStat \/ ShellLocksLog \/ CrossLocksCc \/ CrossLocksDm
  BY <1>1, <1>3, <1>8 DEF ShellStat, ShellLocksLog, CrossLocksCc, CrossLocksDm
<1>9. CASE ShellStatDone \/ ShellErases
  BY <1>4, <1>9 DEF ShellStatDone, ShellErases
<1> QED
  BY <1>6, <1>7, <1>8, <1>9 DEF ShellStep, CrossStep

-----------------------------------------------------------------------------
(* Where threads can be.  The shell erases the card and starts the threads *)
(* again only when all of them have ended.                                 *)
PlaceInv ==
  /\ victim \in 1 .. 3
  /\ pc["shell"] \in {"idle", "stat", "wipe", "lock", "erase", "restart",
                      "cross", "cross_cc", "cross_dm", "crossed"}
  /\ pc["shell"] \notin {"wipe", "cross"} => victim = 1
  /\ pc["shell"] = "wipe" =>
       \A i \in 1 .. victim - 1 :
         Victims("wipe")[i] \in Threads => pc[Victims("wipe")[i]] = "dead"
  /\ pc["shell"] \in {"lock", "erase", "restart"} =>
       \A t \in Readers \cup {"writer"} : pc[t] = "dead"
  /\ \A u \in PortUsers : pc[u] \in {"idle", "write", "dead"}

(* A step of another thread: it has not ended yet.                         *)
LEMMA OthersKeepPlaces ==
  ASSUME SyncType, PlaceInv, NEW t \in Threads \ {"shell"}, NEW p, NEW q, p # "dead",
         Step(t, p, q), victim' = victim,
         t \in PortUsers => q \in {"idle", "write", "dead"}
  PROVE  PlaceInv'
<1> USE MicroSdAssumption
<1>1. pc' = [pc EXCEPT ![t] = q] /\ pc[t] = p
  BY DEF Step, At, Goto
<1>2. "shell" \in Threads /\ pc'["shell"] = pc["shell"]
  BY <1>1 DEF SyncType, Threads
<1>3. \A u \in Threads : pc[u] = "dead" => pc'[u] = "dead"
  BY <1>1 DEF SyncType
<1>4. Readers \cup {"writer"} \subseteq Threads /\ PortUsers \subseteq Threads
  BY DEF Threads
<1>5. \A u \in PortUsers : pc'[u] \in {"idle", "write", "dead"}
  BY <1>1, <1>4 DEF PlaceInv, SyncType
<1> QED
  BY <1>2, <1>3, <1>4, <1>5 DEF PlaceInv

(* Every step keeps the places: the shell waits for each thread it         *)
(* terminates before it goes on (cli_storage.c).                           *)
LEMMA PlaceStep ==
  ASSUME SyncType, PlaceInv, [Next]_vars
  PROVE  PlaceInv'
<1> USE MicroSdAssumption
<1>1. /\ "writer" \in Threads \ {"shell"} /\ "shell" \in Threads
      /\ \A r \in Readers : r \in Threads \ {"shell"} /\ r \notin PortUsers
      /\ \A u \in PortUsers : u \in Threads \ {"shell"}
      /\ "writer" \notin PortUsers /\ "shell" \notin PortUsers
      /\ "shell" \notin Readers \cup {"writer"}
  BY DEF Threads
<1>2. CASE WriterStep \/ WriterInitsStorage \/ ConnectFails
  <2>1. PICK p, q : p # "dead" /\ Step("writer", p, q) /\ victim' = victim
    BY <1>2 DEF WriterStep, WriterInitsStorage, ConnectFails, WriterSeesCard, WriterCardBounced,
       Connect, Mount, WriterMissesCard, WriterTakesLog, RecordRefused, RecordFill, RecordStore, cli
  <2> QED
    BY <1>1, <2>1, OthersKeepPlaces
<1>3. ASSUME NEW r \in Readers, Request(r) \/ ReaderStep(r) PROVE PlaceInv'
  <2>1. PICK p, q : p # "dead" /\ Step(r, p, q) /\ victim' = victim
    BY <1>3 DEF Request, ReaderStep, CountRequest, DownloadRequest, CountAnswer, NextRecord,
       DownloadDone, GetRecord, TakePort, WriteMessage, RecordSent, Exits, cli
  <2> QED
    BY <1>1, <2>1, OthersKeepPlaces
<1>4. ASSUME NEW u \in PortUsers, UserStep(u) PROVE PlaceInv'
  <2>1. PICK p, q : p # "dead" /\ q \in {"idle", "write", "dead"} /\ Step(u, p, q) /\ victim' = victim
    BY <1>4, LoopTops DEF UserStep, UserTakesPort, UserGivesPort, Exits, cli
  <2> QED
    BY <1>1, <2>1, OthersKeepPlaces
<1>5. ASSUME NEW p, NEW q, Step("shell", p, q),
             victim' = victim, p \notin {"wipe", "cross"},
             \/ q \in {"idle", "stat", "cross", "wipe", "cross_dm", "crossed"}
             \/ p \in {"lock", "erase"} /\ q \in {"erase", "restart"}
      PROVE  PlaceInv'
  <2>1. pc' = [pc EXCEPT !["shell"] = q] /\ pc["shell"] = p /\ pc'["shell"] = q
    BY <1>1, <1>5 DEF Step, At, Goto, SyncType
  <2>2. \A u \in Threads \ {"shell"} : pc'[u] = pc[u]
    BY <2>1 DEF SyncType
  <2>3. victim = 1 /\ victim' = 1
    BY <1>5, <2>1 DEF PlaceInv
  <2>4. \A u \in PortUsers : pc'[u] \in {"idle", "write", "dead"}
    BY <1>1, <2>2 DEF PlaceInv
  <2>5. pc'["shell"] \in {"lock", "erase", "restart"} => \A t \in Readers \cup {"writer"} : pc'[t] = "dead"
    BY <1>1, <1>5, <2>1, <2>2 DEF PlaceInv
  <2> QED
    BY <1>5, <2>1, <2>3, <2>4, <2>5 DEF PlaceInv
<1>6. CASE ShellStat \/ ShellStatDone \/ ShellWipe \/ ShellLocksLog \/ ShellErases \/ CrossStep
  BY <1>5, <1>6 DEF ShellStat, ShellStatDone, ShellWipe, ShellLocksLog, ShellErases, CrossStep,
     ShellCross, CrossLocksCc, CrossLocksDm, cli
<1>7. ASSUME NEW command \in {"wipe", "cross"}, ShellTerminates(command) PROVE PlaceInv'
  BY <1>7 DEF ShellTerminates, PlaceInv
<1>8. ASSUME NEW command \in {"wipe", "cross"}, ShellJoins(command) PROVE PlaceInv'
  <2> DEFINE t == Victims(command)[victim]
  <2>1. pc["shell"] = command /\ (t \in Threads => pc[t] = "dead") /\ victim \in 1 .. 3
    BY <1>8 DEF ShellJoins, At, PlaceInv
  <2>2. CASE victim < 3
    <3>1. victim' = victim + 1 /\ pc' = pc
      BY <1>8, <2>2 DEF ShellJoins
    <3>2. \A i \in 1 .. victim' - 1 : i \in 1 .. victim - 1 \/ i = victim
      BY <2>1, <3>1
    <3>3. pc["shell"] = "wipe" =>
            \A i \in 1 .. victim' - 1 : Victims("wipe")[i] \in Threads => pc[Victims("wipe")[i]] = "dead"
      BY <2>1, <3>2 DEF PlaceInv
    <3>4. victim' \in 1 .. 3
      BY <2>1, <2>2, <3>1
    <3> QED
      BY <2>1, <3>1, <3>3, <3>4 DEF PlaceInv, Victims
  <2>3. CASE ~(victim < 3)
    <3>1. /\ victim = 3 /\ victim' = 1
          /\ pc' = [pc EXCEPT !["shell"] = IF command = "wipe" THEN "lock" ELSE "cross_cc"]
      BY <1>8, <2>1, <2>3 DEF ShellJoins, Goto
    <3>2. \A u \in Threads \ {"shell"} : pc'[u] = pc[u]
      BY <3>1 DEF SyncType
    <3>3. ASSUME command = "wipe" PROVE \A u \in Readers \cup {"writer"} : pc[u] = "dead"
      <4>1. \A i \in 1 .. 2 : Victims("wipe")[i] \in Threads => pc[Victims("wipe")[i]] = "dead"
        BY <2>1, <3>1, <3>3 DEF PlaceInv
      <4>2. Victims("wipe")[1] = "writer" /\ Victims("wipe")[2] = "cc" /\ Victims("wipe")[3] = "dm"
        BY DEF Victims
      <4> QED
        BY <1>1, <2>1, <3>1, <3>3, <4>1, <4>2
    <3>4. pc'["shell"] = IF command = "wipe" THEN "lock" ELSE "cross_cc"
      BY <1>1, <3>1 DEF SyncType
    <3>5. \A u \in PortUsers : pc'[u] \in {"idle", "write", "dead"}
      BY <1>1, <3>2 DEF PlaceInv
    <3> QED
      BY <1>1, <3>1, <3>2, <3>3, <3>4, <3>5 DEF PlaceInv
  <2> QED
    BY <2>2, <2>3
<1>9. CASE ShellRestarts
  <2>1. /\ pc["shell"] = "restart" /\ pc'["shell"] = "idle" /\ victim' = victim
        /\ \A u \in PortUsers : pc'[u] = pc[u]
    BY <1>1, <1>9 DEF ShellRestarts, At
  <2> QED
    BY <2>1 DEF PlaceInv
<1>10. CASE CardInserted \/ CardRemoved \/ UNCHANGED vars
  BY <1>10 DEF CardInserted, CardRemoved, vars, cli, PlaceInv
<1> QED
  BY <1>2, <1>3, <1>4, <1>6, <1>7, <1>8, <1>9, <1>10 DEF Next, ShellStep

-----------------------------------------------------------------------------
(* "storage wipe" starts threads that have ended: they held nothing.       *)
LEMMA RestartKeeps ==
  ASSUME Queues, PlaceInv, ShellRestarts
  PROVE  Kept
<1> USE MicroSdAssumption
<1>1. UNCHANGED sync /\ pc["shell"] = "restart" /\ "shell" \in Threads /\ {"absent", "idle"} \subseteq Places
  BY DEF ShellRestarts, At, Threads, Places
<1>2. \A t \in Threads :
        \/ t \in Readers \cup {"writer", "shell"} /\ pc[t] \in {"dead", "restart"} /\ pc'[t] \in {"absent", "idle"}
        \/ pc'[t] = pc[t]
  BY <1>1 DEF ShellRestarts, PlaceInv
<1>3. pc' \in [Threads -> Places]
  BY <1>1 DEF ShellRestarts, Queues, SyncType
<1>4. \A t \in Threads, k \in Locks : WaitsAt(t, k)' = WaitsAt(t, k) /\ InLock(t, k)' = InLock(t, k)
  BY <1>2 DEF WaitsAt, InLock, Port
<1> QED
  BY <1>1, <1>3, <1>4, SamePlaces

(* The log is initialised: who waited for it is forgotten.  The ports do   *)
(* not suffer, and neither does the log if nobody uses it.                 *)
LEMMA InitStorageKeeps ==
  ASSUME Queues, PlaceInv, WriterInitsStorage
  PROVE  /\ Queues'
         /\ \A k \in Locks \ {"storage"} : LockInv(k) => LockInv(k)'
         /\ NoReader => LockInv("storage")'
<1> USE MicroSdAssumption
<1>1. /\ "writer" \in Threads /\ "writer" \notin Readers /\ "writer" \notin PortUsers
      /\ "storage" \in Locks /\ {"settle", "connect"} \subseteq Places
  BY DEF Threads, Locks, Places
<1>2. /\ pc' = [pc EXCEPT !["writer"] = "connect"] /\ pc["writer"] = "settle" /\ pc'["writer"] = "connect"
      /\ "writer" \notin blocked /\ SemInit("storage")
  BY <1>1, StepPlaces DEF WriterInitsStorage
<1>3. /\ free' = [free EXCEPT !["storage"] = 1] /\ queue' = [queue EXCEPT !["storage"] = <<>>]
      /\ blocked' = blocked
  BY <1>2 DEF SemInit
<1>4. SyncType'
  BY <1>1, <1>2, <1>3 DEF Queues, SyncType
<1>5. QueueInv("storage")'
  BY <1>1, <1>3 DEF Queues, SyncType, QueueInv, Queued
<1>6. ASSUME NEW k \in Locks \ {"storage"} PROVE QueueInv(k)' /\ (LockInv(k) => LockInv(k)')
  <2>1. queue'[k] = queue[k] /\ free'[k] = free[k]
    BY <1>3 DEF Queues, SyncType
  <2>2. InLock("writer", k)' = InLock("writer", k)
    BY <1>1, <1>2, <1>6 DEF InLock, WaitsAt, Port, Locks
  <2> QED
    BY <1>1, <1>2, <1>3, <2>1, <2>2, MoveKeeps DEF Queues
<1>7. ASSUME NoReader PROVE LockInv("storage")'
  <2>1. ASSUME NEW t \in Threads PROVE ~InLock(t, "storage")'
    <3>1. CASE t = "writer"
      BY <1>1, <1>2, <3>1 DEF InLock, WaitsAt, Port
    <3>2. CASE t = "shell"
      <4>1. pc'[t] = pc[t] /\ pc[t] \in {"idle", "wipe", "cross", "cross_cc", "cross_dm", "crossed"}
        BY <1>2, <1>7, <3>2 DEF PlaceInv, NoReader, Queues, SyncType
      <4> QED
        BY <3>2, <4>1 DEF InLock, WaitsAt, Port
    <3>3. CASE t \in Readers
      <4>1. pc'[t] = pc[t] /\ pc[t] \in {"idle", "dead"}
        BY <1>2, <1>7, <3>3 DEF NoReader, Queues, SyncType
      <4> QED
        BY <3>3, <4>1 DEF InLock, WaitsAt, Port
    <3>4. CASE t \in PortUsers
      <4>1. pc'[t] = pc[t] /\ pc[t] \in {"idle", "write", "dead"} /\ t \notin Readers
        BY <1>2, <3>4 DEF PlaceInv, Queues, SyncType
      <4> QED
        BY <3>4, <4>1 DEF InLock, WaitsAt, Port
    <3> QED
      BY <3>1, <3>2, <3>3, <3>4 DEF Threads
  <2>2. free'["storage"] = 1
    BY <1>1, <1>3 DEF Queues, SyncType
  <2> QED
    BY <2>1, <2>2 DEF LockInv, Holder, InLock
<1> QED
  BY <1>4, <1>5, <1>6, <1>7 DEF Queues

(* All steps but the initialisation of the log.                            *)
OtherNext ==
  \/ WriterStep \/ ConnectFails
  \/ \E r \in Readers : Request(r) \/ ReaderStep(r)
  \/ \E u \in PortUsers : UserStep(u)
  \/ ShellStat \/ ShellWipe \/ ShellStep \/ CrossStep
  \/ CardInserted \/ CardRemoved

LEMMA NextKeeps ==
  ASSUME Queues, PlaceInv, [OtherNext]_vars
  PROVE  Kept
<1>1. CASE WriterStep \/ ConnectFails
  BY <1>1, WriterKeeps
<1>2. CASE \E r \in Readers : Request(r) \/ ReaderStep(r)
  BY <1>2, ReaderKeeps
<1>3. CASE \E u \in PortUsers : UserStep(u)
  BY <1>3, UserKeeps
<1>4. CASE ShellRestarts
  BY <1>4, RestartKeeps
<1>5. CASE ShellStat \/ ShellWipe \/ (ShellStep /\ ~ShellRestarts) \/ CrossStep
  BY <1>5, ShellKeeps
<1>6. CASE CardInserted \/ CardRemoved \/ UNCHANGED vars
  BY <1>6, SamePlaces DEF CardInserted, CardRemoved, vars, Queues, SyncType, InLock, WaitsAt, Port
<1> QED
  BY <1>1, <1>2, <1>3, <1>4, <1>5, <1>6 DEF OtherNext

PortInv == Queues /\ PlaceInv /\ \A k \in Locks \ {"storage"} : LockInv(k)

(* At the start nobody is inside, and the log cannot be locked yet.        *)
LEMMA PortInit == Init => PortInv /\ LockInv("storage")
<1> SUFFICES ASSUME Init PROVE PortInv /\ LockInv("storage")
  OBVIOUS
<1> USE MicroSdAssumption
<1>1. /\ \A t \in Threads : pc[t] \in {"idle", "absent"} /\ (pc[t] = "absent" => t = "writer")
      /\ {"idle", "absent"} \subseteq Places
      /\ \A k \in Locks : queue[k] = <<>> /\ free[k] \in {0, 1}
      /\ blocked = {} /\ "shell" \in Threads /\ PortUsers \subseteq Threads
  BY DEF Init, Places, Threads
<1>2. SyncType
  BY <1>1 DEF Init, SyncType
<1>3. \A t \in Threads, k \in Locks : ~InLock(t, k) /\ ~Queued(t, k)
  BY <1>1 DEF InLock, WaitsAt, Port, Queued
<1>4. \A k \in Locks : QueueInv(k) /\ LockInv(k)
  BY <1>1, <1>3 DEF QueueInv, LockInv, Holder
<1>5. PlaceInv
  BY <1>1 DEF PlaceInv, Init
<1> QED
  BY <1>2, <1>4, <1>5 DEF PortInv, Queues, Locks

(* Every step keeps the ports right, the initialisation of the log too.    *)
LEMMA PortStep == PortInv /\ [Next]_vars => PortInv'
<1> SUFFICES ASSUME PortInv, [Next]_vars PROVE PortInv'
  OBVIOUS
<1>1. PlaceInv'
  BY PlaceStep DEF PortInv, Queues
<1>2. CASE WriterInitsStorage
  BY <1>1, <1>2, InitStorageKeeps DEF PortInv
<1>3. CASE [OtherNext]_vars
  BY <1>1, <1>3, NextKeeps DEF PortInv, Kept
<1> QED
  BY <1>2, <1>3 DEF Next, OtherNext

(* Who writes to a port holds its semaphore, as one thread at most does.   *)
LEMMA PortHolders == PortInv => PortExclusive
<1> SUFFICES ASSUME PortInv, NEW t \in Threads, NEW u \in Threads, NEW l \in Locks \ {"storage"},
                    Holds(t, l), Holds(u, l)
             PROVE  t = u
  BY DEF PortExclusive
<1>1. ASSUME NEW v \in Threads, Holds(v, l) PROVE Holder(v, l)
  BY <1>1, MicroSdAssumption DEF Holds, Holder, InLock, WaitsAt, Port
<1> QED
  BY <1>1 DEF PortInv, LockInv

(* One thread at a time writes to a port, even when the semaphore of the   *)
(* log is initialised while others hold it or wait for it.                 *)
THEOREM PortCorrect == Spec => []PortExclusive
BY PortHolders, PortInit, PortStep, PTL DEF Spec

LogLocked == PortInv /\ LockInv("storage")

(* Who uses the buffer holds the semaphore of the log.                     *)
LEMMA BufHolders == LogLocked => OneUserEach
<1>1. LockInv("storage") => BufExclusive
  <2> SUFFICES ASSUME LockInv("storage"), NEW t \in Threads, NEW u \in Threads, UsesBuf(t), UsesBuf(u)
               PROVE  t = u
    BY DEF BufExclusive
  <2>1. ASSUME NEW v \in Threads, UsesBuf(v) PROVE Holder(v, "storage")
    BY <2>1, MicroSdAssumption DEF UsesBuf, Holder, InLock, WaitsAt, Port
  <2> QED
    BY <2>1 DEF LockInv
<1> QED
  BY <1>1, PortHolders DEF OneUserEach, LogLocked

(* While the log is initialised by nobody but an idle board its semaphore  *)
(* stays right.                                                            *)
LEMMA LogLockedStep == LogLocked /\ [QuietNext]_vars => LogLocked'
<1> SUFFICES ASSUME PortInv, LockInv("storage"), [QuietNext]_vars
             PROVE  PortInv' /\ LockInv("storage")'
  BY DEF LogLocked
<1>1. [Next]_vars
  BY DEF QuietNext, Next
<1>2. PortInv'
  BY <1>1, PortStep
<1>3. CASE NoReader /\ WriterInitsStorage
  <2>1. LockInv("storage")'
    BY <1>3, InitStorageKeeps DEF PortInv
  <2> QED
    BY <1>2, <2>1
<1>4. CASE [OtherNext]_vars
  <2>1. Kept
    BY <1>4, NextKeeps DEF PortInv
  <2>2. LockInv("storage")'
    BY <2>1 DEF Kept, Locks
  <2> QED
    BY <1>2, <2>2
<1> QED
  BY <1>3, <1>4 DEF QuietNext, OtherNext

(* While the rules of QuietNext are kept, one thread at a time writes to a *)
(* port and one uses the buffer of the log (storage.h:53).                 *)
THEOREM BufCorrect == QuietSpec => []OneUserEach
<1>1. Init => LogLocked
  BY PortInit DEF LogLocked
<1> QED
  BY <1>1, LogLockedStep, BufHolders, PTL DEF QuietSpec

-----------------------------------------------------------------------------
(* Downloads.  Where the writer and the readers are; no check has failed,  *)
(* ...                                                                     *)
WhereInv ==
  /\ pc["writer"] \in {"absent", "settle", "connect", "mount", "work", "record", "store", "dead"}
  /\ \A r \in Readers : pc[r] \in {"idle", "dead", "count", "next", "read", "send", "write"}
  /\ ~panic

(* ... the card is in and connected while the log is used, ...             *)
Busy(r) == pc[r] \notin {"idle", "dead"}

SlotInv ==
  /\ active => inserted
  /\ pc["writer"] = "connect" => inserted
  /\ pc["writer"] \in {"mount", "record", "store"} => active
  /\ pc["writer"] = "work" /\ inserted => active
  /\ \A r \in Readers :
       Busy(r) => active /\ pc["writer"] \in {"work", "record", "store", "dead"}

(* ... no record is twice on the card, which is written from its first     *)
(* block on, ...                                                           *)
Filled(n) ==
  /\ \A b \in Blocks : card[b] # 0 <=> b < n
  /\ n \in 1 .. Capacity - 1 => \A b \in Blocks : card[b] <= card[n - 1]

CardInv ==
  /\ serial \in 0 .. MaxSerial /\ card \in [Blocks -> 0 .. serial] /\ buf \in 0 .. serial
  /\ \A b, c \in Blocks : card[b] = card[c] /\ card[b] # 0 => b = c
  /\ \E b \in Blocks : \A c \in Blocks : card[c] <= card[b]
  /\ \E n \in 0 .. Capacity : Filled(n)
  /\ pc["writer"] = "store" => buf = serial /\ \A b \in Blocks : card[b] < serial

(* ... tip and used say how far, from the mount on, until the last reader  *)
(* has ended, ...                                                          *)
Live == Mounted \/ \E r \in Readers : Busy(r)

RingInv ==
  /\ tip \in Blocks /\ used \in 0 .. Capacity
  /\ Live => Filled(used) /\ (used < Capacity => tip = used)

(* ... and what a download has sent is under no number it has yet to read, *)
(* nor will it be.                                                         *)
DownInv(r) ==
  /\ pc[r] \in {"idle", "dead", "count"} => sent[r] = {}
  /\ pc[r] \in {"next", "read", "send", "write"} =>
       /\ curr[r] \in Nat /\ last[r] \in Nat /\ last[r] < used
       /\ \A x \in sent[r] :
            /\ x \in 0 .. serial /\ (pc["writer"] = "store" => x < serial)
            /\ \A k \in curr[r] .. used - 1 : card[Rec2Block(k)] # x
  /\ pc[r] \in {"read", "send", "write"} => curr[r] < last[r]
  /\ pc[r] \in {"send", "write"} => buf = card[Rec2Block(curr[r])]

JobType ==
  /\ curr \in [Readers -> 0 .. MaxRec + Capacity] /\ last \in [Readers -> 0 .. Capacity]
  /\ left \in [Readers -> 0 .. Messages]
  /\ sent \in [Readers -> SUBSET Nat]
  /\ \A r \in Readers : pc[r] = "write" => left[r] > 0

LogInv == CardInv /\ RingInv /\ \A r \in Readers : DownInv(r)

SdInv == WhereInv /\ SlotInv /\ LogInv /\ JobType

-----------------------------------------------------------------------------
(* Blocks and record numbers.                                              *)
LEMMA Wrapped ==
  ASSUME NEW a \in Blocks, NEW k \in Blocks
  PROVE  (a + k) % Capacity = IF a + k < Capacity THEN a + k ELSE a + k - Capacity
<1> USE MicroSdAssumption DEF Blocks
<1>1. CASE a + k < Capacity
  BY <1>1
<1>2. CASE ~(a + k < Capacity)
  <2>1. a + k = (a + k - Capacity) + Capacity /\ a + k - Capacity \in 0 .. Capacity - 1
    BY <1>2
  <2> QED
    BY <1>2, <2>1
<1> QED
  BY <1>1, <1>2

(* Each number is that of a block of its own.                              *)
LEMMA NumbersOfBlocks ==
  ASSUME tip \in Blocks, used \in 0 .. Capacity
  PROVE  /\ \A k \in 0 .. used - 1 : Rec2Block(k) \in Blocks
         /\ \A j, k \in 0 .. used - 1 : Rec2Block(j) = Rec2Block(k) => j = k
<1> USE MicroSdAssumption
<1>1. CASE used < Capacity
  BY <1>1 DEF Rec2Block, Blocks
<1>2. CASE used = Capacity
  <2>1. \A k \in 0 .. used - 1 :
          /\ k \in Blocks
          /\ Rec2Block(k) = IF tip + k < Capacity THEN tip + k ELSE tip + k - Capacity
    BY <1>2, Wrapped DEF Rec2Block, Blocks
  <2> QED
    BY <1>2, <2>1 DEF Blocks
<1> QED
  BY <1>1, <1>2

(* After a record each number is that of the block it was, or of the next. *)
LEMMA NumbersMove ==
  ASSUME tip \in Blocks, used \in 0 .. Capacity, used < Capacity => tip = used,
         tip' = (tip + 1) % Capacity,
         used' = IF used + 1 >= Capacity THEN Capacity ELSE used + 1,
         NEW k \in 0 .. used' - 1
  PROVE  \/ Rec2Block(k)' = tip
         \/ /\ Rec2Block(k)' # tip
            /\ \/ k \in 0 .. used - 1 /\ Rec2Block(k)' = Rec2Block(k)
               \/ k + 1 \in 0 .. used - 1 /\ Rec2Block(k)' = Rec2Block(k + 1)
<1> USE MicroSdAssumption
<1>1. tip' = IF tip + 1 < Capacity THEN tip + 1 ELSE 0
  <2>1. 1 \in Blocks
    BY DEF Blocks
  <2>2. (tip + 1) % Capacity = IF tip + 1 < Capacity THEN tip + 1 ELSE tip + 1 - Capacity
    BY <2>1, Wrapped
  <2> QED
    BY <2>2 DEF Blocks
<1>2. CASE used + 1 < Capacity
  <2>1. used' = used + 1 /\ Rec2Block(k)' = k /\ (k < used => Rec2Block(k) = k)
    BY <1>2 DEF Rec2Block
  <2> QED
    BY <1>2, <2>1
<1>3. CASE used + 1 = Capacity
  <2>1. used' = Capacity /\ tip' = 0 /\ k \in Blocks /\ 0 \in Blocks
    BY <1>1, <1>3 DEF Blocks
  <2>2. (0 + k) % Capacity = k
    <3>1. (0 + k) % Capacity = IF 0 + k < Capacity THEN 0 + k ELSE 0 + k - Capacity
      BY <2>1, Wrapped
    <3> QED
      BY <2>1, <3>1 DEF Blocks
  <2>3. Rec2Block(k)' = (tip' + k) % Capacity
    BY <2>1 DEF Rec2Block
  <2>4. Rec2Block(k)' = k /\ (k < used => Rec2Block(k) = k)
    BY <1>3, <2>1, <2>2, <2>3 DEF Rec2Block
  <2> QED
    BY <1>3, <2>1, <2>4
<1>4. CASE used = Capacity
  <2>1. used' = Capacity /\ k \in Blocks /\ tip' \in Blocks
    BY <1>1, <1>4 DEF Blocks
  <2>2. Rec2Block(k)' = (tip' + k) % Capacity
    BY <2>1 DEF Rec2Block
  <2>3. (tip' + k) % Capacity = IF tip' + k < Capacity THEN tip' + k ELSE tip' + k - Capacity
    BY <2>1, Wrapped
  <2>4. CASE k < Capacity - 1
    <3>1. k + 1 \in Blocks
      BY <2>1, <2>4 DEF Blocks
    <3>2. Rec2Block(k + 1) = IF tip + (k + 1) < Capacity THEN tip + (k + 1) ELSE tip + (k + 1) - Capacity
      BY <1>4, <3>1, Wrapped DEF Rec2Block
    <3>3. Rec2Block(k)' = Rec2Block(k + 1)
      BY <1>1, <2>1, <2>2, <2>3, <2>4, <3>2 DEF Blocks
    <3>4. Rec2Block(k + 1) # tip
      BY <2>1, <2>4, <3>2 DEF Blocks
    <3> QED
      BY <1>4, <2>1, <2>4, <3>3, <3>4 DEF Blocks
  <2>5. CASE k = Capacity - 1
    BY <1>1, <2>1, <2>2, <2>3, <2>5 DEF Blocks
  <2> QED
    BY <2>1, <2>4, <2>5 DEF Blocks
<1> QED
  BY <1>2, <1>3, <1>4

-----------------------------------------------------------------------------
(* Steps.                                                                  *)
LEMMA ThreadNames ==
  /\ "writer" \in Threads /\ "shell" \in Threads /\ "writer" # "shell"
  /\ "writer" \notin Readers /\ "shell" \notin Readers /\ Readers \subseteq Threads
  /\ PortUsers \subseteq Threads /\ PortUsers \cap Readers = {}
  /\ "writer" \notin PortUsers /\ "shell" \notin PortUsers
BY MicroSdAssumption DEF Threads

LEMMA StepMoves ==
  ASSUME SyncType, NEW t \in Threads, NEW p, NEW q, Step(t, p, q)
  PROVE  /\ pc[t] = p /\ pc'[t] = q /\ t \notin blocked /\ ~panic
         /\ \A u \in Threads \ {t} : pc'[u] = pc[u]
BY DEF Step, At, Goto, SyncType

(* A step that leaves the log, the buffer and what was sent alone.         *)
LEMMA LogStays ==
  ASSUME LogInv, UNCHANGED <<card, tip, used, serial, buf, curr, last, sent>>,
         pc'["writer"] = "store" => pc["writer"] = "store",
         Live' => Live,
         \A r \in Readers :
           \/ pc'[r] = pc[r]
           \/ {pc[r], pc'[r]} \subseteq {"idle", "dead", "count"}
           \/ pc[r] = "next" /\ pc'[r] = "read" /\ curr[r] < last[r]
           \/ {pc[r], pc'[r]} \subseteq {"send", "write"}
  PROVE  LogInv'
<1>1. CardInv'
  <2>1. \A n : Filled(n)' <=> Filled(n)
    BY DEF Filled
  <2> QED
    BY <2>1 DEF LogInv, CardInv
<1>2. RingInv'
  BY DEF LogInv, RingInv, Filled
<1>3. ASSUME NEW r \in Readers PROVE DownInv(r)'
  <2>1. \A k : Rec2Block(k)' = Rec2Block(k)
    BY DEF Rec2Block
  <2>2. DownInv(r)
    BY DEF LogInv
  <2>3. /\ sent'[r] = sent[r] /\ curr'[r] = curr[r] /\ last'[r] = last[r]
        /\ used' = used /\ card' = card /\ serial' = serial /\ buf' = buf
    OBVIOUS
  <2>4. CASE pc'[r] = pc[r]
    BY <2>1, <2>2, <2>3, <2>4 DEF DownInv
  <2>5. CASE {pc[r], pc'[r]} \subseteq {"idle", "dead", "count"}
    BY <2>2, <2>3, <2>5 DEF DownInv
  <2>6. CASE pc[r] = "next" /\ pc'[r] = "read" /\ curr[r] < last[r]
    BY <2>1, <2>2, <2>3, <2>6 DEF DownInv
  <2>7. CASE {pc[r], pc'[r]} \subseteq {"send", "write"}
    BY <2>1, <2>2, <2>3, <2>7 DEF DownInv
  <2> QED
    BY <2>4, <2>5, <2>6, <2>7
<1> QED
  BY <1>1, <1>2, <1>3 DEF LogInv

(* The writer goes to where the log is not, or stays in its main loop.     *)
LEMMA WriterMoves ==
  ASSUME SdInv, SyncType, NEW p, NEW q, Step("writer", p, q),
         q \in {"absent", "settle", "connect", "mount", "work", "record", "dead"},
         q \in {"work", "record"} => p \in {"work", "record", "store"},
         UNCHANGED <<log, buf, job, panic>>
  PROVE  WhereInv' /\ LogInv' /\ JobType'
<1>1. /\ pc["writer"] = p /\ pc'["writer"] = q
      /\ \A r \in Readers : pc'[r] = pc[r]
  BY ThreadNames, StepMoves
<1>2. WhereInv'
  BY <1>1, Zenon DEF SdInv, WhereInv
<1>3. Live' => Live
  BY <1>1 DEF Live, Mounted, Busy
<1>4. LogInv'
  BY <1>1, <1>3, LogStays DEF SdInv, log, job
<1>5. JobType'
  BY <1>1 DEF SdInv, JobType, job
<1> QED
  BY <1>2, <1>4, <1>5

(* The card is in while the writer uses it (microsd.c:141-173).            *)
LEMMA WriterSlot ==
  ASSUME SdInv, SyncType, WriterStep \/ (NoReader /\ WriterInitsStorage)
  PROVE  SlotInv'
<1> DEFINE Set(p, q) == /\ pc["writer"] = p /\ pc'["writer"] = q
                        /\ \A r \in Readers : pc'[r] = pc[r]
<1>0. \A p, q : Step("writer", p, q) => Set(p, q)
  BY ThreadNames, StepMoves
<1>1. \A r \in Readers : Busy(r) => pc["writer"] \in {"work", "record", "store", "dead"} /\ active
  BY DEF SdInv, SlotInv
<1>2. CASE WriterSeesCard
  <2>1. Set("absent", "settle") /\ UNCHANGED slot
    BY <1>0, <1>2 DEF WriterSeesCard
  <2> QED
    BY <1>1, <2>1 DEF SdInv, SlotInv, slot, Busy
<1>3. CASE WriterCardBounced
  <2>1. Set("settle", "absent") /\ UNCHANGED slot
    BY <1>0, <1>3 DEF WriterCardBounced
  <2> QED
    BY <1>1, <2>1 DEF SdInv, SlotInv, slot, Busy
<1>4. CASE WriterMissesCard
  <2>1. Set("work", "absent") /\ UNCHANGED slot /\ ~inserted
    BY <1>0, <1>4 DEF WriterMissesCard
  <2> QED
    BY <1>1, <2>1 DEF SdInv, SlotInv, slot, Busy
<1>5. CASE WriterInitsStorage
  <2>1. Set("settle", "connect") /\ inserted /\ inserted' = inserted /\ active' = FALSE
    BY <1>0, <1>5 DEF WriterInitsStorage
  <2> QED
    BY <1>1, <2>1 DEF SdInv, SlotInv, Busy
<1>6. CASE Connect
  <2>1. Set("connect", "mount") /\ inserted /\ inserted' = inserted /\ active' = TRUE
    BY <1>0, <1>6 DEF Connect
  <2> QED
    BY <1>1, <2>1 DEF SdInv, SlotInv, Busy
<1>7. CASE WriterTakesLog
  <2>1. Set("work", "record") /\ inserted /\ UNCHANGED slot
    BY <1>0, <1>7 DEF WriterTakesLog
  <2> QED
    BY <1>1, <2>1 DEF SdInv, SlotInv, slot, Busy
<1>8. CASE Mount \/ RecordRefused \/ RecordFill \/ RecordStore
  <2>1. PICK p \in {"mount", "record", "store"}, q \in {"work", "dead", "store"} :
          Step("writer", p, q)
    BY <1>8, LoopTops DEF Mount, RecordRefused, RecordFill, RecordStore
  <2>2. Set(p, q) /\ UNCHANGED slot
    BY <1>0, <1>8, <2>1 DEF Mount, RecordRefused, RecordFill, RecordStore
  <2> QED
    BY <1>1, <2>1, <2>2 DEF SdInv, SlotInv, slot, Busy
<1> QED
  BY <1>2, <1>3, <1>4, <1>5, <1>6, <1>7, <1>8 DEF WriterStep

(* microsd.c:141-173, but for what it reads and writes of the card.        *)
LEMMA WriterGoes ==
  ASSUME SdInv, SyncType,
         \/ WriterSeesCard \/ WriterCardBounced \/ WriterMissesCard \/ WriterInitsStorage
         \/ Connect \/ WriterTakesLog \/ RecordRefused
  PROVE  WhereInv' /\ LogInv' /\ JobType'
<1>1. PICK p, q :
        /\ Step("writer", p, q)
        /\ q \in {"absent", "settle", "connect", "mount", "work", "record", "dead"}
        /\ q \in {"work", "record"} => p \in {"work", "record", "store"}
  BY LoopTops DEF WriterSeesCard, WriterCardBounced, WriterMissesCard, WriterInitsStorage,
     Connect, WriterTakesLog, RecordRefused
<1>2. UNCHANGED <<log, buf, job, panic>>
  BY DEF WriterSeesCard, WriterCardBounced, WriterMissesCard, WriterInitsStorage,
     Connect, WriterTakesLog, RecordRefused
<1> QED
  BY <1>1, <1>2, WriterMoves

(* The mount finds how far the card is written (storage.c:310-335).        *)
LEMMA MountGoes ==
  ASSUME SdInv, SyncType, Mount
  PROVE  WhereInv' /\ LogInv' /\ JobType'
<1> USE MicroSdAssumption
<1> DEFINE newest == CHOOSE b \in Blocks : \A c \in Blocks : card[c] <= card[b]
           isFull == \A b \in Blocks : card[b] # 0
<1>1. /\ pc["writer"] = "mount" /\ pc'["writer"] \in {"work", "dead"}
      /\ \A r \in Readers : pc'[r] = pc[r]
  BY LoopTops, ThreadNames, StepMoves DEF Mount
<1>2. active /\ (\A r \in Readers : ~Busy(r))
  BY <1>1 DEF SdInv, SlotInv
<1>3. /\ tip' = IF isFull /\ newest = Capacity - 1 THEN Capacity - 2
                ELSE IF card[newest] = 0 THEN 0 ELSE newest + 1
      /\ used' = IF isFull THEN Capacity ELSE tip'
      /\ buf' = 0 /\ UNCHANGED <<card, serial, job, panic>>
  BY <1>2 DEF Mount
<1>4. newest \in Blocks /\ \A c \in Blocks : card[c] <= card[newest]
  <2>1. \E b \in Blocks : \A c \in Blocks : card[c] <= card[b]
    BY DEF SdInv, LogInv, CardInv
  <2> QED
    BY <2>1
<1> HIDE DEF newest
<1>5. PICK n \in 0 .. Capacity : Filled(n)
  BY DEF SdInv, LogInv, CardInv
<1>6. /\ \A b \in Blocks : card[b] \in Nat
      /\ \A b, c \in Blocks : card[b] = card[c] /\ card[b] # 0 => b = c
  BY DEF SdInv, LogInv, CardInv
<1>7. isFull <=> n = Capacity
  BY <1>5 DEF Filled, Blocks
<1>8. used' = n /\ tip' \in Blocks /\ (n < Capacity => tip' = n)
  <2>1. CASE n = 0
    <3>1. card[newest] = 0
      BY <1>4, <1>5, <2>1 DEF Filled, Blocks
    <3> QED
      BY <1>3, <1>7, <2>1, <3>1 DEF Blocks
  <2>2. CASE n \in 1 .. Capacity - 1
    <3>1. n - 1 \in Blocks /\ card[n - 1] # 0 /\ card[newest] <= card[n - 1]
      BY <1>4, <1>5, <2>2 DEF Filled, Blocks
    <3>2. card[newest] = card[n - 1]
      BY <1>4, <1>6, <3>1
    <3>3. newest = n - 1
      BY <1>4, <1>6, <3>1, <3>2
    <3> HIDE DEF isFull
    <3> QED
      BY <1>3, <1>7, <2>2, <3>1, <3>2, <3>3 DEF Blocks
  <2>3. CASE n = Capacity
    <3>1. card[newest] # 0
      BY <1>4, <1>5, <2>3 DEF Filled, Blocks
    <3> HIDE DEF isFull
    <3> QED
      BY <1>3, <1>4, <1>7, <2>3, <3>1 DEF Blocks
  <2> QED
    BY <2>1, <2>2, <2>3
<1>9. \A m : Filled(m)' <=> Filled(m)
  BY <1>3 DEF Filled
<1>10. CardInv'
  BY <1>1, <1>3, <1>9 DEF SdInv, LogInv, CardInv
<1>11. RingInv'
  BY <1>5, <1>8, <1>9 DEF RingInv
<1>12. \A r \in Readers : DownInv(r)'
  BY <1>1, <1>2, <1>3 DEF SdInv, LogInv, DownInv, Busy, job
<1>13. WhereInv'
  BY <1>1, <1>3, Zenon DEF SdInv, WhereInv
<1>14. JobType'
  BY <1>1, <1>3 DEF SdInv, JobType, job
<1> QED
  BY <1>10, <1>11, <1>12, <1>13, <1>14 DEF LogInv


(* Who is inside the log is alone there.                                   *)
LEMMA InsideAlone ==
  ASSUME LockInv("storage"), NEW r \in Readers
  PROVE  /\ pc["writer"] = "store" \/ (pc["writer"] = "record" /\ "writer" \notin blocked) =>
              pc[r] \notin {"send", "write"} /\ (pc[r] = "read" => r \in blocked)
         /\ pc[r] \in {"send", "write"} \/ (pc[r] = "read" /\ r \notin blocked) =>
              \A u \in Readers \ {r} : pc[u] \notin {"send", "write"}
<1> DEFINE Alone(t) == Holder(t, "storage")
<1>1. \A t, u \in Threads : Alone(t) /\ Alone(u) => t = u
  BY DEF LockInv
<1>2. pc["writer"] = "store" \/ (pc["writer"] = "record" /\ "writer" \notin blocked) => Alone("writer")
  BY MicroSdAssumption DEF Holder, InLock, WaitsAt, Port
<1>3. \A u \in Readers :
        pc[u] \in {"send", "write"} \/ (pc[u] = "read" /\ u \notin blocked) => Alone(u)
  BY MicroSdAssumption DEF Holder, InLock, WaitsAt, Port
<1> QED
  BY <1>1, <1>2, <1>3, ThreadNames

(* A new record is newer than all that are on the card or were sent.       *)
LEMMA RecordFills ==
  ASSUME SdInv, SyncType, LockInv("storage"), RecordFill
  PROVE  WhereInv' /\ LogInv' /\ JobType'
<1>1. /\ pc["writer"] = "record" /\ pc'["writer"] = "store" /\ "writer" \notin blocked
      /\ \A r \in Readers : pc'[r] = pc[r]
  BY ThreadNames, StepMoves DEF RecordFill
<1>2. /\ serial' = serial + 1 /\ buf' = serial + 1 /\ serial \in Nat /\ serial' \in 0 .. MaxSerial
      /\ UNCHANGED <<card, tip, used, curr, last, left, sent, panic>>
  <2>1. serial \in 0 .. MaxSerial /\ MaxSerial \in Nat /\ serial < MaxSerial
    BY MicroSdAssumption DEF RecordFill, SdInv, LogInv, CardInv
  <2> QED
    BY <2>1 DEF RecordFill, job
<1>3. CardInv'
  <2>1. CardInv
    BY DEF SdInv, LogInv
  <2>2. \A n : Filled(n)' <=> Filled(n)
    BY <1>2 DEF Filled
  <2>3. card' \in [Blocks -> 0 .. serial'] /\ \A b \in Blocks : card'[b] < serial'
    BY <1>2, <2>1 DEF CardInv
  <2> QED
    BY <1>1, <1>2, <2>1, <2>2, <2>3 DEF CardInv
<1>4. RingInv'
  BY <1>1, <1>2 DEF SdInv, LogInv, RingInv, Live, Mounted, Busy, Filled
<1>5. ASSUME NEW r \in Readers PROVE DownInv(r)'
  <2>1. DownInv(r) /\ pc'[r] = pc[r]
    BY <1>1 DEF SdInv, LogInv
  <2>2. pc[r] \notin {"send", "write"}
    BY <1>1, InsideAlone
  <2>3. \A k : Rec2Block(k)' = Rec2Block(k)
    BY <1>2 DEF Rec2Block
  <2>4. \A x : x \in 0 .. serial => x \in 0 .. serial' /\ x < serial'
    BY <1>2
  <2>5. CASE pc[r] \in {"next", "read"}
    <3>1. \A x \in sent[r] : /\ x \in 0 .. serial' /\ x < serial'
                             /\ \A k \in curr[r] .. used - 1 : card[Rec2Block(k)] # x
      BY <2>1, <2>4, <2>5 DEF DownInv
    <3> QED
      BY <1>2, <2>1, <2>3, <2>5, <3>1 DEF DownInv
  <2>6. CASE pc[r] \notin {"next", "read"}
    BY <1>2, <2>1, <2>2, <2>6 DEF DownInv
  <2> QED
    BY <2>5, <2>6
<1>6. WhereInv'
  BY <1>1, <1>2, Zenon DEF SdInv, WhereInv
<1>7. JobType'
  BY <1>1, <1>2 DEF SdInv, JobType
<1> QED
  BY <1>3, <1>4, <1>5, <1>6, <1>7 DEF LogInv

(* The record is written over the oldest one, which costs every other its  *)
(* number but not its turn (storage.c:279-293).                            *)
LEMMA RecordStores ==
  ASSUME SdInv, SyncType, LockInv("storage"), RecordStore
  PROVE  WhereInv' /\ LogInv' /\ JobType'
<1> USE MicroSdAssumption
<1>1. /\ pc["writer"] = "store" /\ pc'["writer"] \in {"work", "dead"}
      /\ \A r \in Readers : pc'[r] = pc[r]
  BY LoopTops, ThreadNames, StepMoves DEF RecordStore
<1>2. active
  BY <1>1 DEF SdInv, SlotInv
<1>3. /\ ~panic' /\ card' = [card EXCEPT ![tip] = buf]
      /\ tip' = (tip + 1) % Capacity
      /\ used' = IF used + 1 >= Capacity THEN Capacity ELSE used + 1
      /\ UNCHANGED <<serial, buf, job>>
  BY <1>2 DEF RecordStore
<1>4. /\ serial \in Nat /\ serial \in 0 .. MaxSerial /\ card \in [Blocks -> 0 .. serial] /\ buf = serial
      /\ \A b \in Blocks : card[b] < serial
      /\ \A b, c \in Blocks : card[b] = card[c] /\ card[b] # 0 => b = c
  BY <1>1 DEF SdInv, LogInv, CardInv
<1>5. /\ tip \in Blocks /\ used \in 0 .. Capacity /\ Filled(used)
      /\ used < Capacity => tip = used
  BY <1>1 DEF SdInv, LogInv, RingInv, Live, Mounted
<1>6. tip' = IF tip + 1 < Capacity THEN tip + 1 ELSE 0
  <2>1. 1 \in Blocks
    BY DEF Blocks
  <2>2. (tip + 1) % Capacity = IF tip + 1 < Capacity THEN tip + 1 ELSE tip + 1 - Capacity
    BY <1>5, <2>1, Wrapped
  <2> QED
    BY <1>3, <1>5, <2>2 DEF Blocks
<1>7. \A b \in Blocks : card'[b] = IF b = tip THEN serial ELSE card[b]
  BY <1>3, <1>4
<1>8. serial > 0 /\ 0 \in Blocks
  BY <1>4 DEF Blocks
<1>9. Filled(used)' /\ used' \in 0 .. Capacity
  <2>1. CASE used < Capacity
    <3>1. used' = used + 1 /\ tip = used
      BY <1>3, <1>5, <2>1
    <3>2. \A b \in Blocks : card'[b] # 0 <=> b < used'
      BY <1>5, <1>7, <1>8, <3>1 DEF Filled, Blocks
    <3>3. \A b \in Blocks : card'[b] <= card'[used' - 1]
      BY <1>4, <1>5, <1>7, <3>1 DEF Blocks
    <3>4. used' \in 0 .. Capacity
      BY <1>5, <2>1, <3>1
    <3> QED
      BY <3>2, <3>3, <3>4 DEF Filled
  <2>2. CASE used = Capacity
    <3>1. used' = Capacity
      BY <1>3, <2>2
    <3>2. \A b \in Blocks : card'[b] # 0 <=> b < used'
      BY <1>5, <1>7, <1>8, <2>2, <3>1 DEF Filled, Blocks
    <3> QED
      BY <3>1, <3>2 DEF Filled
  <2> QED
    BY <1>5, <2>1, <2>2
<1>10. CardInv'
  <2>1. card' \in [Blocks -> 0 .. serial']
    <3>1. card' = [card EXCEPT ![tip] = buf] /\ serial' = serial
      BY <1>3
    <3>2. buf \in 0 .. serial /\ card \in [Blocks -> 0 .. serial]
      BY <1>4
    <3> QED
      BY <3>1, <3>2
  <2>2. \A b, c \in Blocks : card'[b] = card'[c] /\ card'[b] # 0 => b = c
    BY <1>4, <1>7
  <2>3. \E b \in Blocks : \A c \in Blocks : card'[c] <= card'[b]
    BY <1>4, <1>5, <1>7
  <2>4. \E n \in 0 .. Capacity : Filled(n)'
    BY <1>9 DEF Filled
  <2>5. buf' \in 0 .. serial' /\ serial' \in 0 .. MaxSerial
    BY <1>3, <1>4
  <2> QED
    BY <1>1, <2>1, <2>2, <2>3, <2>4, <2>5 DEF CardInv
<1>11. RingInv'
  <2>1. tip' \in Blocks
    BY <1>5, <1>6 DEF Blocks
  <2>2. used' < Capacity => tip' = used'
    BY <1>3, <1>5, <1>6
  <2> QED
    BY <1>9, <2>1, <2>2 DEF RingInv
<1>12. ASSUME NEW r \in Readers PROVE DownInv(r)'
  <2>1. DownInv(r) /\ pc'[r] = pc[r]
    BY <1>1 DEF SdInv, LogInv
  <2>2. pc[r] \notin {"send", "write"}
    BY <1>1, InsideAlone
  <2>3. sent'[r] = sent[r] /\ curr'[r] = curr[r] /\ last'[r] = last[r] /\ serial' = serial
    BY <1>3 DEF job
  <2>4. CASE pc[r] \in {"next", "read"}
    <3>1. /\ curr[r] \in Nat /\ last[r] \in Nat /\ last[r] < used
          /\ \A x \in sent[r] : /\ x \in 0 .. serial /\ x < serial
                                /\ \A k \in curr[r] .. used - 1 : card[Rec2Block(k)] # x
      BY <1>1, <2>1, <2>4 DEF DownInv
    <3>2. last[r] < used'
      BY <1>3, <1>5, <3>1
    <3>3. ASSUME NEW x \in sent[r], NEW k \in curr[r] .. used' - 1
          PROVE  card'[Rec2Block(k)'] # x
      <4>1. k \in 0 .. used' - 1
        BY <3>1
      <4>2. \/ Rec2Block(k)' = tip
            \/ /\ Rec2Block(k)' # tip
               /\ \/ k \in 0 .. used - 1 /\ Rec2Block(k)' = Rec2Block(k)
                  \/ k + 1 \in 0 .. used - 1 /\ Rec2Block(k)' = Rec2Block(k + 1)
        BY <1>3, <1>5, <4>1, NumbersMove
      <4>3. CASE Rec2Block(k)' = tip
        BY <1>5, <1>7, <3>1, <4>3
      <4>4. ASSUME NEW j \in 0 .. used - 1, j >= k, Rec2Block(k)' = Rec2Block(j), Rec2Block(k)' # tip
            PROVE  card'[Rec2Block(k)'] # x
        <5>1. Rec2Block(j) \in Blocks
          BY <1>5, NumbersOfBlocks
        <5>2. card'[Rec2Block(j)] = card[Rec2Block(j)]
          BY <1>7, <4>4, <5>1
        <5>3. j \in curr[r] .. used - 1
          BY <1>5, <3>1, <4>4
        <5> QED
          BY <3>1, <4>4, <5>2, <5>3
      <4> QED
        BY <1>5, <4>2, <4>3, <4>4
    <3> QED
      BY <1>1, <2>1, <2>3, <2>4, <3>1, <3>2, <3>3 DEF DownInv
  <2>5. CASE pc[r] \notin {"next", "read"}
    BY <2>1, <2>2, <2>3, <2>5 DEF DownInv
  <2> QED
    BY <2>4, <2>5
<1>13. WhereInv'
  BY <1>1, <1>3, Zenon DEF SdInv, WhereInv
<1>14. JobType'
  BY <1>1, <1>3 DEF SdInv, JobType, job
<1> QED
  BY <1>10, <1>11, <1>12, <1>13, <1>14 DEF LogInv

-----------------------------------------------------------------------------
(* Where a step of a reader leaves the threads and the card.               *)
LEMMA ReaderMoves ==
  ASSUME SdInv, SyncType, NEW r \in Readers, NEW p, NEW q, Step(r, p, q),
         UNCHANGED <<slot, tip, used, card, serial>>, ~panic',
         q \in {"idle", "dead", "count", "next", "read", "send", "write"},
         Busy(r)' => Busy(r) \/ (Mounted /\ inserted)
  PROVE  /\ WhereInv' /\ SlotInv' /\ RingInv' /\ (Live' => Live)
         /\ pc[r] = p /\ pc'[r] = q /\ r \notin blocked
         /\ pc'["writer"] = pc["writer"] /\ \A u \in Readers \ {r} : pc'[u] = pc[u]
<1>1. /\ pc[r] = p /\ pc'[r] = q /\ pc'["writer"] = pc["writer"] /\ r \notin blocked
      /\ \A u \in Readers \ {r} : pc'[u] = pc[u]
  BY ThreadNames, StepMoves
<1>2. WhereInv'
  BY <1>1, Zenon DEF SdInv, WhereInv
<1>3. SlotInv'
  <2>1. inserted' = inserted /\ active' = active
    BY DEF slot
  <2>2. ASSUME NEW u \in Readers, Busy(u)'
        PROVE  active /\ pc["writer"] \in {"work", "record", "store", "dead"}
    <3>1. Busy(u) \/ (Mounted /\ inserted)
      BY <1>1, <2>2 DEF Busy
    <3> QED
      BY <3>1 DEF SdInv, SlotInv, Mounted
  <2> QED
    BY <1>1, <2>1, <2>2 DEF SdInv, SlotInv
<1>4. Live' => Live
  BY <1>1 DEF Live, Mounted, Busy
<1>5. RingInv'
  BY <1>4 DEF SdInv, LogInv, RingInv, Filled
<1> QED
  BY <1>1, <1>2, <1>3, <1>4, <1>5

(* It asks for the number of records, gives the answer, waits for its turn *)
(* or sends a message.                                                     *)
LEMMA ReaderWaits ==
  ASSUME SdInv, SyncType, NEW r \in Readers,
         \/ Mounted /\ CountRequest(r)
         \/ CountAnswer(r) \/ NextRecord(r) \/ TakePort(r) \/ WriteMessage(r) \/ Exits(r)
  PROVE  SdInv'
<1>1. PICK p, q :
        /\ Step(r, p, q)
        /\ \/ p = "idle" /\ q = "count" /\ Mounted /\ inserted
           \/ {p, q} \subseteq {"idle", "dead", "count"} /\ q # "count"
           \/ p = "next" /\ q = "read" /\ curr[r] < last[r]
           \/ {p, q} = {"send", "write"} /\ (q = "write" => left[r] > 0)
  BY LoopTops DEF CountRequest, CountAnswer, NextRecord, TakePort, WriteMessage, Exits
<1>2. UNCHANGED <<slot, tip, used, card, serial, buf, curr, last, sent, panic>>
  BY DEF CountRequest, CountAnswer, NextRecord, TakePort, WriteMessage, Exits, log, job
<1>3. ~panic'
  BY <1>2, Zenon DEF SdInv, WhereInv
<1>4. pc[r] = p
  BY <1>1, ThreadNames, StepMoves
<1>5. q \in {"idle", "dead", "count", "next", "read", "send", "write"}
  BY <1>1
<1>6. Busy(r)' => Busy(r) \/ (Mounted /\ inserted)
  <2>1. pc'[r] = q
    BY <1>1, ThreadNames, StepMoves
  <2> QED
    BY <1>1, <1>4, <2>1 DEF Busy
<1>7. /\ WhereInv' /\ SlotInv' /\ RingInv' /\ (Live' => Live) /\ pc'[r] = q
      /\ pc'["writer"] = pc["writer"] /\ \A u \in Readers \ {r} : pc'[u] = pc[u]
  BY <1>1, <1>2, <1>3, <1>5, <1>6, ReaderMoves
<1>8. LogInv'
  BY <1>1, <1>2, <1>4, <1>7, LogStays DEF SdInv
<1>9. JobType'
  <2>1. left' = left \/ (left' = [left EXCEPT ![r] = @ - 1] /\ pc[r] = "write" /\ pc'[r] = "send")
    <3>1. WriteMessage(r) => pc[r] = "write" /\ pc'[r] = "send"
      BY ThreadNames, StepMoves DEF WriteMessage
    <3> QED
      BY <3>1 DEF CountRequest, CountAnswer, NextRecord, TakePort, WriteMessage, Exits, job
  <2>2. pc'[r] = "write" => left[r] > 0
    BY <1>1, <1>7
  <2>3. CASE left' = left
    BY <1>2, <1>7, <2>2, <2>3 DEF SdInv, JobType
  <2>4. CASE left' = [left EXCEPT ![r] = @ - 1] /\ pc[r] = "write" /\ pc'[r] = "send"
    <3>1. left \in [Readers -> 0 .. Messages] /\ left[r] > 0 /\ left[r] \in 0 .. Messages
      BY <2>4 DEF SdInv, JobType
    <3>2. left[r] - 1 \in 0 .. Messages
      BY <3>1, MicroSdAssumption
    <3>3. left' \in [Readers -> 0 .. Messages] /\ \A u \in Readers \ {r} : left'[u] = left[u]
      BY <2>4, <3>1, <3>2
    <3> QED
      BY <1>2, <1>7, <2>4, <3>3 DEF SdInv, JobType
  <2> QED
    BY <2>1, <2>3, <2>4
<1> QED
  BY <1>7, <1>8, <1>9 DEF SdInv

(* What a step of a reader does to the numbers of the others.              *)
LEMMA OtherDownloads ==
  ASSUME SdInv, NEW u \in Readers, pc'[u] = pc[u], pc'["writer"] = pc["writer"],
         UNCHANGED <<tip, used, card, serial>>,
         curr'[u] = curr[u], last'[u] = last[u], sent'[u] = sent[u],
         buf' = buf \/ pc[u] \notin {"send", "write"}
  PROVE  DownInv(u)'
<1>1. \A k : Rec2Block(k)' = Rec2Block(k)
  BY DEF Rec2Block
<1>2. DownInv(u)
  BY DEF SdInv, LogInv
<1>3. used' = used /\ card' = card /\ serial' = serial
  OBVIOUS
<1> QED
  BY <1>1, <1>2, <1>3 DEF DownInv

(* A request is cut to what is there (microsd.c:181-192).                  *)
LEMMA RequestStarts ==
  ASSUME SdInv, SyncType, NEW r \in Readers, NEW n \in 0 .. MaxRec, NEW m \in 0 .. MaxRec,
         Mounted, used > 0, DownloadRequest(r, n, m)
  PROVE  SdInv'
<1> USE MicroSdAssumption
<1>1. /\ Step(r, "idle", "next") /\ inserted
      /\ curr' = [curr EXCEPT ![r] = n] /\ last' = [last EXCEPT ![r] = Clamped(m)]
      /\ UNCHANGED <<slot, tip, used, card, serial, buf, left, sent, panic>>
  BY DEF DownloadRequest, log
<1>2. ~panic'
  BY <1>1, Zenon DEF SdInv, WhereInv
<1>3. /\ WhereInv' /\ SlotInv' /\ RingInv' /\ (Live' => Live) /\ pc[r] = "idle" /\ pc'[r] = "next"
      /\ pc'["writer"] = pc["writer"] /\ \A u \in Readers \ {r} : pc'[u] = pc[u]
  BY <1>1, <1>2, ReaderMoves
<1>4. used \in 0 .. Capacity
  BY DEF SdInv, LogInv, RingInv
<1>5. Clamped(m) \in Nat /\ Clamped(m) < used
  <2>1. CASE m >= used
    <3>1. used - 1 \in 0 .. MaxWord
      BY <1>4
    <3>2. (used - 1) % (MaxWord + 1) = used - 1
      BY <3>1
    <3> QED
      BY <1>4, <2>1, <3>2 DEF Clamped
  <2>2. CASE ~(m >= used)
    BY <1>4, <2>2 DEF Clamped
  <2> QED
    BY <2>1, <2>2
<1>6. CardInv'
  <2>1. \A k : Filled(k)' <=> Filled(k)
    BY <1>1 DEF Filled
  <2> QED
    BY <1>1, <1>3, <2>1 DEF SdInv, LogInv, CardInv
<1>7. /\ curr \in [Readers -> 0 .. MaxRec + Capacity] /\ last \in [Readers -> 0 .. Capacity]
  BY DEF SdInv, JobType
<1>8. DownInv(r)'
  <2>1. sent[r] = {}
    BY <1>3 DEF SdInv, LogInv, DownInv
  <2>2. curr'[r] \in Nat /\ last'[r] \in Nat /\ last'[r] < used' /\ sent'[r] = {}
    BY <1>1, <1>5, <1>7, <2>1
  <2> QED
    BY <1>3, <2>2 DEF DownInv
<1>9. ASSUME NEW u \in Readers \ {r} PROVE DownInv(u)'
  <2>1. curr'[u] = curr[u] /\ last'[u] = last[u]
    BY <1>1, <1>7
  <2> QED
    BY <1>1, <1>3, <2>1, OtherDownloads
<1>10. JobType'
  <2>1. Clamped(m) \in 0 .. Capacity /\ n \in 0 .. MaxRec + Capacity
    BY <1>4, <1>5
  <2>2. curr' \in [Readers -> 0 .. MaxRec + Capacity] /\ last' \in [Readers -> 0 .. Capacity]
    BY <1>1, <1>7, <2>1
  <2> QED
    BY <1>1, <1>3, <2>2 DEF SdInv, JobType
<1> QED
  BY <1>3, <1>6, <1>8, <1>9, <1>10 DEF SdInv, LogInv

(* A download that has ended starts the next one from nothing.             *)
LEMMA RequestEnds ==
  ASSUME SdInv, SyncType, NEW r \in Readers, DownloadDone(r)
  PROVE  SdInv'
<1> USE MicroSdAssumption
<1>1. PICK q \in {"idle", "dead"} : Step(r, "next", q)
  BY LoopTops DEF DownloadDone
<1>2. /\ curr' = [curr EXCEPT ![r] = 0] /\ last' = [last EXCEPT ![r] = 0]
      /\ sent' = [sent EXCEPT ![r] = {}]
      /\ UNCHANGED <<slot, tip, used, card, serial, buf, left, panic>>
  BY DEF DownloadDone, log
<1>3. ~panic'
  BY <1>2, Zenon DEF SdInv, WhereInv
<1>4. /\ WhereInv' /\ SlotInv' /\ RingInv' /\ pc'[r] = q
      /\ pc'["writer"] = pc["writer"] /\ \A u \in Readers \ {r} : pc'[u] = pc[u]
  <2>1. ~Busy(r)'
    BY <1>1, ThreadNames, StepMoves DEF Busy
  <2> QED
    BY <1>1, <1>2, <1>3, <2>1, ReaderMoves
<1>5. CardInv'
  <2>1. \A k : Filled(k)' <=> Filled(k)
    BY <1>2 DEF Filled
  <2> QED
    BY <1>2, <1>4, <2>1 DEF SdInv, LogInv, CardInv
<1>6. /\ curr \in [Readers -> 0 .. MaxRec + Capacity] /\ last \in [Readers -> 0 .. Capacity]
      /\ sent \in [Readers -> SUBSET Nat]
  BY DEF SdInv, JobType
<1>7. DownInv(r)'
  <2>1. sent'[r] = {}
    BY <1>2, <1>6
  <2> QED
    BY <1>4, <2>1 DEF DownInv
<1>8. ASSUME NEW u \in Readers \ {r} PROVE DownInv(u)'
  <2>1. curr'[u] = curr[u] /\ last'[u] = last[u] /\ sent'[u] = sent[u]
    BY <1>2, <1>6
  <2> QED
    BY <1>2, <1>4, <2>1, OtherDownloads
<1>9. JobType'
  <2>1. /\ curr' \in [Readers -> 0 .. MaxRec + Capacity] /\ last' \in [Readers -> 0 .. Capacity]
        /\ sent' \in [Readers -> SUBSET Nat]
    BY <1>2, <1>6
  <2> QED
    BY <1>2, <1>4, <2>1 DEF SdInv, JobType
<1> QED
  BY <1>4, <1>5, <1>7, <1>8, <1>9 DEF SdInv, LogInv

(* The records that have a number are there, each under one number.        *)
LEMMA NumbersOfRecords ==
  ASSUME CardInv, tip \in Blocks, used \in 0 .. Capacity, Filled(used)
  PROVE  /\ \A k \in 0 .. used - 1 : card[Rec2Block(k)] \in 1 .. serial
         /\ \A j, k \in 0 .. used - 1 : card[Rec2Block(j)] = card[Rec2Block(k)] => j = k
<1> USE MicroSdAssumption
<1>1. /\ \A k \in 0 .. used - 1 : Rec2Block(k) \in Blocks
      /\ \A j, k \in 0 .. used - 1 : Rec2Block(j) = Rec2Block(k) => j = k
  BY NumbersOfBlocks
<1>2. ASSUME NEW k \in 0 .. used - 1 PROVE card[Rec2Block(k)] \in 1 .. serial
  <2>1. Rec2Block(k) < used
    <3>1. CASE used < Capacity
      BY <3>1 DEF Rec2Block
    <3>2. CASE used = Capacity
      BY <1>1, <3>2 DEF Blocks
    <3> QED
      BY <3>1, <3>2
  <2>2. card[Rec2Block(k)] # 0
    BY <1>1, <2>1 DEF Filled
  <2>3. card[Rec2Block(k)] \in 0 .. serial /\ serial \in Nat
    BY <1>1 DEF CardInv
  <2> QED
    BY <2>2, <2>3
<1>3. ASSUME NEW j \in 0 .. used - 1, NEW k \in 0 .. used - 1, card[Rec2Block(j)] = card[Rec2Block(k)]
      PROVE  j = k
  <2>1. card[Rec2Block(j)] # 0
    BY <1>2
  <2>2. Rec2Block(j) = Rec2Block(k)
    BY <1>1, <1>3, <2>1 DEF CardInv
  <2> QED
    BY <1>1, <2>2
<1> QED
  BY <1>2, <1>3

(* The checks of bnapStorageGetRecord hold, and it reads what the number   *)
(* stands for (storage.c:298-305).                                         *)
LEMMA RecordRead ==
  ASSUME SdInv, SyncType, LockInv("storage"), NEW r \in Readers, GetRecord(r)
  PROVE  SdInv'
<1> USE MicroSdAssumption
<1>1. pc[r] = "read" /\ r \notin blocked /\ Step(r, "read", "send")
  BY ThreadNames, StepMoves DEF GetRecord
<1>2. active /\ Live
  BY <1>1 DEF SdInv, SlotInv, Busy, Live
<1>3. /\ tip \in Blocks /\ used \in 0 .. Capacity /\ Filled(used) /\ CardInv
      /\ curr[r] \in Nat /\ last[r] \in Nat /\ last[r] < used /\ curr[r] < last[r] /\ DownInv(r)
  BY <1>1, <1>2 DEF SdInv, LogInv, RingInv, DownInv
<1>4. used # 0 /\ curr[r] < used /\ curr[r] \in 0 .. used - 1
  BY <1>3
<1>5. Rec2Block(curr[r]) \in Blocks /\ card[Rec2Block(curr[r])] \in 1 .. serial
  BY <1>3, <1>4, NumbersOfBlocks, NumbersOfRecords
<1>6. ~panic'
  BY <1>2, <1>4, Zenon DEF GetRecord
<1>7. /\ buf' = card[Rec2Block(curr[r])] /\ left' = [left EXCEPT ![r] = Messages]
      /\ UNCHANGED <<slot, tip, used, card, serial, curr, last, sent>>
  BY <1>2, <1>5 DEF GetRecord, log
<1>8. /\ WhereInv' /\ SlotInv' /\ RingInv' /\ pc'[r] = "send"
      /\ pc'["writer"] = pc["writer"] /\ \A u \in Readers \ {r} : pc'[u] = pc[u]
  <2>1. Busy(r)
    BY <1>1 DEF Busy
  <2> QED
    BY <1>1, <1>6, <1>7, <2>1, ReaderMoves
<1>9. /\ pc["writer"] # "store"
      /\ \A u \in Readers \ {r} : pc[u] \notin {"send", "write"}
  BY <1>1, InsideAlone
<1>10. CardInv'
  <2>1. \A k : Filled(k)' <=> Filled(k)
    BY <1>7 DEF Filled
  <2>2. buf' \in 0 .. serial' /\ serial \in Nat
    BY <1>3, <1>5, <1>7 DEF CardInv
  <2> QED
    BY <1>3, <1>7, <1>8, <1>9, <2>1, <2>2 DEF CardInv
<1>11. DownInv(r)'
  <2>1. \A k : Rec2Block(k)' = Rec2Block(k)
    BY <1>7 DEF Rec2Block
  <2>2. buf' = card'[Rec2Block(curr[r])]
    BY <1>7
  <2>3. /\ \A x \in sent[r] : x \in 0 .. serial /\ \A k \in curr[r] .. used - 1 : card[Rec2Block(k)] # x
    BY <1>1, <1>3 DEF DownInv
  <2> QED
    BY <1>3, <1>7, <1>8, <1>9, <2>1, <2>2, <2>3 DEF DownInv
<1>12. ASSUME NEW u \in Readers \ {r} PROVE DownInv(u)'
  BY <1>7, <1>8, <1>9, OtherDownloads
<1>13. JobType'
  <2>1. left \in [Readers -> 0 .. Messages]
    BY DEF SdInv, JobType
  <2>2. left' \in [Readers -> 0 .. Messages] /\ \A u \in Readers \ {r} : left'[u] = left[u]
    BY <1>7, <2>1
  <2> QED
    BY <1>7, <1>8, <2>2 DEF SdInv, JobType
<1> QED
  BY <1>8, <1>10, <1>11, <1>12, <1>13 DEF SdInv, LogInv

(* What is sent is a record that was not sent before, and will not be read *)
(* again (microsd.c:192-210).                                              *)
LEMMA RecordIsNew ==
  ASSUME SdInv, LockInv("storage"), NEW r \in Readers, pc[r] = "send"
  PROVE  /\ buf \in 1 .. serial /\ buf \notin sent[r]
         /\ pc["writer"] # "store"
         /\ curr[r] \in Nat /\ last[r] \in Nat /\ curr[r] < last[r] /\ last[r] < used
         /\ \A k \in curr[r] + 1 .. used - 1 : card[Rec2Block(k)] # buf
<1>1. Live
  BY DEF Live, Busy
<1>2. /\ tip \in Blocks /\ used \in 0 .. Capacity /\ Filled(used) /\ CardInv
      /\ curr[r] \in Nat /\ last[r] \in Nat /\ last[r] < used /\ curr[r] < last[r]
      /\ buf = card[Rec2Block(curr[r])]
      /\ \A x \in sent[r] : \A k \in curr[r] .. used - 1 : card[Rec2Block(k)] # x
  BY <1>1 DEF SdInv, LogInv, RingInv, DownInv
<1>3. curr[r] \in 0 .. used - 1 /\ curr[r] \in curr[r] .. used - 1
  BY <1>2, MicroSdAssumption
<1>4. buf \in 1 .. serial /\ buf \notin sent[r]
  BY <1>2, <1>3, NumbersOfRecords
<1>5. \A k \in curr[r] + 1 .. used - 1 : k \in 0 .. used - 1 /\ k # curr[r]
  BY <1>2
<1>6. \A k \in curr[r] + 1 .. used - 1 : card[Rec2Block(k)] # buf
  BY <1>2, <1>3, <1>5, NumbersOfRecords
<1>7. pc["writer"] # "store"
  BY InsideAlone
<1> QED
  BY <1>2, <1>4, <1>6, <1>7

LEMMA RecordGoesOut ==
  ASSUME SdInv, SyncType, LockInv("storage"), NEW r \in Readers, RecordSent(r)
  PROVE  SdInv'
<1> USE MicroSdAssumption
<1>1. pc[r] = "send" /\ Step(r, "send", "next")
  BY ThreadNames, StepMoves DEF RecordSent
<1>2. /\ curr' = [curr EXCEPT ![r] = @ + 1] /\ sent' = [sent EXCEPT ![r] = @ \cup {buf}]
      /\ UNCHANGED <<slot, tip, used, card, serial, buf, last, left, panic>>
  BY DEF RecordSent, log
<1>3. ~panic'
  BY <1>2, Zenon DEF SdInv, WhereInv
<1>4. /\ WhereInv' /\ SlotInv' /\ RingInv' /\ pc'[r] = "next"
      /\ pc'["writer"] = pc["writer"] /\ \A u \in Readers \ {r} : pc'[u] = pc[u]
  <2>1. Busy(r)
    BY <1>1 DEF Busy
  <2> QED
    BY <1>1, <1>2, <1>3, <2>1, ReaderMoves
<1>5. CardInv'
  <2>1. \A k : Filled(k)' <=> Filled(k)
    BY <1>2 DEF Filled
  <2> QED
    BY <1>2, <1>4, <2>1 DEF SdInv, LogInv, CardInv
<1>6. /\ curr \in [Readers -> 0 .. MaxRec + Capacity] /\ last \in [Readers -> 0 .. Capacity]
      /\ sent \in [Readers -> SUBSET Nat]
  BY DEF SdInv, JobType
<1>7. /\ buf \in 1 .. serial /\ pc["writer"] # "store"
      /\ curr[r] \in Nat /\ last[r] \in Nat /\ curr[r] < last[r] /\ last[r] < used
      /\ \A k \in curr[r] + 1 .. used - 1 : card[Rec2Block(k)] # buf
  BY <1>1, RecordIsNew
<1>8. DownInv(r)'
  <2>1. \A k : Rec2Block(k)' = Rec2Block(k)
    BY <1>2 DEF Rec2Block
  <2>2. curr'[r] = curr[r] + 1 /\ sent'[r] = sent[r] \cup {buf} /\ last'[r] = last[r]
    BY <1>2, <1>6
  <2>3. \A x \in sent[r] : x \in 0 .. serial /\ \A k \in curr[r] .. used - 1 : card[Rec2Block(k)] # x
    BY <1>1 DEF SdInv, LogInv, DownInv
  <2>4. \A k \in curr[r] + 1 .. used - 1 : k \in curr[r] .. used - 1
    BY <1>7
  <2>5. \A x \in sent'[r] : x \in 0 .. serial /\ \A k \in curr[r] + 1 .. used - 1 : card[Rec2Block(k)] # x
    <3>1. buf \in 0 .. serial
      BY <1>7
    <3> QED
      BY <1>7, <2>2, <2>3, <2>4, <3>1
  <2>6. UNCHANGED <<used, card, serial>> /\ curr'[r] \in Nat
    BY <1>2, <1>7, <2>2
  <2> QED
    BY <1>4, <1>7, <2>1, <2>2, <2>5, <2>6 DEF DownInv
<1>9. ASSUME NEW u \in Readers \ {r} PROVE DownInv(u)'
  <2>1. curr'[u] = curr[u] /\ last'[u] = last[u] /\ sent'[u] = sent[u]
    BY <1>2, <1>6
  <2> QED
    BY <1>2, <1>4, <2>1, OtherDownloads
<1>10. JobType'
  <2>1. curr[r] + 1 \in 0 .. MaxRec + Capacity /\ sent[r] \cup {buf} \in SUBSET Nat
    <3>1. used \in 0 .. Capacity
      BY DEF SdInv, LogInv, RingInv
    <3> QED
      BY <1>6, <1>7, <3>1
  <2>2. curr' \in [Readers -> 0 .. MaxRec + Capacity] /\ sent' \in [Readers -> SUBSET Nat]
    BY <1>2, <1>6, <2>1
  <2> QED
    BY <1>2, <1>4, <2>2 DEF SdInv, JobType
<1> QED
  BY <1>4, <1>5, <1>8, <1>9, <1>10 DEF SdInv, LogInv

-----------------------------------------------------------------------------
(* The other steps.                                                        *)
LEMMA WriterKeepsDownloads ==
  ASSUME SdInv, SyncType, LockInv("storage"), WriterStep \/ (NoReader /\ WriterInitsStorage)
  PROVE  SdInv'
<1>1. SlotInv'
  BY WriterSlot
<1>2. WhereInv' /\ LogInv' /\ JobType'
  BY WriterGoes, MountGoes, RecordFills, RecordStores DEF WriterStep
<1> QED
  BY <1>1, <1>2 DEF SdInv

LEMMA ReaderKeepsDownloads ==
  ASSUME SdInv, SyncType, LockInv("storage"), NEW r \in Readers,
         ReaderStep(r) \/ (Mounted /\ used > 0 /\ Request(r))
  PROVE  SdInv'
BY ReaderWaits, RequestStarts, RequestEnds, RecordRead, RecordGoesOut DEF ReaderStep, Request

(* Neither the log nor who uses it changes.                                *)
LEMMA ElsewhereKeepsDownloads ==
  ASSUME SdInv, pc'["writer"] = pc["writer"], \A r \in Readers : pc'[r] = pc[r],
         UNCHANGED <<inserted, active, log, buf, job, panic>>
  PROVE  SdInv'
<1>1. UNCHANGED <<card, tip, used, serial, buf, curr, last, left, sent>>
  BY DEF log, job
<1>2. WhereInv'
  BY Zenon DEF SdInv, WhereInv
<1>3. SlotInv'
  BY DEF SdInv, SlotInv, Busy
<1>4. Live' => Live
  BY DEF Live, Mounted, Busy
<1>5. LogInv'
  BY <1>1, <1>4, LogStays DEF SdInv
<1>6. JobType'
  BY <1>1 DEF SdInv, JobType
<1> QED
  BY <1>2, <1>3, <1>5, <1>6 DEF SdInv

(* "storage wipe" erases the card when nobody uses the log.                *)
LEMMA EraseKeepsDownloads ==
  ASSUME SdInv, SyncType, PlaceInv, ShellErases
  PROVE  SdInv'
<1> USE MicroSdAssumption
<1>1. /\ pc["shell"] = "erase" /\ pc'["writer"] = pc["writer"]
      /\ \A r \in Readers : pc'[r] = pc[r]
  BY ThreadNames, StepMoves DEF ShellErases
<1>2. pc["writer"] = "dead" /\ \A r \in Readers : pc[r] = "dead"
  BY <1>1 DEF PlaceInv
<1>3. /\ card' = [b \in Blocks |-> 0] \/ card' = card
      /\ tip' = 0 /\ UNCHANGED <<slot, used, serial, buf, job, panic>>
  BY DEF ShellErases
<1>4. WhereInv'
  BY <1>1, <1>3, Zenon DEF SdInv, WhereInv
<1>5. SlotInv'
  BY <1>1, <1>3 DEF SdInv, SlotInv, Busy, slot
<1>6. ~Live'
  BY <1>1, <1>2 DEF Live, Mounted, Busy
<1>7. 0 \in Blocks
  BY DEF Blocks
<1>8. CardInv'
  <2>1. CardInv
    BY DEF SdInv, LogInv
  <2>2. CASE card' = [b \in Blocks |-> 0]
    <3>1. \A b \in Blocks : card'[b] = 0
      BY <2>2
    <3>2. Filled(0)'
      BY <3>1 DEF Filled, Blocks
    <3>3. \E n \in 0 .. Capacity : Filled(n)'
      BY <3>2
    <3>4. card' \in [Blocks -> 0 .. serial']
      BY <1>3, <2>1, <2>2 DEF CardInv
    <3> QED
      BY <1>1, <1>2, <1>3, <1>7, <2>1, <3>1, <3>3, <3>4 DEF CardInv
  <2>3. CASE card' = card
    <3>1. \A n : Filled(n)' <=> Filled(n)
      BY <2>3 DEF Filled
    <3> QED
      BY <1>1, <1>3, <2>1, <2>3, <3>1 DEF CardInv
  <2> QED
    BY <1>3, <2>2, <2>3
<1>9. RingInv'
  BY <1>3, <1>6, <1>7 DEF SdInv, LogInv, RingInv
<1>10. \A r \in Readers : DownInv(r)'
  BY <1>1, <1>2, <1>3 DEF SdInv, LogInv, DownInv, job
<1>11. JobType'
  BY <1>1, <1>3 DEF SdInv, JobType, job
<1> QED
  BY <1>4, <1>5, <1>8, <1>9, <1>10, <1>11 DEF SdInv, LogInv

(* The threads it starts again have nothing under way.                     *)
LEMMA RestartKeepsDownloads ==
  ASSUME SdInv, PlaceInv, ShellRestarts
  PROVE  SdInv'
<1>1. /\ pc["writer"] = "dead" /\ \A r \in Readers : pc[r] = "dead"
      /\ pc'["writer"] = "absent" /\ \A r \in Readers : pc'[r] = "idle"
  BY ThreadNames DEF ShellRestarts, At, PlaceInv
<1>2. UNCHANGED <<slot, card, tip, used, serial, buf, curr, last, left, sent, panic>>
  BY DEF ShellRestarts, log, job
<1>3. WhereInv'
  BY <1>1, <1>2, Zenon DEF SdInv, WhereInv
<1>4. SlotInv'
  BY <1>1, <1>2 DEF SdInv, SlotInv, Busy, slot
<1>5. ~Live'
  BY <1>1 DEF Live, Mounted, Busy
<1>6. LogInv'
  BY <1>1, <1>2, <1>5, LogStays DEF SdInv
<1>7. JobType'
  BY <1>1, <1>2 DEF SdInv, JobType
<1> QED
  BY <1>3, <1>4, <1>6, <1>7 DEF SdInv

(* The card goes only while the log is not used.                           *)
LEMMA CardKeepsDownloads ==
  ASSUME SdInv, \/ pc["writer"] # "work" /\ CardInserted
                \/ LogUnused /\ CardRemoved
  PROVE  SdInv'
<1>1. /\ pc' = pc
      /\ UNCHANGED <<card, tip, used, serial, buf, curr, last, left, sent, panic>>
  BY DEF CardInserted, CardRemoved, log, job
<1>2. WhereInv'
  BY <1>1, Zenon DEF SdInv, WhereInv
<1>3. SlotInv'
  <2>1. CASE pc["writer"] # "work" /\ CardInserted
    BY <1>1, <2>1 DEF CardInserted, SdInv, SlotInv, Busy
  <2>2. CASE LogUnused /\ CardRemoved
    <3>1. /\ inserted' = FALSE /\ active' = FALSE
          /\ pc["writer"] \in {"absent", "settle", "work", "dead"}
          /\ \A r \in Readers : ~Busy(r)
      BY <2>2 DEF CardRemoved, LogUnused, NoReader, Busy
    <3> QED
      BY <1>1, <3>1 DEF SlotInv, Busy
  <2> QED
    BY <2>1, <2>2
<1>4. Live' => Live
  BY <1>1 DEF Live, Mounted, Busy
<1>5. LogInv'
  BY <1>1, <1>4, LogStays DEF SdInv
<1>6. JobType'
  BY <1>1 DEF SdInv, JobType
<1> QED
  BY <1>2, <1>3, <1>5, <1>6 DEF SdInv

LEMMA SdStart == Init => SdInv
<1> SUFFICES ASSUME Init PROVE SdInv
  OBVIOUS
<1> USE MicroSdAssumption
<1>1. pc["writer"] = "absent" /\ \A r \in Readers : pc[r] = "idle"
  BY ThreadNames DEF Init
<1>2. WhereInv
  BY <1>1 DEF Init, WhereInv
<1>3. SlotInv /\ ~Live
  BY <1>1 DEF Init, SlotInv, Live, Mounted, Busy
<1>4. /\ serial = 0 /\ buf = 0 /\ card = [b \in Blocks |-> 0] /\ tip = 0 /\ used = 0
      /\ \A b \in Blocks : card[b] = 0
      /\ 0 \in Blocks
  BY DEF Init, Blocks
<1>5. CardInv
  <2>1. Filled(0)
    BY <1>4 DEF Filled, Blocks
  <2>2. card \in [Blocks -> 0 .. serial] /\ \E n \in 0 .. Capacity : Filled(n)
    BY <1>4, <2>1
  <2> QED
    BY <1>1, <1>4, <2>2 DEF CardInv
<1>6. RingInv
  BY <1>3, <1>4 DEF RingInv
<1>7. \A r \in Readers : DownInv(r)
  BY <1>1 DEF Init, DownInv
<1>8. JobType
  BY <1>1 DEF Init, JobType
<1> QED
  BY <1>2, <1>3, <1>5, <1>6, <1>7, <1>8 DEF SdInv, LogInv

(* Every step that keeps the rules keeps the downloads right.              *)
LEMMA SdStep ==
  ASSUME PortInv, LockInv("storage"), SdInv, [QuietNext]_vars
  PROVE  SdInv'
<1> USE ThreadNames
<1>1. SyncType /\ PlaceInv
  BY DEF PortInv, Queues
<1>2. CASE WriterStep \/ (NoReader /\ WriterInitsStorage)
  BY <1>1, <1>2, WriterKeepsDownloads
<1>3. CASE \E r \in Readers : ReaderStep(r) \/ (Mounted /\ used > 0 /\ Request(r))
  BY <1>1, <1>3, ReaderKeepsDownloads
<1>4. ASSUME NEW u \in PortUsers, UserStep(u) PROVE SdInv'
  <2>1. PICK p, q : Step(u, p, q) /\ UNCHANGED <<slot, log, buf, job, panic>>
    BY <1>4 DEF UserStep, UserTakesPort, UserGivesPort, Exits
  <2>2. pc'["writer"] = pc["writer"] /\ \A r \in Readers : pc'[r] = pc[r]
    BY <1>1, <2>1, StepMoves
  <2> QED
    BY <2>1, <2>2, ElsewhereKeepsDownloads DEF slot
<1>5. CASE ShellStat \/ ShellStatDone \/ ShellWipe \/ ShellLocksLog
  <2>1. PICK p, q : Step("shell", p, q) /\ UNCHANGED <<inserted, active, log, buf, job, panic>>
    BY <1>5 DEF ShellStat, ShellStatDone, ShellWipe, ShellLocksLog, slot
  <2>2. pc'["writer"] = pc["writer"] /\ \A r \in Readers : pc'[r] = pc[r]
    BY <1>1, <2>1, StepMoves
  <2> QED
    BY <2>1, <2>2, ElsewhereKeepsDownloads
<1>6. ASSUME NEW command \in {"wipe", "cross"}, ShellTerminates(command) \/ ShellJoins(command)
      PROVE  SdInv'
  <2>1. /\ pc' = pc \/ \E q : pc' = [pc EXCEPT !["shell"] = q]
        /\ UNCHANGED <<slot, log, buf, job, panic>>
    BY <1>6 DEF ShellTerminates, ShellJoins, Goto
  <2>2. pc'["writer"] = pc["writer"] /\ \A r \in Readers : pc'[r] = pc[r]
    BY <1>1, <2>1 DEF SyncType
  <2> QED
    BY <2>1, <2>2, ElsewhereKeepsDownloads DEF slot
<1>7. CASE ShellErases
  BY <1>1, <1>7, EraseKeepsDownloads
<1>8. CASE ShellRestarts
  BY <1>1, <1>8, RestartKeepsDownloads
<1>9. CASE (pc["writer"] # "work" /\ CardInserted) \/ (LogUnused /\ CardRemoved)
  BY <1>9, CardKeepsDownloads
<1>10. CASE UNCHANGED vars
  BY <1>10, ElsewhereKeepsDownloads DEF vars, slot
<1> QED
  BY <1>2, <1>3, <1>4, <1>5, <1>6, <1>7, <1>8, <1>9, <1>10 DEF QuietNext, ShellStep

(* The types follow.                                                       *)
LEMMA SdTypes ==
  ASSUME PortInv, LockInv("storage"), SdInv
  PROVE  TypeOK /\ NoPanic
<1>1. \A l \in Locks : free[l] \in {0, 1}
  BY DEF PortInv, LockInv
<1>2. ASSUME NEW l \in Locks PROVE free[l] = 0 \/ queue[l] = <<>>
  <2>1. SUFFICES ASSUME free[l] = 1, queue[l] # <<>> PROVE FALSE
    BY <1>1
  <2>2. queue[l] \in Seq(Threads) /\ QueueInv(l) /\ LockInv(l)
    BY DEF PortInv, Queues, SyncType, Locks
  <2>3. 1 \in 1 .. Len(queue[l]) /\ queue[l][1] \in Threads
    BY <2>1, <2>2, TailQueue
  <2>4. WaitsAt(queue[l][1], l)
    BY <2>2, <2>3 DEF QueueInv, Queued
  <2> QED
    BY <2>1, <2>2, <2>3, <2>4 DEF LockInv, InLock
<1>3. free \in [Locks -> {0, 1}] /\ blocked \subseteq Threads
  BY <1>1 DEF PortInv, Queues, SyncType
<1>4. /\ serial \in 0 .. MaxSerial /\ buf \in 0 .. serial /\ card \in [Blocks -> 0 .. serial]
      /\ tip \in Blocks /\ used \in 0 .. Capacity
  BY MicroSdAssumption DEF SdInv, LogInv, CardInv, RingInv
<1>5. /\ curr \in [Readers -> 0 .. MaxRec + Capacity] /\ last \in [Readers -> 0 .. Capacity]
      /\ left \in [Readers -> 0 .. Messages]
  BY DEF SdInv, JobType
<1>6. sent \in [Readers -> SUBSET (0 .. serial)]
  <2>1. ASSUME NEW r \in Readers PROVE sent[r] \subseteq 0 .. serial
    <3>1. pc[r] \in {"idle", "dead", "count", "next", "read", "send", "write"}
      BY DEF SdInv, WhereInv
    <3> QED
      BY <3>1 DEF SdInv, LogInv, DownInv
  <2> QED
    BY <2>1 DEF SdInv, JobType
<1>7. NoPanic
  BY Zenon DEF SdInv, WhereInv, NoPanic
<1> QED
  BY <1>2, <1>3, <1>4, <1>5, <1>6, <1>7 DEF TypeOK

(* While the rules of QuietNext are kept, a download sends records of the  *)
(* log, none of them twice, with whatever the writer records meanwhile; no *)
(* check of the code fails; one thread at a time writes to a port and one  *)
(* uses the buffer of the log (microsd.c:181-245, storage.h:53).           *)
THEOREM DownloadCorrect == QuietSpec => DownloadIsSound
<1> DEFINE AllInv == LogLocked /\ SdInv
<1>1. Init => AllInv
  BY PortInit, SdStart DEF LogLocked
<1>2. AllInv /\ [QuietNext]_vars => AllInv'
  BY LogLockedStep, SdStep DEF LogLocked
<1>3. AllInv => TypeOK /\ OneUserEach /\ NoPanic
  BY SdTypes, BufHolders DEF LogLocked
<1>4. AllInv => SendsSoundly
  <2> SUFFICES ASSUME LogLocked, SdInv, NEW r \in Readers, pc[r] = "send"
               PROVE  buf # 0 /\ buf \notin sent[r]
    BY DEF SendsSoundly
  <2>1. buf \in 1 .. serial /\ buf \notin sent[r]
    BY RecordIsNew DEF LogLocked
  <2> QED
    BY <2>1
<1> QED
  BY <1>1, <1>2, <1>3, <1>4, PTL DEF QuietSpec, DownloadIsSound
=============================================================================
