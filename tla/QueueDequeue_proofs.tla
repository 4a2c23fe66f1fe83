------------------------- MODULE QueueDequeue_proofs -------------------------
(***************************************************************************)
(* Proofs about QueueDequeue for any number of executors, versions and     *)
(* tasks, any limits of the queue and whatever the environment does.       *)
(***************************************************************************)
EXTENDS QueueDequeue, FiniteSetTheorems, TLAPS

(* Cardinalities of sets of tasks are numbers, hence so is what a limit    *)
(* leaves of itself.                                                       *)
LEMMA CountType ==
  ASSUME NEW T \in SUBSET Tasks
  PROVE  Cardinality(T) \in Nat
BY TasksAssumption, FS_Subset, FS_CardinalityType

LEMMA LeftType ==
  ASSUME NEW limit \in Nat, NEW used \in SUBSET Tasks
  PROVE  Left(limit, used) \in Nat
BY CountType DEF Left

LEMMA MaxTasksType ==
  ASSUME NEW e \in Executors
  PROVE  MaxTasks(e) \in Nat
<1>1. Pending \in SUBSET Tasks /\ PendingAt(e) \in SUBSET Tasks
  BY DEF Pending, PendingAt
<1>2. LocalRoom(e) \in Nat
  BY <1>1, LeftType, LimitsAssumption DEF LocalRoom, Limits
<1>3. Concurrency # NoLimit => Left(Concurrency, Pending) \in Nat
  BY <1>1, LeftType, LimitsAssumption DEF Limits
<1>4. QED BY <1>2, <1>3 DEF MaxTasks

LEMMA IdleTxnType == IdleTxn \in Txns
BY ClockAssumption DEF IdleTxn, Txns, Times

LEMMA TouchType ==
  ASSUME NEW x \in Txns, NEW T \in SUBSET Tasks
  PROVE  /\ Touch(x, T) \in Txns
         /\ Touch(x, T).pc = x.pc
         /\ Touch(x, T).left = x.left
         /\ Touch(x, T).picks = x.picks
         /\ Touch(x, T).room = x.room
         /\ x.pc = "locking" => Touch(x, T).stale = x.stale \cup T
<1> DEFINE st == IF x.pc = "locking" THEN x.stale \cup T ELSE {}
<1>1. Touch(x, T) = [x EXCEPT !.stale = st]
  BY DEF Touch
<1>2. st \in SUBSET Tasks /\ (x.pc = "locking" => st = x.stale \cup T)
  BY DEF Txns
<1> HIDE DEF st
<1>3. QED BY <1>1, <1>2 DEF Txns

LEMMA WriteType ==
  ASSUME TypeOK, NEW t \in Tasks, NEW row \in Rows, Write(t, row)
  PROVE  /\ rows' \in [Tasks -> Rows]
         /\ txn' \in [Executors -> Txns]
         /\ \A u \in Tasks : Locked(u) => rows'[u] = rows[u]
         /\ \A u \in Tasks : u # t => rows'[u] = rows[u]
         /\ \A e \in Executors : txn'[e] = Touch(txn[e], {t})
<1>1. \A e \in Executors : Touch(txn[e], {t}) \in Txns
  BY TouchType DEF TypeOK
<1>2. QED BY <1>1 DEF Write, TypeOK

LEMMA EnqueuedRowType ==
  ASSUME NEW t \in Tasks
  PROVE  EnqueueOnQueue(t) \in Rows
BY DEF EnqueueOnQueue, Rows, Statuses, Versions

(* The rows that are written keep their type.                              *)
LEMMA CancelledRow ==
  ASSUME TypeOK, NEW t \in Tasks
  PROVE  LET row == [rows[t] EXCEPT !.status = "CANCELLED", !.queued = FALSE, !.started = NoTime]
         IN  row \in Rows /\ row.status = "CANCELLED"
<1>1. rows[t] \in Rows
  BY DEF TypeOK
<1>2. QED BY <1>1, ZenonT(40) DEF Rows, Statuses

LEMMA RecordedRow ==
  ASSUME TypeOK, NEW t \in Tasks, NEW e \in Executors
  PROVE  LET row == [rows[t] EXCEPT !.executor = e]
         IN  /\ row \in Rows /\ row.status = rows[t].status
             /\ row.executor = e /\ row.queued = rows[t].queued
<1>1. rows[t] \in Rows
  BY DEF TypeOK
<1>2. QED BY <1>1, SMTT(20) DEF Rows

LEMMA CompletedRow ==
  ASSUME TypeOK, NEW t \in Tasks
  PROVE  LET row == [rows[t] EXCEPT !.status = "COMPLETED"]
         IN  row \in Rows /\ row.status = "COMPLETED"
<1>1. rows[t] \in Rows
  BY DEF TypeOK
<1>2. QED BY <1>1, SMTT(20) DEF Rows, Statuses

LEMMA RequeuedRow ==
  ASSUME TypeOK, NEW t \in Tasks
  PROVE  LET row == [rows[t] EXCEPT !.status = "ENQUEUED", !.started = NoTime]
         IN  row \in Rows /\ row.status = "ENQUEUED" /\ row.queued = rows[t].queued
<1>1. rows[t] \in Rows
  BY DEF TypeOK
<1>2. QED BY <1>1, ZenonT(40) DEF Rows, Statuses

(* Type correctness.                                                       *)
LEMMA InitTypeOK == Init => TypeOK
BY IdleTxnType, ClockAssumption
DEF Init, TypeOK, NoRow, Rows, Statuses, Times

LEMMA SnapshotTxn ==
  ASSUME TypeOK, NEW e \in Executors, Snapshot(e)
  PROVE  /\ txn' \in [Executors -> Txns]
         /\ txn[e].pc = "begun"
         /\ \/ txn'[e] = IdleTxn
            \/ /\ txn'[e].left = Candidates(e) /\ txn'[e].picks = txn[e].picks
               /\ txn'[e].room = MaxTasks(e) /\ txn'[e].pc = "locking"
         /\ \A f \in Executors \ {e} : txn'[f] = txn[f]
<1> DEFINE n == Cardinality(Recent(txn[e].now))
           new == [txn[e] EXCEPT !.pc = "locking", !.recent = n,
                                 !.room = MaxTasks(e), !.left = Candidates(e)]
<1>1. n \in Nat
  BY CountType DEF Recent
<1>2. MaxTasks(e) \in Nat /\ Candidates(e) \in SUBSET Tasks
  BY MaxTasksType DEF Candidates
<1>3. txn[e].pc = "begun" /\ (txn' = [txn EXCEPT ![e] = IdleTxn] \/ txn' = [txn EXCEPT ![e] = new])
  BY DEF Snapshot
<1> HIDE DEF n
<1>4. new \in Txns /\ new.left = Candidates(e) /\ new.picks = txn[e].picks
      /\ new.room = MaxTasks(e) /\ new.pc = "locking"
  BY <1>1, <1>2, ZenonT(40) DEF Txns, TypeOK
<1> HIDE DEF new
<1>5. QED BY <1>3, <1>4, IdleTxnType DEF TypeOK

LEMMA LockRowTxn ==
  ASSUME TypeOK, NEW e \in Executors, LockRow(e)
  PROVE  /\ txn' \in [Executors -> Txns]
         /\ txn[e].pc = "locking"
         /\ txn[e].room \in Nat \ {0}
         /\ \A f \in Executors \ {e} : txn'[f] = txn[f]
         /\ \/ txn'[e] = IdleTxn
            \/ \E t \in txn[e].left :
                 /\ FirstBy(txn[e].left, t)
                 /\ txn'[e].pc = "locking"
                 /\ txn'[e].stale = txn[e].stale
                 /\ txn'[e].left = txn[e].left \ {t}
                 /\ \/ /\ txn'[e].picks = txn[e].picks /\ txn'[e].room = txn[e].room
                       /\ Concurrency = NoLimit
                    \/ /\ txn'[e].picks = txn[e].picks \cup {t}
                       /\ txn'[e].room = txn[e].room - 1
                       /\ ~LockedByOther(e, t) /\ t \notin txn[e].stale
<1>0. txn[e] \in Txns /\ txn[e].pc = "locking" /\ txn[e].room # 0
      /\ txn[e].room \in Nat
  BY DEF LockRow, ScanOver, TypeOK, Txns
<1>1. PICK t \in txn[e].left :
        FirstBy(txn[e].left, t) /\ txn' = [txn EXCEPT ![e] = TryLock(e, t)]
  BY DEF LockRow
<1>2. t \in Tasks /\ txn[e].room - 1 \in Nat
  BY <1>0 DEF Txns
<1> DEFINE skip == Skip(txn[e], t)
           take == Take(txn[e], t)
<1>3. /\ skip \in Txns /\ skip.pc = "locking" /\ skip.stale = txn[e].stale
      /\ skip.left = txn[e].left \ {t} /\ skip.picks = txn[e].picks
      /\ skip.room = txn[e].room
  BY <1>0 DEF Txns, Skip
<1>4. /\ take \in Txns /\ take.pc = "locking" /\ take.stale = txn[e].stale
      /\ take.left = txn[e].left \ {t} /\ take.picks = txn[e].picks \cup {t}
      /\ take.room = txn[e].room - 1
  BY <1>0, <1>2 DEF Txns, Take
<1>5. \/ TryLock(e, t) = IdleTxn \/ (TryLock(e, t) = skip /\ Concurrency = NoLimit)
      \/ TryLock(e, t) = take /\ ~LockedByOther(e, t) /\ t \notin txn[e].stale
  BY DEF TryLock, Stale
<1> HIDE DEF skip, take
<1>6. QED BY <1>0, <1>1, <1>3, <1>4, <1>5, IdleTxnType DEF TypeOK

LEMMA CommitEffect ==
  ASSUME TypeOK, NEW e \in Executors, Commit(e)
  PROVE  /\ rows' \in [Tasks -> Rows]
         /\ txn' \in [Executors -> Txns]
         /\ todo' \in [Executors -> SUBSET Tasks]
         /\ starts' \subseteq Tasks \X Times
         /\ txn'[e] = IdleTxn
         /\ Started(e) \subseteq txn[e].picks
         /\ \A t \in Tasks : t \notin Started(e) => rows'[t] = rows[t]
         /\ \A f \in Executors \ {e} : txn'[f] = Touch(txn[f], Started(e))
<1>0. txn[e] \in Txns
  BY DEF TypeOK
<1>1. Started(e) \subseteq txn[e].picks
  BY DEF Started
<1>2. Started(e) \in SUBSET Tasks /\ txn[e].now \in Times
  BY <1>0, <1>1 DEF Txns
<1>3. \A t \in Tasks : Dequeued(e, t) \in Rows
  BY <1>2, ZenonT(40) DEF Dequeued, TypeOK, Rows, Statuses, Versions
<1>4. \A f \in Executors : Touch(txn[f], Started(e)) \in Txns
  BY <1>2, TouchType DEF TypeOK
<1>5. /\ rows' = [t \in Tasks |-> IF t \in Started(e) THEN Dequeued(e, t) ELSE rows[t]]
      /\ txn' = [f \in Executors |-> IF f = e THEN IdleTxn ELSE Touch(txn[f], Started(e))]
      /\ starts' = starts \cup (Started(e) \X {txn[e].now})
      /\ todo' = [todo EXCEPT ![e] = Started(e)] \/ todo' = todo
  BY DEF Commit
<1>6. rows' \in [Tasks -> Rows]
  BY <1>3, <1>5 DEF TypeOK
<1>7. txn' \in [Executors -> Txns]
  BY <1>4, <1>5, IdleTxnType
<1>8. todo' \in [Executors -> SUBSET Tasks] /\ starts' \subseteq Tasks \X Times
  BY <1>2, <1>5 DEF TypeOK
<1>9. QED BY <1>1, <1>5, <1>6, <1>7, <1>8

LEMMA NextTypeOK == TypeOK /\ [Next]_vars => TypeOK'
<1> SUFFICES ASSUME TypeOK, [Next]_vars PROVE TypeOK'
  OBVIOUS
<1>1. ASSUME NEW t \in Tasks, Enqueue(t) PROVE TypeOK'
  BY <1>1, WriteType, EnqueuedRowType DEF Enqueue, TypeOK
<1>2. ASSUME NEW t \in Tasks, Cancel(t) PROVE TypeOK'
  <2>1. [rows[t] EXCEPT !.status = "CANCELLED", !.queued = FALSE, !.started = NoTime] \in Rows
    BY CancelledRow
  <2>2. QED BY <1>2, <2>1, WriteType DEF Cancel, TypeOK
<1>3. ASSUME NEW e \in Executors, Poll(e) PROVE TypeOK'
  <2>1. [txn[e] EXCEPT !.pc = "begun", !.now = clock] \in Txns
    BY ZenonT(40) DEF TypeOK, Txns
  <2>2. txn' = [txn EXCEPT ![e] = [txn[e] EXCEPT !.pc = "begun", !.now = clock]]
    BY <1>3 DEF Poll
  <2>3. QED BY <1>3, <2>1, <2>2 DEF Poll, TypeOK
<1>4. ASSUME NEW e \in Executors, Snapshot(e) PROVE TypeOK'
  BY <1>4, SnapshotTxn DEF Snapshot, TypeOK
<1>5. ASSUME NEW e \in Executors, LockRow(e) PROVE TypeOK'
  BY <1>5, LockRowTxn DEF LockRow, TypeOK
<1>6. ASSUME NEW e \in Executors, Commit(e) PROVE TypeOK'
  BY <1>6, CommitEffect DEF Commit, TypeOK
<1>7. ASSUME NEW e \in Executors, NEW t \in Tasks, Executes(e, t)
      PROVE  running' \in [Executors -> SUBSET Tasks]
  BY <1>7 DEF Executes, TypeOK
<1>8. ASSUME NEW e \in Executors, NEW t \in Tasks, Execute(e, t) PROVE TypeOK'
  BY <1>7, <1>8 DEF Execute, TypeOK
<1>9. ASSUME NEW e \in Executors, Crash(e) PROVE TypeOK'
  BY <1>9, IdleTxnType DEF Crash, TypeOK
<1>10. ASSUME NEW e \in Executors, Launch(e) PROVE TypeOK'
  BY <1>10 DEF Launch, PendingOf, TypeOK
<1>11. ASSUME NEW e \in Executors, NEW t \in Tasks, RecordStep(e, t) PROVE TypeOK'
  <2>1. [rows[t] EXCEPT !.executor = e] \in Rows
    BY RecordedRow
  <2>2. QED BY <1>11, <2>1, WriteType DEF RecordStep, TypeOK
<1>12. ASSUME NEW e \in Executors, NEW t \in Tasks, Finish(e, t) PROVE TypeOK'
  <2>1. [rows[t] EXCEPT !.status = "COMPLETED"] \in Rows
    BY CompletedRow
  <2>2. QED BY <1>12, <2>1, WriteType DEF Finish, TypeOK
<1>13. ASSUME NEW e \in Executors, NEW t \in Tasks, Unwind(e, t) PROVE TypeOK'
  BY <1>13 DEF Unwind, TypeOK
<1>14. ASSUME NEW e \in Executors, NEW t \in Tasks, RecoverWorkflow(e, t) PROVE TypeOK'
  <2>1. [rows[t] EXCEPT !.status = "ENQUEUED", !.started = NoTime] \in Rows
    BY RequeuedRow
  <2>2. CASE t \in Pending
    BY <1>14, <2>1, <2>2, WriteType DEF RecoverWorkflow, TypeOK
  <2>3. CASE t \notin Pending
    BY <1>7, <1>14, <2>3 DEF RecoverWorkflow, TypeOK
  <2>4. QED BY <2>2, <2>3
<1>15. ASSUME NEW e \in Executors, NEW x \in Executors, RecoverPending(e, x) PROVE TypeOK'
  BY <1>15 DEF RecoverPending, PendingOf, TypeOK
<1>16. CASE Tick
  BY <1>16, ClockAssumption DEF Tick, TypeOK, Times
<1>17. CASE UNCHANGED vars
  BY <1>17 DEF vars, TypeOK
<1>18. QED
  BY <1>1, <1>2, <1>3, <1>4, <1>5, <1>6, <1>8, <1>9, <1>10, <1>11, <1>12, <1>13,
     <1>14, <1>15, <1>16, <1>17 DEF Next, Worker

(* The rows, the open transactions and the executors' lists keep their     *)
(* types: in particular max_tasks is never negative (TypeOK).              *)
THEOREM QueueTypeCorrect == Spec => []TypeOK
BY InitTypeOK, NextTypeOK, PTL DEF Spec

-----------------------------------------------------------------------------
(* Locks.  LocksSound is not inductive: that a row about to be locked      *)
(* still waits has to be known of every candidate of the snapshot.         *)
Waiting(t) == rows[t].status = "ENQUEUED" /\ rows[t].queued

Fresh(e) ==
  /\ txn[e].pc # "locking" => txn[e].left = {} /\ txn[e].picks = {}
  /\ \A t \in txn[e].left : t \in txn[e].stale \/ Waiting(t)
  /\ \A t \in txn[e].picks : /\ t \notin txn[e].stale
                             /\ Waiting(t)
                             /\ ~LockedByOther(e, t)

LockInv == \A e \in Executors : Fresh(e)

LEMMA IdleFresh ==
  ASSUME NEW e \in Executors, txn'[e] = IdleTxn
  PROVE  Fresh(e)'
BY DEF Fresh, IdleTxn

(* What a write of one row does to the open transactions.                  *)
LEMMA WriteTxn ==
  ASSUME TypeOK, NEW t \in Tasks, NEW row \in Rows, Write(t, row)
  PROVE  \A f \in Executors :
           /\ txn'[f].pc = txn[f].pc /\ txn'[f].left = txn[f].left
           /\ txn'[f].picks = txn[f].picks /\ txn'[f].room = txn[f].room
           /\ txn[f].pc = "locking" => txn'[f].stale = txn[f].stale \cup {t}
<1> SUFFICES ASSUME NEW f \in Executors
    PROVE  /\ txn'[f].pc = txn[f].pc /\ txn'[f].left = txn[f].left
           /\ txn'[f].picks = txn[f].picks /\ txn'[f].room = txn[f].room
           /\ txn[f].pc = "locking" => txn'[f].stale = txn[f].stale \cup {t}
  OBVIOUS
<1>1. txn'[f] = Touch(txn[f], {t})
  BY WriteType
<1>2. txn[f] \in Txns /\ {t} \in SUBSET Tasks
  BY DEF TypeOK
<1>3. QED BY <1>1, <1>2, TouchType

(* A write of one row that is not locked.                                  *)
LEMMA WriteFresh ==
  ASSUME TypeOK, LockInv, NEW t \in Tasks, NEW row \in Rows, Write(t, row)
  PROVE  LockInv'
<1> SUFFICES ASSUME NEW e \in Executors PROVE Fresh(e)'
  BY DEF LockInv
<1>0. txn[e] \in Txns /\ txn[e].left \subseteq Tasks /\ txn[e].picks \subseteq Tasks
  BY DEF TypeOK, Txns
<1>1. \A f \in Executors :
        /\ txn'[f].pc = txn[f].pc /\ txn'[f].left = txn[f].left
        /\ txn'[f].picks = txn[f].picks
        /\ txn[f].pc = "locking" => txn'[f].stale = txn[f].stale \cup {t}
  BY WriteTxn
<1>2. t \notin txn[e].picks
  BY DEF Write, Locked
<1>3. \A u \in Tasks : u # t => (Waiting(u)' <=> Waiting(u))
  BY WriteType DEF Waiting
<1>4. Fresh(e)
  BY DEF LockInv
<1>5. CASE txn[e].pc # "locking"
  BY <1>1, <1>4, <1>5 DEF Fresh
<1>6. CASE txn[e].pc = "locking"
  <2>1. \A u \in txn[e].left : u \in txn'[e].stale \/ Waiting(u)'
    BY <1>0, <1>1, <1>3, <1>4, <1>6 DEF Fresh
  <2>2. \A u \in txn[e].picks : u \notin txn'[e].stale /\ Waiting(u)'
    BY <1>0, <1>1, <1>2, <1>3, <1>4, <1>6 DEF Fresh
  <2>3. \A u \in txn[e].picks : ~LockedByOther(e, u)'
    BY <1>1, <1>4 DEF Fresh, LockedByOther
  <2>4. QED BY <1>1, <1>6, <2>1, <2>2, <2>3 DEF Fresh
<1>7. QED BY <1>5, <1>6

(* What e does to its own transaction alone.                               *)
LEMMA OthersFresh ==
  ASSUME LockInv, NEW e \in Executors, rows' = rows,
         \A f \in Executors \ {e} : txn'[f] = txn[f],
         NEW f \in Executors \ {e},
         \A t \in txn'[e].picks : t \in txn[e].picks \/ ~LockedByOther(e, t)
  PROVE  Fresh(f)'
<1>1. \A t : Waiting(t)' <=> Waiting(t)
  BY DEF Waiting
<1>2. \A t \in txn[f].picks : ~LockedByOther(f, t)'
  BY DEF LockInv, Fresh, LockedByOther
<1>3. QED BY <1>1, <1>2 DEF LockInv, Fresh

LEMMA CommitFresh ==
  ASSUME TypeOK, LockInv, NEW e \in Executors, Commit(e)
  PROVE  LockInv'
<1> SUFFICES ASSUME NEW f \in Executors PROVE Fresh(f)'
  BY DEF LockInv
<1>1. CASE f = e
  BY <1>1, CommitEffect, IdleFresh
<1>2. CASE f # e
  <2>0. /\ txn[f] \in Txns /\ txn[f].left \subseteq Tasks /\ txn[f].picks \subseteq Tasks
        /\ Started(e) \in SUBSET Tasks /\ Started(e) \subseteq txn[e].picks
    BY CommitEffect DEF TypeOK, Txns
  <2>1. \A g \in Executors \ {e} :
          /\ txn'[g].pc = txn[g].pc /\ txn'[g].left = txn[g].left
          /\ txn'[g].picks = txn[g].picks
          /\ txn[g].pc = "locking" => txn'[g].stale = txn[g].stale \cup Started(e)
    BY <2>0, CommitEffect, TouchType DEF TypeOK
  <2>2. txn'[e].picks = {}
    BY CommitEffect DEF IdleTxn
  <2>3. \A t \in txn[f].picks : t \notin Started(e)
    BY <1>2, <2>0 DEF LockInv, Fresh, LockedByOther
  <2>4. \A t \in Tasks : t \notin Started(e) => (Waiting(t)' <=> Waiting(t))
    BY CommitEffect DEF Waiting
  <2>5. Fresh(f)
    BY DEF LockInv
  <2>6. CASE txn[f].pc # "locking"
    BY <1>2, <2>1, <2>5, <2>6 DEF Fresh
  <2>7. CASE txn[f].pc = "locking"
    <3>1. \A t \in txn[f].left : t \in txn'[f].stale \/ Waiting(t)'
      BY <1>2, <2>0, <2>1, <2>4, <2>5, <2>7 DEF Fresh
    <3>2. \A t \in txn[f].picks : t \notin txn'[f].stale /\ Waiting(t)'
      BY <1>2, <2>0, <2>1, <2>3, <2>4, <2>5, <2>7 DEF Fresh
    <3>3. \A t \in txn[f].picks : ~LockedByOther(f, t)'
      BY <2>1, <2>2, <2>5 DEF Fresh, LockedByOther
    <3>4. QED BY <1>2, <2>1, <2>7, <3>1, <3>2, <3>3 DEF Fresh
  <2>8. QED BY <2>6, <2>7
<1>3. QED BY <1>1, <1>2

LEMMA InitLockInv == Init => LockInv
BY DEF Init, LockInv, Fresh, IdleTxn

LEMMA NextLockInv == TypeOK /\ LockInv /\ [Next]_vars => LockInv'
<1> SUFFICES ASSUME TypeOK, LockInv, [Next]_vars PROVE LockInv'
  OBVIOUS
<1>1. ASSUME NEW t \in Tasks, Enqueue(t) PROVE LockInv'
  BY <1>1, WriteFresh, EnqueuedRowType DEF Enqueue
<1>2. ASSUME NEW t \in Tasks, Cancel(t) PROVE LockInv'
  <2>1. [rows[t] EXCEPT !.status = "CANCELLED", !.queued = FALSE, !.started = NoTime] \in Rows
    BY CancelledRow
  <2>2. QED BY <1>2, <2>1, WriteFresh DEF Cancel
<1>3. ASSUME NEW e \in Executors, Poll(e) PROVE LockInv'
  <2>1. /\ rows' = rows /\ txn[e].pc = "idle"
        /\ txn' = [txn EXCEPT ![e].pc = "begun", ![e].now = clock]
    BY <1>3 DEF Poll
  <2>2. /\ \A f \in Executors \ {e} : txn'[f] = txn[f]
        /\ txn'[e].pc = "begun"
        /\ txn'[e].left = txn[e].left /\ txn'[e].picks = txn[e].picks
    BY <2>1 DEF TypeOK, Txns
  <2>3. Fresh(e)'
    BY <2>1, <2>2 DEF LockInv, Fresh
  <2>4. \A f \in Executors \ {e} : Fresh(f)'
    BY <2>1, <2>2, OthersFresh
  <2>5. QED BY <2>3, <2>4 DEF LockInv
<1>4. ASSUME NEW e \in Executors, Snapshot(e) PROVE LockInv'
  <2>1. /\ rows' = rows /\ txn[e].pc = "begun"
        /\ \A f \in Executors \ {e} : txn'[f] = txn[f]
        /\ txn'[e] = IdleTxn \/ (txn'[e].left = Candidates(e) /\ txn'[e].picks = {})
        /\ txn'[e] = IdleTxn \/ txn'[e].pc = "locking"
    <3>1. txn[e].picks = {} /\ rows' = rows
      BY <1>4 DEF Snapshot, LockInv, Fresh
    <3>2. txn'[e] = IdleTxn \/ txn'[e].pc = "locking"
      BY <1>4 DEF Snapshot, TypeOK, Txns
    <3>3. QED BY <1>4, <3>1, <3>2, SnapshotTxn
  <2>2. CASE txn'[e] = IdleTxn
    <3>1. txn'[e].picks = {}
      BY <2>2 DEF IdleTxn
    <3>2. \A f \in Executors \ {e} : Fresh(f)'
      BY <2>1, <3>1, OthersFresh
    <3>3. QED BY <2>2, <3>2, IdleFresh DEF LockInv
  <2>3. CASE txn'[e] # IdleTxn
    <3>1. Fresh(e)'
      BY <2>1, <2>3 DEF Fresh, Candidates, Waiting
    <3>2. \A f \in Executors \ {e} : Fresh(f)'
      BY <2>1, <2>3, OthersFresh
    <3>3. QED BY <3>1, <3>2 DEF LockInv
  <2>4. QED BY <2>2, <2>3
<1>5. ASSUME NEW e \in Executors, LockRow(e) PROVE LockInv'
  <2>1. rows' = rows /\ \A f \in Executors \ {e} : txn'[f] = txn[f]
    BY <1>5, LockRowTxn DEF LockRow
  <2>2. CASE txn'[e] = IdleTxn
    <3>1. txn'[e].picks = {}
      BY <2>2 DEF IdleTxn
    <3>2. \A f \in Executors \ {e} : Fresh(f)'
      BY <2>1, <3>1, OthersFresh
    <3>3. QED BY <2>2, <3>2, IdleFresh DEF LockInv
  <2>3. CASE txn'[e] # IdleTxn
    <3>1. PICK t \in txn[e].left :
            /\ txn'[e].pc = "locking"
            /\ txn'[e].stale = txn[e].stale
            /\ txn'[e].left = txn[e].left \ {t}
            /\ \/ txn'[e].picks = txn[e].picks
               \/ /\ txn'[e].picks = txn[e].picks \cup {t}
                  /\ ~LockedByOther(e, t) /\ t \notin txn[e].stale
      BY <1>5, <2>3, LockRowTxn
    <3>2. Waiting(t) \/ t \in txn[e].stale
      BY DEF LockInv, Fresh
    <3>3. \A u : Waiting(u)' <=> Waiting(u)
      BY <2>1 DEF Waiting
    <3>4. \A u : LockedByOther(e, u)' <=> LockedByOther(e, u)
      BY <2>1 DEF LockedByOther
    <3>5. Fresh(e)'
      BY <3>1, <3>2, <3>3, <3>4 DEF LockInv, Fresh
    <3>6. \A f \in Executors \ {e} : Fresh(f)'
      BY <2>1, <3>1, OthersFresh
    <3>7. QED BY <3>5, <3>6 DEF LockInv
  <2>4. QED BY <2>2, <2>3
<1>6. ASSUME NEW e \in Executors, Commit(e) PROVE LockInv'
  BY <1>6, CommitFresh
<1>7. ASSUME NEW e \in Executors, NEW t \in Tasks, RecordStep(e, t) PROVE LockInv'
  <2>1. [rows[t] EXCEPT !.executor = e] \in Rows
    BY RecordedRow
  <2>2. QED BY <1>7, <2>1, WriteFresh DEF RecordStep
<1>8. ASSUME NEW e \in Executors, NEW t \in Tasks, Finish(e, t) PROVE LockInv'
  <2>1. [rows[t] EXCEPT !.status = "COMPLETED"] \in Rows
    BY CompletedRow
  <2>2. QED BY <1>8, <2>1, WriteFresh DEF Finish
<1>9. ASSUME UNCHANGED <<rows, txn>> PROVE LockInv'
  BY <1>9 DEF LockInv, Fresh, Waiting, LockedByOther
<1>10. ASSUME NEW e \in Executors, NEW t \in Tasks, RecoverWorkflow(e, t) PROVE LockInv'
  <2>1. [rows[t] EXCEPT !.status = "ENQUEUED", !.started = NoTime] \in Rows
    BY RequeuedRow
  <2>2. CASE t \in Pending
    BY <1>10, <2>1, <2>2, WriteFresh DEF RecoverWorkflow
  <2>3. CASE t \notin Pending
    BY <1>9, <1>10, <2>3 DEF RecoverWorkflow
  <2>4. QED BY <2>2, <2>3
<1>11. ASSUME NEW e \in Executors, Crash(e) PROVE LockInv'
  <2>1. /\ rows' = rows /\ txn'[e] = IdleTxn
        /\ \A f \in Executors \ {e} : txn'[f] = txn[f]
    BY <1>11 DEF Crash, TypeOK
  <2>2. txn'[e].picks = {}
    BY <2>1 DEF IdleTxn
  <2>3. \A f \in Executors \ {e} : Fresh(f)'
    BY <2>1, <2>2, OthersFresh
  <2>4. QED BY <2>1, <2>3, IdleFresh DEF LockInv
<1>12. QED
  BY <1>1, <1>2, <1>3, <1>4, <1>5, <1>6, <1>7, <1>8, <1>9, <1>10, <1>11
  DEF Next, Worker, vars, Execute, Launch, Unwind, RecoverPending, Tick

(* No row is locked twice, and what a transaction has locked still waits   *)
(* on the queue and has not been written since its snapshot: no task is    *)
(* dequeued twice, however the transactions, cancellations and recoveries  *)
(* interleave (LocksSound).                                                *)
THEOREM LocksSoundCorrect == Spec => []LocksSound
<1>1. LockInv => LocksSound
  BY DEF LockInv, Fresh, Waiting, LocksSound
<1>2. QED BY InitTypeOK, NextTypeOK, InitLockInv, NextLockInv, <1>1, PTL DEF Spec

-----------------------------------------------------------------------------
(* Owners.  Without a conductor a task is in the hands of at most one      *)
(* executor, and it stays there from the dequeue to its end.  OneHolder is *)
(* not inductive: a task about to be recovered is not held yet, and what a *)
(* dequeue puts in todo is only safe there because todo was empty and no   *)
(* task that waits on the queue is in anyone's hands.                      *)
Claims(e) == todo[e] \cup running[e] \cup listed[e]

Owns(e, t) ==
  /\ rows[t].status \in {"PENDING", "CANCELLED"}
  /\ rows[t].status = "PENDING" => rows[t].executor = e

Owner(e) ==
  /\ e \notin up => Claims(e) = {} /\ txn[e].pc = "idle"
  /\ txn[e].pc # "idle" => todo[e] = {}
  /\ running[e] \cap (todo[e] \cup listed[e]) = {}
  /\ todo[e] \cap listed[e] = {}
  /\ \A t \in Claims(e) : Owns(e, t) /\ \A f \in Executors \ {e} : t \notin Claims(f)

OnQueue(t) == rows[t].status \in {"ENQUEUED", "PENDING"} => rows[t].queued

OwnerInv == (\A e \in Executors : Owner(e)) /\ \A t \in Tasks : OnQueue(t)

LEMMA InitOwnerInv == Init => OwnerInv
BY DEF Init, OwnerInv, Owner, OnQueue, Claims, NoRow, IdleTxn

LEMMA OwnerHolds == OwnerInv => OneHolder
BY DEF OwnerInv, Owner, Owns, Claims, OneHolder, Holds

(* A step that only moves tasks from one list of an executor to another,   *)
(* or drops them.                                                          *)
LEMMA ClaimsKept ==
  ASSUME OwnerInv, up' = up,
         \A e \in Executors :
           /\ todo'[e] \subseteq todo[e] /\ listed'[e] \subseteq listed[e]
           /\ running'[e] \subseteq running[e] \cup (todo[e] \ todo'[e])
                                             \cup (listed[e] \ listed'[e])
           /\ txn'[e].pc \in {"idle", txn[e].pc} \/ (e \in up /\ todo[e] = {})
           /\ \A t \in Claims(e)' : Owns(e, t)',
         \A t \in Tasks : OnQueue(t)'
  PROVE  OwnerInv'
<1>1. \A e \in Executors : Claims(e)' \subseteq Claims(e)
  BY DEF Claims
<1>2. ASSUME NEW e \in Executors PROVE Owner(e)'
  <2>1. Owner(e)
    BY DEF OwnerInv
  <2>2. e \notin up' => Claims(e)' = {} /\ txn'[e].pc = "idle"
    BY <1>1, <2>1 DEF Owner
  <2>3. txn'[e].pc # "idle" => todo'[e] = {}
    BY <2>1 DEF Owner
  <2>4. running'[e] \cap (todo'[e] \cup listed'[e]) = {} /\ todo'[e] \cap listed'[e] = {}
    BY <2>1 DEF Owner
  <2>5. \A t \in Claims(e)' : \A f \in Executors \ {e} : t \notin Claims(f)'
    BY <1>1, <2>1 DEF Owner
  <2>6. QED BY <2>2, <2>3, <2>4, <2>5 DEF Owner
<1>3. QED BY <1>2 DEF OwnerInv

(* A write of one row after which its holder still owns it.                *)
LEMMA WriteOwner ==
  ASSUME TypeOK, OwnerInv, up' = up, NEW t \in Tasks, NEW row \in Rows, Write(t, row),
         \A e \in Executors :
           /\ todo'[e] \subseteq todo[e] /\ listed'[e] \subseteq listed[e]
           /\ running'[e] \subseteq running[e]
           /\ t \in Claims(e)' => /\ row.status \in {"PENDING", "CANCELLED"}
                                  /\ row.status = "PENDING" => row.executor = e,
         row.status \in {"ENQUEUED", "PENDING"} => row.queued
  PROVE  OwnerInv'
<1>1. rows'[t] = row /\ \A u \in Tasks : u # t => rows'[u] = rows[u]
  BY WriteType DEF Write, TypeOK
<1>2. \A e \in Executors : Claims(e) \subseteq Tasks /\ Claims(e)' \subseteq Claims(e)
  BY DEF Claims, TypeOK
<1>3. \A e \in Executors : txn'[e].pc = txn[e].pc
  BY WriteTxn
<1>4. ASSUME NEW e \in Executors, NEW u \in Claims(e)' PROVE Owns(e, u)'
  <2>1. CASE u = t
    BY <1>1, <2>1 DEF Owns
  <2>2. CASE u # t
    <3>1. Owns(e, u)
      BY <1>2 DEF OwnerInv, Owner
    <3>2. QED BY <1>1, <1>2, <2>2, <3>1 DEF Owns
  <2>3. QED BY <2>1, <2>2
<1>5. \A u \in Tasks : OnQueue(u)'
  BY <1>1 DEF OwnerInv, OnQueue
<1>6. QED BY <1>3, <1>4, <1>5, ClaimsKept

(* A step that leaves the rows alone.                                      *)
LEMMA QuietOwner ==
  ASSUME OwnerInv, up' = up, rows' = rows,
         \A e \in Executors :
           /\ todo'[e] \subseteq todo[e] /\ listed'[e] \subseteq listed[e]
           /\ running'[e] \subseteq running[e] \cup (todo[e] \ todo'[e])
                                             \cup (listed[e] \ listed'[e])
           /\ txn'[e].pc \in {"idle", txn[e].pc} \/ (e \in up /\ todo[e] = {})
  PROVE  OwnerInv'
<1>1. \A e \in Executors : Claims(e)' \subseteq Claims(e)
  BY DEF Claims
<1>2. \A e \in Executors : \A t \in Claims(e)' : Owns(e, t)'
  BY <1>1 DEF OwnerInv, Owner, Owns
<1>3. \A t \in Tasks : OnQueue(t)'
  BY DEF OwnerInv, OnQueue
<1>4. QED BY <1>2, <1>3, ClaimsKept

(* What is dequeued waited on the queue, so nobody had it.                 *)
LEMMA CommitOwner ==
  ASSUME TypeOK, LockInv, OwnerInv, NEW e \in Executors, Commit(e)
  PROVE  OwnerInv'
<1> DEFINE T == Started(e)
<1>1. /\ todo' = todo \/ todo' = [todo EXCEPT ![e] = T]
      /\ up' = up /\ running' = running /\ listed' = listed
      /\ txn[e].pc = "locking"
      /\ rows' = [t \in Tasks |-> IF t \in T THEN Dequeued(e, t) ELSE rows[t]]
  BY DEF Commit
<1>2. T \subseteq Tasks /\ \A t \in T : Waiting(t)
  BY CommitEffect DEF TypeOK, Txns, LockInv, Fresh
<1> HIDE DEF T
<1>3. /\ \A t \in T : rows'[t].status = "PENDING" /\ rows'[t].executor = e /\ rows'[t].queued
      /\ \A t \in Tasks \ T : rows'[t] = rows[t]
  BY <1>1, <1>2, ZenonT(40) DEF Dequeued, Waiting, TypeOK, Rows
<1>4. \A f \in Executors : Claims(f) \subseteq Tasks /\ Claims(f) \cap T = {}
  BY <1>2 DEF OwnerInv, Owner, Owns, Waiting, Claims, TypeOK
<1>5. /\ e \in up /\ todo[e] = {}
      /\ Claims(e)' \subseteq Claims(e) \cup T
      /\ \A f \in Executors \ {e} : Claims(f)' = Claims(f) /\ todo'[f] = todo[f]
      /\ todo'[e] = {} \/ todo'[e] = T
  BY <1>1 DEF OwnerInv, Owner, Claims, TypeOK
<1>6. \A f \in Executors \ {e} : txn'[f].pc = txn[f].pc
  BY <1>2, CommitEffect, TouchType DEF TypeOK, T
<1>7. txn'[e].pc = "idle"
  BY CommitEffect DEF IdleTxn
<1>8. \A t \in Tasks : OnQueue(t)'
  BY <1>3 DEF OwnerInv, OnQueue
<1>9. ASSUME NEW f \in Executors PROVE Owner(f)'
  <2>1. Owner(f)
    BY DEF OwnerInv
  <2>2. \A t \in Claims(f)' : Owns(f, t)'
    BY <1>2, <1>3, <1>4, <1>5, <2>1 DEF Owner, Owns
  <2>3. \A t \in Claims(f)' : \A g \in Executors \ {f} : t \notin Claims(g)'
    BY <1>4, <1>5 DEF OwnerInv, Owner
  <2>4. CASE f = e
    <3>1. running'[e] \cap (todo'[e] \cup listed'[e]) = {} /\ todo'[e] \cap listed'[e] = {}
      BY <1>1, <1>4, <1>5, <2>1, <2>4 DEF Owner, Claims
    <3>2. QED BY <1>1, <1>5, <1>7, <2>2, <2>3, <2>4, <3>1 DEF Owner
  <2>5. CASE f # e
    BY <1>1, <1>5, <1>6, <2>1, <2>2, <2>3, <2>5 DEF Owner
  <2>6. QED BY <2>4, <2>5
<1>10. QED BY <1>8, <1>9 DEF OwnerInv

LEMMA CrashOwner ==
  ASSUME TypeOK, OwnerInv, NEW e \in Executors, Crash(e)
  PROVE  OwnerInv'
<1>1. /\ rows' = rows /\ up' = up \ {e}
      /\ Claims(e)' = {} /\ todo'[e] = {} /\ running'[e] = {} /\ listed'[e] = {}
      /\ txn'[e].pc = "idle"
      /\ \A f \in Executors \ {e} :
           /\ Claims(f)' = Claims(f) /\ txn'[f] = txn[f]
           /\ todo'[f] = todo[f] /\ running'[f] = running[f] /\ listed'[f] = listed[f]
  BY DEF Crash, Claims, TypeOK, IdleTxn
<1>2. \A t \in Tasks : OnQueue(t)'
  BY <1>1 DEF OwnerInv, OnQueue
<1>3. ASSUME NEW f \in Executors \ {e} PROVE Owner(f)'
  <2>1. Owner(f)
    BY DEF OwnerInv
  <2>2. \A t \in Claims(f)' : Owns(f, t)'
    BY <1>1, <2>1 DEF Owner, Owns
  <2>3. \A t \in Claims(f)' : \A g \in Executors \ {f} : t \notin Claims(g)'
    BY <1>1, <2>1 DEF Owner
  <2>4. QED BY <1>1, <2>1, <2>2, <2>3 DEF Owner
<1>4. Owner(e)'
  BY <1>1 DEF Owner
<1>5. QED BY <1>2, <1>3, <1>4 DEF OwnerInv

(* An executor that is launched takes what its own rows name it for.       *)
LEMMA LaunchOwner ==
  ASSUME TypeOK, OwnerInv, NEW e \in Executors, Launch(e)
  PROVE  OwnerInv'
<1>1. /\ e \notin up /\ rows' = rows /\ txn' = txn /\ up' = up \cup {e}
      /\ todo' = todo /\ running' = running
      /\ listed'[e] = PendingOf(e, e)
      /\ \A f \in Executors \ {e} : listed'[f] = listed[f]
  BY DEF Launch, TypeOK
<1>2. Claims(e) = {} /\ txn[e].pc = "idle"
  BY <1>1 DEF OwnerInv, Owner
<1>3. /\ Claims(e)' = PendingOf(e, e) /\ todo'[e] = {} /\ running'[e] = {}
      /\ \A f \in Executors \ {e} : Claims(f)' = Claims(f)
  BY <1>1, <1>2 DEF Claims
<1>4. \A t \in PendingOf(e, e) : rows[t].status = "PENDING" /\ rows[t].executor = e
  BY DEF PendingOf
<1>5. \A t \in Tasks : OnQueue(t)'
  BY <1>1 DEF OwnerInv, OnQueue
<1>6. \A f \in Executors \ {e} : \A t \in Claims(f) : t \notin PendingOf(e, e)
  BY <1>4 DEF OwnerInv, Owner, Owns
<1>7. ASSUME NEW f \in Executors PROVE Owner(f)'
  <2>1. Owner(f)
    BY DEF OwnerInv
  <2>2. \A t \in Claims(f)' : Owns(f, t)'
    BY <1>1, <1>3, <1>4, <2>1 DEF Owner, Owns
  <2>3. \A t \in Claims(f)' : \A g \in Executors \ {f} : t \notin Claims(g)'
    BY <1>3, <1>6 DEF OwnerInv, Owner
  <2>4. QED BY <1>1, <1>2, <1>3, <2>1, <2>2, <2>3 DEF Owner
<1>8. QED BY <1>5, <1>7 DEF OwnerInv

LEMMA NextOwnerInv ==
  ASSUME "conductor" \notin Env, TypeOK, LockInv, OwnerInv, [Next]_vars
  PROVE  OwnerInv'
<1>1. ASSUME NEW t \in Tasks, Enqueue(t) PROVE OwnerInv'
  <2>1. \A e \in Executors : t \notin Claims(e)
    BY <1>1 DEF Enqueue, OwnerInv, Owner, Owns
  <2>2. QED BY <1>1, <2>1, WriteOwner, EnqueuedRowType DEF Enqueue, Claims, EnqueueOnQueue
<1>2. ASSUME NEW t \in Tasks, Cancel(t) PROVE OwnerInv'
  <2> DEFINE row == [rows[t] EXCEPT !.status = "CANCELLED", !.queued = FALSE, !.started = NoTime]
  <2>1. row \in Rows /\ row.status = "CANCELLED"
    BY CancelledRow
  <2>2. Write(t, row) /\ up' = up /\ todo' = todo /\ listed' = listed /\ running' = running
    BY <1>2 DEF Cancel
  <2> HIDE DEF row
  <2>3. QED BY <2>1, <2>2, WriteOwner
<1>3. ASSUME NEW e \in Executors, Poll(e) PROVE OwnerInv'
  BY <1>3, QuietOwner DEF Poll, TypeOK
<1>4. ASSUME NEW e \in Executors, Snapshot(e) PROVE OwnerInv'
  <2>1. e \in up /\ todo[e] = {}
    BY <1>4, SnapshotTxn DEF OwnerInv, Owner
  <2>2. \A f \in Executors : txn'[f].pc \in {"idle", txn[f].pc} \/ (f \in up /\ todo[f] = {})
    BY <1>4, <2>1, SnapshotTxn
  <2>3. QED BY <1>4, <2>2, QuietOwner DEF Snapshot
<1>5. ASSUME NEW e \in Executors, LockRow(e) PROVE OwnerInv'
  <2>1. e \in up /\ todo[e] = {}
    BY <1>5, LockRowTxn DEF OwnerInv, Owner
  <2>2. \A f \in Executors : txn'[f].pc \in {"idle", txn[f].pc} \/ (f \in up /\ todo[f] = {})
    BY <1>5, <2>1, LockRowTxn
  <2>3. QED BY <1>5, <2>2, QuietOwner DEF LockRow
<1>6. ASSUME NEW e \in Executors, Commit(e) PROVE OwnerInv'
  BY <1>6, CommitOwner
<1>7. ASSUME NEW e \in Executors, NEW t \in Tasks, Execute(e, t) PROVE OwnerInv'
  BY <1>7, QuietOwner DEF Execute, Executes, TypeOK
<1>8. ASSUME NEW e \in Executors, NEW t \in Tasks, RecordStep(e, t) PROVE OwnerInv'
  <2> DEFINE row == [rows[t] EXCEPT !.executor = e]
  <2>1. row \in Rows /\ row.status = rows[t].status /\ row.executor = e /\ row.queued = rows[t].queued
    BY RecordedRow
  <2>2. /\ Write(t, row) /\ up' = up /\ todo' = todo /\ listed' = listed
        /\ running' = running /\ t \in Claims(e)
    BY <1>8 DEF RecordStep, Claims
  <2>3. Owns(e, t) /\ (\A f \in Executors \ {e} : t \notin Claims(f)) /\ OnQueue(t)
    BY <2>2 DEF OwnerInv, Owner
  <2>4. \A f \in Executors : Claims(f)' = Claims(f)
    BY <2>2 DEF Claims
  <2> HIDE DEF row
  <2>5. QED BY <2>1, <2>2, <2>3, <2>4, WriteOwner DEF Owns, OnQueue
<1>9. ASSUME NEW e \in Executors, NEW t \in Tasks, Finish(e, t) PROVE OwnerInv'
  <2> DEFINE row == [rows[t] EXCEPT !.status = "COMPLETED"]
  <2>1. row \in Rows /\ row.status = "COMPLETED"
    BY CompletedRow
  <2>2. /\ Write(t, row) /\ up' = up /\ todo' = todo /\ listed' = listed
        /\ running' = [running EXCEPT ![e] = @ \ {t}] /\ t \in running[e]
    BY <1>9 DEF Finish
  <2>3. \A f \in Executors : t \notin Claims(f)'
    BY <2>2 DEF OwnerInv, Owner, Claims, TypeOK
  <2>4. \A f \in Executors : running'[f] \subseteq running[f]
    BY <2>2 DEF TypeOK
  <2> HIDE DEF row
  <2>5. QED BY <2>1, <2>2, <2>3, <2>4, WriteOwner
<1>10. ASSUME NEW e \in Executors, NEW t \in Tasks, Unwind(e, t) PROVE OwnerInv'
  BY <1>10, QuietOwner DEF Unwind, TypeOK
<1>11. ASSUME NEW e \in Executors, NEW t \in Tasks, RecoverWorkflow(e, t) PROVE OwnerInv'
  <2>1. CASE t \in Pending
    <3> DEFINE row == [rows[t] EXCEPT !.status = "ENQUEUED", !.started = NoTime]
    <3>1. row \in Rows /\ row.status = "ENQUEUED" /\ row.queued
      BY <2>1, RequeuedRow DEF Pending
    <3>2. /\ Write(t, row) /\ up' = up /\ todo' = todo /\ running' = running
          /\ listed' = [listed EXCEPT ![e] = @ \ {t}] /\ t \in listed[e]
      BY <1>11, <2>1 DEF RecoverWorkflow
    <3>3. \A f \in Executors : t \notin Claims(f)'
      BY <3>2 DEF OwnerInv, Owner, Claims, TypeOK
    <3>4. \A f \in Executors : listed'[f] \subseteq listed[f]
      BY <3>2 DEF TypeOK
    <3> HIDE DEF row
    <3>5. QED BY <3>1, <3>2, <3>3, <3>4, WriteOwner
  <2>2. CASE t \notin Pending
    BY <1>11, <2>2, QuietOwner DEF RecoverWorkflow, Executes, TypeOK
  <2>3. QED BY <2>1, <2>2
<1>12. ASSUME NEW e \in Executors, Crash(e) PROVE OwnerInv'
  BY <1>12, CrashOwner
<1>13. ASSUME NEW e \in Executors, Launch(e) PROVE OwnerInv'
  BY <1>13, LaunchOwner
<1>14. CASE Tick \/ UNCHANGED vars
  BY <1>14, QuietOwner DEF Tick, vars
<1>15. QED
  BY <1>1, <1>2, <1>3, <1>4, <1>5, <1>6, <1>7, <1>8, <1>9, <1>10, <1>11, <1>12, <1>13, <1>14
  DEF Next, Worker, RecoverPending

(* Without a conductor no task is in the hands of two executors, and the   *)
(* one that has it is the one its row names: dequeues, crashes, launches   *)
(* and recoveries of any number of executors and versions never make a     *)
(* task run twice at a time (OneHolder).                                   *)
THEOREM OneHolderCorrect ==
  ASSUME "conductor" \notin Env
  PROVE  Spec => []OneHolder
<1>1. TypeOK /\ LockInv /\ OwnerInv /\ [Next]_vars => OwnerInv'
  BY NextOwnerInv
<1>2. QED BY InitTypeOK, NextTypeOK, InitLockInv, NextLockInv, InitOwnerInv, <1>1,
             OwnerHolds, PTL DEF Spec

-----------------------------------------------------------------------------
(* What an executor has in its hands counts against worker_concurrency     *)
(* because the PENDING rows that name it grow only when it dequeues, and   *)
(* by no more than the room its own snapshot left.                         *)
Room(e) ==
  /\ Cardinality(PendingAt(e)) <= WorkerConcurrency
  /\ txn[e].pc = "locking" =>
       Cardinality(PendingAt(e)) + Cardinality(txn[e].picks) + txn[e].room
         <= WorkerConcurrency

RoomInv == WorkerConcurrency # NoLimit => \A e \in Executors : Room(e)

LEMMA SmallerCount ==
  ASSUME NEW T \in SUBSET Tasks, NEW S \in SUBSET T
  PROVE  Cardinality(S) \in Nat /\ Cardinality(T) \in Nat /\ Cardinality(S) <= Cardinality(T)
<1>1. IsFiniteSet(T)
  BY TasksAssumption, FS_Subset
<1>2. QED BY <1>1, CountType, FS_Subset

LEMMA InitRoomInv == Init => RoomInv
<1> SUFFICES ASSUME Init, WorkerConcurrency # NoLimit, NEW e \in Executors PROVE Room(e)
  BY DEF RoomInv
<1>1. PendingAt(e) = {} /\ txn[e].pc = "idle"
  BY DEF Init, PendingAt, Pending, NoRow, IdleTxn
<1>2. WorkerConcurrency \in Nat
  BY LimitsAssumption DEF Limits
<1>3. QED BY <1>1, <1>2, FS_EmptySet DEF Room

LEMMA RoomHolds == TypeOK /\ OwnerInv /\ RoomInv => WorkerConcurrencyRespected
<1> SUFFICES ASSUME TypeOK, OwnerInv, RoomInv, WorkerConcurrency # NoLimit, NEW e \in Executors
    PROVE  Cardinality({t \in Holds(e) : rows[t].status # "CANCELLED"}) <= WorkerConcurrency
  BY DEF WorkerConcurrencyRespected
<1> DEFINE S == {t \in Holds(e) : rows[t].status # "CANCELLED"}
<1>1. S \subseteq PendingAt(e)
  BY DEF OwnerInv, Owner, Owns, OnQueue, Claims, Holds, PendingAt, Pending, TypeOK
<1>2. PendingAt(e) \in SUBSET Tasks
  BY DEF PendingAt, Pending
<1>3. Cardinality(S) \in Nat /\ Cardinality(PendingAt(e)) \in Nat
      /\ Cardinality(S) <= Cardinality(PendingAt(e))
  BY <1>1, <1>2, SmallerCount
<1>4. Cardinality(PendingAt(e)) <= WorkerConcurrency /\ WorkerConcurrency \in Nat
  BY LimitsAssumption DEF RoomInv, Room, Limits
<1> HIDE DEF S
<1>5. Cardinality(S) <= WorkerConcurrency
  BY <1>3, <1>4
<1>6. QED BY <1>5 DEF S

(* Steps of others, and steps that start no task.                          *)
LEMMA RoomKept ==
  ASSUME TypeOK, WorkerConcurrency # NoLimit, NEW e \in Executors, Room(e),
         PendingAt(e)' \subseteq PendingAt(e),
         txn'[e].pc = "locking" =>
           /\ txn[e].pc = "locking"
           /\ txn'[e].picks = txn[e].picks /\ txn'[e].room = txn[e].room
  PROVE  Room(e)'
<1>1. PendingAt(e) \in SUBSET Tasks /\ txn[e].picks \in SUBSET Tasks /\ txn[e].room \in Nat
  BY DEF PendingAt, Pending, TypeOK, Txns
<1>2. /\ Cardinality(PendingAt(e)') \in Nat /\ Cardinality(PendingAt(e)) \in Nat
      /\ Cardinality(PendingAt(e)') <= Cardinality(PendingAt(e))
      /\ Cardinality(txn[e].picks) \in Nat /\ WorkerConcurrency \in Nat
  BY <1>1, SmallerCount, CountType, LimitsAssumption DEF Limits
<1>3. QED BY <1>1, <1>2 DEF Room

(* The room comes from the same snapshot as the count.                     *)
LEMMA SnapshotRoom ==
  ASSUME TypeOK, LockInv, WorkerConcurrency # NoLimit, NEW e \in Executors, Room(e), Snapshot(e)
  PROVE  Room(e)'
<1>1. PendingAt(e)' = PendingAt(e) /\ PendingAt(e) \in SUBSET Tasks /\ txn[e].picks = {}
  BY SnapshotTxn DEF Snapshot, PendingAt, Pending, LockInv, Fresh
<1>2. CASE txn'[e] = IdleTxn
  BY <1>1, <1>2, RoomKept DEF IdleTxn
<1>3. CASE txn'[e] # IdleTxn
  <2>1. txn'[e].room = MaxTasks(e) /\ txn'[e].picks = {} /\ MaxTasks(e) \in Nat
    BY <1>1, <1>3, SnapshotTxn, MaxTasksType
  <2>2. Cardinality(PendingAt(e)) \in Nat /\ WorkerConcurrency \in Nat
    BY <1>1, CountType, LimitsAssumption DEF Limits
  <2>3. /\ LocalRoom(e) = Left(WorkerConcurrency, PendingAt(e)) /\ LocalRoom(e) \in Nat
        /\ Concurrency # NoLimit => Left(Concurrency, Pending) \in Nat
    BY <1>1, LeftType, LimitsAssumption DEF LocalRoom, Limits, Pending
  <2>4. MaxTasks(e) <= LocalRoom(e)
    BY <2>3 DEF MaxTasks
  <2>5. LocalRoom(e) + Cardinality(PendingAt(e)) <= WorkerConcurrency
    BY <2>2, <2>3 DEF Left, Room
  <2>6. Cardinality(txn'[e].picks) = 0
    BY <2>1, FS_EmptySet
  <2>7. QED BY <1>1, <2>1, <2>2, <2>3, <2>4, <2>5, <2>6 DEF Room
<1>4. QED BY <1>2, <1>3

LEMMA LockRowRoom ==
  ASSUME TypeOK, WorkerConcurrency # NoLimit, NEW e \in Executors, Room(e), LockRow(e)
  PROVE  Room(e)'
<1>1. PendingAt(e)' = PendingAt(e)
  BY DEF LockRow, PendingAt, Pending
<1>2. CASE txn'[e] = IdleTxn
  BY <1>1, <1>2, RoomKept DEF IdleTxn
<1>3. ASSUME NEW t \in txn[e].left, txn'[e].picks = txn[e].picks \cup {t},
             txn'[e].room = txn[e].room - 1
      PROVE  Room(e)'
  <2>1. /\ txn[e].pc = "locking" /\ txn[e].room \in Nat \ {0} /\ txn[e].picks \in SUBSET Tasks
        /\ PendingAt(e) \in SUBSET Tasks /\ t \in Tasks
    BY LockRowTxn DEF TypeOK, Txns, PendingAt, Pending
  <2>2. Cardinality(PendingAt(e)) \in Nat /\ Cardinality(txn[e].picks) \in Nat
        /\ WorkerConcurrency \in Nat
    BY <2>1, CountType, LimitsAssumption DEF Limits
  <2>3. IsFiniteSet(txn[e].picks)
    BY <2>1, TasksAssumption, FS_Subset
  <2>4. Cardinality(txn'[e].picks) \in {Cardinality(txn[e].picks), Cardinality(txn[e].picks) + 1}
    BY <1>3, <2>3, FS_AddElement
  <2>5. QED BY <1>1, <1>3, <2>1, <2>2, <2>4 DEF Room
<1>4. CASE txn'[e].picks = txn[e].picks /\ txn'[e].room = txn[e].room
  BY <1>1, <1>4, LockRowTxn, RoomKept
<1>5. QED BY <1>2, <1>3, <1>4, LockRowTxn

LEMMA CommitRoom ==
  ASSUME TypeOK, WorkerConcurrency # NoLimit, NEW e \in Executors, Room(e), Commit(e)
  PROVE  Room(e)'
<1>1. PendingAt(e)' \subseteq PendingAt(e) \cup txn[e].picks
  BY CommitEffect DEF PendingAt, Pending
<1>2. /\ txn[e].pc = "locking" /\ txn[e].room \in Nat /\ txn[e].picks \in SUBSET Tasks
      /\ PendingAt(e) \in SUBSET Tasks /\ txn'[e].pc = "idle"
  BY CommitEffect DEF Commit, TypeOK, Txns, PendingAt, Pending, IdleTxn
<1>3. /\ Cardinality(PendingAt(e)) \in Nat /\ Cardinality(txn[e].picks) \in Nat
      /\ WorkerConcurrency \in Nat
  BY <1>2, CountType, LimitsAssumption DEF Limits
<1>4. IsFiniteSet(PendingAt(e)) /\ IsFiniteSet(txn[e].picks)
  BY <1>2, TasksAssumption, FS_Subset
<1>5. /\ Cardinality(PendingAt(e) \cup txn[e].picks) \in Nat
      /\ Cardinality(PendingAt(e) \cap txn[e].picks) \in Nat
      /\ Cardinality(PendingAt(e) \cup txn[e].picks)
           = Cardinality(PendingAt(e)) + Cardinality(txn[e].picks)
               - Cardinality(PendingAt(e) \cap txn[e].picks)
  BY <1>2, <1>4, CountType, FS_Union
<1>6. /\ Cardinality(PendingAt(e)') \in Nat
      /\ Cardinality(PendingAt(e)') <= Cardinality(PendingAt(e) \cup txn[e].picks)
  BY <1>1, <1>2, SmallerCount
<1>7. QED BY <1>2, <1>3, <1>5, <1>6 DEF Room

(* Without a conductor nobody else makes a row PENDING for e.              *)
LEMMA PendingAtShrinks ==
  ASSUME "conductor" \notin Env, TypeOK, OwnerInv, [Next]_vars,
         NEW e \in Executors, ~Commit(e)
  PROVE  PendingAt(e)' \subseteq PendingAt(e)
<1> SUFFICES ASSUME NEW t \in Tasks, rows'[t].queued, rows'[t].status = "PENDING",
                    rows'[t].executor = e
             PROVE  rows[t].queued /\ rows[t].status = "PENDING" /\ rows[t].executor = e
  BY DEF PendingAt, Pending
<1>1. ASSUME rows' = rows
      PROVE  rows[t].queued /\ rows[t].status = "PENDING" /\ rows[t].executor = e
  BY <1>1
<1>2. ASSUME NEW u \in Tasks, Enqueue(u) \/ Cancel(u)
      PROVE  rows[t].queued /\ rows[t].status = "PENDING" /\ rows[t].executor = e
  <2>1. PICK row : row.status # "PENDING" /\ rows' = [rows EXCEPT ![u] = row]
    <3>1. EnqueueOnQueue(u).status # "PENDING"
      BY DEF EnqueueOnQueue
    <3>2. [rows[u] EXCEPT !.status = "CANCELLED", !.queued = FALSE, !.started = NoTime].status
            # "PENDING"
      BY CancelledRow
    <3>3. QED BY <1>2, <3>1, <3>2 DEF Enqueue, Cancel, Write
  <2>2. QED BY <2>1 DEF TypeOK
<1>3. ASSUME NEW f \in Executors, NEW u \in Tasks, RecordStep(f, u)
      PROVE  rows[t].queued /\ rows[t].status = "PENDING" /\ rows[t].executor = e
  <2>1. rows' = [rows EXCEPT ![u] = [rows[u] EXCEPT !.executor = f]] /\ u \in Claims(f)
    BY <1>3 DEF RecordStep, Write, Claims
  <2>2. rows[u].status = "PENDING" => rows[u].executor = f
    BY <2>1 DEF OwnerInv, Owner, Owns
  <2>3. QED BY <2>1, <2>2 DEF TypeOK, Rows
<1>4. ASSUME NEW f \in Executors, NEW u \in Tasks, Finish(f, u) \/ RecoverWorkflow(f, u)
      PROVE  rows[t].queued /\ rows[t].status = "PENDING" /\ rows[t].executor = e
  <2>1. CASE rows' = rows
    BY <1>1, <2>1
  <2>2. CASE rows' # rows
    <3>1. PICK row : row.status # "PENDING" /\ rows' = [rows EXCEPT ![u] = row]
      <4>1. [rows[u] EXCEPT !.status = "COMPLETED"].status # "PENDING"
        BY CompletedRow
      <4>2. [rows[u] EXCEPT !.status = "ENQUEUED", !.started = NoTime].status # "PENDING"
        BY RequeuedRow
      <4>3. QED BY <1>4, <2>2, <4>1, <4>2 DEF Finish, RecoverWorkflow, Write
    <3>2. QED BY <3>1 DEF TypeOK
  <2>3. QED BY <2>1, <2>2
<1>5. ASSUME NEW f \in Executors, Commit(f)
      PROVE  rows[t].queued /\ rows[t].status = "PENDING" /\ rows[t].executor = e
  <2>1. CASE t \notin Started(f)
    BY <1>5, <2>1, CommitEffect
  <2>2. CASE t \in Started(f)
    <3>1. rows'[t].executor = f
      BY <1>5, <2>2 DEF Commit, Dequeued, TypeOK, Rows
    <3>2. QED BY <1>5, <3>1
  <2>3. QED BY <2>1, <2>2
<1>6. QED BY <1>1, <1>2, <1>3, <1>4, <1>5
  DEF Next, Worker, vars, Poll, Snapshot, LockRow, Execute, Crash, Launch, Unwind,
      RecoverPending, Tick

(* What an open transaction keeps while it neither begins nor goes on: its *)
(* snapshot, and a note of every row written since.                        *)
Kept(e) ==
  /\ txn[e].pc = "locking"
  /\ txn'[e].left = txn[e].left /\ txn'[e].picks = txn[e].picks
  /\ txn'[e].room = txn[e].room
  /\ txn[e].stale \subseteq txn'[e].stale
  /\ \A u \in Tasks : rows'[u] = rows[u] \/ u \in txn'[e].stale

LEMMA WriteKept ==
  ASSUME TypeOK, NEW t \in Tasks, NEW row \in Rows, Write(t, row),
         NEW e \in Executors, txn'[e].pc = "locking"
  PROVE  Kept(e)
<1>1. /\ txn'[e].pc = txn[e].pc /\ txn'[e].left = txn[e].left
      /\ txn'[e].picks = txn[e].picks /\ txn'[e].room = txn[e].room
      /\ txn[e].pc = "locking" => txn'[e].stale = txn[e].stale \cup {t}
  BY WriteTxn
<1>2. \A u \in Tasks : u # t => rows'[u] = rows[u]
  BY WriteType
<1>3. QED BY <1>1, <1>2 DEF Kept

LEMMA TxnKept ==
  ASSUME TypeOK, [Next]_vars, NEW e \in Executors,
         ~Snapshot(e), ~LockRow(e), ~Commit(e), txn'[e].pc = "locking"
  PROVE  Kept(e)
<1>1. ASSUME rows' = rows, txn'[e] = txn[e] PROVE Kept(e)
  BY <1>1 DEF Kept
<1>2. ASSUME NEW t \in Tasks, Enqueue(t) PROVE Kept(e)
  BY <1>2, EnqueuedRowType, WriteKept DEF Enqueue
<1>3. ASSUME NEW t \in Tasks, Cancel(t) PROVE Kept(e)
  <2>1. [rows[t] EXCEPT !.status = "CANCELLED", !.queued = FALSE, !.started = NoTime] \in Rows
    BY CancelledRow
  <2>2. QED BY <1>3, <2>1, WriteKept DEF Cancel
<1>4. ASSUME NEW f \in Executors, Poll(f) PROVE Kept(e)
  <2>1. txn'[f].pc = "begun"
    BY <1>4 DEF Poll, TypeOK, Txns
  <2>2. f # e
    BY <2>1
  <2>3. QED BY <1>1, <1>4, <2>2 DEF Poll, TypeOK
<1>5. ASSUME NEW f \in Executors, Snapshot(f) PROVE Kept(e)
  BY <1>1, <1>5, SnapshotTxn DEF Snapshot
<1>6. ASSUME NEW f \in Executors, LockRow(f) PROVE Kept(e)
  BY <1>1, <1>6, LockRowTxn DEF LockRow
<1>7. ASSUME NEW f \in Executors, Commit(f) PROVE Kept(e)
  <2>1. e # f /\ txn'[e] = Touch(txn[e], Started(f)) /\ Started(f) \in SUBSET Tasks
    BY <1>7, CommitEffect DEF TypeOK, Txns
  <2>2. txn[e] \in Txns
    BY DEF TypeOK
  <2>3. QED BY <1>7, <2>1, <2>2, CommitEffect, TouchType DEF Kept
<1>8. ASSUME NEW f \in Executors, NEW t \in Tasks, RecordStep(f, t) PROVE Kept(e)
  <2>1. [rows[t] EXCEPT !.executor = f] \in Rows
    BY RecordedRow
  <2>2. QED BY <1>8, <2>1, WriteKept DEF RecordStep
<1>9. ASSUME NEW f \in Executors, NEW t \in Tasks, Finish(f, t) PROVE Kept(e)
  <2>1. [rows[t] EXCEPT !.status = "COMPLETED"] \in Rows
    BY CompletedRow
  <2>2. QED BY <1>9, <2>1, WriteKept DEF Finish
<1>10. ASSUME NEW f \in Executors, NEW t \in Tasks, RecoverWorkflow(f, t) PROVE Kept(e)
  <2>1. [rows[t] EXCEPT !.status = "ENQUEUED", !.started = NoTime] \in Rows
    BY RequeuedRow
  <2>2. CASE t \in Pending
    BY <1>10, <2>1, <2>2, WriteKept DEF RecoverWorkflow
  <2>3. CASE t \notin Pending
    BY <1>1, <1>10, <2>3 DEF RecoverWorkflow
  <2>4. QED BY <2>2, <2>3
<1>11. ASSUME NEW f \in Executors, Crash(f) PROVE Kept(e)
  <2>1. txn'[f].pc = "idle" /\ rows' = rows /\ \A g \in Executors \ {f} : txn'[g] = txn[g]
    BY <1>11 DEF Crash, TypeOK, IdleTxn
  <2>2. QED BY <1>1, <2>1
<1>12. QED
  BY <1>1, <1>2, <1>3, <1>4, <1>5, <1>6, <1>7, <1>8, <1>9, <1>10, <1>11
  DEF Next, Worker, vars, Execute, Launch, Unwind, RecoverPending, Tick

LEMMA NextRoomInv ==
  ASSUME "conductor" \notin Env, TypeOK, LockInv, OwnerInv, RoomInv, [Next]_vars
  PROVE  RoomInv'
<1> SUFFICES ASSUME WorkerConcurrency # NoLimit, NEW e \in Executors PROVE Room(e)'
  BY DEF RoomInv
<1>0. Room(e)
  BY DEF RoomInv
<1>1. CASE Snapshot(e)
  BY <1>0, <1>1, SnapshotRoom
<1>2. CASE LockRow(e)
  BY <1>0, <1>2, LockRowRoom
<1>3. CASE Commit(e)
  BY <1>0, <1>3, CommitRoom
<1>4. CASE ~Snapshot(e) /\ ~LockRow(e) /\ ~Commit(e)
  <2>1. PendingAt(e)' \subseteq PendingAt(e)
    BY <1>4, PendingAtShrinks
  <2>2. txn'[e].pc = "locking" => Kept(e)
    BY <1>4, TxnKept
  <2>3. QED BY <1>0, <2>1, <2>2, RoomKept DEF Kept
<1>5. QED BY <1>1, <1>2, <1>3, <1>4

(* Without a conductor no executor ever has more of the queue's tasks in   *)
(* its hands than worker_concurrency, counting those it was given before a *)
(* crash and recovers (WorkerConcurrencyRespected).                        *)
THEOREM WorkerConcurrencyCorrect ==
  ASSUME "conductor" \notin Env
  PROVE  Spec => []WorkerConcurrencyRespected
<1> DEFINE All == TypeOK /\ LockInv /\ OwnerInv /\ RoomInv
<1>1. Init => All
  BY InitTypeOK, InitLockInv, InitOwnerInv, InitRoomInv
<1>2. All /\ [Next]_vars => All'
  BY NextTypeOK, NextLockInv, NextOwnerInv, NextRoomInv
<1>3. All => WorkerConcurrencyRespected
  BY RoomHolds
<1> HIDE DEF All
<1>4. QED BY <1>1, <1>2, <1>3, PTL DEF Spec

-----------------------------------------------------------------------------
(* Order.  The commit that starts a task leaves an earlier one waiting     *)
(* only if the snapshot did not have it: candidates are locked in the      *)
(* order of the queue, and NOWAIT skips none of them.                      *)
Seen(e) ==
  txn[e].pc = "locking" =>
    /\ \A t \in txn[e].picks : \A u \in txn[e].left : Rank[t] < Rank[u]
    /\ Concurrency # NoLimit =>
         \A u \in Candidates(e) : u \in txn[e].left \cup txn[e].picks \cup txn[e].stale

SeenInv == \A e \in Executors : Seen(e)

LEMMA InitSeenInv == Init => SeenInv
BY DEF Init, SeenInv, Seen, IdleTxn

LEMMA NextSeenInv ==
  ASSUME TypeOK, LockInv, SeenInv, [Next]_vars
  PROVE  SeenInv'
<1> SUFFICES ASSUME NEW e \in Executors, txn'[e].pc = "locking" PROVE Seen(e)'
  BY DEF SeenInv, Seen
<1>1. CASE Snapshot(e)
  <2>1. txn[e].picks = {}
    BY <1>1, SnapshotTxn DEF LockInv, Fresh
  <2>2. txn'[e].picks = {} /\ txn'[e].left = Candidates(e)
    BY <1>1, <2>1, SnapshotTxn DEF IdleTxn
  <2>3. Candidates(e)' = Candidates(e)
    BY <1>1 DEF Snapshot, Candidates
  <2>4. QED BY <2>2, <2>3 DEF Seen
<1>2. CASE LockRow(e)
  <2>1. Seen(e) /\ txn[e].pc = "locking" /\ txn[e].left \subseteq Tasks
        /\ txn[e].picks \subseteq Tasks
    BY <1>2, LockRowTxn DEF SeenInv, TypeOK, Txns
  <2>2. Candidates(e)' = Candidates(e)
    BY <1>2 DEF LockRow, Candidates
  <2>3. PICK t \in txn[e].left :
          /\ FirstBy(txn[e].left, t)
          /\ txn'[e].stale = txn[e].stale /\ txn'[e].left = txn[e].left \ {t}
          /\ \/ txn'[e].picks = txn[e].picks /\ Concurrency = NoLimit
             \/ txn'[e].picks = txn[e].picks \cup {t}
    BY <1>2, LockRowTxn DEF IdleTxn
  <2>4. \A u \in txn'[e].left : Rank[t] < Rank[u]
    BY <2>1, <2>3, RankAssumption DEF FirstBy
  <2>5. QED BY <2>1, <2>2, <2>3, <2>4 DEF Seen
<1>3. CASE Commit(e)
  BY <1>3, CommitEffect DEF IdleTxn
<1>4. CASE ~Snapshot(e) /\ ~LockRow(e) /\ ~Commit(e)
  <2>1. Kept(e) /\ Seen(e)
    BY <1>4, TxnKept DEF SeenInv
  <2>2. \A u \in Candidates(e)' : u \in Candidates(e) \/ u \in txn'[e].stale
    BY <2>1 DEF Candidates, Kept
  <2>3. QED BY <2>1, <2>2 DEF Kept, Seen
<1>5. QED BY <1>1, <1>2, <1>3, <1>4

(* The limiter cuts the picks off at the end.                              *)
LEMMA StartedPrefix ==
  ASSUME TypeOK, NEW e \in Executors, NEW t \in Started(e), NEW u \in txn[e].picks,
         Rank[u] < Rank[t]
  PROVE  u \in Started(e)
<1> DEFINE before(x) == {w \in txn[e].picks : Rank[w] < Rank[x]}
<1>1. t \in txn[e].picks /\ txn[e].picks \in SUBSET Tasks /\ txn[e].recent \in Nat
  BY DEF Started, TypeOK, Txns
<1>2. CASE Limit = NoLimit
  BY <1>2 DEF Started
<1>3. CASE Limit # NoLimit
  <2>1. before(u) \subseteq before(t) /\ before(t) \in SUBSET Tasks
    BY <1>1, RankAssumption
  <2>2. /\ Cardinality(before(u)) \in Nat /\ Cardinality(before(t)) \in Nat
        /\ Cardinality(before(u)) <= Cardinality(before(t))
    BY <2>1, SmallerCount
  <2>3. Cardinality(before(t)) + txn[e].recent < Limit /\ Limit \in Nat
    BY <1>3, LimitsAssumption DEF Started, Limits
  <2> HIDE DEF before
  <2>4. Cardinality(before(u)) + txn[e].recent < Limit
    BY <1>1, <2>2, <2>3
  <2>5. QED BY <1>3, <2>4 DEF Started, before
<1>4. QED BY <1>2, <1>3

(* Only the commit of the transaction that locked a row dequeues it.       *)
LEMMA LockedKept ==
  ASSUME TypeOK, LockInv, [Next]_vars, NEW e \in Executors, NEW t \in txn[e].picks,
         rows'[t].status = "PENDING"
  PROVE  Commit(e)
<1> SUFFICES ASSUME ~Commit(e) PROVE FALSE
  OBVIOUS
<1>0. t \in Tasks /\ Locked(t) /\ rows[t].status = "ENQUEUED"
  BY DEF TypeOK, Txns, Locked, LockInv, Fresh, Waiting
<1>1. ASSUME NEW u \in Tasks, NEW row, Write(u, row) PROVE rows'[t] = rows[t]
  BY <1>0, <1>1 DEF Write, TypeOK
<1>2. ASSUME NEW f \in Executors, Commit(f) PROVE rows'[t] = rows[t]
  <2>1. f # e /\ t \notin txn[f].picks
    BY <1>2 DEF LockInv, Fresh, LockedByOther
  <2>2. QED BY <1>0, <1>2, <2>1, CommitEffect
<1>3. rows'[t] = rows[t]
  BY <1>1, <1>2
  DEF Next, Worker, vars, Enqueue, Cancel, Poll, Snapshot, LockRow, Execute, Crash,
      Launch, RecordStep, Finish, Unwind, RecoverWorkflow, RecoverPending, Tick
<1>4. QED BY <1>0, <1>3

LEMMA CommitInOrder ==
  ASSUME TypeOK, LockInv, SeenInv, [Next]_vars
  PROVE  InOrderStep
<1> SUFFICES ASSUME Concurrency # NoLimit, NEW e \in Executors, NEW t \in Started(e),
                    rows'[t].status = "PENDING", NEW u \in Candidates(e)',
                    Rank[u] < Rank[t]
             PROVE  u \in txn[e].stale
  BY DEF InOrderStep
<1>1. t \in txn[e].picks /\ t \in Tasks
  BY DEF Started, TypeOK, Txns
<1>2. Commit(e)
  BY <1>1, LockedKept
<1>3. u \notin Started(e)
  <2>1. ASSUME NEW w \in Started(e) PROVE rows'[w].status = "PENDING"
    <3>1. w \in Tasks
      BY DEF Started, TypeOK, Txns
    <3>2. rows'[w] = Dequeued(e, w)
      BY <1>2, <3>1 DEF Commit
    <3>3. QED BY <3>1, <3>2 DEF Dequeued, TypeOK, Rows
  <2>2. QED BY <2>1 DEF Candidates
<1>4. u \in Candidates(e)
  BY <1>2, <1>3, CommitEffect DEF Candidates
<1>5. u \in txn[e].left \cup txn[e].picks \cup txn[e].stale
  BY <1>2, <1>4 DEF SeenInv, Seen, Commit
<1>6. u \notin txn[e].picks
  BY <1>3, StartedPrefix
<1>7. u \notin txn[e].left
  <2>1. u \in txn[e].left => Rank[t] < Rank[u]
    BY <1>1, <1>2 DEF SeenInv, Seen, Commit
  <2>2. Rank[t] \in Nat /\ Rank[u] \in Nat
    BY <1>1, RankAssumption DEF Candidates
  <2>3. QED BY <2>1, <2>2
<1>8. QED BY <1>5, <1>6, <1>7

(* With a global concurrency tasks are started in the order of the queue,  *)
(* whatever executors crash and whatever is cancelled, recovered or lost   *)
(* while a dequeue is under way (InOrder).                                 *)
THEOREM InOrderCorrect == Spec => InOrder
<1>1. TypeOK /\ LockInv /\ SeenInv /\ [Next]_vars => SeenInv'
  BY NextSeenInv
<1>2. TypeOK /\ LockInv /\ SeenInv /\ [Next]_vars => [InOrderStep]_vars
  BY CommitInOrder
<1>3. QED BY InitTypeOK, NextTypeOK, InitLockInv, NextLockInv, InitSeenInv, <1>1, <1>2,
             PTL DEF Spec, InOrder

-----------------------------------------------------------------------------
(* No task is forgotten.  NoneStranded is not inductive: a task whose      *)
(* executor is down is found again only if its row also has the version    *)
(* of that executor.                                                       *)
Found(t) ==
  rows[t].status = "PENDING" =>
    /\ rows[t].executor \in Executors
    /\ rows[t].version = AppVersion[rows[t].executor]
    /\ rows[t].executor \in up => t \in Claims(rows[t].executor)

FoundInv == \A t \in Tasks : Found(t)

LEMMA InitFoundInv == Init => FoundInv
BY DEF Init, FoundInv, Found, NoRow

LEMMA FoundHolds == FoundInv => NoneStranded
BY DEF FoundInv, Found, Claims, NoneStranded, Pending, Holds

(* A step that makes no row PENDING and drops no task whose row is.        *)
LEMMA FoundKept ==
  ASSUME FoundInv, up' = up,
         \A t \in Tasks : rows'[t].status = "PENDING" =>
           /\ rows[t].status = "PENDING"
           /\ rows'[t].executor = rows[t].executor /\ rows'[t].version = rows[t].version
           /\ \A e \in Executors : t \in Claims(e) => t \in Claims(e)'
  PROVE  FoundInv'
<1> SUFFICES ASSUME NEW t \in Tasks, rows'[t].status = "PENDING" PROVE Found(t)'
  BY DEF FoundInv, Found
<1>1. Found(t) /\ rows[t].status = "PENDING"
  BY DEF FoundInv
<1>2. QED BY <1>1 DEF Found

(* A write of one row after which it is not PENDING.                       *)
LEMMA WriteFound ==
  ASSUME TypeOK, FoundInv, up' = up, NEW t \in Tasks, NEW row \in Rows, Write(t, row),
         row.status # "PENDING",
         \A e \in Executors : Claims(e) \subseteq Claims(e)' \cup {t}
  PROVE  FoundInv'
<1>1. rows'[t] = row /\ \A u \in Tasks : u # t => rows'[u] = rows[u]
  BY WriteType DEF Write, TypeOK
<1>2. QED BY <1>1, FoundKept

LEMMA CommitFound ==
  ASSUME "lost" \notin Env, TypeOK, LockInv, OwnerInv, FoundInv, NEW e \in Executors, Commit(e)
  PROVE  FoundInv'
<1>1. /\ todo' = [todo EXCEPT ![e] = Started(e)] /\ txn[e].pc = "locking"
      /\ up' = up /\ running' = running /\ listed' = listed
      /\ rows' = [t \in Tasks |-> IF t \in Started(e) THEN Dequeued(e, t) ELSE rows[t]]
  BY DEF Commit
<1>2. todo[e] = {}
  BY <1>1 DEF OwnerInv, Owner
<1>3. \A f \in Executors : Claims(f) \subseteq Claims(f)' /\ Started(e) \subseteq Claims(e)'
  BY <1>1, <1>2 DEF Claims, TypeOK
<1>4. ASSUME NEW t \in Tasks PROVE Found(t)'
  <2>1. CASE t \in Started(e)
    <3>1. rows'[t].executor = e /\ rows'[t].version = AppVersion[e]
      BY <1>1, <2>1, ZenonT(40) DEF Dequeued, TypeOK, Rows
    <3>2. QED BY <1>3, <2>1, <3>1 DEF Found
  <2>2. CASE t \notin Started(e)
    <3>1. Found(t) /\ rows'[t] = rows[t]
      BY <1>1, <2>2 DEF FoundInv
    <3>2. QED BY <1>1, <1>3, <3>1 DEF Found
  <2>3. QED BY <2>1, <2>2
<1>5. QED BY <1>4 DEF FoundInv

LEMMA NextFoundInv ==
  ASSUME "conductor" \notin Env, "lost" \notin Env, Unregistered = {},
         TypeOK, LockInv, OwnerInv, FoundInv, [Next]_vars
  PROVE  FoundInv'
<1>1. ASSUME NEW t \in Tasks, Enqueue(t) PROVE FoundInv'
  BY <1>1, WriteFound, EnqueuedRowType DEF Enqueue, Claims, EnqueueOnQueue
<1>2. ASSUME NEW t \in Tasks, Cancel(t) PROVE FoundInv'
  <2> DEFINE row == [rows[t] EXCEPT !.status = "CANCELLED", !.queued = FALSE, !.started = NoTime]
  <2>1. row \in Rows /\ row.status = "CANCELLED"
    BY CancelledRow
  <2>2. Write(t, row) /\ up' = up /\ \A e \in Executors : Claims(e)' = Claims(e)
    BY <1>2 DEF Cancel, Claims
  <2> HIDE DEF row
  <2>3. QED BY <2>1, <2>2, WriteFound
<1>3. ASSUME rows' = rows, up' = up, \A e \in Executors : Claims(e) \subseteq Claims(e)'
      PROVE  FoundInv'
  BY <1>3, FoundKept
<1>4. ASSUME NEW e \in Executors, Commit(e) PROVE FoundInv'
  BY <1>4, CommitFound
<1>5. ASSUME NEW e \in Executors, NEW t \in Tasks, Execute(e, t) PROVE FoundInv'
  <2>1. rows[t].status # "COMPLETED"
    BY <1>5 DEF Execute, OwnerInv, Owner, Owns, Claims
  <2>2. running' = [running EXCEPT ![e] = @ \cup {t}]
    BY <1>5, <2>1 DEF Execute, Executes
  <2>3. QED BY <1>3, <1>5, <2>2 DEF Execute, Claims, TypeOK
<1>6. ASSUME NEW e \in Executors, NEW t \in Tasks, RecordStep(e, t) PROVE FoundInv'
  <2>1. /\ rows' = [rows EXCEPT ![t] = [rows[t] EXCEPT !.executor = e]] /\ t \in Claims(e)
        /\ up' = up /\ \A f \in Executors : Claims(f)' = Claims(f)
    BY <1>6 DEF RecordStep, Write, Claims
  <2>2. rows[t].status = "PENDING" => rows[t].executor = e
    BY <2>1 DEF OwnerInv, Owner, Owns
  <2>3. \A u \in Tasks : rows'[u].status = "PENDING" =>
          /\ rows[u].status = "PENDING"
          /\ rows'[u].executor = rows[u].executor /\ rows'[u].version = rows[u].version
    BY <2>1, <2>2 DEF TypeOK, Rows
  <2>4. QED BY <2>1, <2>3, FoundKept
<1>7. ASSUME NEW e \in Executors, NEW t \in Tasks, Finish(e, t) PROVE FoundInv'
  <2> DEFINE row == [rows[t] EXCEPT !.status = "COMPLETED"]
  <2>1. row \in Rows /\ row.status = "COMPLETED"
    BY CompletedRow
  <2>2. Write(t, row) /\ up' = up /\ \A f \in Executors : Claims(f) \subseteq Claims(f)' \cup {t}
    BY <1>7 DEF Finish, Claims, TypeOK
  <2> HIDE DEF row
  <2>3. QED BY <2>1, <2>2, WriteFound
<1>8. ASSUME NEW e \in Executors, NEW t \in Tasks, Unwind(e, t) PROVE FoundInv'
  <2>1. /\ rows' = rows /\ up' = up /\ rows[t].status # "PENDING"
        /\ \A f \in Executors : Claims(f) \subseteq Claims(f)' \cup {t}
    BY <1>8 DEF Unwind, Claims, TypeOK
  <2>2. QED BY <2>1, FoundKept
<1>9. ASSUME NEW e \in Executors, NEW t \in Tasks, RecoverWorkflow(e, t) PROVE FoundInv'
  <2>1. CASE t \in Pending
    <3> DEFINE row == [rows[t] EXCEPT !.status = "ENQUEUED", !.started = NoTime]
    <3>1. row \in Rows /\ row.status = "ENQUEUED"
      BY RequeuedRow
    <3>2. /\ Write(t, row) /\ up' = up
          /\ \A f \in Executors : Claims(f) \subseteq Claims(f)' \cup {t}
      BY <1>9, <2>1 DEF RecoverWorkflow, Claims, TypeOK
    <3> HIDE DEF row
    <3>3. QED BY <3>1, <3>2, WriteFound
  <2>2. CASE t \notin Pending
    <3>1. rows' = rows /\ up' = up /\ rows[t].status # "PENDING"
      BY <1>9, <2>2 DEF RecoverWorkflow, Pending, OwnerInv, OnQueue
    <3>2. \A f \in Executors : Claims(f) \subseteq Claims(f)' \cup {t}
      BY <1>9, <2>2 DEF RecoverWorkflow, Executes, Claims, TypeOK
    <3>3. QED BY <3>1, <3>2, FoundKept
  <2>3. QED BY <2>1, <2>2
<1>10. ASSUME NEW e \in Executors, Crash(e) PROVE FoundInv'
  <2>1. /\ rows' = rows /\ up' = up \ {e}
        /\ \A f \in Executors \ {e} : Claims(f)' = Claims(f)
    BY <1>10 DEF Crash, Claims, TypeOK
  <2>2. QED BY <2>1 DEF FoundInv, Found
<1>11. ASSUME NEW e \in Executors, Launch(e) PROVE FoundInv'
  <2>1. /\ rows' = rows /\ up' = up \cup {e} /\ e \notin up
        /\ PendingOf(e, e) \subseteq Claims(e)'
        /\ \A f \in Executors \ {e} : Claims(f)' = Claims(f)
    BY <1>11 DEF Launch, Claims, TypeOK
  <2>2. QED BY <2>1 DEF FoundInv, Found, PendingOf
<1>12. ASSUME UNCHANGED <<rows, todo, running, listed, up>> PROVE FoundInv'
  BY <1>3, <1>12 DEF Claims
<1>13. QED
  BY <1>1, <1>2, <1>4, <1>5, <1>6, <1>7, <1>8, <1>9, <1>10, <1>11, <1>12
  DEF Next, Worker, Poll, Snapshot, LockRow, RecoverPending, Tick, vars

(* A dequeued task is in its executor's hands or found again when that     *)
(* executor is launched, through any rolling upgrade, if the result of a   *)
(* committed dequeue reaches the worker and every function is registered:  *)
(* dequeueing a task also stamps its row with the version that will look   *)
(* for it (NoneStranded).                                                  *)
THEOREM NoneStrandedCorrect ==
  ASSUME "conductor" \notin Env, "lost" \notin Env, Unregistered = {}
  PROVE  Spec => []NoneStranded
<1> DEFINE All == TypeOK /\ LockInv /\ OwnerInv /\ FoundInv
<1>1. Init => All
  BY InitTypeOK, InitLockInv, InitOwnerInv, InitFoundInv
<1>2. All /\ [Next]_vars => All'
  BY NextTypeOK, NextLockInv, NextOwnerInv, NextFoundInv
<1>3. All => NoneStranded
  BY FoundHolds
<1> HIDE DEF All
<1>4. QED BY <1>1, <1>2, <1>3, PTL DEF Spec
-----------------------------------------------------------------------------
(* Queue.concurrency.  Two open transactions may count from snapshots of   *)
(* different ages, and neither sees what the other has dequeued.  That     *)
(* their tasks together stay within the limit comes from the order of the  *)
(* queue: with NOWAIT both take their rows from the front, so the first    *)
(* commit makes the other fail or is one the other already counted.        *)

(* Tasks arrive in the order of the queue, and what an executor has in its *)
(* hands has arrived.                                                      *)
Arrived(t) == rows[t].status # "NONE"
Active(t) == rows[t].status \in {"ENQUEUED", "PENDING"}

ArrivedInv ==
  /\ \A t, u \in Tasks : Rank[t] < Rank[u] /\ Arrived(u) => Arrived(t)
  /\ \A e \in Executors : \A t \in Claims(e) : Arrived(t)
  /\ \A t \in Tasks : OnQueue(t)

LEMMA InitArrivedInv == Init => ArrivedInv
BY DEF Init, ArrivedInv, Arrived, OnQueue, Claims, NoRow

(* What a write of one row that has arrived may do.                        *)
LEMMA WriteStatus ==
  ASSUME TypeOK, ArrivedInv, NEW t \in Tasks, NEW row \in Rows, Write(t, row), Arrived(t),
         row.status # "NONE",
         row.status \in {"ENQUEUED", "PENDING"} => row.queued /\ Active(t),
         row.status = "PENDING" => t \in Pending
  PROVE  \A u \in Tasks : /\ Arrived(u)' <=> Arrived(u)
                          /\ Active(u)' => Active(u)
                          /\ u \in Pending' => u \in Pending
                          /\ OnQueue(u)'
<1>1. rows'[t] = row /\ \A u \in Tasks : u # t => rows'[u] = rows[u]
  BY WriteType DEF Write, TypeOK
<1>2. QED BY <1>1 DEF ArrivedInv, Arrived, Active, Pending, OnQueue

(* Steps that neither put a task on the queue nor take one off it.         *)
LEMMA QuietRows ==
  ASSUME TypeOK, ArrivedInv, [Next]_vars,
         \A t \in Tasks : ~Enqueue(t), \A e \in Executors : ~Commit(e)
  PROVE  \A u \in Tasks : /\ Arrived(u)' <=> Arrived(u)
                          /\ Active(u)' => Active(u)
                          /\ u \in Pending' => u \in Pending
                          /\ OnQueue(u)'
<1> DEFINE Goal == \A u \in Tasks : /\ Arrived(u)' <=> Arrived(u)
                                    /\ Active(u)' => Active(u)
                                    /\ u \in Pending' => u \in Pending
                                    /\ OnQueue(u)'
<1>1. ASSUME rows' = rows PROVE Goal
  BY <1>1 DEF ArrivedInv, Arrived, Active, Pending, OnQueue
<1>2. ASSUME NEW t \in Tasks, Cancel(t) PROVE Goal
  <2> DEFINE row == [rows[t] EXCEPT !.status = "CANCELLED", !.queued = FALSE, !.started = NoTime]
  <2>1. row \in Rows /\ row.status = "CANCELLED"
    BY CancelledRow
  <2>2. Write(t, row) /\ Arrived(t)
    BY <1>2 DEF Cancel, Arrived
  <2> HIDE DEF row
  <2>3. QED BY <2>1, <2>2, WriteStatus
<1>3. ASSUME NEW e \in Executors, NEW t \in Tasks, RecordStep(e, t) PROVE Goal
  <2> DEFINE row == [rows[t] EXCEPT !.executor = e]
  <2>1. row \in Rows /\ row.status = rows[t].status /\ row.queued = rows[t].queued
    BY RecordedRow
  <2>2. Write(t, row) /\ Arrived(t) /\ OnQueue(t)
    BY <1>3 DEF RecordStep, ArrivedInv, Claims
  <2> HIDE DEF row
  <2>3. QED BY <2>1, <2>2, WriteStatus DEF Arrived, Active, OnQueue, Pending
<1>4. ASSUME NEW e \in Executors, NEW t \in Tasks, Finish(e, t) PROVE Goal
  <2> DEFINE row == [rows[t] EXCEPT !.status = "COMPLETED"]
  <2>1. row \in Rows /\ row.status = "COMPLETED"
    BY CompletedRow
  <2>2. Write(t, row) /\ Arrived(t)
    BY <1>4 DEF Finish, ArrivedInv, Claims
  <2> HIDE DEF row
  <2>3. QED BY <2>1, <2>2, WriteStatus
<1>5. ASSUME NEW e \in Executors, NEW t \in Tasks, RecoverWorkflow(e, t) PROVE Goal
  <2>1. CASE t \in Pending
    <3> DEFINE row == [rows[t] EXCEPT !.status = "ENQUEUED", !.started = NoTime]
    <3>1. row \in Rows /\ row.status = "ENQUEUED" /\ row.queued
      BY <2>1, RequeuedRow DEF Pending
    <3>2. Write(t, row) /\ Arrived(t) /\ Active(t)
      BY <1>5, <2>1 DEF RecoverWorkflow, Pending, Arrived, Active
    <3> HIDE DEF row
    <3>3. QED BY <3>1, <3>2, WriteStatus
  <2>2. CASE t \notin Pending
    BY <1>1, <1>5, <2>2 DEF RecoverWorkflow
  <2>3. QED BY <2>1, <2>2
<1> HIDE DEF Goal
<1>6. Goal
  BY <1>1, <1>2, <1>3, <1>4, <1>5
  DEF Next, Worker, vars, Poll, Snapshot, LockRow, Execute, Crash, Launch, Unwind,
      RecoverPending, Tick
<1>7. QED BY <1>6 DEF Goal

(* What a commit does to the statuses.                                     *)
LEMMA CommitRows ==
  ASSUME TypeOK, LockInv, NEW e \in Executors, Commit(e)
  PROVE  /\ \A t \in Started(e) : /\ t \in Tasks /\ Waiting(t)
                                  /\ rows'[t].status = "PENDING" /\ rows'[t].queued
         /\ \A t \in Tasks \ Started(e) : rows'[t] = rows[t]
<1>1. Started(e) \subseteq txn[e].picks /\ txn[e].picks \subseteq Tasks
  BY CommitEffect DEF TypeOK, Txns
<1>2. \A t \in Started(e) : t \in Tasks /\ Waiting(t)
  BY <1>1 DEF LockInv, Fresh
<1>3. ASSUME NEW t \in Started(e) PROVE rows'[t].status = "PENDING" /\ rows'[t].queued
  <2>1. rows'[t] = [rows[t] EXCEPT !.status = "PENDING", !.executor = e,
                                   !.started = txn[e].now, !.version = AppVersion[e]]
    BY <1>2 DEF Commit, Dequeued
  <2>2. rows[t] \in Rows /\ rows[t].queued
    BY <1>2 DEF TypeOK, Waiting
  <2>3. QED BY <2>1, <2>2 DEF Rows
<1>4. QED BY <1>2, <1>3, CommitEffect
(* What comes into an executor's hands was PENDING or is dequeued now.     *)
LEMMA ClaimsArrived ==
  ASSUME TypeOK, LockInv, ArrivedInv, [Next]_vars, NEW e \in Executors, NEW t \in Claims(e)'
  PROVE  Arrived(t)
<1>1. t \in Claims(e) => Arrived(t)
  BY DEF ArrivedInv
<1>2. \A x \in Executors : \A u \in PendingOf(e, x) : Arrived(u)
  BY DEF PendingOf, Arrived
<1>3. ASSUME NEW f \in Executors, Commit(f) PROVE Arrived(t)
  <2>1. Claims(e)' \subseteq Claims(e) \cup Started(f)
    BY <1>3 DEF Commit, Claims, TypeOK
  <2>2. QED BY <1>1, <1>3, <2>1, CommitRows DEF Waiting, Arrived
<1>4. ASSUME NEW f \in Executors, Launch(f) PROVE Arrived(t)
  <2>1. Claims(e)' \subseteq Claims(e) \cup PendingOf(e, e)
    BY <1>4 DEF Launch, Claims, TypeOK
  <2>2. QED BY <1>1, <1>2, <2>1
<1>5. ASSUME NEW f \in Executors, NEW x \in Executors, RecoverPending(f, x) PROVE Arrived(t)
  <2>1. Claims(e)' \subseteq Claims(e) \cup PendingOf(e, x)
    BY <1>5 DEF RecoverPending, Claims, TypeOK
  <2>2. QED BY <1>1, <1>2, <2>1
<1>6. ASSUME NEW f \in Executors, NEW u \in Tasks,
             Execute(f, u) \/ Finish(f, u) \/ Unwind(f, u) \/ RecoverWorkflow(f, u)
      PROVE  Arrived(t)
  <2>1. Claims(e)' \subseteq Claims(e)
    BY <1>6 DEF Execute, Finish, Unwind, RecoverWorkflow, Executes, Claims, TypeOK
  <2>2. QED BY <1>1, <2>1
<1>7. ASSUME NEW f \in Executors, Crash(f) PROVE Arrived(t)
  <2>1. Claims(e)' \subseteq Claims(e)
    BY <1>7 DEF Crash, Claims, TypeOK
  <2>2. QED BY <1>1, <2>1
<1>8. ASSUME UNCHANGED <<todo, running, listed>> PROVE Arrived(t)
  BY <1>1, <1>8 DEF Claims
<1>9. QED
  BY <1>3, <1>4, <1>5, <1>6, <1>7, <1>8
  DEF Next, Worker, vars, Enqueue, Cancel, Poll, Snapshot, LockRow, RecordStep, Tick

LEMMA NextArrivedInv ==
  ASSUME "overtake" \notin Env, TypeOK, LockInv, ArrivedInv, [Next]_vars
  PROVE  ArrivedInv'
<1>1. \A e \in Executors : \A t \in Claims(e)' : Arrived(t) /\ t \in Tasks
  BY ClaimsArrived, NextTypeOK DEF Claims, TypeOK
<1>2. ASSUME NEW t \in Tasks, Enqueue(t) PROVE ArrivedInv'
  <2>1. /\ \A u \in Tasks : Rank[u] < Rank[t] => Arrived(u)
        /\ rows'[t] = EnqueueOnQueue(t) /\ \A u \in Tasks : u # t => rows'[u] = rows[u]
    BY <1>2, EnqueuedRowType, WriteType DEF Enqueue, Write, Arrived, TypeOK
  <2>2. Arrived(t)' /\ OnQueue(t)' /\ \A u \in Tasks : Arrived(u) => Arrived(u)'
    BY <2>1 DEF EnqueueOnQueue, Arrived, OnQueue
  <2>3. ASSUME NEW u \in Tasks, NEW w \in Tasks, Rank[u] < Rank[w], Arrived(w)'
        PROVE  Arrived(u)'
    <3>1. CASE w = t
      BY <2>1, <2>2, <2>3, <3>1
    <3>2. CASE w # t
      <4>1. Arrived(w)
        BY <2>1, <2>3, <3>2 DEF Arrived
      <4>2. QED BY <2>2, <2>3, <4>1 DEF ArrivedInv
    <3>3. QED BY <3>1, <3>2
  <2>4. \A u \in Tasks : OnQueue(u)'
    BY <2>1, <2>2 DEF ArrivedInv, OnQueue
  <2>5. QED BY <1>1, <2>2, <2>3, <2>4 DEF ArrivedInv
<1>3. ASSUME NEW e \in Executors, Commit(e) PROVE ArrivedInv'
  <2>1. \A t \in Tasks : Arrived(t)' <=> Arrived(t)
    BY <1>3, CommitRows DEF Arrived, Waiting
  <2>2. \A t \in Tasks : OnQueue(t)'
    BY <1>3, CommitRows DEF ArrivedInv, OnQueue
  <2>3. QED BY <1>1, <2>1, <2>2 DEF ArrivedInv
<1>4. CASE (\A t \in Tasks : ~Enqueue(t)) /\ (\A e \in Executors : ~Commit(e))
  <2>1. \A u \in Tasks : (Arrived(u)' <=> Arrived(u)) /\ OnQueue(u)'
    BY <1>4, QuietRows
  <2>2. QED BY <1>1, <2>1 DEF ArrivedInv
<1>5. QED BY <1>2, <1>3, <1>4

(* The rows of e's query, and the sets of them it may still come to lock:  *)
(* it goes on from what it has in the order of the queue, through no row   *)
(* written since, for as long as there is room.                            *)
Given(e) == txn[e].left \cup txn[e].picks

Reach(e) ==
  {Q \in SUBSET Given(e) :
     /\ txn[e].picks \subseteq Q
     /\ (Q \ txn[e].picks) \cap txn[e].stale = {}
     /\ \A q \in Q : \A u \in Given(e) : Rank[u] < Rank[q] => u \in Q
     /\ Cardinality(Q) <= Cardinality(txn[e].picks) + txn[e].room}

LEMMA ReachTasks ==
  ASSUME TypeOK, LockInv, NEW e \in Executors, NEW Q \in Reach(e)
  PROVE  /\ Q \in SUBSET Tasks
         /\ \A q \in Q : Waiting(q)
<1>1. txn[e] \in Txns
  BY DEF TypeOK
<1>2. Q \in SUBSET Tasks
  BY <1>1 DEF Reach, Given, Txns
<1>3. QED BY <1>2 DEF Reach, Given, LockInv, Fresh

LEMMA PicksReach ==
  ASSUME TypeOK, SeenInv, NEW e \in Executors, txn[e].pc = "locking"
  PROVE  txn[e].picks \in Reach(e)
<1>1. txn[e].picks \subseteq Tasks /\ txn[e].left \subseteq Tasks /\ txn[e].room \in Nat
  BY DEF TypeOK, Txns
<1>2. Cardinality(txn[e].picks) <= Cardinality(txn[e].picks) + txn[e].room
  BY <1>1, CountType
<1>3. \A q \in txn[e].picks : \A u \in Given(e) : Rank[u] < Rank[q] => u \in txn[e].picks
  <2>1. \A q \in txn[e].picks : \A u \in txn[e].left : Rank[q] < Rank[u]
    BY DEF SeenInv, Seen
  <2>2. \A q, u \in Tasks : Rank[q] < Rank[u] => ~(Rank[u] < Rank[q])
    BY RankAssumption
  <2>3. QED BY <1>1, <2>1, <2>2 DEF Given
<1>4. QED BY <1>2, <1>3 DEF Reach, Given
(* A is what e's commit may have to count: all that is PENDING now, and    *)
(* with whatever e may still lock within the limit.  A task that is        *)
(* neither in A nor given to e comes after all that e may lock.            *)
Counts(e, A) ==
  /\ Pending \subseteq A
  /\ \A Q \in Reach(e) :
       /\ Cardinality(A \cup Q) <= Concurrency
       /\ \A q \in Q : \A t \in Tasks \ (A \cup Given(e)) : Active(t) => Rank[q] < Rank[t]

Counted(e) == txn[e].pc = "locking" => \E A \in SUBSET Tasks : Counts(e, A)

CountInv ==
  Concurrency # NoLimit =>
    /\ Cardinality(Pending) <= Concurrency
    /\ \A e \in Executors : Counted(e)

LEMMA InitCountInv == Init => CountInv
<1> SUFFICES ASSUME Init, Concurrency # NoLimit
    PROVE  Cardinality(Pending) <= Concurrency /\ \A e \in Executors : Counted(e)
  BY DEF CountInv
<1>1. Pending = {} /\ \A e \in Executors : txn[e].pc = "idle"
  BY DEF Init, Pending, NoRow, IdleTxn
<1>2. Concurrency \in Nat
  BY LimitsAssumption DEF Limits
<1>3. QED BY <1>1, <1>2, FS_EmptySet DEF Counted

LEMMA KeptReach ==
  ASSUME TypeOK, NEW e \in Executors, Kept(e)
  PROVE  Reach(e)' \subseteq Reach(e) /\ Given(e)' = Given(e)
<1>1. Given(e)' = Given(e)
  BY DEF Kept, Given
<1>2. ASSUME NEW Q \in Reach(e)' PROVE Q \in Reach(e)
  <2>1. /\ Q \in SUBSET Given(e) /\ txn[e].picks \subseteq Q
        /\ (Q \ txn[e].picks) \cap txn'[e].stale = {}
        /\ \A q \in Q : \A u \in Given(e) : Rank[u] < Rank[q] => u \in Q
        /\ Cardinality(Q) <= Cardinality(txn[e].picks) + txn[e].room
    BY <1>1, <1>2 DEF Reach, Kept
  <2>2. (Q \ txn[e].picks) \cap txn[e].stale = {}
    BY <2>1 DEF Kept
  <2>3. QED BY <2>1, <2>2 DEF Reach
<1>3. QED BY <1>1, <1>2

(* Locking the next row leaves less to reach.                              *)
LEMMA LockRowReach ==
  ASSUME TypeOK, Concurrency # NoLimit, NEW e \in Executors, LockRow(e),
         txn'[e].pc = "locking"
  PROVE  Reach(e)' \subseteq Reach(e) /\ Given(e)' = Given(e)
<1>1. PICK t \in txn[e].left :
        /\ txn'[e].stale = txn[e].stale /\ txn'[e].left = txn[e].left \ {t}
        /\ txn'[e].picks = txn[e].picks \cup {t} /\ txn'[e].room = txn[e].room - 1
        /\ t \notin txn[e].stale
  BY LockRowTxn DEF IdleTxn
<1>2. Given(e)' = Given(e)
  BY <1>1 DEF Given
<1>3. /\ txn[e].room \in Nat \ {0} /\ txn[e].picks \in SUBSET Tasks /\ t \in Tasks
      /\ txn[e].left \in SUBSET Tasks
  BY LockRowTxn DEF TypeOK, Txns
<1>4. /\ Cardinality(txn[e].picks) \in Nat
      /\ Cardinality(txn'[e].picks) \in {Cardinality(txn[e].picks), Cardinality(txn[e].picks) + 1}
  <2>1. IsFiniteSet(txn[e].picks)
    BY <1>3, TasksAssumption, FS_Subset
  <2>2. Cardinality(txn[e].picks \cup {t})
          = IF t \in txn[e].picks THEN Cardinality(txn[e].picks)
            ELSE Cardinality(txn[e].picks) + 1
    BY <2>1, FS_AddElement
  <2>3. Cardinality(txn[e].picks) \in Nat
    BY <1>3, CountType
  <2>4. QED BY <1>1, <2>2, <2>3
<1>5. ASSUME NEW Q \in Reach(e)' PROVE Q \in Reach(e)
  <2>1. /\ Q \in SUBSET Given(e) /\ txn'[e].picks \subseteq Q
        /\ (Q \ txn'[e].picks) \cap txn'[e].stale = {}
        /\ \A q \in Q : \A u \in Given(e) : Rank[u] < Rank[q] => u \in Q
        /\ Cardinality(Q) <= Cardinality(txn'[e].picks) + txn'[e].room
    BY <1>2, <1>5 DEF Reach
  <2>2. Q \in SUBSET Tasks /\ Cardinality(Q) \in Nat
    BY <1>3, <2>1, CountType DEF Given
  <2>3. Cardinality(Q) <= Cardinality(txn[e].picks) + txn[e].room
    BY <1>1, <1>3, <1>4, <2>1, <2>2
  <2>4. txn[e].picks \subseteq Q /\ (Q \ txn[e].picks) \cap txn[e].stale = {}
    BY <1>1, <2>1
  <2>5. QED BY <2>1, <2>3, <2>4 DEF Reach
<1>6. QED BY <1>2, <1>5

(* A step that leaves e with less to reach, and makes no task PENDING that *)
(* is not in A nor active that does not come after it.                     *)
LEMMA CountsKept ==
  ASSUME NEW e \in Executors, NEW A \in SUBSET Tasks, Counts(e, A),
         Reach(e)' \subseteq Reach(e), Given(e)' = Given(e), Pending' \subseteq A,
         \A Q \in Reach(e)' : \A q \in Q : \A t \in Tasks :
           Active(t)' => Active(t) \/ Rank[q] < Rank[t]
  PROVE  Counts(e, A)'
<1>1. ASSUME NEW Q \in Reach(e)'
      PROVE  /\ Cardinality(A \cup Q) <= Concurrency
             /\ \A q \in Q : \A t \in Tasks \ (A \cup Given(e)) : Active(t)' => Rank[q] < Rank[t]
  BY <1>1 DEF Counts
<1>2. QED BY <1>1 DEF Counts
(* A snapshot counts what is PENDING, and all other active tasks are given *)
(* to it: they wait on the queue for the only version there is.            *)
LEMMA SnapshotCounted ==
  ASSUME \A f \in Executors : Versions \subseteq {AppVersion[f], NoVersion},
         TypeOK, LockInv, ArrivedInv, CountInv, Concurrency # NoLimit,
         NEW e \in Executors, Snapshot(e)
  PROVE  Counted(e)'
<1> SUFFICES ASSUME txn'[e].pc = "locking" PROVE \E A \in SUBSET Tasks : Counts(e, A)'
  BY DEF Counted
<1>1. /\ txn[e].pc = "begun" /\ txn'[e].left = Candidates(e) /\ txn'[e].room = MaxTasks(e)
      /\ txn'[e].picks = {}
  BY SnapshotTxn DEF IdleTxn, LockInv, Fresh
<1>2. rows' = rows /\ Pending' = Pending /\ Given(e)' = Candidates(e)
  BY <1>1 DEF Snapshot, Pending, Given
<1>3. PICK A \in SUBSET Tasks : A = Pending
  BY DEF Pending
<1>4. Cardinality(A) \in Nat /\ Concurrency \in Nat /\ Cardinality(A) <= Concurrency
  BY <1>3, CountType, LimitsAssumption DEF CountInv, Limits
<1>5. MaxTasks(e) \in Nat /\ MaxTasks(e) + Cardinality(A) <= Concurrency
  <2>1. PendingAt(e) \in SUBSET Tasks
    BY DEF PendingAt, Pending
  <2>2. LocalRoom(e) \in Nat
    BY <2>1, LeftType, LimitsAssumption DEF LocalRoom, Limits
  <2>3. Left(Concurrency, Pending) \in Nat /\ Left(Concurrency, Pending) + Cardinality(A) <= Concurrency
    BY <1>3, <1>4 DEF Left
  <2>4. MaxTasks(e) <= Left(Concurrency, Pending)
    BY <2>2, <2>3 DEF MaxTasks
  <2>5. QED BY <1>4, <2>3, <2>4, MaxTasksType
<1>6. ASSUME NEW Q \in Reach(e)' PROVE Cardinality(A \cup Q) <= Concurrency
  <2>1. Q \in SUBSET Tasks /\ Cardinality(Q) <= Cardinality({}) + MaxTasks(e)
    BY <1>1, <1>2, <1>6 DEF Reach, Candidates
  <2>2. Cardinality(Q) \in Nat /\ Cardinality(Q) <= MaxTasks(e)
    BY <1>5, <2>1, CountType, FS_EmptySet
  <2>3. IsFiniteSet(A) /\ IsFiniteSet(Q)
    BY <2>1, TasksAssumption, FS_Subset
  <2>4. /\ Cardinality(A \cup Q) = Cardinality(A) + Cardinality(Q) - Cardinality(A \cap Q)
        /\ Cardinality(A \cap Q) \in Nat
    BY <2>1, <2>3, CountType, FS_Union
  <2>5. QED BY <1>4, <1>5, <2>2, <2>4
<1>7. \A t \in Tasks \ (A \cup Candidates(e)) : ~Active(t)
  <2>1. \A t \in Tasks : rows[t].version \in {AppVersion[e], NoVersion}
    BY DEF TypeOK, Rows
  <2>2. QED BY <1>3, <2>1 DEF ArrivedInv, OnQueue, Active, Candidates, Pending
<1>8. \A t \in Tasks : Active(t)' <=> Active(t)
  BY <1>2 DEF Active
<1>9. Counts(e, A)'
  BY <1>2, <1>3, <1>6, <1>7, <1>8 DEF Counts
<1>10. QED BY <1>9

(* The commit of f.  If it starts a task e did not count, then all that e  *)
(* may still lock comes before that task: f counted it, or starts it too,  *)
(* so e may count what f did.                                              *)
LEMMA CommitCounted ==
  ASSUME TypeOK, LockInv, SeenInv, Concurrency # NoLimit,
         NEW f \in Executors, Commit(f), NEW e \in Executors \ {f}, Kept(e),
         NEW A \in SUBSET Tasks, Counts(e, A), NEW B \in SUBSET Tasks, Counts(f, B)
  PROVE  \E D \in SUBSET Tasks : Counts(e, D)'
<1>1. PICK T \in SUBSET Tasks : T = Started(f)
  BY CommitRows
<1>2. txn[f].picks \in Reach(f) /\ T \subseteq txn[f].picks /\ txn[f].picks \in SUBSET Tasks
  BY <1>1, PicksReach, CommitEffect DEF Commit, TypeOK, Txns
<1>3. /\ Reach(e)' \subseteq Reach(e) /\ Given(e)' = Given(e)
      /\ \A Q \in Reach(e)' : Q \cap T = {}
  <2>1. T \subseteq txn'[e].stale
    BY <1>1, CommitEffect, TouchType DEF Kept, TypeOK
  <2>2. txn[e].picks \cap T = {} /\ txn'[e].picks = txn[e].picks
    BY <1>2 DEF LockInv, Fresh, LockedByOther, Kept
  <2>3. \A Q \in Reach(e)' : Q \cap T = {}
    BY <2>1, <2>2 DEF Reach
  <2>4. QED BY <2>3, KeptReach
<1>4. Pending' \subseteq Pending \cup T /\ \A t \in Tasks : Active(t)' => Active(t)
  BY <1>1, CommitRows DEF Pending, Active, Waiting
<1>5. CASE T \subseteq A
  <2>1. Counts(e, A)'
    BY <1>3, <1>4, <1>5, CountsKept DEF Counts
  <2>2. QED BY <2>1
<1>6. CASE ~(T \subseteq A)
  <2>1. PICK t \in T : t \notin A
    BY <1>6
  <2>2. t \in Tasks /\ Active(t)
    BY <1>1, CommitRows DEF Active, Waiting
  (* In the order of the queue, what is active before t is counted or      *)
  (* started by f.                                                         *)
  <2>3. ASSUME NEW u \in Tasks, Active(u), Rank[u] < Rank[t] PROVE u \in B \cup T
    <3>1. u \in B \cup Given(f)
      <4>1. \A x \in Tasks \ (B \cup Given(f)) : Active(x) => Rank[t] < Rank[x]
        BY <1>2 DEF Counts
      <4>2. ~(Rank[t] < Rank[u])
        BY <2>2, <2>3, RankAssumption
      <4>3. QED BY <2>3, <4>1, <4>2
    <3>2. u \in Given(f) => u \in txn[f].picks
      BY <1>2, <2>3 DEF Reach
    <3>3. u \in txn[f].picks => u \in T
      BY <1>1, <2>3, StartedPrefix
    <3>4. QED BY <3>1, <3>2, <3>3
  <2>4. ASSUME NEW Q \in Reach(e)', NEW q \in Q
        PROVE  q \in Tasks /\ Active(q) /\ q # t /\ Rank[q] < Rank[t]
    <3>1. Q \in Reach(e) /\ q \in Tasks /\ Active(q) /\ q # t
      BY <1>3, <2>1, <2>4, ReachTasks DEF Active, Waiting
    <3>2. CASE t \in Given(e)
      <4>1. ~(Rank[t] < Rank[q])
        <5>1. Rank[t] < Rank[q] => t \in Q
          BY <3>1, <3>2 DEF Reach
        <5>2. QED BY <1>3, <2>1, <2>4, <5>1
      <4>2. QED BY <2>2, <3>1, <4>1, RankAssumption
    <3>3. CASE t \notin Given(e)
      BY <2>1, <2>2, <3>1, <3>3 DEF Counts
    <3>4. QED BY <3>1, <3>2, <3>3
  <2>5. PICK D \in SUBSET Tasks : D = B \cup T
    OBVIOUS
  <2>6. Pending' \subseteq D
    BY <1>4, <2>5 DEF Counts
  <2>7. Cardinality(D) <= Concurrency
    <3>1. B \cup txn[f].picks \in SUBSET Tasks /\ D \subseteq B \cup txn[f].picks
      BY <1>2, <2>5
    <3>2. Cardinality(B \cup txn[f].picks) <= Concurrency /\ Concurrency \in Nat
      BY <1>2, LimitsAssumption DEF Counts, Limits
    <3>3. /\ Cardinality(D) \in Nat /\ Cardinality(B \cup txn[f].picks) \in Nat
          /\ Cardinality(D) <= Cardinality(B \cup txn[f].picks)
      BY <3>1, SmallerCount
    <3>4. QED BY <3>2, <3>3
  <2>8. ASSUME NEW Q \in Reach(e)' PROVE Cardinality(D \cup Q) <= Concurrency
    <3>1. D \cup Q = D
      BY <2>3, <2>4, <2>5, <2>8
    <3>2. QED BY <2>7, <3>1
  <2>9. ASSUME NEW Q \in Reach(e)', NEW q \in Q, NEW u \in Tasks \ (D \cup Given(e)), Active(u)'
        PROVE  Rank[q] < Rank[u]
    <3>1. Active(u) /\ q \in Tasks /\ Rank[q] < Rank[t]
      BY <1>4, <2>4, <2>9
    <3>2. ~(Rank[u] < Rank[t])
      BY <2>3, <2>5, <2>9, <3>1
    <3>3. QED BY <2>2, <2>9, <3>1, <3>2, RankAssumption
  <2>10. Counts(e, D)'
    BY <1>3, <2>6, <2>8, <2>9 DEF Counts
  <2>11. QED BY <2>10
<1>7. QED BY <1>5, <1>6
LEMMA NextCountInv ==
  ASSUME "overtake" \notin Env,
         \A f \in Executors : Versions \subseteq {AppVersion[f], NoVersion},
         TypeOK, LockInv, SeenInv, ArrivedInv, CountInv, [Next]_vars
  PROVE  CountInv'
<1> SUFFICES ASSUME Concurrency # NoLimit
    PROVE  Cardinality(Pending)' <= Concurrency /\ \A e \in Executors : Counted(e)'
  BY DEF CountInv
<1>0. Concurrency \in Nat /\ Cardinality(Pending) <= Concurrency /\ Pending \in SUBSET Tasks
  BY LimitsAssumption DEF CountInv, Limits, Pending
<1>1. ASSUME NEW f \in Executors, Commit(f), NEW B \in SUBSET Tasks, Counts(f, B)
      PROVE  Cardinality(Pending)' <= Concurrency
  <2>1. txn[f].picks \in Reach(f) /\ Started(f) \subseteq txn[f].picks /\ txn[f].picks \in SUBSET Tasks
    BY <1>1, PicksReach, CommitEffect DEF Commit, TypeOK, Txns
  <2>2. Pending' \subseteq B \cup txn[f].picks
    BY <1>1, <2>1, CommitRows DEF Pending, Counts
  <2>3. Cardinality(B \cup txn[f].picks) <= Concurrency
    BY <1>1, <2>1 DEF Counts
  <2>4. /\ Cardinality(Pending') \in Nat /\ Cardinality(B \cup txn[f].picks) \in Nat
        /\ Cardinality(Pending') <= Cardinality(B \cup txn[f].picks)
    BY <2>1, <2>2, SmallerCount
  <2>5. QED BY <1>0, <2>3, <2>4
<1>2. ASSUME NEW f \in Executors, Commit(f)
      PROVE  \E B \in SUBSET Tasks : Counts(f, B)
  BY <1>2 DEF Commit, CountInv, Counted
<1>3. ASSUME Pending' \subseteq Pending PROVE Cardinality(Pending)' <= Concurrency
  <2>1. /\ Cardinality(Pending') \in Nat /\ Cardinality(Pending) \in Nat
        /\ Cardinality(Pending') <= Cardinality(Pending)
    BY <1>0, <1>3, SmallerCount
  <2>2. QED BY <1>0, <2>1
<1>4. ASSUME NEW t \in Tasks, Enqueue(t)
      PROVE  /\ Pending' \subseteq Pending
             /\ \A u \in Tasks : Active(u)' => Active(u) \/ u = t
             /\ ~Arrived(t) /\ \A u \in Tasks : Rank[u] < Rank[t] => Arrived(u)
  <2>1. rows'[t] = EnqueueOnQueue(t) /\ \A u \in Tasks : u # t => rows'[u] = rows[u]
    BY <1>4, EnqueuedRowType, WriteType DEF Enqueue, Write, TypeOK
  <2>2. QED BY <1>4, <2>1 DEF Enqueue, EnqueueOnQueue, Pending, Active, Arrived
<1>5. Cardinality(Pending)' <= Concurrency
  <2>1. CASE \E f \in Executors : Commit(f)
    BY <1>1, <1>2, <2>1
  <2>2. CASE \E t \in Tasks : Enqueue(t)
    BY <1>3, <1>4, <2>2
  <2>3. CASE (\A t \in Tasks : ~Enqueue(t)) /\ (\A e \in Executors : ~Commit(e))
    <3>1. Pending' \subseteq Pending
      <4>1. Pending' \subseteq Tasks
        BY DEF Pending
      <4>2. QED BY <2>3, <4>1, QuietRows
    <3>2. QED BY <1>3, <3>1
  <2>4. QED BY <2>1, <2>2, <2>3
<1>6. ASSUME NEW e \in Executors, txn'[e].pc = "locking", ~Snapshot(e)
      PROVE  \E A \in SUBSET Tasks : Counts(e, A)'
  <2>1. ~Commit(e)
    BY <1>6, CommitEffect DEF IdleTxn
  <2>2. txn[e].pc = "locking" /\ Reach(e)' \subseteq Reach(e) /\ Given(e)' = Given(e)
    <3>1. CASE LockRow(e)
      BY <1>6, <3>1, LockRowReach, LockRowTxn
    <3>2. CASE ~LockRow(e)
      <4>1. Kept(e)
        BY <1>6, <2>1, <3>2, TxnKept
      <4>2. QED BY <4>1, KeptReach DEF Kept
    <3>3. QED BY <3>1, <3>2
  <2>3. PICK A \in SUBSET Tasks : Counts(e, A)
    BY <2>2 DEF CountInv, Counted
  <2>4. ASSUME NEW f \in Executors, Commit(f) PROVE \E D \in SUBSET Tasks : Counts(e, D)'
    <3>1. f # e /\ ~LockRow(e)
      <4>1. LockRow(e) => txn'[f] = txn[f] \/ f = e
        BY LockRowTxn
      <4>2. txn'[f].pc = "idle" /\ txn[f].pc = "locking"
        BY <2>4, CommitEffect DEF Commit, IdleTxn
      <4>3. QED BY <2>1, <2>4, <4>1, <4>2
    <3>2. Kept(e)
      BY <1>6, <2>1, <3>1, TxnKept
    <3>3. QED BY <1>2, <2>3, <2>4, <3>1, <3>2, CommitCounted
  <2>5. ASSUME NEW t \in Tasks, Enqueue(t) PROVE Counts(e, A)'
    <3>1. ASSUME NEW Q \in Reach(e)', NEW q \in Q PROVE Rank[q] < Rank[t]
      <4>1. q \in Tasks /\ Arrived(q)
        BY <2>2, <3>1, ReachTasks DEF Arrived, Waiting
      <4>2. q # t /\ ~(Rank[t] < Rank[q])
        BY <1>4, <2>5, <4>1 DEF ArrivedInv
      <4>3. QED BY <4>1, <4>2, RankAssumption
    <3>2. Pending' \subseteq A
      BY <1>4, <2>3, <2>5 DEF Counts
    <3>3. QED BY <1>4, <2>2, <2>3, <2>5, <3>1, <3>2, CountsKept
  <2>6. CASE (\A t \in Tasks : ~Enqueue(t)) /\ (\A f \in Executors : ~Commit(f))
    <3>1. \A t \in Tasks : (Active(t)' => Active(t)) /\ (t \in Pending' => t \in Pending)
      BY <2>6, QuietRows
    <3>2. Pending' \subseteq A
      <4>1. Pending' \subseteq Tasks
        BY DEF Pending
      <4>2. QED BY <2>3, <3>1, <4>1 DEF Counts
    <3>3. Counts(e, A)'
      BY <2>2, <2>3, <3>1, <3>2, CountsKept
    <3>4. QED BY <3>3
  <2>7. QED BY <2>4, <2>5, <2>6
<1>7. ASSUME NEW e \in Executors PROVE Counted(e)'
  <2>1. CASE Snapshot(e)
    BY <2>1, SnapshotCounted
  <2>2. CASE ~Snapshot(e)
    BY <1>6, <2>2 DEF Counted
  <2>3. QED BY <2>1, <2>2
<1>8. QED BY <1>5, <1>7

(* A queue's concurrency is a limit of the whole queue: however many       *)
(* executors dequeue at once, crash, lose what they have dequeued, recover *)
(* it or have it recovered by others, and whatever is cancelled, no more   *)
(* tasks than that are between dequeue and end.  It takes what TLC shows   *)
(* to be needed: tasks arrive in the order of the queue, and all executors *)
(* and tasks have one version (ConcurrencyRespected).                      *)
THEOREM ConcurrencyCorrect ==
  ASSUME "overtake" \notin Env,
         \A e \in Executors : Versions \subseteq {AppVersion[e], NoVersion}
  PROVE  Spec => []ConcurrencyRespected
<1> DEFINE All == TypeOK /\ LockInv /\ SeenInv /\ ArrivedInv /\ CountInv
<1>1. Init => All
  BY InitTypeOK, InitLockInv, InitSeenInv, InitArrivedInv, InitCountInv
<1>2. All /\ [Next]_vars => All'
  BY NextTypeOK, NextLockInv, NextSeenInv, NextArrivedInv, NextCountInv
<1>3. All => ConcurrencyRespected
  BY DEF CountInv, ConcurrencyRespected
<1> HIDE DEF All
<1>4. QED BY <1>1, <1>2, <1>3, PTL DEF Spec

-----------------------------------------------------------------------------
(* Queue.limiter.  A dequeue counts the tasks started in the period before *)
(* its snapshot, so two that are open at once both count what was there    *)
(* before either.  With a global concurrency the order of the queue saves  *)
(* the limit: a transaction that has counted too little can no longer lock *)
(* a row.                                                                  *)

(* No executor goes down and none is recovered; what was dequeued stays    *)
(* so, and its row says when.                                              *)
Steady ==
  /\ up = Executors
  /\ \A e \in Executors :
       listed[e] = {} /\ \A t \in Claims(e) : rows[t].status \in {"PENDING", "COMPLETED"}

Dated ==
  \A d \in starts : /\ rows[d[1]].status \in {"PENDING", "COMPLETED"}
                    /\ rows[d[1]].queued
                    /\ rows[d[1]].started = d[2]

(* All that waits and was not given to e comes after what e may still      *)
(* lock; and e has counted what was started, or comes to lock nothing.     *)
Ahead(e) ==
  \A t \in Tasks \ Given(e) :
    Waiting(t) => \A g \in Given(e) \ txn[e].stale : Rank[g] < Rank[t]

Doomed(e) == \A Q \in Reach(e) : Q = {}
Certain(e) == Cardinality(Recent(txn[e].now)) <= txn[e].recent

Rated(e) == txn[e].pc = "locking" => Ahead(e) /\ (Doomed(e) \/ Certain(e))

RateInv == Steady /\ Dated /\ (\A e \in Executors : Rated(e)) /\ RateLimit

LEMMA RecentType ==
  ASSUME NEW now
  PROVE  Recent(now) \in SUBSET Tasks
BY DEF Recent

LEMMA InitRateInv == Init => RateInv
<1> SUFFICES ASSUME Init PROVE RateInv
  OBVIOUS
<1>1. Steady /\ Dated /\ \A e \in Executors : Rated(e)
  BY DEF Init, Steady, Dated, Rated, Claims, IdleTxn
<1>2. ASSUME Limit # NoLimit, NEW s \in Times
      PROVE  Cardinality({d \in starts : s <= d[2] /\ d[2] < s + Period}) <= Limit
  <2>1. {d \in starts : s <= d[2] /\ d[2] < s + Period} = {}
    BY DEF Init
  <2>2. Limit \in Nat
    BY <1>2, LimitsAssumption DEF Limits
  <2>3. QED BY <2>1, <2>2, FS_EmptySet
<1>3. QED BY <1>1, <1>2 DEF RateInv, RateLimit

(* What an open transaction knows of the time and of what was started.     *)
LEMMA TouchCount ==
  ASSUME NEW x \in Txns, NEW T
  PROVE  Touch(x, T).now = x.now /\ Touch(x, T).recent = x.recent
BY DEF Touch, Txns

LEMMA CountKept ==
  ASSUME TypeOK, [Next]_vars, NEW e \in Executors, ~Snapshot(e), txn'[e].pc = "locking"
  PROVE  txn'[e].now = txn[e].now /\ txn'[e].recent = txn[e].recent
<1>0. txn[e] \in Txns
  BY DEF TypeOK
<1>1. ASSUME NEW t \in Tasks, NEW row, Write(t, row)
      PROVE  txn'[e].now = txn[e].now /\ txn'[e].recent = txn[e].recent
  BY <1>0, <1>1, TouchCount DEF Write
<1>2. ASSUME txn'[e] = txn[e]
      PROVE  txn'[e].now = txn[e].now /\ txn'[e].recent = txn[e].recent
  BY <1>2
<1>3. ASSUME NEW f \in Executors, Poll(f)
      PROVE  txn'[e].now = txn[e].now /\ txn'[e].recent = txn[e].recent
  <2>1. txn'[f].pc = "begun"
    BY <1>3 DEF Poll, TypeOK, Txns
  <2>2. QED BY <1>2, <1>3, <2>1 DEF Poll, TypeOK
<1>4. ASSUME NEW f \in Executors, Snapshot(f)
      PROVE  txn'[e].now = txn[e].now /\ txn'[e].recent = txn[e].recent
  BY <1>2, <1>4, SnapshotTxn
<1>5. ASSUME LockRow(e)
      PROVE  txn'[e].now = txn[e].now /\ txn'[e].recent = txn[e].recent
  <2>1. PICK t \in txn[e].left : txn' = [txn EXCEPT ![e] = TryLock(e, t)]
    BY <1>5 DEF LockRow
  <2>2. TryLock(e, t) \in {IdleTxn, Skip(txn[e], t), Take(txn[e], t)}
    BY DEF TryLock
  <2>3. txn'[e] \in {Skip(txn[e], t), Take(txn[e], t)}
    BY <2>1, <2>2 DEF IdleTxn, TypeOK
  <2>4. /\ Skip(txn[e], t).now = txn[e].now /\ Skip(txn[e], t).recent = txn[e].recent
        /\ Take(txn[e], t).now = txn[e].now /\ Take(txn[e], t).recent = txn[e].recent
    BY <1>0 DEF Skip, Take, Txns
  <2>5. QED BY <2>3, <2>4
<1>6. ASSUME NEW f \in Executors \ {e}, LockRow(f)
      PROVE  txn'[e].now = txn[e].now /\ txn'[e].recent = txn[e].recent
  BY <1>2, <1>6, LockRowTxn
<1>7. ASSUME NEW f \in Executors, Commit(f)
      PROVE  txn'[e].now = txn[e].now /\ txn'[e].recent = txn[e].recent
  BY <1>0, <1>7, CommitEffect, TouchCount DEF IdleTxn
<1>8. ASSUME NEW f \in Executors, Crash(f)
      PROVE  txn'[e].now = txn[e].now /\ txn'[e].recent = txn[e].recent
  BY <1>2, <1>8 DEF Crash, TypeOK, IdleTxn
<1>9. ASSUME NEW t \in Tasks, Enqueue(t) \/ Cancel(t)
      PROVE  txn'[e].now = txn[e].now /\ txn'[e].recent = txn[e].recent
  BY <1>1, <1>9 DEF Enqueue, Cancel
<1>10. ASSUME NEW f \in Executors, NEW t \in Tasks,
              RecordStep(f, t) \/ Finish(f, t) \/ RecoverWorkflow(f, t)
       PROVE  txn'[e].now = txn[e].now /\ txn'[e].recent = txn[e].recent
  BY <1>1, <1>2, <1>10 DEF RecordStep, Finish, RecoverWorkflow
<1>11. ASSUME UNCHANGED txn
       PROVE  txn'[e].now = txn[e].now /\ txn'[e].recent = txn[e].recent
  BY <1>2, <1>11
<1>12. QED
  BY <1>3, <1>4, <1>5, <1>6, <1>7, <1>8, <1>9, <1>10, <1>11
  DEF Next, Worker, vars, Execute, Launch, Unwind, RecoverPending, Tick

(* What the steps other than a commit do: they start nothing, and a task   *)
(* that comes to wait on the queue was not there before.                   *)
Quiet ==
  /\ starts' = starts
  /\ \A now : Recent(now)' \subseteq Recent(now)
  /\ \A t \in Tasks : Waiting(t)' => Waiting(t) \/ ~Arrived(t)

LEMMA SteadyQuiet ==
  ASSUME Env \cap {"overtake", "cancel", "crash"} = {},
         TypeOK, Steady, Dated, [Next]_vars, \A e \in Executors : ~Commit(e)
  PROVE  Quiet /\ Steady' /\ Dated'
<1>0. "cancel" \notin Env /\ "crash" \notin Env
  OBVIOUS
<1>1. ASSUME rows' = rows, starts' = starts, up' = up, listed' = listed,
             \A e \in Executors : Claims(e)' \subseteq Claims(e)
      PROVE  Quiet /\ Steady' /\ Dated'
  <2>1. Quiet
    BY <1>1 DEF Quiet, Recent, Waiting
  <2>2. Steady'
    BY <1>1 DEF Steady
  <2>3. Dated'
    BY <1>1 DEF Dated
  <2>4. QED BY <2>1, <2>2, <2>3
(* A write of a row that was dequeued, or is put on the queue.             *)
<1>2. ASSUME NEW t \in Tasks, NEW row \in Rows, Write(t, row),
             starts' = starts, up' = up, listed' = listed,
             \A e \in Executors : Claims(e)' \subseteq Claims(e),
             \/ /\ ~Arrived(t) /\ row.status = "ENQUEUED"
             \/ /\ \E e \in Executors : t \in Claims(e)
                /\ row.status \in {"PENDING", "COMPLETED"}
                /\ row.queued = rows[t].queued /\ row.started = rows[t].started
      PROVE  Quiet /\ Steady' /\ Dated'
  <2>1. rows'[t] = row /\ \A u \in Tasks : u # t => rows'[u] = rows[u]
    BY <1>2, WriteType DEF Write, TypeOK
  <2>2. rows[t].status = "NONE" \/ rows[t].status \in {"PENDING", "COMPLETED"}
    BY <1>2 DEF Steady, Arrived
  <2>3. ASSUME NEW now PROVE Recent(now)' \subseteq Recent(now)
    BY <1>2, <2>1, <2>2 DEF Recent, Steady
  <2>4. \A u \in Tasks : Waiting(u)' => Waiting(u) \/ ~Arrived(u)
    BY <1>2, <2>1 DEF Waiting
  <2>5. Steady'
    <3>1. \A e \in Executors : \A u \in Claims(e)' :
            u \in Tasks /\ u \in Claims(e) /\ rows[u].status \in {"PENDING", "COMPLETED"}
      BY <1>2 DEF Steady, Claims, TypeOK
    <3>2. \A e \in Executors : \A u \in Claims(e)' : rows'[u].status \in {"PENDING", "COMPLETED"}
      BY <1>2, <2>1, <3>1 DEF Arrived
    <3>3. QED BY <1>2, <3>2 DEF Steady
  <2>6. Dated'
    <3>1. \A d \in starts : d[1] \in Tasks
      BY DEF TypeOK
    <3>2. ASSUME NEW d \in starts
          PROVE  /\ rows'[d[1]].status \in {"PENDING", "COMPLETED"}
                 /\ rows'[d[1]].queued /\ rows'[d[1]].started = d[2]
      BY <1>2, <2>1, <3>1 DEF Dated, Arrived
    <3>3. QED BY <1>2, <3>2 DEF Dated
  <2>7. QED BY <1>2, <2>3, <2>4, <2>5, <2>6 DEF Quiet
<1>3. ASSUME NEW t \in Tasks, Enqueue(t) PROVE Quiet /\ Steady' /\ Dated'
  <2>1. EnqueueOnQueue(t).status = "ENQUEUED" /\ EnqueueOnQueue(t) \in Rows
    BY EnqueuedRowType DEF EnqueueOnQueue
  <2>2. Write(t, EnqueueOnQueue(t)) /\ ~Arrived(t)
    BY <1>3 DEF Enqueue, Arrived
  <2>3. QED BY <1>2, <1>3, <2>1, <2>2 DEF Enqueue, Claims
<1>4. ASSUME NEW e \in Executors, NEW t \in Tasks, RecordStep(e, t)
      PROVE  Quiet /\ Steady' /\ Dated'
  <2> DEFINE row == [rows[t] EXCEPT !.executor = e]
  <2>1. row \in Rows /\ row.status = rows[t].status /\ row.queued = rows[t].queued
    BY RecordedRow
  <2>2. row.started = rows[t].started
    BY DEF TypeOK, Rows
  <2>3. Write(t, row) /\ t \in Claims(e) /\ rows[t].status \in {"PENDING", "COMPLETED"}
    BY <1>4 DEF RecordStep, Claims, Steady
  <2>4. \A f \in Executors : Claims(f)' = Claims(f)
    BY <1>4 DEF RecordStep, Claims
  <2>5. starts' = starts /\ up' = up /\ listed' = listed
    BY <1>4 DEF RecordStep
  <2> HIDE DEF row
  <2>6. QED BY <1>2, <2>1, <2>2, <2>3, <2>4, <2>5
<1>5. ASSUME NEW e \in Executors, NEW t \in Tasks, Finish(e, t)
      PROVE  Quiet /\ Steady' /\ Dated'
  <2> DEFINE row == [rows[t] EXCEPT !.status = "COMPLETED"]
  <2>1. row \in Rows /\ row.status = "COMPLETED"
    BY CompletedRow
  <2>2. row.started = rows[t].started /\ row.queued = rows[t].queued
    BY DEF TypeOK, Rows
  <2>3. Write(t, row) /\ t \in Claims(e)
    BY <1>5 DEF Finish, Claims
  <2>4. \A f \in Executors : Claims(f)' \subseteq Claims(f)
    BY <1>5 DEF Finish, Claims, TypeOK
  <2>5. starts' = starts /\ up' = up /\ listed' = listed
    BY <1>5 DEF Finish
  <2> HIDE DEF row
  <2>6. QED BY <1>2, <2>1, <2>2, <2>3, <2>4, <2>5
<1>6. ASSUME NEW e \in Executors, NEW t \in Tasks, Execute(e, t) \/ Unwind(e, t)
      PROVE  Quiet /\ Steady' /\ Dated'
  <2>1. \A f \in Executors : Claims(f)' \subseteq Claims(f)
    BY <1>6 DEF Execute, Executes, Unwind, Claims, TypeOK
  <2>2. QED BY <1>1, <1>6, <2>1 DEF Execute, Unwind
<1>7. ASSUME UNCHANGED <<rows, todo, running, listed, up, starts>>
      PROVE  Quiet /\ Steady' /\ Dated'
  BY <1>1, <1>7 DEF Claims
<1>8. ASSUME NEW t \in Tasks PROVE ~Cancel(t)
  BY <1>0 DEF Cancel
<1>9. ASSUME NEW e \in Executors PROVE ~Launch(e) /\ ~Crash(e)
  BY <1>0 DEF Launch, Crash, Steady
<1>10. ASSUME NEW e \in Executors, NEW t \in Tasks PROVE ~RecoverWorkflow(e, t)
  BY DEF RecoverWorkflow, Steady
<1>11. ASSUME NEW e \in Executors, NEW x \in Executors PROVE ~RecoverPending(e, x)
  BY DEF RecoverPending, Steady
<1>12. ASSUME NEW e \in Executors, Poll(e) \/ Snapshot(e) \/ LockRow(e)
       PROVE  Quiet /\ Steady' /\ Dated'
  BY <1>7, <1>12 DEF Poll, Snapshot, LockRow
<1>13. CASE Tick \/ UNCHANGED vars
  BY <1>7, <1>13 DEF Tick, vars
<1>14. QED
  BY <1>3, <1>4, <1>5, <1>6, <1>8, <1>9, <1>10, <1>11, <1>12, <1>13 DEF Next, Worker

LEMMA CommitSteady ==
  ASSUME TypeOK, LockInv, Steady, Dated, NEW e \in Executors, Commit(e)
  PROVE  Steady' /\ Dated'
<1>1. /\ up' = up /\ listed' = listed /\ running' = running
      /\ starts' = starts \cup (Started(e) \X {txn[e].now})
      /\ todo' = [todo EXCEPT ![e] = Started(e)] \/ todo' = todo
      /\ rows' = [t \in Tasks |-> IF t \in Started(e) THEN Dequeued(e, t) ELSE rows[t]]
  BY DEF Commit
<1>2. ASSUME NEW t \in Started(e)
      PROVE  /\ t \in Tasks /\ Waiting(t) /\ rows'[t].status = "PENDING" /\ rows'[t].queued
             /\ rows'[t].started = txn[e].now
  <2>1. t \in Tasks /\ Waiting(t) /\ rows'[t].status = "PENDING" /\ rows'[t].queued
    BY CommitRows
  <2>2. rows'[t].started = txn[e].now
    BY <1>1, <2>1, ZenonT(40) DEF Dequeued, TypeOK, Rows
  <2>3. QED BY <2>1, <2>2
<1>3. \A t \in Tasks \ Started(e) : rows'[t] = rows[t]
  BY CommitRows
<1>4. Steady'
  <2>1. \A f \in Executors : Claims(f)' \subseteq Claims(f) \cup Started(e)
    BY <1>1 DEF Claims, TypeOK
  <2>2. ASSUME NEW f \in Executors, NEW t \in Claims(f)'
        PROVE  rows'[t].status \in {"PENDING", "COMPLETED"}
    <3>1. CASE t \in Started(e)
      BY <1>2, <3>1
    <3>2. CASE t \notin Started(e)
      <4>1. t \in Claims(f) /\ t \in Tasks
        BY <2>1, <3>2 DEF Claims, TypeOK
      <4>2. QED BY <1>3, <3>2, <4>1 DEF Steady
    <3>3. QED BY <3>1, <3>2
  <2>3. QED BY <1>1, <2>2 DEF Steady
<1>5. Dated'
  <2>1. ASSUME NEW d \in starts'
        PROVE  /\ rows'[d[1]].status \in {"PENDING", "COMPLETED"}
               /\ rows'[d[1]].queued /\ rows'[d[1]].started = d[2]
    <3>1. CASE d \in starts
      <4>1. d[1] \in Tasks /\ d[1] \notin Started(e)
        BY <1>2, <3>1 DEF TypeOK, Dated, Waiting
      <4>2. QED BY <1>3, <3>1, <4>1 DEF Dated
    <3>2. CASE d \in Started(e) \X {txn[e].now}
      BY <1>2, <3>2
    <3>3. QED BY <1>1, <3>1, <3>2
  <2>2. QED BY <2>1 DEF Dated
<1>6. QED BY <1>4, <1>5

(* A snapshot has counted everything, and is given all that waits: there   *)
(* is one version.                                                         *)
LEMMA SnapshotRated ==
  ASSUME \A f \in Executors : Versions \subseteq {AppVersion[f], NoVersion},
         TypeOK, LockInv, NEW e \in Executors, Snapshot(e), txn'[e].pc = "locking"
  PROVE  Rated(e)'
<1> DEFINE n == Cardinality(Recent(txn[e].now))
<1> DEFINE new == [txn[e] EXCEPT !.pc = "locking", !.recent = n,
                                 !.room = MaxTasks(e), !.left = Candidates(e)]
<1>1. /\ rows' = rows /\ txn[e] \in Txns
      /\ txn' = [txn EXCEPT ![e] = IdleTxn] \/ txn' = [txn EXCEPT ![e] = new]
  BY DEF Snapshot, TypeOK
<1> HIDE DEF n
<1>2. txn'[e].now = txn[e].now /\ txn'[e].recent = n /\ txn'[e].left = Candidates(e)
  <2>1. new.now = txn[e].now /\ new.recent = n /\ new.left = Candidates(e)
    BY <1>1 DEF Txns
  <2> HIDE DEF new
  <2>2. txn'[e] = IdleTxn \/ txn'[e] = new
    BY <1>1 DEF TypeOK
  <2>3. QED BY <2>1, <2>2 DEF IdleTxn
<1>3. Recent(txn[e].now)' = Recent(txn[e].now)
  <2>1. txn'[e].now = txn[e].now
    BY <1>2
  <2>2. QED BY <1>1, <2>1 DEF Recent
<1>4. n \in Nat
  BY CountType, RecentType DEF n
<1>5. Certain(e)'
  BY <1>2, <1>3, <1>4 DEF Certain, n
<1>6. \A t \in Tasks : Waiting(t)' => t \in Given(e)'
  <2>1. \A t \in Tasks : rows[t].version \in {AppVersion[e], NoVersion}
    BY DEF TypeOK, Rows
  <2>2. QED BY <1>1, <1>2, <2>1 DEF Waiting, Given, Candidates
<1>7. QED BY <1>5, <1>6 DEF Rated, Ahead

(* A transaction that goes on with what it has, while others start nothing *)
(* and tasks arrive in the order of the queue.                             *)
LEMMA QuietRated ==
  ASSUME TypeOK, LockInv, ArrivedInv, Quiet, NEW e \in Executors,
         txn[e].pc = "locking", Rated(e),
         txn'[e].now = txn[e].now, txn'[e].recent = txn[e].recent,
         txn[e].stale \subseteq txn'[e].stale,
         Reach(e)' \subseteq Reach(e), Given(e)' = Given(e),
         \A t \in Given(e) : t \in txn'[e].stale \/ Waiting(t)
  PROVE  Rated(e)'
<1>0. Given(e) \subseteq Tasks
  BY DEF Given, TypeOK, Txns
<1>1. Ahead(e)'
  <2> SUFFICES ASSUME NEW t \in Tasks \ Given(e), Waiting(t)',
                      NEW g \in Given(e) \ txn'[e].stale
               PROVE  Rank[g] < Rank[t]
    BY DEF Ahead
  <2>1. CASE Waiting(t)
    BY <2>1 DEF Rated, Ahead
  <2>2. CASE ~Waiting(t)
    <3>1. ~Arrived(t) /\ Arrived(g) /\ g \in Tasks
      BY <1>0, <2>2 DEF Quiet, Waiting, Arrived
    <3>2. g # t /\ ~(Rank[t] < Rank[g])
      BY <3>1 DEF ArrivedInv
    <3>3. QED BY <3>1, <3>2, RankAssumption
  <2>3. QED BY <2>1, <2>2
<1>2. Doomed(e) => Doomed(e)'
  BY DEF Doomed
<1>3. Certain(e) => Certain(e)'
  <2>1. Recent(txn[e].now)' \subseteq Recent(txn[e].now)
    BY DEF Quiet, Recent
  <2>2. /\ Cardinality(Recent(txn[e].now)') \in Nat /\ Cardinality(Recent(txn[e].now)) \in Nat
        /\ Cardinality(Recent(txn[e].now)') <= Cardinality(Recent(txn[e].now))
    BY <2>1, RecentType, SmallerCount
  <2>3. txn[e].recent \in Nat
    BY DEF TypeOK, Txns
  <2>4. QED BY <2>2, <2>3 DEF Certain
<1>4. QED BY <1>1, <1>2, <1>3 DEF Rated

(* The commit of f.  If it starts a task, e can lock nothing any more: of  *)
(* a row that e may lock and one that f starts, neither comes first.       *)
LEMMA CommitRated ==
  ASSUME TypeOK, LockInv, SeenInv, NEW f \in Executors, Commit(f), Rated(f),
         NEW e \in Executors \ {f}, Kept(e), Rated(e),
         txn'[e].now = txn[e].now, txn'[e].recent = txn[e].recent
  PROVE  Rated(e)'
<1>0. /\ txn[e].pc = "locking" /\ txn[f].pc = "locking"
      /\ Given(e) \subseteq Tasks /\ Given(f) \subseteq Tasks
  BY DEF Kept, Commit, Given, TypeOK, Txns
<1>1. PICK T \in SUBSET Tasks : T = Started(f)
  BY CommitRows
<1>2. /\ Reach(e)' \subseteq Reach(e) /\ Given(e)' = Given(e)
      /\ txn[e].stale \subseteq txn'[e].stale
  BY KeptReach DEF Kept
<1>3. \A t \in Tasks : Waiting(t)' => Waiting(t)
  BY CommitRows DEF Waiting
<1>4. Ahead(e)'
  BY <1>0, <1>2, <1>3 DEF Rated, Ahead
<1>5. CASE T = {}
  <2>1. rows' = rows
    <3>1. rows' = [t \in Tasks |-> rows[t]]
      BY <1>1, <1>5 DEF Commit
    <3>2. QED BY <3>1 DEF TypeOK
  <2>2. Certain(e)' <=> Certain(e)
    BY <2>1 DEF Certain, Recent
  <2>3. Doomed(e) => Doomed(e)'
    BY <1>2 DEF Doomed
  <2>4. QED BY <1>0, <1>4, <2>2, <2>3 DEF Rated
<1>6. CASE T # {}
  <2>1. PICK t \in T : TRUE
    BY <1>6
  <2>2. t \in Tasks /\ Waiting(t) /\ t \in txn[f].picks /\ t \in Given(f) \ txn[f].stale
    BY <1>1, CommitRows, CommitEffect DEF LockInv, Fresh, Given
  <2>3. T \subseteq txn'[e].stale /\ txn[e].picks \cap T = {} /\ txn'[e].picks = txn[e].picks
    <3>1. T \subseteq txn'[e].stale
      BY <1>0, <1>1, CommitEffect, TouchType DEF TypeOK
    <3>2. T \subseteq txn[f].picks
      BY <1>1, CommitEffect
    <3>3. QED BY <3>1, <3>2 DEF LockInv, Fresh, LockedByOther, Kept
  <2>4. ASSUME NEW Q \in Reach(e)', NEW q \in Q PROVE FALSE
    <3>1. Q \in Reach(e) /\ q \in Tasks /\ Waiting(q) /\ q \in Given(e) \ txn[e].stale
      <4>1. Q \in Reach(e)
        BY <1>2, <2>4
      <4>2. QED BY <2>4, <4>1, ReachTasks DEF Reach, LockInv, Fresh
    <3>2. Q \cap T = {} /\ q # t /\ q \notin T
      <4>1. txn[e].picks \subseteq Q /\ (Q \ txn[e].picks) \cap txn'[e].stale = {}
        BY <2>3, <2>4 DEF Reach
      <4>2. QED BY <2>1, <2>3, <2>4, <4>1
    <3>3. ~(Rank[t] < Rank[q])
      <4>1. CASE t \in Given(e)
        BY <2>1, <2>4, <3>1, <3>2, <4>1 DEF Reach
      <4>2. CASE t \notin Given(e)
        <5>1. Rank[q] < Rank[t]
          BY <1>0, <2>2, <3>1, <4>2 DEF Rated, Ahead
        <5>2. QED BY <2>2, <3>1, <5>1, RankAssumption
      <4>3. QED BY <4>1, <4>2
    <3>4. Rank[t] < Rank[q]
      <4>1. CASE q \notin Given(f)
        BY <1>0, <2>2, <3>1, <4>1 DEF Rated, Ahead
      <4>2. CASE q \in txn[f].left
        BY <1>0, <2>2, <4>2 DEF SeenInv, Seen
      <4>3. CASE q \in txn[f].picks
        <5>1. ~(Rank[q] < Rank[t])
          BY <1>1, <2>1, <3>2, <4>3, StartedPrefix
        <5>2. QED BY <2>2, <3>1, <3>2, <5>1, RankAssumption
      <4>4. QED BY <4>1, <4>2, <4>3 DEF Given
    <3>5. QED BY <3>3, <3>4
  <2>5. Doomed(e)'
    BY <2>4 DEF Doomed
  <2>6. QED BY <1>4, <2>5 DEF Rated
<1>7. QED BY <1>5, <1>6

(* Tasks of different ranks that all have fewer than n of theirs before    *)
(* them are at most n.                                                     *)
LEMMA FirstFew ==
  ASSUME NEW P \in SUBSET Tasks, NEW n \in Nat,
         NEW T \in SUBSET P,
         \A t \in T : Cardinality({u \in P : Rank[u] < Rank[t]}) < n
  PROVE  Cardinality(T) <= n
<1> DEFINE before(t) == {u \in P : Rank[u] < Rank[t]}
           place == [t \in T |-> Cardinality(before(t))]
<1> SUFFICES ASSUME ~(Cardinality(T) <= n) PROVE FALSE
  OBVIOUS
<1>1. IsFiniteSet(T) /\ Cardinality(T) \in Nat
  BY TasksAssumption, FS_Subset, CountType
<1>2. \A t \in T : Cardinality(before(t)) \in Nat
  BY CountType
<1>3. \A t \in T : Cardinality(before(t)) \in 0..(n - 1)
  BY <1>2
<1>4. IsFiniteSet(0..(n - 1)) /\ Cardinality(0..(n - 1)) = n
  BY FS_Interval
<1>5. place \in [T -> 0..(n - 1)]
  BY <1>3
<1>6. PICK t, u \in T : t # u /\ place[t] = place[u]
  <2> HIDE DEF place
  <2>1. Cardinality(0..(n - 1)) < Cardinality(T)
    BY <1>1, <1>4
  <2>2. QED BY <1>1, <1>4, <1>5, <2>1, FS_PigeonHole
<1>7. Cardinality(before(t)) = Cardinality(before(u))
  BY <1>6
<1>8. \A x, y \in T : Rank[x] < Rank[y] => Cardinality(before(x)) # Cardinality(before(y))
  <2> SUFFICES ASSUME NEW x \in T, NEW y \in T, Rank[x] < Rank[y],
                      Cardinality(before(x)) = Cardinality(before(y))
               PROVE  FALSE
    OBVIOUS
  <2>1. before(x) \subseteq before(y) /\ x \in before(y) /\ x \notin before(x)
    BY RankAssumption
  <2>2. IsFiniteSet(before(y))
    BY TasksAssumption, FS_Subset
  <2> HIDE DEF before
  <2>3. QED BY <2>1, <2>2, FS_Subset
<1>9. Rank[t] < Rank[u] \/ Rank[u] < Rank[t]
  BY <1>6, RankAssumption
<1> HIDE DEF before, place
<1>10. QED BY <1>7, <1>8, <1>9

(* What the limiter lets through, with what it counted.                    *)
LEMMA StartedCount ==
  ASSUME TypeOK, NEW e \in Executors, Limit # NoLimit, Started(e) # {}
  PROVE  Cardinality(Started(e)) + txn[e].recent <= Limit
<1>1. /\ Limit \in Nat /\ txn[e].recent \in Nat /\ txn[e].picks \in SUBSET Tasks
      /\ Started(e) \in SUBSET txn[e].picks
  BY LimitsAssumption DEF Limits, TypeOK, Txns, Started
<1>2. \A t \in Started(e) : Cardinality({u \in txn[e].picks : Rank[u] < Rank[t]}) \in Nat
  BY <1>1, CountType
<1>3. \A t \in Started(e) :
        Cardinality({u \in txn[e].picks : Rank[u] < Rank[t]}) + txn[e].recent < Limit
  BY DEF Started
<1>4. Limit - txn[e].recent \in Nat
  <2>1. PICK t \in Started(e) : TRUE
    OBVIOUS
  <2>2. /\ Cardinality({u \in txn[e].picks : Rank[u] < Rank[t]}) \in Nat
        /\ Cardinality({u \in txn[e].picks : Rank[u] < Rank[t]}) + txn[e].recent < Limit
    BY <1>2, <1>3
  <2>3. QED BY <1>1, <2>2
<1>5. \A t \in Started(e) :
        Cardinality({u \in txn[e].picks : Rank[u] < Rank[t]}) < Limit - txn[e].recent
  BY <1>1, <1>2, <1>3
<1>6. Cardinality(Started(e)) <= Limit - txn[e].recent
  BY <1>1, <1>4, <1>5, FirstFew
<1>7. Cardinality(Started(e)) \in Nat
  BY <1>1, CountType
<1>8. QED BY <1>1, <1>6, <1>7

(* Starts of different tasks are no more than the tasks.                   *)
LEMMA StartsCount ==
  ASSUME NEW S \in SUBSET Tasks, NEW W \in SUBSET (S \X Times),
         \A c, d \in W : c[1] = d[1] => c = d
  PROVE  Cardinality(W) <= Cardinality(S)
<1> DEFINE task == [d \in W |-> d[1]]
<1>1. IsFiniteSet(S)
  BY TasksAssumption, FS_Subset
<1>2. task \in Injection(W, S)
  BY DEF Injection, IsInjective
<1> HIDE DEF task
<1>3. QED BY <1>1, <1>2, FS_Injection

(* A period that holds this commit holds nothing before it that was not    *)
(* counted.                                                                *)
LEMMA CommitLimit ==
  ASSUME TypeOK, LockInv, SeenInv, Steady, Dated, RateLimit,
         NEW e \in Executors, Commit(e), Rated(e)
  PROVE  RateLimit'
<1> SUFFICES ASSUME Limit # NoLimit, NEW s \in Times
    PROVE  Cardinality({d \in starts' : s <= d[2] /\ d[2] < s + Period}) <= Limit
  BY DEF RateLimit
<1> DEFINE now == txn[e].now
           W == {d \in starts' : s <= d[2] /\ d[2] < s + Period}
<1>0. /\ now \in Times /\ Times \subseteq Nat /\ Period \in Nat /\ Limit \in Nat
      /\ txn[e].recent \in Nat /\ txn[e].picks \in SUBSET Tasks
  BY ClockAssumption, LimitsAssumption DEF TypeOK, Txns, Times, Limits
<1>1. /\ starts' = starts \cup (Started(e) \X {now})
      /\ starts \subseteq Tasks \X Times /\ Started(e) \in SUBSET Tasks
      /\ txn[e].pc = "locking"
  BY CommitRows DEF Commit, TypeOK
<1>2. CASE Started(e) = {} \/ ~(s <= now /\ now < s + Period)
  <2>1. W = {d \in starts : s <= d[2] /\ d[2] < s + Period}
    BY <1>1, <1>2
  <2>2. QED BY <2>1 DEF RateLimit
<1>3. CASE Started(e) # {} /\ s <= now /\ now < s + Period
  <2>1. Certain(e)
    <3>1. txn[e].picks \in Reach(e) /\ txn[e].picks # {}
      BY <1>1, <1>3, PicksReach, CommitEffect
    <3>2. QED BY <1>1, <3>1 DEF Rated, Doomed
  <2>2. PICK S \in SUBSET Tasks : S = Recent(now) \cup Started(e)
    BY <1>1, RecentType
  <2>3. W \in SUBSET (S \X Times)
    <3>1. ASSUME NEW d \in starts, s <= d[2], d[2] < s + Period
          PROVE  d[1] \in Recent(now)
      <4>1. d[1] \in Tasks /\ d[2] \in Times
        BY <1>1
      <4>2. d[2] \in Nat /\ d[2] # NoTime
        BY <1>0, <4>1, ClockAssumption
      <4>3. d[2] + Period > now
        <5>1. s \in Nat /\ now \in Nat
          BY <1>0
        <5>2. QED BY <1>0, <1>3, <3>1, <4>2, <5>1
      <4>4. rows[d[1]].queued /\ rows[d[1]].status # "ENQUEUED" /\ rows[d[1]].started = d[2]
        BY DEF Dated
      <4>5. QED BY <4>1, <4>2, <4>3, <4>4 DEF Recent
    <3>2. QED BY <1>0, <1>1, <2>2, <3>1
  <2>4. \A c, d \in W : c[1] = d[1] => c = d
    <3>1. Dated' /\ starts' \subseteq Tasks \X Times
      BY CommitSteady, CommitEffect
    <3>2. QED BY <3>1 DEF Dated
  <2>5. Cardinality(W) <= Cardinality(S)
    <3> HIDE DEF W
    <3>1. QED BY <2>3, <2>4, StartsCount
  <2>6. Cardinality(S) <= Cardinality(Recent(now)) + Cardinality(Started(e))
    <3>1. IsFiniteSet(Recent(now)) /\ IsFiniteSet(Started(e))
      BY <1>1, RecentType, TasksAssumption, FS_Subset
    <3>2. /\ Cardinality(S) = Cardinality(Recent(now)) + Cardinality(Started(e))
                                - Cardinality(Recent(now) \cap Started(e))
          /\ Cardinality(Recent(now) \cap Started(e)) \in Nat
      BY <1>1, <2>2, <3>1, CountType, FS_Union
    <3>3. Cardinality(Recent(now)) \in Nat /\ Cardinality(Started(e)) \in Nat
      BY <1>1, RecentType, CountType
    <3>4. QED BY <3>2, <3>3
  <2>7. Cardinality(Started(e)) + txn[e].recent <= Limit
    BY <1>3, StartedCount
  <2>8. /\ Cardinality(Recent(now)) \in Nat /\ Cardinality(Started(e)) \in Nat
        /\ Cardinality(S) \in Nat /\ Cardinality(Recent(now)) <= txn[e].recent
    BY <1>1, <2>1, RecentType, CountType DEF Certain
  <2>9. Cardinality(W) \in Nat
    <3>1. IsFiniteSet(S \X Times)
      <4>1. IsFiniteSet(S)
        BY TasksAssumption, FS_Subset
      <4>2. 0 \in Int /\ MaxTime \in Int
        BY ClockAssumption
      <4>3. IsFiniteSet(Times)
        BY <4>2, FS_Interval DEF Times
      <4>4. QED BY <4>1, <4>3, FS_Product
    <3> HIDE DEF W
    <3>2. QED BY <2>3, <3>1, FS_Subset, FS_CardinalityType
  <2> HIDE DEF W, now
  <2>10. Cardinality(W) <= Limit
    BY <1>0, <2>5, <2>6, <2>7, <2>8, <2>9
  <2>11. QED BY <2>10 DEF W
<1>4. QED BY <1>2, <1>3

LEMMA NextRateInv ==
  ASSUME Env \cap {"overtake", "cancel", "crash"} = {},
         \A f \in Executors : Versions \subseteq {AppVersion[f], NoVersion},
         Concurrency # NoLimit,
         TypeOK, LockInv, SeenInv, ArrivedInv, RateInv, [Next]_vars
  PROVE  RateInv'
<1>1. ASSUME NEW f \in Executors, Commit(f) PROVE Steady' /\ Dated' /\ RateLimit'
  <2>1. Steady' /\ Dated'
    BY <1>1, CommitSteady DEF RateInv
  <2>2. RateLimit'
    BY <1>1, CommitLimit DEF RateInv
  <2>3. QED BY <2>1, <2>2
<1>2. ASSUME \A f \in Executors : ~Commit(f)
      PROVE  Quiet /\ Steady' /\ Dated' /\ RateLimit'
  <2>1. Quiet /\ Steady' /\ Dated'
    BY <1>2, SteadyQuiet DEF RateInv
  <2>2. starts' = starts
    BY <2>1 DEF Quiet
  <2>3. QED BY <2>1, <2>2 DEF RateInv, RateLimit
<1>3. ASSUME NEW e \in Executors, txn'[e].pc = "locking" PROVE Rated(e)'
  <2>0. ~Commit(e) /\ Rated(e)
    BY <1>3, CommitEffect DEF IdleTxn, RateInv
  <2>1. CASE Snapshot(e)
    BY <1>3, <2>1, SnapshotRated
  <2>2. CASE LockRow(e)
    <3>1. /\ Reach(e)' \subseteq Reach(e) /\ Given(e)' = Given(e)
          /\ txn[e].pc = "locking" /\ txn'[e].stale = txn[e].stale
      BY <1>3, <2>2, LockRowReach, LockRowTxn DEF IdleTxn
    <3>2. ~Snapshot(e) /\ \A f \in Executors : ~Commit(f)
      <4>1. rows' = rows /\ \A f \in Executors \ {e} : txn'[f] = txn[f]
        BY <2>2, LockRowTxn DEF LockRow
      <4>2. \A f \in Executors : Commit(f) => txn'[f].pc = "idle" /\ txn[f].pc = "locking"
        BY CommitEffect DEF Commit, IdleTxn
      <4>3. QED BY <2>0, <3>1, <4>1, <4>2 DEF Snapshot
    <3>3. txn'[e].now = txn[e].now /\ txn'[e].recent = txn[e].recent
      BY <1>3, <3>2, CountKept
    <3>4. \A t \in Given(e) : t \in txn'[e].stale \/ Waiting(t)
      BY <3>1 DEF Given, LockInv, Fresh
    <3>5. QED BY <1>2, <2>0, <3>1, <3>2, <3>3, <3>4, QuietRated
  <2>3. CASE ~Snapshot(e) /\ ~LockRow(e)
    <3>1. Kept(e) /\ txn'[e].now = txn[e].now /\ txn'[e].recent = txn[e].recent
      BY <1>3, <2>0, <2>3, TxnKept, CountKept
    <3>2. CASE \E f \in Executors : Commit(f)
      BY <2>0, <3>1, <3>2, CommitRated DEF RateInv
    <3>3. CASE \A f \in Executors : ~Commit(f)
      <4>1. \A t \in Given(e) : t \in txn'[e].stale \/ Waiting(t)
        BY <3>1 DEF Kept, Given, LockInv, Fresh
      <4>2. Reach(e)' \subseteq Reach(e) /\ Given(e)' = Given(e)
        BY <3>1, KeptReach
      <4>3. QED BY <1>2, <2>0, <3>1, <3>3, <4>1, <4>2, QuietRated DEF Kept
    <3>4. QED BY <3>2, <3>3
  <2>4. QED BY <2>1, <2>2, <2>3
<1>4. \A e \in Executors : Rated(e)'
  BY <1>3 DEF Rated
<1>5. QED BY <1>1, <1>2, <1>4 DEF RateInv

(* A rate limit holds over all executors of a queue that also has a global *)
(* concurrency: in no period are more tasks started than its limit,        *)
(* however many executors dequeue at once and whatever dequeue is lost.    *)
(* It takes what TLC shows to be needed: the global concurrency, tasks     *)
(* that arrive in the order of the queue, one version, and no cancellation *)
(* or recovery, which clear the start the limiter would have counted       *)
(* (RateLimit).                                                            *)
THEOREM RateLimitCorrect ==
  ASSUME Env \cap {"overtake", "cancel", "crash"} = {},
         \A e \in Executors : Versions \subseteq {AppVersion[e], NoVersion},
         Concurrency # NoLimit
  PROVE  Spec => []RateLimit
<1> DEFINE All == TypeOK /\ LockInv /\ SeenInv /\ ArrivedInv /\ RateInv
<1>1. Init => All
  BY InitTypeOK, InitLockInv, InitSeenInv, InitArrivedInv, InitRateInv
<1>2. All /\ [Next]_vars => All'
  BY NextTypeOK, NextLockInv, NextSeenInv, NextArrivedInv, NextRateInv
<1>3. All => RateLimit
  BY DEF RateInv
<1> HIDE DEF All
<1>4. QED BY <1>1, <1>2, <1>3, PTL DEF Spec
=============================================================================
