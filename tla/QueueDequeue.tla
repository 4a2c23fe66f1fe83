----------------------------- MODULE QueueDequeue -----------------------------
(***************************************************************************)
(* One queue and the executors that poll it.                               *)
(*                                                                         *)
(* Each executor has one worker thread for the queue.  It runs the         *)
(* transaction of start_queued_workflows under REPEATABLE READ: the counts *)
(* and the candidates come from one snapshot, the candidates are then      *)
(* locked one after the other (FOR UPDATE SKIP LOCKED, or NOWAIT when the  *)
(* queue has a global concurrency), and a candidate that was written after *)
(* the snapshot ends the transaction with a serialization failure.  What   *)
(* was dequeued is executed by the same thread before it polls again.      *)
(*                                                                         *)
(* All queries of the transaction are restricted to one queue (and, on a   *)
(* partitioned queue, to one partition key), so one queue is enough.  The  *)
(* database is PostgreSQL; SQLite serialises the transactions.             *)
(*                                                                         *)
(* A definition marked "faulty" is a plausible mistake in the one after    *)
(* it; it is used only to see that a property would notice the mistake.    *)
(***************************************************************************)
EXTENDS Naturals, FiniteSets

CONSTANTS Executors,
          Tasks,              \* the workflows of this queue
          Rank,               \* place of a task in ORDER BY priority, created_at
          AppVersion,         \* application version of an executor
          TaskVersion,        \* version a task was enqueued for, or NoVersion
          Concurrency,        \* Queue.concurrency, or NoLimit
          WorkerConcurrency,  \* Queue.worker_concurrency, or NoLimit
          Limit, Period,      \* Queue.limiter; Limit may be NoLimit
          MaxBatch,           \* "never dequeue more than 100 tasks"
          MaxTime,            \* bound on the clock
          Unregistered,       \* tasks whose function the executors do not know
          Env,                \* what the environment does
          NoLimit, NoVersion, NoExecutor, NoTime

EnvEvents == {"overtake",   \* a task may arrive that sorts before one already there
              "cancel",
              "crash",      \* executors crash and are launched again
              "conductor",  \* executors recover the tasks of others that are down
              "lost"}       \* a dequeue commits and its result is lost

Limits == Nat \cup {NoLimit}
Versions == {AppVersion[e] : e \in Executors} \cup {TaskVersion[t] : t \in Tasks}
Times == 0..MaxTime

ASSUME TasksAssumption == IsFiniteSet(Tasks)
(* Tasks of one priority and creation time (in ms) have no order in the    *)
(* code: Rank stands for one in which all executors sort them.             *)
ASSUME RankAssumption ==
  /\ Rank \in [Tasks -> Nat]
  /\ \A t, u \in Tasks : Rank[t] = Rank[u] => t = u
ASSUME LimitsAssumption ==
  /\ {Concurrency, WorkerConcurrency, Limit} \subseteq Limits
  /\ NoLimit \notin Nat /\ MaxBatch \in Nat
  /\ Concurrency # NoLimit /\ WorkerConcurrency # NoLimit
       => WorkerConcurrency <= Concurrency          \* checked by Queue.__init__
ASSUME ClockAssumption == Period \in Nat /\ MaxTime \in Nat /\ NoTime \notin Nat
ASSUME NullsAssumption == NoExecutor \notin Executors
ASSUME EnvironmentAssumption == Env \subseteq EnvEvents

VARIABLES rows,     \* workflow_status: one row per task
          txn,      \* the open transaction of each worker thread
          todo,     \* tasks dequeued by an executor and not yet executed
          running,  \* tasks whose function runs on an executor
          listed,   \* tasks an executor is about to recover
          up,       \* executors that are running
          clock,
          starts    \* history: which task was dequeued when

vars == <<rows, txn, todo, running, listed, up, clock, starts>>

Statuses == {"NONE", "ENQUEUED", "PENDING", "CANCELLED", "COMPLETED"}

(* queued: queue_name is this queue's.                                     *)
Rows == [status : Statuses, queued : BOOLEAN,
         executor : Executors \cup {NoExecutor},
         started : Times \cup {NoTime}, version : Versions \cup {NoVersion}]

NoRow == [status |-> "NONE", queued |-> FALSE, executor |-> NoExecutor,
          started |-> NoTime, version |-> NoVersion]

(* now is start_time_ms, recent num_recent_queries, room what is left of   *)
(* max_tasks, left the candidates not yet looked at, picks the rows it     *)
(* holds locked, and stale those written since its snapshot.               *)
Txns == [pc : {"idle", "begun", "locking"}, now : Times, recent : Nat,
         room : Nat, left : SUBSET Tasks, picks : SUBSET Tasks,
         stale : SUBSET Tasks]

IdleTxn == [pc |-> "idle", now |-> 0, recent |-> 0, room |-> 0,
            left |-> {}, picks |-> {}, stale |-> {}]

TypeOK ==
  /\ rows \in [Tasks -> Rows]
  /\ txn \in [Executors -> Txns]
  /\ todo \in [Executors -> SUBSET Tasks]
  /\ running \in [Executors -> SUBSET Tasks]
  /\ listed \in [Executors -> SUBSET Tasks]
  /\ up \subseteq Executors
  /\ clock \in Times
  /\ starts \subseteq Tasks \X Times

Init ==
  /\ rows = [t \in Tasks |-> NoRow]
  /\ txn = [e \in Executors |-> IdleTxn]
  /\ todo = [e \in Executors |-> {}]
  /\ running = [e \in Executors |-> {}]
  /\ listed = [e \in Executors |-> {}]
  /\ up = Executors
  /\ clock = 0
  /\ starts = {}

-----------------------------------------------------------------------------
Locked(t) == \E e \in Executors : t \in txn[e].picks
LockedByOther(e, t) == \E f \in Executors \ {e} : t \in txn[f].picks

(* A committed write of the rows in T, seen by the open snapshots.         *)
Touch(t, T) == [t EXCEPT !.stale = IF t.pc = "locking" THEN @ \cup T ELSE {}]

(* A transaction of its own that writes the row of t: it waits for a lock. *)
Write(t, row) ==
  /\ ~Locked(t)
  /\ rows' = [rows EXCEPT ![t] = row]
  /\ txn' = [e \in Executors |-> Touch(txn[e], {t})]

EnqueueOnQueue(t) ==
  [status |-> "ENQUEUED", queued |-> TRUE, executor |-> NoExecutor,
   started |-> NoTime, version |-> TaskVersion[t]]

(* Queue.enqueue.  created_at grows, and without priorities no task        *)
(* arrives that sorts before one already in the table.                     *)
Enqueue(t) ==
  /\ rows[t].status = "NONE"
  /\ "overtake" \in Env \/ \A u \in Tasks : Rank[u] < Rank[t] => rows[u].status # "NONE"
  /\ Write(t, EnqueueOnQueue(t))
  /\ UNCHANGED <<todo, running, listed, up, clock, starts>>

-----------------------------------------------------------------------------
(* start_queued_workflows                                                  *)

(* start_time_ms is read before the transaction begins.                    *)
Poll(e) ==
  /\ e \in up /\ todo[e] = {}
  /\ txn[e].pc = "idle"
  /\ txn' = [txn EXCEPT ![e].pc = "begun", ![e].now = clock]
  /\ UNCHANGED <<rows, todo, running, listed, up, clock, starts>>

(* Functions started in the limiter's period, by the rows of the queue.    *)
Recent(now) ==
  {t \in Tasks : rows[t].queued /\ rows[t].status # "ENQUEUED"
                 /\ rows[t].started # NoTime /\ rows[t].started + Period > now}

PendingStarted ==                                                 \* faulty
  {t \in Tasks : rows[t].queued /\ rows[t].status # "ENQUEUED"}
Pending == {t \in Tasks : rows[t].queued /\ rows[t].status = "PENDING"}
PendingAt(e) == {t \in Pending : rows[t].executor = e}

(* limit - used, or 0.                                                     *)
Left(limit, used) ==
  LET n == Cardinality(used) IN IF n < limit THEN limit - n ELSE 0

LocalRoomOpen(e) == MaxBatch                                      \* faulty
LocalRoom(e) ==
  IF WorkerConcurrency = NoLimit THEN MaxBatch
  ELSE Left(WorkerConcurrency, PendingAt(e))

MaxTasksLocal(e) ==                                               \* faulty
  LET local == LocalRoom(e)
      available == Left(Concurrency, PendingAt(e))
  IN IF Concurrency # NoLimit /\ available < local THEN available ELSE local
MaxTasks(e) ==
  LET local == LocalRoom(e)
      available == Left(Concurrency, Pending)
  IN IF Concurrency # NoLimit /\ available < local THEN available ELSE local

Candidates(e) ==
  {t \in Tasks : rows[t].queued /\ rows[t].status = "ENQUEUED"
                 /\ rows[t].version \in {AppVersion[e], NoVersion}}

(* The first query takes the snapshot, and all the counts come from it.    *)
Snapshot(e) ==
  LET recent == Cardinality(Recent(txn[e].now))
  IN /\ txn[e].pc = "begun"
     /\ txn' = [txn EXCEPT ![e] =
                  IF Limit # NoLimit /\ recent >= Limit THEN IdleTxn
                  ELSE [@ EXCEPT !.pc = "locking", !.recent = recent,
                                 !.room = MaxTasks(e), !.left = Candidates(e)]]
     /\ UNCHANGED <<rows, todo, running, listed, up, clock, starts>>

LastBy(T, t) == t \in T /\ \A u \in T : Rank[u] <= Rank[t]        \* faulty
FirstBy(T, t) == t \in T /\ \A u \in T : Rank[t] <= Rank[u]

(* Locking stops at the limit of the query or at the end of its rows.      *)
ScanOver(e) == txn[e].room = 0 \/ txn[e].left = {}

StaleNever(e, t) == FALSE                                         \* faulty
Stale(e, t) == t \in txn[e].stale

Skip(x, t) == [x EXCEPT !.left = @ \ {t}]
Take(x, t) == [x EXCEPT !.left = @ \ {t}, !.picks = @ \cup {t}, !.room = @ - 1]

(* One row of SELECT ... FOR UPDATE.  The exception raised by NOWAIT or by *)
(* a concurrent update ends the transaction; the thread polls again later. *)
TryLock(e, t) ==
  CASE LockedByOther(e, t) -> IF Concurrency = NoLimit THEN Skip(txn[e], t) ELSE IdleTxn
    [] ~LockedByOther(e, t) /\ Stale(e, t) -> IdleTxn
    [] OTHER -> Take(txn[e], t)

LockRow(e) ==
  /\ txn[e].pc = "locking" /\ ~ScanOver(e)
  /\ \E t \in txn[e].left : /\ FirstBy(txn[e].left, t)
                            /\ txn' = [txn EXCEPT ![e] = TryLock(e, t)]
  /\ UNCHANGED <<rows, todo, running, listed, up, clock, starts>>

(* The limiter cuts off the picks once the period's limit is used up.      *)
NotCut(e) == txn[e].picks                                         \* faulty
Started(e) ==
  LET picks == txn[e].picks
      before(t) == {u \in picks : Rank[u] < Rank[t]}
  IN IF Limit = NoLimit THEN picks
     ELSE {t \in picks : Cardinality(before(t)) + txn[e].recent < Limit}

DequeuedUnversioned(e, t) ==                                      \* faulty
  [rows[t] EXCEPT !.status = "PENDING", !.executor = e, !.started = txn[e].now]
Dequeued(e, t) ==
  [rows[t] EXCEPT !.status = "PENDING", !.executor = e, !.started = txn[e].now,
                  !.version = AppVersion[e]]

(* The rows become PENDING and the locks are released.  If the connection  *)
(* fails after the commit, the IDs do not reach the thread.                *)
Commit(e) ==
  LET T == Started(e)
  IN /\ txn[e].pc = "locking" /\ ScanOver(e)
     /\ rows' = [t \in Tasks |-> IF t \in T THEN Dequeued(e, t) ELSE rows[t]]
     /\ txn' = [f \in Executors |-> IF f = e THEN IdleTxn ELSE Touch(txn[f], T)]
     /\ starts' = starts \cup (T \X {txn[e].now})
     /\ \/ todo' = [todo EXCEPT ![e] = T]
        \/ "lost" \in Env /\ UNCHANGED todo
     /\ UNCHANGED <<running, listed, up, clock>>

-----------------------------------------------------------------------------
(* execute_workflow_by_id on what was dequeued, and the workflow after it. *)

(* The execution of a task that is not known is an error the worker thread *)
(* logs.  A task that is already running here only gets a second waiter.   *)
Executes(e, t) ==
  running' = IF t \in Unregistered \/ rows[t].status = "COMPLETED" THEN running
             ELSE [running EXCEPT ![e] = @ \cup {t}]

Execute(e, t) ==
  /\ t \in todo[e]
  /\ todo' = [todo EXCEPT ![e] = @ \ {t}]
  /\ Executes(e, t)
  /\ UNCHANGED <<rows, txn, listed, up, clock, starts>>

(* record_operation_result: the row names the executor again.              *)
RecordStep(e, t) ==
  /\ t \in running[e]
  /\ Write(t, [rows[t] EXCEPT !.executor = e])
  /\ UNCHANGED <<todo, running, listed, up, clock, starts>>

(* update_workflow_outcome, then the execution ends.                       *)
Finish(e, t) ==
  /\ t \in running[e]
  /\ Write(t, [rows[t] EXCEPT !.status = "COMPLETED"])
  /\ running' = [running EXCEPT ![e] = @ \ {t}]
  /\ UNCHANGED <<todo, listed, up, clock, starts>>

(* check_operation_execution finds the workflow cancelled.                 *)
Unwind(e, t) ==
  /\ t \in running[e] /\ rows[t].status = "CANCELLED"
  /\ running' = [running EXCEPT ![e] = @ \ {t}]
  /\ UNCHANGED <<rows, txn, todo, listed, up, clock, starts>>

-----------------------------------------------------------------------------
(* Cancellation, crashes and recovery.                                     *)

(* cancel_workflow also takes the task off the queue and clears its start. *)
Cancel(t) ==
  /\ "cancel" \in Env
  /\ rows[t].status \notin {"NONE", "COMPLETED"}
  /\ Write(t, [rows[t] EXCEPT !.status = "CANCELLED", !.queued = FALSE,
                              !.started = NoTime])
  /\ UNCHANGED <<todo, running, listed, up, clock, starts>>

Crash(e) ==
  /\ "crash" \in Env
  /\ e \in up
  /\ up' = up \ {e}
  /\ txn' = [txn EXCEPT ![e] = IdleTxn]
  /\ todo' = [todo EXCEPT ![e] = {}]
  /\ running' = [running EXCEPT ![e] = {}]
  /\ listed' = [listed EXCEPT ![e] = {}]
  /\ UNCHANGED <<rows, clock, starts>>

(* get_pending_workflows of executor x, asked by e.                        *)
PendingOfAny(e, x) == {t \in Tasks : rows[t].status = "PENDING"}  \* faulty
PendingOf(e, x) ==
  {t \in Tasks : rows[t].status = "PENDING" /\ rows[t].executor = x
                 /\ rows[t].version = AppVersion[e]}

Launch(e) ==
  /\ e \notin up
  /\ up' = up \cup {e}
  /\ listed' = [listed EXCEPT ![e] = PendingOf(e, e)]
  /\ UNCHANGED <<rows, txn, todo, running, clock, starts>>

RecoverPending(e, x) ==
  /\ "conductor" \in Env
  /\ e \in up /\ x \notin up
  /\ listed' = [listed EXCEPT ![e] = @ \cup PendingOf(e, x)]
  /\ UNCHANGED <<rows, txn, todo, running, up, clock, starts>>

(* _recover_workflow: clear_queue_assignment asks for no executor, only    *)
(* for a PENDING row on a queue; if there is none, the task is executed    *)
(* here.                                                                   *)
RecoverWorkflow(e, t) ==
  /\ t \in listed[e]
  /\ listed' = [listed EXCEPT ![e] = @ \ {t}]
  /\ IF t \in Pending
     THEN /\ Write(t, [rows[t] EXCEPT !.status = "ENQUEUED", !.started = NoTime])
          /\ UNCHANGED running
     ELSE /\ ~Locked(t)
          /\ Executes(e, t)
          /\ UNCHANGED <<rows, txn>>
  /\ UNCHANGED <<todo, up, clock, starts>>

Tick ==
  /\ clock < MaxTime
  /\ clock' = clock + 1
  /\ UNCHANGED <<rows, txn, todo, running, listed, up, starts>>

-----------------------------------------------------------------------------
(* One pass of an executor's worker thread.                                *)
Worker(e) ==
  \/ Poll(e) \/ Snapshot(e) \/ LockRow(e) \/ Commit(e)
  \/ \E t \in Tasks : Execute(e, t)

Next ==
  \/ \E t \in Tasks : Enqueue(t) \/ Cancel(t)
  \/ \E e \in Executors : Worker(e) \/ Crash(e) \/ Launch(e)
  \/ \E e \in Executors, t \in Tasks :
       RecordStep(e, t) \/ Finish(e, t) \/ Unwind(e, t) \/ RecoverWorkflow(e, t)
  \/ \E e, x \in Executors : RecoverPending(e, x)
  \/ Tick

Spec == Init /\ [][Next]_vars

(* Worker threads poll for ever, functions return, recovery threads go     *)
(* through their lists and a crashed process is launched again.            *)
Fairness ==
  \A e \in Executors :
    /\ WF_vars(Worker(e))
    /\ WF_vars(Launch(e))
    /\ WF_vars(\E t \in Tasks : Finish(e, t))
    /\ WF_vars(\E t \in Tasks : RecoverWorkflow(e, t))

FairSpec == Spec /\ Fairness

-----------------------------------------------------------------------------
Holds(e) == todo[e] \cup running[e]

(* No row is locked by two transactions, and a locked row is a task that   *)
(* waits on the queue and that nobody wrote since the snapshot: the commit *)
(* that follows dequeues no task twice (start_queued_workflows).           *)
LocksSound ==
  \A e \in Executors : \A t \in txn[e].picks :
    /\ ~LockedByOther(e, t)
    /\ t \notin txn[e].stale
    /\ rows[t].status = "ENQUEUED" /\ rows[t].queued

(* No task is in the hands of two executors, and the one that has it is    *)
(* the one its row names, whatever crashes in between: without a conductor *)
(* only the owner recovers a task.                                         *)
OneHolder ==
  \A e \in Executors : \A t \in Holds(e) :
    /\ \A f \in Executors \ {e} : t \notin Holds(f)
    /\ rows[t].status = "PENDING" => rows[t].executor = e
    /\ rows[t].status # "ENQUEUED"

(* Queue.concurrency: at most so many tasks are between dequeue and end,   *)
(* over all executors ("Execute with snapshot isolation to ensure multiple *)
(* workers respect limits", start_queued_workflows).                       *)
ConcurrencyRespected ==
  Concurrency # NoLimit => Cardinality(Pending) <= Concurrency

(* Queue.worker_concurrency, of what an executor really has in its hands.  *)
WorkerConcurrencyRespected ==
  WorkerConcurrency # NoLimit =>
    \A e \in Executors :
      Cardinality({t \in Holds(e) : rows[t].status # "CANCELLED"}) <= WorkerConcurrency

(* Queue.limiter: in no period are more than Limit functions started ("If  *)
(* the limit is 5 and the period is 10, no more than 5 functions can be    *)
(* started per 10 seconds", QueueRateLimit).                               *)
RateLimit ==
  Limit # NoLimit =>
    \A s \in Times :
      Cardinality({d \in starts : s <= d[2] /\ d[2] < s + Period}) <= Limit

(* With a global concurrency tasks are started in the order of the queue:  *)
(* a dequeue leaves an earlier task of its version waiting only if that    *)
(* task was put on the queue after the snapshot (ORDER BY with NOWAIT).    *)
InOrderStep ==
  Concurrency # NoLimit =>
    \A e \in Executors : \A t \in Started(e) :
      rows'[t].status = "PENDING" =>
        \A u \in Candidates(e)' : Rank[u] < Rank[t] => u \in txn[e].stale

InOrder == [][InOrderStep]_vars

(* A dequeued task is not forgotten: the executor its row names has it, or *)
(* recovers it, or is down and will find it when it is launched again.     *)
NoneStranded ==
  \A t \in Pending :
    \/ rows[t].executor \in Executors \ up
    \/ \E e \in up : t \in Holds(e) \cup listed[e]
=============================================================================
