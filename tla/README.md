# DBOS Transact (Python) in TLA+

DBOS Transact makes the functions of a Python program durable: it keeps every
workflow's status, inputs and step results in a relational database and, after a
crash, executes the workflow again from its last completed step. There is no
server. All coordination between processes ("executors") goes through
transactions on the system database; inside a process it goes through a few
locked dictionaries, threads and an event loop. That is where the program is
hard to get right and hard to test, and what these modules are about.

Line numbers below are those of `src/dbos/`; `_sys_db.py` unless another file is
named.

## Running it

    tlc -workers 4 -config ExecAny.cfg MCExecAny.tla     model-check one run
    tlapm DurableExecution_proofs.tla                    check the proofs of one module

`PROJECT.json` lists the runs, the source lines each definition stands for, the
hazards and the theorems.

## Inventory

For each component: the state it keeps, its operations, how it interacts, what is
hard, and what makes it correct.

**System database** (`_sys_db.py`, `_sys_db_postgres.py`, `_sys_db_sqlite.py`).
Tables `workflow_status`, `operation_outputs`, `notifications`,
`workflow_events(_history)`, `streams`, `workflow_schedules`. Every operation is
one or more transactions, most of them wrapped in `db_retry` (325-362), which
runs the function again from its start when the connection fails, also when only
the acknowledgement of a commit was lost. *Correct*: checkpoints are immutable, a
completed workflow stays completed, repeating a transaction has no second effect.

**Workflow execution** (`_core.py`, `_outcome.py`). State: the row and the
checkpoints of the workflow, `_active_workflows_set` of each process
(`ActiveWorkflowById`), the thread or task of each execution, and `owner_xid`, the
identity of the start that created the row. Operations: start (sync and async),
direct call, enqueue, `execute_workflow_by_id`, the steps, the outcome, waiting for
a result. *Hard*: duplicate starts, recovery, dequeue and cancellation of the same
ID at once, in one process and in several; the check and the record of a step are
separate transactions with user code between them. *Correct*: one execution at a
time in a process, steps recorded once and in order, all callers get the recorded
result, a workflow that crashes its process is not retried for ever.

**Recovery** (`_recovery.py`). Lists the PENDING workflows of an executor, at its
own launch or for a failed one, and executes them or puts them back on their
queue. *Hard*: the row names the executor that recovery depends on, and several
operations write that name. *Correct*: no PENDING workflow is left with nobody
working on it.

**Queues** (`_queue.py`, `start_queued_workflows` 2108-2290). One worker thread per
queue and process dequeues under snapshot isolation with row locks and executes
what it got. State: rows of the queue, the counts read in the snapshot, locks.
*Hard*: concurrency limits, rate limit, order and versions are all decided from a
snapshot while other executors do the same. *Correct*: limits hold, no task is
dequeued twice or forgotten, tasks start in order, every task gets started.

**Messages** (`send` 1536-1593, `recv` 1595-1707, `ThreadSafeConditionDict`,
notification listener). State: `notifications`, the map of conditions, the
listener's connection. *Hard*: a wake-up between looking and waiting, the lock
order of condition and map, a lost LISTEN connection, replay. *Correct*: exactly
once, in order as far as creation times tell it, no sleeping on a message that is there.

**Workflow events** (`set_event` 1834-1952, `get_event` 1980-2077). Like messages,
with a condition shared by all waiters of a key and a value that may change.
*Correct*: a replay sees the value it saw before, no lost wake-up.

**Streams** (2395-2561, `_dbos.py` 2191-2224). Append-only values with an offset
computed in the insert; writers in steps retry a conflict. *Correct*: no gap, no
loss, nothing after the closing sentinel is read.

**Durable sleep, timeouts and deadlines** (1787-1832, `_core.py` 447-467,
1952-1970). The end of a sleep is checkpointed; a deadline is inherited by
children and set at dequeue for queued workflows; a thread cancels at the
deadline. *Correct*: a restart neither prolongs nor forgets a deadline.

**Child workflows and deduplication** (`_core.py` 754-985, `_context.py` 119-230,
1423-1443). A child's ID derives from its parent's and the step number, and is
recorded; deduplication IDs are unique per queue. *Correct*: a replay finds the same
child.

**Transactions** (`_core.py` 1205-1450, `_app_db.py`). A step that commits its
result together with the user's data in another database, and is then recorded in
the system database too. *Correct*: committed exactly once, errors included.

**Step retries** (`_core.py` 1453-1569, `_outcome.py`). Attempts with backoff around a
step body. *Correct*: the number of attempts, one checkpoint, cancellation in between.

**Workflow management** (`_workflow_commands.py`, 690-907, 2563-2617, 2769-3060).
Cancel, resume, fork, delete, garbage collection, export, import. *Correct*: a
fork has a consistent prefix; collection removes only what nobody needs.

**Patching** (2692-2731, `_dbos.py`). Marks code versions in the checkpoints.
*Correct*: old executions keep their path.

**Debouncer** (`_debouncer.py`). A workflow per key that absorbs calls until a period
of silence, with acknowledged messages. *Correct*: each call is absorbed or starts
anew, the last input wins.

**Scheduler** (`_scheduler.py`, `_scheduler_decorator.py`, `_croniter.py`). Threads
that start a workflow at each cron time, with an ID that names the time; a polling
loop that starts and stops them as the table `workflow_schedules` changes; backfills.
*Hard*: several processes and versions of a schedule at once; the calendar.
*Correct*: once per time over all executors, no time left out.

**Kafka consumers** (`_kafka.py`). A polling thread that starts a workflow per
message, with an ID made of its offset. State: the consumer's offset, the offset the
group has committed. *Hard*: redelivery after a crash, commits before the enqueue.
*Correct*: once per message, in order on a queue of concurrency 1.

**Launch and shutdown** (`_dbos.py` 486-726, `_event_loop.py`). Starts the threads
above and stops them. *Correct*: recovery lists before new work starts; no thread
uses a closed database.

**Contexts** (`_context.py`). The context of an execution numbers its operations and
holds the workflow ID and the options of the enclosing `with` blocks. *Hard*: an
execution that begins again must number and name as the first one did, although
some of its operations return from the checkpoints. *Correct*: each operation gets
the same child, with the options of its own block.

**Conductor** (`_conductor/`), **admin server**, **client**. Ways to reach the
operations above from outside; their requests are steps of the models of these
operations. **Serialization, validation, logging, tracing**, **configuration,
schema, migrations, command line**, **middleware, roles, registration**: no protocol
state of their own; see `PROJECT.json`.

## Modules

| module | what it models |
|---|---|
| `ExactlyOnce` | the abstract promise about one workflow |
| `DurableExecution` | one workflow, everything that executes it, its row, checkpoints and active sets |
| `QueueDequeue` | one queue and the executors that poll it |
| `Messages` | send, recv, conditions and listeners of one destination and topic |
| `WorkflowEvents` | one event: `set_event` over executions, `get_event` calls that share a condition |
| `Streams` | one stream: concurrent writes, executions, readers |
| `Transactions` | one transaction step in two databases |
| `StepRetry` | one step with its attempts, as coroutine or plain function |
| `Contexts` | function IDs, child IDs and options of a workflow over executions |
| `WorkflowManagement` | rows and transaction outputs under cancel, resume, restart, delete, garbage collection, global timeout |
| `WorkflowCopies` | fork, export and import of a workflow that is running |
| `Debouncer` | debounce calls of one key and the debouncer workflows |
| `Scheduler` | one schedule, its threads in several processes, backfills |
| `Croniter` | the search for the next time of a crontab |
| `KafkaConsumer` | the loop of one ordered partition |
| `*_proofs` | theorems: `DurableExecution`, `QueueDequeue`, `Messages`, `Croniter` have a module each; `WorkflowManagement_proofs` is also about `WorkflowCopies`, `Contexts_proofs` about `Transactions`; `Operations_proofs` is about `Streams`, `WorkflowEvents` and `StepRetry`, `Services_proofs` about `KafkaConsumer`, `Scheduler` and `Debouncer` |
| `MC*` | values of the constants for TLC, and runs of several settings |

In each module an action is one database transaction or one section under a lock,
with everything between two of them that only touches local state; other
actors may take any number of steps in between. `Env` selects what the environment
does (duplicate starts, crashes, lost acknowledgements, ...), so that a property
can be stated under exactly the conditions in which it holds and a run can keep to
them. Definitions marked "faulty" are mistakes somebody could make in the
definition below them; they are not part of any specification and only serve to see
that a property would notice the mistake.

How the modules fit together: `QueueDequeue` is the inside of the action `Dequeue` of
`DurableExecution`. `Messages`, `WorkflowEvents`, `Streams`, `Transactions` and
`StepRetry` are what `StepBody` and `RecordStep` of `DurableExecution` stand for, each with
the tables it has besides `operation_outputs`. `Contexts` is where the function IDs and
child IDs come from that `DurableExecution` takes as given. `Scheduler`, `KafkaConsumer`
and `Debouncer` rest on what the upsert of `DurableExecution` and the deduplication ID of
`WorkflowManagement` do. Modules that model the same transaction model it at the
detail their properties need.

### DurableExecution

| model | code |
|---|---|
| `row` | the row in `workflow_status`: status, `executor_id`, `recovery_attempts`, `owner_xid`, whether `queue_name` is set, output |
| `log` | the rows in `operation_outputs` |
| `run[r]` | one call of `start_workflow`, of the function, or of `execute_workflow_by_id`; `pc` is where its thread is |
| `active` | executors whose `_active_workflows_set` has the workflow |
| `lost` | commits so far whose acknowledgement was lost (bound `MaxLost`) |
| `InsertStatus`, `AfterInit` | the upsert in `_insert_workflow_status` (498-658) with the dead-letter check, and what the caller does with the status and `should_execute` |
| `Acquire`, `Release` | `_execute_workflow_wthread` / `_async` around the execution |
| `CheckStep`, `StepBody`, `RecordStep` | `invoke_step`: check, body, record, each a step of its own |
| `WriteOutcome`, `AwaitResult` | `_get_wf_invoke_func`, `await_workflow_result` |
| `Launch`, `RecoverPending`, `ClearQueueAssignment`, `RecoverDirectly`, `Fetch` | `_recovery.py` and `execute_workflow_by_id` |
| `Cancel`, `Resume`, `Dequeue`, `Enqueue` | the transactions of those names |

A direct asynchronous call whose caller should not execute runs the function
anyway beside the run that owns the workflow (`shadow`; `_outcome.py` 174-190): its
steps are in the model, its outcome is not written. A workflow is its sequence of
steps; it is deterministic, as DBOS requires, in that the next step depends only
on recorded results: an exception ends it.

### QueueDequeue

`rows` are the tasks, `txn[e]` is the open transaction of an executor's worker
thread: `Poll` reads the clock, `Snapshot` takes the counts and the candidates,
`LockRow` is one row of `SELECT ... FOR UPDATE` (SKIP LOCKED, or NOWAIT with a global
concurrency), `Commit` makes the rows PENDING. `stale` holds the rows written since
the snapshot; locking one of them is a serialization failure, as is a lock held by
another transaction with NOWAIT, and both end the transaction. `todo` is what was
dequeued and not yet executed, `running` what is executing, `listed` what recovery
is about to handle, `starts` a history for the rate limit. The transactions are
those of PostgreSQL; SQLite runs them one after the other. A partition of a queue
behaves as a queue. The polling interval and its backoff are abstracted.

### Messages

`inbox` is the table `notifications` for one destination and topic: the message, the
`message_uuid` and the creation time of each row. `flying` are transactions of `send` that
have begun and not committed, `out` is what the destination has recorded for each `recv`,
`sentAt` a history of the creation time a message was sent with. The creation time is
that of the database clock when the transaction begins, rounded to a millisecond
(`_migration.py` 141; to a second on SQLite under Python before 3.12, 322-327): in the model
any of `MaxTime` values each time, so that two sends may have the same one and the clock may
be set back. `recv` takes any row of the least creation time (1674-1677 have no second key). A run of the destination goes
through check, set (the condition is acquired and put into `map`), peek, timer, wait,
woken (lock taken again), pop and consume. `listener[e]` has the notifications on
their way, the condition the listener thread has looked up, and whether it listens
(LISTEN/NOTIFY) or polls. `Held` is the condition's lock. A crash kills the process
and it is started again at once: what happens to messages while it is down differs
in nothing that is stored. `missed` and `overlap` are histories the properties
mention.

### WorkflowEvents and Streams

`WorkflowEvents`: `event` is the row of `workflow_events`, `history` the rows of
`workflow_events_history`, `setter` the position of the workflow that sets the values
1, 2, ... and begins again after a crash. The upsert of an early set in a recovered
execution is skipped when its record is found (1852-1858) or, inside a step, repeated
with the step. `getter[g]` is one call of `get_event`: it registers in `entry` (the map of
conditions with its count), takes the shared condition, looks, waits, is woken or times
out, reads the value in a query of its own, pops, and, in a workflow,
records what it returns. The trigger notifies on insert only.

`Streams`: `stream` is the table for one key, `call[r][w]` one write of one execution.
`Insert` is the statement computing `max(offset) + 1`, `Commit` the commit, which clashes
if another write has taken the offset; a write in the body then begins again with the
check, a write in a step only inserts again. A commit whose acknowledgement is lost
leaves the caller at the beginning. `twins` tells that two executions were under way at
once. A reader reads at its offset, and asks for the workflow's status if there is
nothing.

### Transactions and StepRetry

`Transactions`: `stored` is the row of `transaction_outputs`, committed with `effects` in the
application database; `checkpoint` is the row of `operation_outputs`, written after it. A
run checks the checkpoint, begins, looks for the row, calls the function, and commits
both or, if the function raised, stores the error in a transaction of its own. A unique
violation or serialization failure, or a lost connection, begins again.

`StepRetry`: `options` are how the step is called (coroutine or not, retries allowed, in a
workflow or not). The class `Pending` retries inside of one coroutine, `Immediate` in a loop;
what they do when the record itself fails differs (`Unrecorded`), which is why both are
in.

### Contexts

`Program` is a workflow of operations (plain step, child by call or by
`start_workflow`, fork), each possibly enclosed in a `SetWorkflowID` block or in one with
options. `ctx` is the `DBOSContext`: `function_id`, the ID waiting to be used, the options.
`log` maps function IDs to what they recorded, `given` is a history of the ID, function ID
and options each operation got, `children` the workflows that exist. `BeginAgain` may happen
at any step.

### WorkflowManagement and WorkflowCopies

`WorkflowManagement`: `row` has the status, queue, deduplication ID and creation time of each
workflow, `links` the children recorded by parents, `starting` children between insert and
record, `outputs` the `transaction_outputs` with their times, `job[m]` the procedure a thread
is in the middle of: delete (rows, then outputs), garbage collection (cutoff; rows;
outputs except those of the rows that remained), global timeout (list, cancel one by one,
list again). A manager may die between any two. Admin server, conductor, client and
in-workflow calls are `Client` and `Admin`.

`WorkflowCopies`: `original`, `fork` and `import` are the rows of one workflow in all tables.
A fork copies checkpoints, history, events and streams by separate statements, an export
reads table by table, and `RunOriginal` goes on in between.

### Debouncer, Scheduler, Croniter, KafkaConsumer

`Debouncer`: a call enqueues a debouncer workflow with the deduplication ID of the key or,
if there is one, looks it up, sends it its inputs and waits for the acknowledgement; when
this times out it begins again. The debouncer receives until its period ends, exits, and
starts the user's workflow with the last inputs.

`Scheduler`: `schedule` is the row of one schedule (version and active), `thread[p][v]` the thread
of a process for a version, `backfill` a backfill under way, `timed` the status of the workflow
of each time. Threads check for the workflow, then enqueue it.

`Croniter`: one action per `proc_*` function of `_calc`, on a date with minute, hour, day, month,
year; `GetNext` starts a search, `ReturnDate` ends it, `SecondSearch` begins the second one when both
day fields are restricted. `expand` and `Item` translate a field's items. Of the text of an item the model keeps whether it
is a star with a step, since a full field of days or weekdays is taken for a star if the
other one has a star in its text (1000-1003; `Starred`). The letter for the last
day is a value of its own (`L`), which the search compares as the month's length. The calendar of
relativedelta is `AddMonths`, `AddDays`, ...; `NextIsFirst` compares the result with every date
in between, by what the text of the crontab means (`MatchesDay`, `MatchesTime`) and not by its
expansion. `SkipsNone` names the crontabs whose search passes over no allowed day, `KeepsDays` those
whose expansion drops no field that allows more than the other.

`KafkaConsumer`: `committed_offset` is the group's offset, `consumer` the position and the message
in hand, `consumed` the workflow of each message. `AutoCommit` is the library's; the loop leaves it
on. `StopConsumer`, `Return`, `Close`, `Renew` (fatal error) and `CrashConsumer` are the ways out
of the loop.

## What the runs check

Bounds are small on purpose; each was chosen as the smallest one in which the
interleavings the property is about all occur, which the mutants confirm: every
property below is violated, within the same bounds, when one definition of the
model is replaced by its faulty form. Several runs have a variable `setting` or `part`,
chosen in the initial state: the settings share a run, not a state; a property that
belongs to one of them names it.

| run | setting and instance | shows |
|---|---|---|
| `exec_any` | one: 1 executor, 2 runs, 2 steps, results and an exception, duplicates, cancel, resume, crash, 1 lost acknowledgement | `OneExecution`, `RunsFollowLog`, `ResultsAgree`, `CompletedFinal`, and the refinement `ImplementsExactlyOnce` of `ExactlyOnce`; `TypeOK`; `ActiveSetExact`: a process never has two guarded executions of a workflow and never forgets one; `RecoveryBudget`: a runnable workflow never exceeds its attempts, also when an upsert is repeated |
| | any: 2 executors, 2 runs, 2 steps that return one value, every event of the environment except poison | `SharedKept`: the active sets, the recovery budget, the checkpoints and the completed row are kept between executors |
| | outcomes: the same without the queue, the steps return a value or raise | `SharedKept`: two runs compute different results and only the first is recorded |
| | conducted: 2 executors, 2 runs, one start, call or enqueue and no resume, all else | `NoOrphanConducted`: a PENDING workflow is worked on or will be recovered |
| `queue` | upgrade: 2 executors of different versions, 3 tasks, worker concurrency 1, SKIP LOCKED, tasks out of order, cancellations, crashes | `LocksSound`: rows picked by a transaction are locked by it alone, waiting on the queue and unwritten since its snapshot; `OneHolder`, `WorkerConcurrencyRespected`, `NoneStranded` |
| | limiter: the same queue, versions aside, with a limit of 1 per 2 ticks over 4 ticks and concurrency 2 | `LimitedRate` |
| `progress` | churn: 2 executors, 2 tasks, concurrency 1, NOWAIT, an unregistered function, cancellations, crashes, a conductor, dequeues whose result is lost | `ConcurrencyRespected`: at most one task is between dequeue and end; `InOrder`: a dequeue leaves nothing behind that sorts before what it starts |
| | concurrency: 2 executors, 3 tasks, concurrency 2, NOWAIT, crashes | `CrowdedDrains` |
| | poison: 1 executor, a step body that may kill the process each time | `PoisonedOver` |
| | transaction: 2 executions, 2 outputs or an exception, crashes at any point | `ExactlyOneEffect` |
| `messages` | wide: 1 process, listening or polling, 2 runs of the receiver, 2 recvs, 2 messages of one sender, 2 attempts to send, 2 values of the clock, all faults; deep: 3 attempts, one run at a time | `ExactlyOnce`, `SenderOrder`, `ReplayAgrees`, `NoLostWakeup`, `Delivered` |
| `operations` | step: 3 attempts, 2 values, an exception, a value that cannot be written | `ResultStands` |
| | event: 2 sets, one in a step, 2 calls of `get_event`, one in a workflow, crashes of both sides, both listeners | `EventForward`, `GettersAgree`, `EventDelivered` |
| | stream: 2 writes, one in a step, a close, 2 executions, 1 reader, 3 rows; long: 4 rows, read once the workflow is over | `WrittenOnce`, `CloseIsLast`, `ReadersEnd` |
| `services` | management: 2 workflows with one deduplication ID, 1 manager, 2 times, threshold 1 | `DedupHeldByActive`, `OutputsKept` |
| | context: 7 operations in and outside of blocks, ended and begun again at any point | `ChildrenKept` |
| | copies: a workflow of 2 events, 2 stream writes and a step, a fork at each step, an export and import | `CopiesWhole` |
| | debouncer: 3 calls, each with up to 2 messages | `CallServed` |
| | scheduler: 2 processes, 2 versions, 2 times, backfills of each range | `TimesExact` |
| | cron: 10 crontabs from 2 dates, until 2024 is over | `NextIsFirst` |
| | kafka: 3 messages, stops, fatal errors, crashes | `KafkaInOrder` |

Each of the six runs that end in a counterexample refutes a sentence of the documentation:

* `exec_theft` (`RestartResumes`; README.md:42, workflows "automatically resume"):
  executor 1 runs a workflow, a duplicate start on executor 2 rewrites
  `executor_id` (527-529) although it will not execute. If executor 1 now crashes
  before its next record, its restart lists nothing, executor 2 is up and lists
  nothing, and the workflow stays PENDING.
* `queue_burst` (`RateLimit`; `_queue.py:23`, "no more than 5 functions can be started
  per 10 seconds"): without a global concurrency two executors count recent starts
  in their own snapshots, skip each other's locked rows and both start up to the
  limit.
* `messages_replay` (`ReplayResumes`; README.md:42): a `recv` that times out records
  NULL, and executing it again raises "No output recorded in the last recv" (1621).
  `get_event` has the same test (2013).
* `stream_reader` (`ReaderComplete`; `_dbos.py:2196`, "yielding each value in order until the
  stream is closed or the workflow terminates"): a reader finds no value, the workflow
  writes one and returns, and the reader, who asks for the status only then, ends.
* `cron_skip` (`NextIsFirst`; `_scheduler.py:144`, "all scheduled executions between start and
  end"): asked on February 2nd, the iterator of `0 0 1,30 * *` returns March 30th and leaves
  out March 1st, because it moves to the 30th of a month that does not have one.
* `kafka_lost` (`NoneLost`; README.md:162, "runs exactly-once for each message"): the consumer
  is stopped between poll and enqueue, and closing it commits the offset of a message
  that has no workflow.

### What the conditions of the properties say

A property that needs a condition is as informative as the condition. These
behaviours are in the models; the properties are stated where they cannot happen:

* `OneExecution`, `RunsFollowLog`, `ResultsAgree` and the refinement need one
  executor and no direct calls (those do not go through the active set). On two executors a cancelled and
  resumed workflow can execute twice at once, and the run whose insert into
  `operation_outputs` finds a row keeps its own result: `ON CONFLICT DO NOTHING`
  returns no row and nothing is raised (1345-1376).
* `NoOrphan` is checked and proved with every workflow started once and not
  resumed; it may be cancelled. A duplicate start may break it (`exec_theft`), and so may a resume in the
  window in which the cancelled run has not yet left the active set: the dequeued
  run finds it there and only waits.
* `PoisonedOver` is checked with one executor. With two, a late
  `clear_queue_assignment` can put a dequeued workflow back on its queue, and the
  upsert of the dequeued run, which finds ENQUEUED, counts no attempt (518).
* `ConcurrencyRespected` needs tasks that arrive in order (no priorities that
  overtake) and one application version: otherwise two transactions may lock
  different first rows, and both count from their own snapshot. It is not promised
  for cancelled tasks, which leave the count while their function still runs.
* `LimitedRate` needs a global concurrency (`queue_burst` shows what happens without one),
  one version, arrivals in order, and neither cancellation nor recovery: `cancel_workflow`
  clears `started_at_epoch_ms` (703), as does `clear_queue_assignment`, so the limiter
  forgets the start.
* `NoneStranded` and `CrowdedDrains` exclude a dequeue that commits without the
  worker thread learning of it: its tasks wait for the next launch of the executor.
* `worker_concurrency` above 100 overrides the batch of 100 of the comment at 2148.
* `ConcurrencyRespected`, `InOrder` and `LimitedRate` rest on an order of the tasks in which no
  two are equal (`RankAssumption`). The code sorts by priority and `created_at` in milliseconds
  and has no further key, so the order of tasks enqueued in the same millisecond is up to
  the database, which may choose differently in two transactions.
* `SenderOrder` is stated for messages that one workflow sent with increasing creation
  times. Two sends in the same millisecond (or second, on SQLite under Python before 3.12),
  or with the clock set back in between, are in the run, and `recv` may take the later
  one first: it sorts by the creation time alone.
* `ExactlyOnce`, `SenderOrder` and `ReplayAgrees` are stated while no workflow was
  executed twice at once (`overlap`): two executions of a receiver each delete a
  message and only one of them records it.
* `NoLostWakeup` and `Delivered` exclude a notification lost with the listener's
  connection (`missed`); such a recv finds its message when its timeout is over.
* `WrittenOnce` in its second half and `CloseIsLast` are stated while no two executions of
  the writer were under way (`twins`), and the count only for writes in the body: a step
  that crashes between its write and its record writes again.
* `ChildrenKept` is checked with forks without an ID of their own. A `fork_workflow` inside a
  `SetWorkflowID` block takes the ID when it is executed, but not when it is found in
  `operation_outputs`, so after a recovery the ID is left for the next workflow
  (`EnclosedInvocation` in `Contexts` states what the docstring says).
* `CopiesWhole` for a fork: all operations before `start_step` were recorded when the fork
  began; for an import: the workflow was completed when its row was read, first of all
  tables. An export of a workflow that is still running may differ in its tables.
* `CallServed` speaks of calls that returned. The inbox of the debouncer is first in, first
  out; messages of calls that have not returned may have equal creation times and come in
  another order, of which the property says nothing.
* `OutputsKept` leaves out workflows whose deletion was asked for.
* `NextIsFirst` is checked and proved for crontabs of `SkipsNone` and `KeepsDays`. Where a month lacks the next
  day of the crontab, the search goes on into the following month by as many days as are missing
  and begins again there: it passes over the first days of that month if they are allowed
  (`cron_skip`), and over the last day of this one if `l` stands beside a day that is missing.
  And `l` counts as a value: the 31 values of `2-31,l` are taken for all days, so that the 1st is
  allowed too. `KeepsDays` leaves out crontabs such as `0 0 */2 * 0-6`: the weekdays allow
  every day and the other field has a star in its text, so `expand` makes a star of the
  weekdays, and only the odd days are returned instead of the union. (If both fields allow
  every day nothing is lost; that case is in the run, as is `*/10` beside a weekday.) Every
  crontab of the run satisfies both conditions, which TLC evaluates.
* `KafkaInOrder` is about one partition and messages in the order of their offsets. It assumes
  that the workflows of two messages are not created in the same millisecond, since the
  queue sorts by that alone. It says
  nothing about a message that never got its workflow (`kafka_lost`), which is skipped.

### Fairness

`RunStep`, `GetterStep` and `ReaderStep` are weakly fair because runs, waiting calls and
readers are threads or tasks that nothing suspends; `Launch`, because a supervisor
restarts processes (liveness of a system that stays down says nothing); `Dequeue` and
`Worker`, because a queue thread polls for ever; `RecoverWorkflow`, because the recovery
thread goes through its list; `Finish`, because functions return; `Listen`, because the
listener thread loops and reconnects. Callers, operators, crashes, cancellations, lost
acknowledgements, timeouts, the setter of an event and the writer of a stream have none.
`CrowdedDrains` assumes that crashes end (`<>[](up = Executors)`): without that a process
may crash in every dequeue. Weak fairness of whole worker passes does not exclude
executors aborting each other by itself; that some task gets through is what the
property shows. `ReadersEnd` starts from a workflow that is over, which nobody has to be
fair for.

## What is proved

All theorems hold for every value of the constants that satisfies the named
assumptions, checked by TLAPS without gaps.

`DurableExecution_proofs`: `TypeCorrect`, `QueuedRowsCorrect`,
`RecoveryBudgetCorrect`, `ActiveSetCorrect`, `NoGapsCorrect`, `CheckpointsFinalCorrect`,
`CompletedFinalCorrect`. The argument is a chain of inductive invariants: `TypeInv`
(types, and which runs have a place and a step); `RowInv`, which adds to the two
properties that a dequeued or recovered run acts on a row that exists and that it does
not own: an owner escapes the dead-letter check (`Mine`), so without this
`RecoveryBudget` is not inductive; `ActiveInv`, which adds to `ActiveSetExact` that runs
are on executors that are up (a crash removes runs and set together) and that only
guarded kinds of run reach acquire; `LogInv`, which adds to `NoGaps` that what a run is
about to record is a proper result. The two action properties follow from the same
invariants.

The same module has `OneExecutionCorrect`, `RunsFollowLogCorrect`, `ResultsAgreeCorrect` and the
refinement `ExactlyOnceCorrect`, for `Lone` (one executor, no direct calls), the condition
under which `exec_any` checks the same. `ActiveSetExact` makes guarded runs of one executor
exclude one another; `OneInv` adds what each of them knows of the checkpoints. A run at a
step has behind it the checkpoints and no failure, and nothing before it; the step it is
at is not recorded, or, after a lost acknowledgement, with what it is about to record
again; nothing is recorded after a failure; and a completed row has the outcome that the
checkpoints decide, so that a late second execution, which may still begin after
completion, walks over a finished log, records nothing and writes the same outcome
(`OverRecorded`). A first insert into the log maps to `Checkpoint`, the first outcome to
`Complete`, all else to stuttering.

`NoOrphanCorrect`, in the same module, is for any number of executors and runs and for
`Undisturbed` (one start and no resume; TLC refutes it with either). `OrphanInv`
says more than the property: a run works on the workflow on the very executor that the row
names. Some other executor's run would not do: it may end without a word to the row,
for instance because it waits for a run that is leaving. It adds that runs leave the
workflow, or shadow it, only when it is over or cancelled, and that the run of the first
start owns the row, so that it executes what it inserted, also when its upsert is
repeated after a lost acknowledgement.

`QueueDequeue_proofs`, for any finite set of tasks:

* `QueueTypeCorrect`, of which the natural-number `room` of a transaction is the interesting
  part, and `LocksSoundCorrect`. `LocksSound` is not inductive: a candidate may be written
  before it is locked. `LockInv` adds that for every transaction a row it has picked or may
  still pick is either unchanged since the snapshot or in `stale`, so that what `TryLock`
  lets through still waits on the queue.
* `OneHolderCorrect`, for an environment without a conductor, which recovers the tasks of
  executors that are up. `OwnerInv` says of the three lists of an executor together
  (`Claims`: to execute, executing, to recover) that they are disjoint, that no other
  executor has any of them, and that a PENDING one names this executor; that only executors
  that are up have any; and that an executor dequeues only with nothing left to execute.
* `WorkerConcurrencyCorrect`, under the same condition. The count is one of rows, not of the
  lists: `RoomInv` says that the PENDING rows that name an executor, together with what its
  open transaction has picked and may still pick, stay within the limit; rows of others that
  change meanwhile do not name it, and `OwnerInv` ties the lists to the rows.
* `ConcurrencyCorrect`, with a conductor, crashes, cancellations and lost results, for tasks
  that arrive in order and executors that may start all of them. A transaction counts in
  its snapshot and other transactions commit after that, so its count may be too low.
  `CountInv` gives every open transaction a set of tasks that it may have to count: whatever
  it picks, what it may still lock and what was active when it looked stay together within
  the limit, and an active task outside of the set comes after all it may still lock. The
  commit of another transaction either starts tasks of the set only, or starts a first row
  of this one, and then everything this one may still lock was counted or started by the
  other (`ClaimsArrived` and `ArrivedInv`: what sorts before an arrived task has arrived,
  so both saw it). TLC confirms the invariant with 3 tasks and a limit of 2, and that
  neither hypothesis can be dropped: an overtaking task or a second version breaks it.
* `RateLimitCorrect`, for a queue that also has a global concurrency, under the hypotheses of
  `ConcurrencyCorrect` and without cancellations and crashes; a dequeue may be lost. It
  states `RateLimit`, which the run checks as `LimitedRate` on variables of its own. `RateInv`
  says that the starts are those the rows tell of, and of every open transaction that it has
  either counted all that was started in the period before it began or will lock nothing: its
  count becomes too low only when another transaction starts a row, and comparing that
  row with any that this one may still lock puts neither first. The limit then follows
  from counting: each row the limiter lets through has fewer before it than what is left of
  the limit (`FirstFew`). TLC confirms the invariant with limits of 1 and 2, and that no
  hypothesis can be dropped.
* `InOrderCorrect`, with no condition on the environment. `SeenInv`: what a transaction has
  picked sorts before what is left to it, and with a global concurrency every row that waits
  and that it may start is left, picked, or was written since its snapshot.
* `NoneStrandedCorrect`, without a conductor, lost results and unregistered functions.
  `FoundInv`: a PENDING row names an executor and carries its version, so the launch of that
  executor lists it, and if the executor is up one of its lists has the task.

`Messages_proofs`: `MessagesTypeCorrect`, `ExactlyOnceCorrect`, `SenderOrderCorrect`,
`ReplayAgreesCorrect`, `MapExactCorrect`, `NoLostWakeupCorrect`. The first four rest on
`TypeInv` and on `Delivery`: recorded recvs have no gaps, each message is in one place
(flying, in the inbox, or received), a row has the creation time its message was sent with, a
message is begun only after the one its sender sent before was recorded, and what a run
has got is what is recorded. Between a look and a deletion other messages may arrive, so
`SenderOrder` alone is not inductive; nothing is assumed of the clock. The last two
rest on the lock order: a run holds its condition's lock from before the condition is in
the map until it waits, the map's count is the number of runs that use it, and a run that
waits while there is a message has a notification coming or in the listener's hand. Counting
runs needs `IsFiniteSet(Runs)`, which the two theorems assume.

`Operations_proofs`, of streams: `WrittenOnceCorrect`, `CloseIsLastCorrect`, for `Distinct` (writes in steps are
writes, the close is none). `IInv` relates each call to the tables: one at "written" has its
value there, one that is "done" is recorded, the close is recorded only after all
writes; without twins a call at work is not recorded, and a body's value that is in the
stream is. The last is what makes a repeated insert impossible, and an insert after the
sentinel: the close would be recorded, so the write would be too.
Of events: `EventForwardCorrect`, from `SetterInv`: the value is the newest of the history, and the
calls before any set that has been made are recorded, so that what a recovered workflow
repeats is skipped or not older; and `GettersAgreeCorrect`, from `GetterInv`: the calls that use
the map are counted and share its condition, and a call in a workflow that looks has nothing
recorded for it yet. Of steps: `ResultStandsCorrect`, from `StepInv`: nothing is recorded while a
call of a workflow is at its attempts or its record.

`WorkflowManagement_proofs`: `OutputsKeptCorrect`, `DedupCorrect`. `OutputsKept` speaks of
active workflows but is inductive only for all that exist, since any of them but the
completed may be resumed; the invariant further dates rows and outputs against the
clock (no output is older than its row), puts every cutoff in the past, and says that a
collection between its two transactions knows every older workflow that is left. The
deduplication ID needs only the types.
The same module has `CopiesWholeCorrect`, for every program of events, stream writes and steps.
`CopyInv` says that the original's tables agree after each of its steps, with a recorded prefix of
the program (`OriginalWhole`); that a fork under way has read of each table what belongs to the
checkpoints below `start_step`, all of which were recorded before it began (`BelowRead`), so that
what the original adds between two statements is cut off; that a committed fork has executed
`start_step` and the later steps once (`ForkWhole`); and that an export that read a completed
status reads tables that no longer change (`ExportRead`). The latest event and the next offset
of a stream are greatest elements of sets, found by `LeastExists` and `MaxIsGreatest`.

`Contexts_proofs`: `ChildrenKeptCorrect` and `EnclosedInvocationCorrect`, for every program in
which `SetWorkflowID` blocks enclose starts and calls, with different IDs (`IDsEnclosed`).
`PlaceInv` says that the place in the program decides the context, whichever execution it
is. The function ID is `Base(i)`: the number of operations before `i` plus that of those
among them that take two, which a cardinality states without recursion. The lemmas
`BaseNext` and `BaseLater` make the IDs of two operations different, so what one records is
not found by another.
Of transactions: `ExactlyOneEffectCorrect`. `TransactionInv` adds that a run about to commit has
a returned value and that one about to store an error either has the function's exception or
finds the row that made its own insert fail.

`Croniter_proofs`: `NextIsFirstCorrect`, for every set of valid crontabs of `SkipsNone` and
`KeepsDays`, every date to start from and every number of calls. `CronInv` says that behind
the date that moves lies no date the search accepts, back to where the call started; that a
second search, which starts there again, has the first date of the other kind as `first`; and that the result is the
first date that matches. The rest is the work of lemmas:

* the calendar: dates are ordered by month, day and time (`StampOrder`), adding months, days,
  hours or minutes gives a date whose distance is known over the ends of months and years
  (`AddDaysShape`, `HoursBetween`, `MinutesBetween`), and weekdays follow one another from one
  month to the next, leap years included (`OrdinalOfNextMonth`);
* the nearest value: no value lies in the gap that a field reports (`NearestPasses`), so each
  procedure passes over no date with an allowed value (`MonthMove`, `DayMove`, `WeekdayMove`,
  `HourMove`, `MinuteMove`); `SkipsNone` is used in `DayMove` alone, for the days that lie in the
  next month;
* the expansion: a field's values, or the star that stands for all of them, allow what its text
  allows (`TimeField`, `DowField`, `DayField`), and one search, or two for a union of days and
  weekdays, find what the crontab means (`BothAccepts`, where `KeepsDays` is used, and
  `SplitAccepts`).

The two conditions are where the proof would not go through otherwise, and `cron_skip` shows
that the first fails for good reason.

`Services_proofs`: `KafkaInOrderCorrect`. The invariant is a frontier: a message that can still
be enqueued, in the consumer's hand or beyond the group's offset, comes after all those that
were. `TimesExactCorrect`: `SchedulerInv` ties the number of executions of a time to the status
of its workflow, and keeps a thread that is about to enqueue on a time of the crontab, so that
what it leaves behind is a row or a failure. `CallServedCorrect`: `CallServed` is about a
workflow that has started; `DebouncerInv` says it already of the inputs a debouncer has and of
the order of its inbox (no message there comes from a call that had returned before the call
of an earlier one began), with who has begun, returned and been received, and a debouncer that
exists only if the call it is named after has returned.

Assumptions are that constants are numbers, finite sets or different from one another, as
named in the modules (`ASSUME`), and the conditions on `Env` given above, under which the runs
check the same properties.

Where a proof needs induction over data it takes the least counterexample from a set
(`LeastExists`, from `WFMin` of the library) and never an induction over a
definition.

Only model-checked:

* liveness under fairness (`CrowdedDrains`, `PoisonedOver`, `Delivered`, `EventDelivered`,
  `ReadersEnd`), and so also that a search for the next date ends, which are out of reach of the
  provers;
* three properties of the runs are theorems under another name, since the run states them on
  variables of a setting: `NoOrphanConducted` is `NoOrphan` (`NoOrphanCorrect`), `LimitedRate`
  is `RateLimit` (`RateLimitCorrect`), and the parts of `SharedKept` are proved as `TypeCorrect`,
  `ActiveSetCorrect`, `RecoveryBudgetCorrect`, `CheckpointsFinalCorrect` and
  `CompletedFinalCorrect`.

## What is not modelled, and the plan

* Durable sleep and deadlines: one deadline over restarts, dequeue and children. A timeout
  is a cancellation at any time in `DurableExecution`, and a timer that may end at any time
  in `Messages` and `WorkflowEvents`. Next: `Deadlines`.
* Patching (2692-2731): next, `Patching` over two versions of a program of `Contexts`.
* The composition of a parent's and a child's execution: a child that is removed while its
  parent waits for it is listed as a hazard.
* The order of a graceful shutdown, the bounded thread pool (whose exhaustion by workflows
  that wait for one another is listed as a hazard), the reconnection of the conductor.
* An exception between acquire and release in `get_event`, the retry of unregistered
  functions in recovery, sends to workflows that do not exist, `trigger_schedule`, rebalances
  of Kafka, further fields of crontabs and question marks in them.
* Theorems next: those of `Deadlines` and `Patching`, once they are modelled.

Left out for good: serialization, configuration, migrations, command line,
middleware (data conversion and set-up without protocol state).
