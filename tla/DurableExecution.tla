-------------------------- MODULE DurableExecution --------------------------
(***************************************************************************)
(* One durable workflow and everything that may execute it.                *)
(*                                                                         *)
(* The system database keeps the workflow's row in workflow_status (row)   *)
(* and its rows in operation_outputs (log).  Any number of runs may act on *)
(* them: a run is one call of start_workflow, of the decorated function or *)
(* of execute_workflow_by_id, with its own owner_xid and its own thread.   *)
(* Each transaction of _sys_db.py is one action; a run may be overtaken by *)
(* any other run, by a cancellation or by a crash between two of them.     *)
(*                                                                         *)
(* Rows of different workflows do not interact in these operations, so one *)
(* workflow ID is enough.                                                  *)
(*                                                                         *)
(* A definition marked "faulty" is a plausible mistake in the one after    *)
(* it; it is used only to see that a property would notice the mistake.    *)
(***************************************************************************)
EXTENDS Naturals, FiniteSets

CONSTANTS Executors,      \* processes running the application
          Runs,           \* executions that may exist at the same time
          NumSteps,       \* steps of the workflow function
          Values,         \* what a step body may return or raise
          Failures,       \* the values that are exceptions
          MaxRecoveries,  \* max_recovery_attempts
          MaxLost,        \* bound: commits whose acknowledgement is lost
          Env,            \* what the environment does
          NoValue, NoRun, NoExecutor

EnvEvents == {"start",      \* DBOS.start_workflow with this workflow ID
              "call",       \* direct call of the workflow, sync
              "acall",      \* direct call of the workflow, async
              "enqueue",    \* Queue.enqueue with this workflow ID
              "duplicate",  \* the workflow may be started again
              "cancel", "resume",
              "crash",      \* an executor may crash at any point
              "poison",     \* an executor may crash inside a step body
              "foreign"}    \* recovery is asked for an executor that is up

ASSUME StepsAssumption == NumSteps \in Nat \ {0}
ASSUME ValuesAssumption == Failures \subseteq Values /\ NoValue \notin Values
ASSUME RecoveriesAssumption == MaxRecoveries \in Nat /\ MaxLost \in Nat
ASSUME EnvAssumption == Env \subseteq EnvEvents
ASSUME NullAssumption == NoRun \notin Runs /\ NoExecutor \notin Executors

VARIABLES row,     \* the workflow_status row
          log,     \* operation_outputs: function_id -> result
          run,     \* the state of each execution
          active,  \* executors whose _active_workflows_set has the workflow
          up,      \* executors that are running
          lost     \* lost acknowledgements so far

vars == <<row, log, run, active, up, lost>>

Steps == 1..NumSteps
Logs == [Steps -> Values \cup {NoValue}]
EmptyLog == [s \in Steps |-> NoValue]

Completed == {"SUCCESS", "ERROR"}
Statuses == Completed \cup {"PENDING", "ENQUEUED", "CANCELLED",
                            "MAX_RECOVERY_ATTEMPTS_EXCEEDED"}

Rows == [status : Statuses \cup {"NONE"}, executor : Executors \cup {NoExecutor},
         attempts : Nat, owner : Runs \cup {NoRun}, queued : BOOLEAN,
         outcome : Logs \cup {NoValue}]

NoRow == [status |-> "NONE", executor |-> NoExecutor, attempts |-> 0,
          owner |-> NoRun, queued |-> FALSE, outcome |-> NoValue]

Forced == {"dequeue", "recover"}     \* is_dequeued_request or is_recovery_request
Guarded == Forced \cup {"start"}     \* run under _active_workflows_set
Kinds == Guarded \cup {"call", "acall"}

Executing == {"check", "body", "record", "outcome"}
PCs == Executing \cup {"idle", "listed", "fetch", "init", "ready", "unwind",
                       "await", "done"}

RunStates == [pc : PCs, at : Executors \cup {NoExecutor}, kind : Kinds,
              fromQueue : BOOLEAN, shadow : BOOLEAN, step : 1..NumSteps + 1,
              vals : Logs, ret : Logs \cup {NoValue}]

IdleRun == [pc |-> "idle", at |-> NoExecutor, kind |-> "start",
            fromQueue |-> FALSE, shadow |-> FALSE, step |-> 1,
            vals |-> EmptyLog, ret |-> NoValue]

(* A run that is over, remembered for what it gave its caller.             *)
DoneRun(result) == [IdleRun EXCEPT !.pc = "done", !.ret = result]

NewRun(e, kind, pc) == [IdleRun EXCEPT !.pc = pc, !.at = e, !.kind = kind,
                                       !.fromQueue = row.queued]

TypeOK ==
  /\ row \in Rows
  /\ log \in Logs
  /\ run \in [Runs -> RunStates]
  /\ active \subseteq Executors
  /\ up \subseteq Executors
  /\ lost \in 0..MaxLost

Init ==
  /\ row = NoRow
  /\ log = EmptyLog
  /\ run = [r \in Runs |-> IdleRun]
  /\ active = {}
  /\ up = Executors
  /\ lost = 0

-----------------------------------------------------------------------------
Exists == row.status # "NONE"
OpenAlways == Exists                                              \* faulty
Open == Exists /\ row.status \notin Completed

(* The owner_xid of a new run is a fresh uuid: a run over whose ID is not  *)
(* in the row may be recycled.                                             *)
Free(r) == run[r].pc \in {"idle", "done"} /\ row.owner # r

(* A db_retry transaction commits; its acknowledgement may be lost, and    *)
(* then the function runs again from its start.                            *)
Becomes(r, next) == run' = [run EXCEPT ![r] = next]
Acked(r, next) == Becomes(r, next) /\ UNCHANGED lost
Unacked == lost < MaxLost /\ lost' = lost + 1 /\ UNCHANGED run

-----------------------------------------------------------------------------
(* _insert_workflow_status: the upsert every start, enqueue, dequeue and   *)
(* recovery goes through.                                                  *)
AttemptsForgotten(force) == row.attempts                          \* faulty
AttemptsInverted(force) == row.attempts - IF force THEN 1 ELSE 0  \* faulty
Attempts(force) ==
  row.attempts + IF force /\ row.status # "ENQUEUED" THEN 1 ELSE 0

Mine(owner) == owner # NoRun /\ owner = row.owner

DeadLetteredLate(force, owner) ==                                 \* faulty
  Open /\ Attempts(force) > MaxRecoveries + 2 /\ ~Mine(owner)
DeadLettered(force, owner) ==
  Open /\ Attempts(force) > MaxRecoveries + 1 /\ ~Mine(owner)

InsertStatus(e, toQueue, force, owner) ==
  LET bury == DeadLettered(force, owner) /\ row.status = "PENDING"
  IN row' = IF Exists
            THEN [row EXCEPT
                    !.attempts = Attempts(force),
                    !.executor = IF toQueue THEN @ ELSE e,
                    !.status = IF bury THEN "MAX_RECOVERY_ATTEMPTS_EXCEEDED" ELSE @,
                    !.queued = @ /\ ~bury]
            ELSE [status |-> IF toQueue THEN "ENQUEUED" ELSE "PENDING",
                  executor |-> e, attempts |-> IF toQueue THEN 0 ELSE 1,
                  owner |-> owner, queued |-> toQueue, outcome |-> NoValue]

(* What the run does with the status and should_execute it is handed.      *)
AfterInit(r) ==
  LET me == run[r]
      force == me.kind \in Forced
      execute == ~Exists \/ force \/ Mine(r)
      runs == execute /\ row.status \notin Completed
  IN CASE DeadLettered(force, r) -> DoneRun(NoValue)
       [] me.kind = "acall" -> [me EXCEPT !.pc = "check", !.shadow = ~runs]
       [] me.kind = "call" -> [me EXCEPT !.pc = IF runs THEN "check" ELSE "await"]
       [] me.kind = "start" -> [me EXCEPT !.pc = IF runs THEN "ready" ELSE "await"]
       [] OTHER -> IF runs THEN [me EXCEPT !.pc = "ready"] ELSE DoneRun(NoValue)

InitWorkflow(r) ==
  LET me == run[r]
  IN /\ me.pc = "init"
     /\ InsertStatus(me.at, me.fromQueue, me.kind \in Forced, r)
     /\ Acked(r, AfterInit(r)) \/ Unacked
     /\ UNCHANGED <<log, active, up>>

-----------------------------------------------------------------------------
(* Ways an execution comes about.                                          *)

MayStart == "duplicate" \in Env \/ (~Exists /\ \A r \in Runs : run[r].pc # "init")

Start(e, r, kind) ==
  /\ kind \in Env
  /\ e \in up
  /\ Free(r)
  /\ MayStart
  /\ Becomes(r, [NewRun(e, kind, "init") EXCEPT !.fromQueue = FALSE])
  /\ UNCHANGED <<row, log, active, up, lost>>

(* Queue.enqueue: the row is inserted, nothing is executed here.           *)
Enqueue(e) ==
  /\ "enqueue" \in Env
  /\ e \in up
  /\ MayStart
  /\ InsertStatus(e, TRUE, FALSE, NoRun)
  /\ UNCHANGED <<log, run, active, up, lost>>

(* start_queued_workflows on one executor picks the workflow.              *)
Dequeue(e, r) ==
  /\ e \in up
  /\ row.status = "ENQUEUED"
  /\ Free(r)
  /\ row' = [row EXCEPT !.status = "PENDING", !.executor = e]
  /\ Becomes(r, NewRun(e, "dequeue", "fetch"))
  /\ UNCHANGED <<log, active, up, lost>>

(* get_pending_workflows.                                                  *)
PendingOffQueue(x) ==                                             \* faulty
  row.status = "PENDING" /\ row.executor = x /\ ~row.queued
PendingOf(x) == row.status = "PENDING" /\ row.executor = x

Listed(e, x, r) ==
  /\ PendingOf(x)
  /\ Free(r)
  /\ Becomes(r, NewRun(e, "recover", "listed"))

(* recover_pending_workflows, asked for by an operator or the conductor.   *)
RecoverPending(e, x, r) ==
  /\ e \in up
  /\ x \notin up \/ "foreign" \in Env
  /\ Listed(e, x, r)
  /\ UNCHANGED <<row, log, active, up, lost>>

(* _launch: a restarted executor lists its own pending workflows before    *)
(* anything else.                                                          *)
Launch(e) ==
  /\ e \notin up
  /\ up' = up \cup {e}
  /\ \/ \E r \in Runs : Listed(e, e, r)
     \/ ~PendingOf(e) /\ UNCHANGED run
  /\ UNCHANGED <<row, log, active, lost>>

(* _recover_workflow: a workflow that came from a queue goes back to it.   *)
ClearQueueAssignment(r) ==
  /\ run[r].pc = "listed"
  /\ run[r].fromQueue /\ row.queued /\ row.status = "PENDING"
  /\ row' = [row EXCEPT !.status = "ENQUEUED"]
  /\ Becomes(r, DoneRun(NoValue))
  /\ UNCHANGED <<log, active, up, lost>>

RecoverDirectly(r) ==
  /\ run[r].pc = "listed"
  /\ ~(run[r].fromQueue /\ row.queued /\ row.status = "PENDING")
  /\ Becomes(r, [run[r] EXCEPT !.pc = "fetch"])
  /\ UNCHANGED <<row, log, active, up, lost>>

(* execute_workflow_by_id reads the row; its queue name decides below      *)
(* whether the upsert asks for ENQUEUED or PENDING.                        *)
Fetch(r) ==
  /\ run[r].pc = "fetch"
  /\ Becomes(r, [run[r] EXCEPT !.pc = "init", !.fromQueue = row.queued])
  /\ UNCHANGED <<row, log, active, up, lost>>

-----------------------------------------------------------------------------
(* The execution itself.                                                   *)

(* ActiveWorkflowById.acquire finds the workflow in the map.               *)
TakenNever(e) == FALSE                                            \* faulty
Taken(e) == e \in active

(* _execute_workflow_wthread / _async: the thread takes the workflow or    *)
(* waits for whoever has it.                                               *)
Acquire(r) ==
  /\ run[r].pc = "ready"
  /\ IF Taken(run[r].at)
     THEN Becomes(r, [run[r] EXCEPT !.pc = "await"]) /\ UNCHANGED active
     ELSE Becomes(r, [run[r] EXCEPT !.pc = "check"]) /\ active' = active \cup {run[r].at}
  /\ UNCHANGED <<row, log, up, lost>>

Owns(me) == me.kind \in Guarded /\ me.pc \in Executing \cup {"unwind"}

(* The run goes past a step whose result it takes to be v.                 *)
AdvanceAlways(me, v) ==                                           \* faulty
  [me EXCEPT !.vals[me.step] = v, !.step = @ + 1,
             !.pc = IF me.step < NumSteps THEN "check"
                    ELSE IF me.shadow THEN "await" ELSE "outcome"]
Advance(me, v) ==
  [me EXCEPT !.vals[me.step] = v, !.step = @ + 1,
             !.pc = IF v \notin Failures /\ me.step < NumSteps THEN "check"
                    ELSE IF me.shadow THEN "await" ELSE "outcome"]

(* check_operation_execution before every step.                            *)
RecordedNever(s) == NoValue                                       \* faulty
Recorded(s) == log[s]

CheckStep(r) ==
  LET me == run[r]
  IN /\ me.pc = "check"
     /\ Becomes(r,
          IF row.status = "CANCELLED"
          THEN [me EXCEPT !.pc = IF me.shadow THEN "await" ELSE "unwind"]
          ELSE IF Recorded(me.step) = NoValue THEN [me EXCEPT !.pc = "body"]
          ELSE Advance(me, Recorded(me.step)))
     /\ UNCHANGED <<row, log, active, up, lost>>

StepBody(r, v) ==
  /\ run[r].pc = "body"
  /\ Becomes(r, [run[r] EXCEPT !.pc = "record", !.vals[run[r].step] = v])
  /\ UNCHANGED <<row, log, active, up, lost>>

(* record_operation_result: the row names this executor again, and the     *)
(* result is inserted ON CONFLICT DO NOTHING; on conflict no row comes     *)
(* back, nothing is raised and the run keeps its own result.               *)
OverwriteOutput(s, v) == log' = [log EXCEPT ![s] = v]             \* faulty
InsertOutput(s, v) == log' = [log EXCEPT ![s] = IF @ = NoValue THEN v ELSE @]

RecordStep(r) ==
  LET me == run[r]
  IN /\ me.pc = "record"
     /\ row' = [row EXCEPT !.executor = me.at]
     /\ InsertOutput(me.step, me.vals[me.step])
     /\ Acked(r, Advance(me, me.vals[me.step])) \/ Unacked
     /\ UNCHANGED <<active, up>>

(* update_workflow_outcome: unconditional.                                 *)
WriteOutcome(r) ==
  LET me == run[r]
      failed == \E s \in Steps : me.vals[s] \in Failures
  IN /\ me.pc = "outcome"
     /\ row' = [row EXCEPT !.status = IF failed THEN "ERROR" ELSE "SUCCESS",
                           !.outcome = me.vals]
     /\ Acked(r, [me EXCEPT !.pc = "unwind", !.ret = me.vals]) \/ Unacked
     /\ UNCHANGED <<log, active, up>>

(* The finally clause, after user code and persist are done.               *)
Release(r) ==
  /\ run[r].pc = "unwind"
  /\ active' = IF Owns(run[r]) THEN active \ {run[r].at} ELSE active
  /\ Becomes(r, DoneRun(run[r].ret))
  /\ UNCHANGED <<row, log, up, lost>>

(* await_workflow_result: the poll that ends the wait.                     *)
AwaitResult(r) ==
  /\ run[r].pc = "await"
  /\ row.status \notin {"NONE", "PENDING", "ENQUEUED"}
  /\ Becomes(r, DoneRun(IF row.status \in Completed THEN row.outcome ELSE NoValue))
  /\ UNCHANGED <<row, log, active, up, lost>>

-----------------------------------------------------------------------------
(* Management and failures.                                                *)

(* cancel_workflow, by a caller or by the timeout thread.                  *)
CancelledRow == [row EXCEPT !.status = "CANCELLED", !.queued = FALSE]

Cancel ==
  /\ "cancel" \in Env
  /\ Open
  /\ row' = CancelledRow
  /\ UNCHANGED <<log, run, active, up, lost>>

Resume ==
  /\ "resume" \in Env
  /\ Open
  /\ row' = [row EXCEPT !.status = "ENQUEUED", !.queued = TRUE, !.attempts = 0]
  /\ UNCHANGED <<log, run, active, up, lost>>

Crash(e) ==
  /\ e \in up
  /\ \/ "crash" \in Env
     \/ "poison" \in Env /\ \E r \in Runs : run[r].at = e /\ run[r].pc = "body"
  /\ up' = up \ {e}
  /\ active' = active \ {e}
  /\ run' = [r \in Runs |-> IF run[r].at = e THEN IdleRun ELSE run[r]]
  /\ UNCHANGED <<row, log, lost>>

-----------------------------------------------------------------------------
RunStep(r) ==
  \/ ClearQueueAssignment(r) \/ RecoverDirectly(r) \/ Fetch(r)
  \/ InitWorkflow(r) \/ Acquire(r) \/ CheckStep(r)
  \/ \E v \in Values : StepBody(r, v)
  \/ RecordStep(r) \/ WriteOutcome(r) \/ Release(r) \/ AwaitResult(r)

Next ==
  \/ \E r \in Runs : RunStep(r)
  \/ \E e \in Executors, r \in Runs :
       \/ \E kind \in {"start", "call", "acall"} : Start(e, r, kind)
       \/ Dequeue(e, r)
       \/ \E x \in Executors : RecoverPending(e, x, r)
  \/ \E e \in Executors : Enqueue(e) \/ Launch(e) \/ Crash(e)
  \/ Cancel
  \/ Resume

Spec == Init /\ [][Next]_vars

(* Threads make progress, a crashed process is restarted and the queue     *)
(* threads keep polling; callers, operators and crashes owe nothing.       *)
Fairness ==
  /\ \A r \in Runs : WF_vars(RunStep(r))
  /\ \A e \in Executors : /\ WF_vars(Launch(e))
                          /\ WF_vars(\E r \in Runs : Dequeue(e, r))

FairSpec == Spec /\ Fairness

-----------------------------------------------------------------------------
(* Safety, whatever the executions do to one another.                      *)

(* The active set of an executor tells exactly whether one of its guarded  *)
(* runs is between acquire and release, and there is never a second one    *)
(* (ActiveWorkflowById, with crashes and waiting runs in between).         *)
ActiveSetExact ==
  /\ \A e \in Executors :
       e \in active <=> \E r \in Runs : run[r].at = e /\ Owns(run[r])
  /\ \A r, q \in Runs :
       Owns(run[r]) /\ Owns(run[q]) /\ run[r].at = run[q].at => r = q

(* Function IDs are checkpointed without gaps, and every step a run has    *)
(* behind it is in operation_outputs: recovery resumes after a prefix.     *)
NoGaps ==
  /\ \A s \in Steps : log[s] # NoValue => \A i \in 1..s : log[i] # NoValue
  /\ \A r \in Runs : run[r].pc \in Executing =>
       \A i \in 1..(run[r].step - 1) : log[i] # NoValue

(* A row waiting to be dequeued is on a queue, and a cancelled or          *)
(* dead-lettered row on none: start_queued_workflows can find the first    *)
(* and must not find the second.                                           *)
QueuedRows ==
  /\ row.status = "ENQUEUED" => row.queued
  /\ row.status \in {"CANCELLED", "MAX_RECOVERY_ATTEMPTS_EXCEEDED"} => ~row.queued

(* No workflow stays runnable with its recovery attempts used up           *)
(* (_insert_workflow_status, with lost acknowledgements counting double).  *)
RecoveryBudget ==
  row.status \in {"PENDING", "ENQUEUED"} => row.attempts <= MaxRecoveries + 1

(* What operation_outputs says of a step never changes, whichever run      *)
(* records it again (_record_operation_result_txn).                        *)
CheckpointsFinal ==
  [][\A s \in Steps : log[s] # NoValue => log'[s] = log[s]]_vars

(* A completed workflow stays completed: neither a cancellation, a resume, *)
(* a late recovery nor a queue reopens it.                                 *)
CompletedFinal ==
  [][row.status \in Completed => row'.status \in Completed]_vars

-----------------------------------------------------------------------------
(* Safety when all guarded executions share one executor.                  *)

(* At most one run is inside the workflow function.                        *)
OneExecution ==
  \A r, q \in Runs :
    run[r].pc \in Executing /\ run[q].pc \in Executing => r = q

(* A run continues with what operation_outputs holds of the steps behind   *)
(* it: it never computes with a result the log does not have.              *)
RunsFollowLog ==
  \A r \in Runs : run[r].pc \in Executing =>
    \A i \in 1..(run[r].step - 1) : run[r].vals[i] = log[i]

(* Every caller that gets a result gets the one in the row.                *)
ResultsAgree ==
  \A r \in Runs : run[r].ret # NoValue => run[r].ret = row.outcome

Contract == INSTANCE ExactlyOnce WITH outcome <- row.outcome

(* The workflow's steps and outcome take effect exactly once, whatever     *)
(* runs, crashes and duplicates there are (the refinement of ExactlyOnce). *)
ImplementsExactlyOnce == Contract!Spec

-----------------------------------------------------------------------------
(* Recovery.                                                               *)

(* A run that will still do something for the workflow.                    *)
Working(r) == run[r].pc \in Executing \cup {"listed", "fetch", "init", "ready"}

(* A PENDING workflow is in somebody's hands: a run works on it, or the    *)
(* executor its row names is down and lists it when it is launched again   *)
(* ("If your program ever fails, when it restarts all your workflows will  *)
(* automatically resume from the last completed step").                    *)
NoOrphan ==
  row.status = "PENDING" =>
    row.executor \notin up \/ \E r \in Runs : Working(r)

(* The same, of executors that have all been started again.                *)
RestartResumes == up = Executors => NoOrphan

(* Even if a step body kills its process every time, the workflow comes to *)
(* an end: it completes or is dead-lettered, it is not retried for ever.   *)
EventuallyOver ==
  Exists ~> row.status \in Completed \cup {"MAX_RECOVERY_ATTEMPTS_EXCEEDED"}
=============================================================================
