-------------------------- MODULE WorkflowManagement --------------------------
(***************************************************************************)
(* The rows of workflow_status and the transaction outputs of the          *)
(* application database under the management operations: enqueues with a   *)
(* deduplication ID, children, cancel, resume, restart (a fork from the    *)
(* first step), delete, garbage collection and the global timeout, the     *)
(* last three of which take several transactions.                          *)
(*                                                                         *)
(* Workflows start, commit transactions and complete underneath.  Left     *)
(* out: an ID that is used again after its workflow has been deleted, and  *)
(* databases whose clocks differ.                                          *)
(***************************************************************************)
EXTENDS Naturals, FiniteSets

CONSTANTS Ids,       \* workflow IDs
          Deduped,   \* the workflows enqueued with the deduplication ID
          Managers,  \* threads that run a procedure of several transactions
          Threshold, \* rows_threshold of the garbage collection
          MaxTime,   \* bound: the clock
          NoTime

ASSUME ManagementAssumption == MaxTime \in Nat /\ NoTime \notin Nat

VARIABLES row,       \* workflow_status
          links,     \* children recorded in operation_outputs
          starting,  \* children inserted and not yet recorded
          running,   \* executions under way
          outputs,   \* transaction_outputs: the time of the one of each ID
          committed, \* history: workflows that have committed a transaction
          deleted,   \* history: workflows a delete was asked for
          job,       \* each manager's procedure
          clock

managementVars ==
  <<row, links, starting, running, outputs, committed, deleted, job, clock>>

Absent == [status |-> "ABSENT", queue |-> "none", dedup |-> FALSE, created |-> NoTime]
NewRow(status, queue, dedup) ==
  [status |-> status, queue |-> queue, dedup |-> dedup, created |-> clock]
IdleJob == [op |-> "none", pc |-> "idle", cutoff |-> NoTime, ids |-> {}]

Init ==
  /\ row = [i \in Ids |-> Absent]
  /\ links = {} /\ starting = {} /\ running = {}
  /\ outputs = [i \in Ids |-> NoTime]
  /\ committed = {} /\ deleted = {}
  /\ job = [m \in Managers |-> IdleJob]
  /\ clock = 0

Exists(i) == row[i].status # "ABSENT"
Active(i) == row[i].status \in {"ENQUEUED", "PENDING"}
Complete(i) == row[i].status = "COMPLETED"
Fresh(i) == ~Exists(i) /\ i \notin deleted /\ i \notin committed
Before(cutoff) == {i \in Ids : Exists(i) /\ row[i].created < cutoff}

others == <<links, starting, running, outputs, committed, deleted, job, clock>>

-----------------------------------------------------------------------------
(* Workflows.                                                              *)

(* The constraint on queue_name and deduplication_id.                      *)
Duplicate(queue) == \E j \in Ids : row[j].dedup /\ row[j].queue = queue

(* A duplicate is refused with DBOSQueueDeduplicatedError.                 *)
Enqueue(i) ==
  /\ Fresh(i)
  /\ i \in Deduped => ~Duplicate("app")
  /\ row' = [row EXCEPT ![i] = NewRow("ENQUEUED", "app", i \in Deduped)]
  /\ UNCHANGED others

Dequeue(i) ==
  /\ row[i].status = "ENQUEUED"
  /\ row' = [row EXCEPT ![i].status = "PENDING"]
  /\ running' = running \cup {i}
  /\ UNCHANGED <<links, starting, outputs, committed, deleted, job, clock>>

(* start_workflow in a workflow: the child's row, then the parent's record *)
(* of it, in two transactions.                                             *)
StartChild(p, c) ==
  /\ p \in running /\ Exists(p) /\ Fresh(c) /\ p # c
  /\ row' = [row EXCEPT ![c] = NewRow("PENDING", "none", FALSE)]
  /\ starting' = starting \cup {<<p, c>>}
  /\ running' = running \cup {c}
  /\ UNCHANGED <<links, outputs, committed, deleted, job, clock>>

(* operation_outputs refers to the parent's row.                           *)
RecordChild(p, c) ==
  /\ <<p, c>> \in starting
  /\ starting' = starting \ {<<p, c>>}
  /\ links' = IF Exists(p) THEN links \cup {<<p, c>>} ELSE links
  /\ UNCHANGED <<row, running, outputs, committed, deleted, job, clock>>

CommitTransaction(i) ==
  /\ i \in running /\ outputs[i] = NoTime
  /\ outputs' = [outputs EXCEPT ![i] = clock]
  /\ committed' = committed \cup {i}
  /\ UNCHANGED <<row, links, starting, running, deleted, job, clock>>

(* update_workflow_outcome has no condition on the status, so a cancelled  *)
(* workflow may complete; it sets deduplication_id to NULL.                *)
Finish(i) ==
  /\ i \in running
  /\ running' = running \ {i}
  /\ row' = IF Exists(i)
            THEN [row EXCEPT ![i].status = "COMPLETED", ![i].dedup = FALSE]
            ELSE row
  /\ UNCHANGED <<links, starting, outputs, committed, deleted, job, clock>>

(* max_recovery_attempts.                                                  *)
GiveUp(i) ==
  /\ row[i].status = "PENDING" /\ i \notin running
  /\ row' = [row EXCEPT ![i] = [@ EXCEPT !.status = "EXCEEDED", !.queue = "none",
                                         !.dedup = FALSE]]
  /\ UNCHANGED others

(* An execution sees that its workflow was cancelled or deleted, or its    *)
(* process dies; a recovery begins another one.                            *)
Stop(i) ==
  /\ i \in running
  /\ running' = running \ {i}
  /\ UNCHANGED <<row, links, starting, outputs, committed, deleted, job, clock>>

Recover(i) ==
  /\ row[i].status = "PENDING" /\ i \notin running
  /\ running' = running \cup {i}
  /\ UNCHANGED <<row, links, starting, outputs, committed, deleted, job, clock>>

-----------------------------------------------------------------------------
(* cancel_workflow, resume_workflow, and restart.                          *)

CancelledKept(i) ==                                               \* faulty
  [row[i] EXCEPT !.status = "CANCELLED"]
Cancelled(i) ==
  IF Exists(i) /\ ~Complete(i)
  THEN [row[i] EXCEPT !.status = "CANCELLED", !.queue = "none", !.dedup = FALSE]
  ELSE row[i]

Cancel(i) ==
  /\ Exists(i) /\ ~Complete(i)
  /\ row' = [row EXCEPT ![i] = Cancelled(i)]
  /\ UNCHANGED others

Resume(i) ==
  /\ Exists(i) /\ ~Complete(i)
  /\ row' = [row EXCEPT ![i] = [@ EXCEPT !.status = "ENQUEUED", !.queue = "internal",
                                         !.dedup = FALSE]]
  /\ UNCHANGED others

(* The copy has neither the deduplication ID nor the transaction outputs.  *)
Restart(i, new) ==
  /\ Exists(i) /\ Fresh(new)
  /\ row' = [row EXCEPT ![new] = NewRow("ENQUEUED", "internal", FALSE)]
  /\ UNCHANGED others

-----------------------------------------------------------------------------
(* Procedures of several transactions.                                     *)

Begin(m, op, pc, cutoff, ids) ==
  /\ job[m].pc = "idle"
  /\ job' = [job EXCEPT ![m] = [op |-> op, pc |-> pc, cutoff |-> cutoff, ids |-> ids]]

At(m, op, pc) == job[m].op = op /\ job[m].pc = pc

RemoveRows(ids) ==
  /\ row' = [i \in Ids |-> IF i \in ids THEN Absent ELSE row[i]]
  /\ links' = {l \in links : l[1] \notin ids}

RemoveOutputs(ids) ==
  outputs' = [i \in Ids |-> IF i \in ids THEN NoTime ELSE outputs[i]]

(* get_workflow_children follows what the parents have recorded.           *)
Descendants(i) ==
  {c \in Ids : \/ <<i, c>> \in links
               \/ \E b \in Ids : <<i, b>> \in links /\ <<b, c>> \in links}

BeginDelete(m, i, delete_children) ==
  /\ Exists(i)
  /\ LET ids == {i} \cup (IF delete_children THEN Descendants(i) ELSE {})
     IN /\ Begin(m, "delete", "rows", NoTime, ids)
        /\ deleted' = deleted \cup ids
  /\ UNCHANGED <<row, links, starting, running, outputs, committed, clock>>

DeleteRows(m) ==
  /\ At(m, "delete", "rows")
  /\ RemoveRows(job[m].ids)
  /\ job' = [job EXCEPT ![m].pc = "outputs"]
  /\ UNCHANGED <<starting, running, outputs, committed, deleted, clock>>

DeleteOutputs(m) ==
  /\ At(m, "delete", "outputs")
  /\ RemoveOutputs(job[m].ids)
  /\ job' = [job EXCEPT ![m] = IdleJob]
  /\ UNCHANGED <<row, links, starting, running, committed, deleted, clock>>

(* garbage_collect: a cutoff from the rows that exist, or given if later.  *)
Newer(t) == {j \in Ids : Exists(j) /\ row[j].created > t}
RowCutoff ==
  {t \in {row[i].created : i \in {i \in Ids : Exists(i)}} :
     /\ Cardinality(Newer(t)) < Threshold
     /\ Cardinality(Newer(t - 1)) >= Threshold}

FindCutoff(m, given) ==
  LET cutoffs == RowCutoff \cup (IF given = NoTime THEN {} ELSE {given})
  IN /\ \E t \in cutoffs :
          /\ \A u \in cutoffs : u <= t
          /\ Begin(m, "collect", "rows", t, {})
     /\ UNCHANGED <<row, links, starting, running, outputs, committed, deleted, clock>>

(* The old workflows that remain, in whichever state they are.             *)
RemainingPending(cutoff) ==                                       \* faulty
  {i \in Before(cutoff) : row[i].status = "PENDING"}
Remaining(cutoff) == {i \in Before(cutoff) : Active(i)}

CollectRows(m) ==
  /\ At(m, "collect", "rows")
  /\ LET cutoff == job[m].cutoff
     IN /\ RemoveRows({i \in Before(cutoff) : ~Active(i)})
        /\ job' = [job EXCEPT ![m].pc = "outputs", ![m].ids = Remaining(cutoff)]
  /\ UNCHANGED <<starting, running, outputs, committed, deleted, clock>>

CollectOutputs(m) ==
  /\ At(m, "collect", "outputs")
  /\ RemoveOutputs({i \in Ids \ job[m].ids :
                      outputs[i] # NoTime /\ outputs[i] < job[m].cutoff})
  /\ job' = [job EXCEPT ![m] = IdleJob]
  /\ UNCHANGED <<row, links, starting, running, committed, deleted, clock>>

(* global_timeout lists and cancels the PENDING workflows, then the        *)
(* ENQUEUED ones.                                                          *)
Listed(cutoff, status) == {i \in Before(cutoff) : row[i].status = status}

BeginTimeout(m, cutoff) ==
  /\ Begin(m, "timeout", "pending", cutoff, Listed(cutoff, "PENDING"))
  /\ UNCHANGED <<row, links, starting, running, outputs, committed, deleted, clock>>

CancelListed(m, i) ==
  /\ job[m].op = "timeout" /\ i \in job[m].ids
  /\ row' = [row EXCEPT ![i] = Cancelled(i)]
  /\ job' = [job EXCEPT ![m].ids = @ \ {i}]
  /\ UNCHANGED <<links, starting, running, outputs, committed, deleted, clock>>

ListNext(m) ==
  /\ job[m].op = "timeout" /\ job[m].ids = {}
  /\ job' = [job EXCEPT ![m] =
       IF @.pc = "pending"
       THEN [@ EXCEPT !.pc = "enqueued", !.ids = Listed(job[m].cutoff, "ENQUEUED")]
       ELSE IdleJob]
  /\ UNCHANGED <<row, links, starting, running, outputs, committed, deleted, clock>>

(* The process that runs a procedure is killed in the middle of it.        *)
Crash(m) ==
  /\ job[m].pc # "idle"
  /\ job' = [job EXCEPT ![m] = IdleJob]
  /\ UNCHANGED <<row, links, starting, running, outputs, committed, deleted, clock>>

Tick ==
  /\ clock < MaxTime
  /\ clock' = clock + 1
  /\ UNCHANGED <<row, links, starting, running, outputs, committed, deleted, job>>

-----------------------------------------------------------------------------
Workflow(i) ==
  \/ Enqueue(i) \/ Dequeue(i) \/ CommitTransaction(i) \/ Finish(i)
  \/ GiveUp(i) \/ Stop(i) \/ Recover(i)
  \/ \E c \in Ids : StartChild(i, c) \/ RecordChild(i, c)

(* What a client asks for, and in-workflow calls of the same operations.   *)
Client(i) ==
  \/ Cancel(i) \/ Resume(i)
  \/ \E new \in Ids : Restart(i, new)
  \/ \E m \in Managers, children \in BOOLEAN : BeginDelete(m, i, children)

(* What only the admin server and the conductor start.                     *)
Admin(m) ==
  \/ \E t \in {NoTime} \cup 0..clock : FindCutoff(m, t)
  \/ \E t \in 0..clock : BeginTimeout(m, t)

Proceed(m) ==
  \/ DeleteRows(m) \/ DeleteOutputs(m) \/ CollectRows(m) \/ CollectOutputs(m)
  \/ ListNext(m) \/ \E i \in Ids : CancelListed(m, i)

Next ==
  \/ \E i \in Ids : Workflow(i) \/ Client(i)
  \/ \E m \in Managers : Admin(m) \/ Proceed(m) \/ Crash(m)
  \/ Tick

Spec == Init /\ [][Next]_managementVars

-----------------------------------------------------------------------------
(* A deduplication ID is held by a workflow that is still to run, never by *)
(* one that is over, which would block all later enqueues with that ID.    *)
DedupHeldByActive == \A i \in Ids : row[i].dedup => Active(i)

(* A workflow that is still to run finds the outputs of the transactions   *)
(* it has committed, whatever was garbage-collected, at whatever time,     *)
(* between the two databases; else it would commit them again.             *)
OutputsKept ==
  \A i \in Ids : Active(i) /\ i \in committed \ deleted => outputs[i] # NoTime
=============================================================================
