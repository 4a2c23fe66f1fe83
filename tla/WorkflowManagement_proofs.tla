---------------------- MODULE WorkflowManagement_proofs -----------------------
(***************************************************************************)
(* Proofs about WorkflowManagement for any workflows, any threads that     *)
(* manage them and any thresholds, and about WorkflowCopies for any        *)
(* program of the workflow that is copied.                                 *)
(***************************************************************************)
EXTENDS WorkflowManagement, WorkflowCopies, WellFoundedInduction, TLAPS

Statuses == {"ABSENT", "ENQUEUED", "PENDING", "COMPLETED", "CANCELLED", "EXCEEDED"}
RowType ==
  [status : Statuses, queue : {"none", "app", "internal"}, dedup : BOOLEAN,
   created : Nat \cup {NoTime}]
JobType ==
  [op : {"none", "delete", "collect", "timeout"},
   pc : {"idle", "rows", "outputs", "pending", "enqueued"},
   cutoff : Nat \cup {NoTime}, ids : SUBSET Ids]

Types ==
  /\ row \in [Ids -> RowType]
  /\ running \in SUBSET Ids
  /\ outputs \in [Ids -> Nat \cup {NoTime}]
  /\ committed \in SUBSET Ids
  /\ deleted \in SUBSET Ids
  /\ job \in [Managers -> JobType]
  /\ clock \in Nat

(* A row is as old as its workflow, and the workflow older than its        *)
(* transactions.                                                           *)
RowsDated ==
  \A i \in Ids : Exists(i) => row[i].created \in Nat /\ row[i].created <= clock
OutputsDated ==
  \A i \in Ids : outputs[i] # NoTime =>
    i \in committed /\ (Exists(i) => row[i].created <= outputs[i])

(* What OutputsKept says of active workflows holds of all that exist: any  *)
(* of them but the completed may be resumed.                               *)
AllOutputsKept ==
  \A i \in Ids : Exists(i) /\ i \in committed \ deleted => outputs[i] # NoTime

(* A collection's cutoff is past, and between its two transactions it      *)
(* knows all older workflows that are left; a delete removes only what it  *)
(* was asked for.                                                          *)
JobsSound ==
  \A m \in Managers :
    /\ job[m].op = "collect" => job[m].cutoff \in Nat /\ job[m].cutoff <= clock
    /\ job[m].op = "delete" => job[m].ids \subseteq deleted
CollectionsKnow ==
  \A m \in Managers : At(m, "collect", "outputs") =>
    \A i \in Ids : Exists(i) /\ row[i].created < job[m].cutoff => i \in job[m].ids

IInv ==
  /\ Types /\ RowsDated /\ OutputsDated /\ AllOutputsKept
  /\ JobsSound /\ CollectionsKnow

-----------------------------------------------------------------------------
(* A step that changes rows and nothing of the outputs: it keeps the dates *)
(* of the rows there are, and what it adds has not committed anything.     *)
LEMMA RowsStep ==
  ASSUME IInv,
         row' \in [Ids -> RowType], running' \in SUBSET Ids,
         UNCHANGED <<outputs, committed, deleted, job, clock>>,
         \A i \in Ids : row'[i].status # "ABSENT" =>
           \/ Exists(i) /\ row'[i].created = row[i].created
           \/ i \notin committed /\ row'[i].created = clock
  PROVE  IInv'
<1>1. Types'
  BY DEF IInv, Types
<1>2. RowsDated'
  BY DEF IInv, Types, RowsDated, Exists
<1>3. OutputsDated'
  BY DEF IInv, Types, RowsDated, OutputsDated, Exists
<1>4. AllOutputsKept'
  BY DEF IInv, Types, AllOutputsKept, Exists
<1>5. JobsSound'
  BY DEF IInv, Types, JobsSound
<1>6. CollectionsKnow'
  BY DEF IInv, Types, JobsSound, CollectionsKnow, At, Exists
<1>7. QED
  BY <1>1, <1>2, <1>3, <1>4, <1>5, <1>6 DEF IInv

LEMMA NewRowType ==
  ASSUME clock \in Nat, NEW status \in Statuses, NEW dedup \in BOOLEAN,
         NEW queue \in {"none", "app", "internal"}
  PROVE  /\ NewRow(status, queue, dedup) \in RowType
         /\ NewRow(status, queue, dedup).created = clock
BY DEF NewRow, RowType

LEMMA CancelledType ==
  ASSUME Types, NEW i \in Ids
  PROVE  /\ Cancelled(i) \in RowType
         /\ Cancelled(i).created = row[i].created
         /\ Cancelled(i).status = "ABSENT" <=> row[i].status = "ABSENT"
         /\ Cancelled(i).dedup => row[i].dedup /\ Cancelled(i) = row[i]
BY ZenonT(40) DEF Types, RowType, Statuses, Cancelled, Exists

LEMMA AbsentType == Absent \in RowType
BY DEF Absent, RowType, Statuses

-----------------------------------------------------------------------------
LEMMA WorkflowStep ==
  ASSUME IInv, NEW i \in Ids, Workflow(i)
  PROVE  IInv'
<1> USE DEF IInv, Types
<1>1. CASE Enqueue(i)
  <2> DEFINE dedup == i \in Deduped
  <2>1. row' = [row EXCEPT ![i] = NewRow("ENQUEUED", "app", dedup)]
    BY <1>1 DEF Enqueue
  <2>2. dedup \in BOOLEAN
    OBVIOUS
  <2> HIDE DEF dedup
  <2>3. /\ NewRow("ENQUEUED", "app", dedup) \in RowType
        /\ NewRow("ENQUEUED", "app", dedup).created = clock
    BY <2>2, NewRowType DEF Statuses
  <2>4. QED BY <1>1, <2>1, <2>3, RowsStep DEF Enqueue, Fresh, Exists, others
<1>2. CASE Dequeue(i)
  BY <1>2, RowsStep DEF Dequeue, Exists, RowType, Statuses
<1>3. CASE CommitTransaction(i)
  <2>1. Types'
    BY <1>3 DEF CommitTransaction
  <2>2. RowsDated' /\ JobsSound' /\ CollectionsKnow'
    BY <1>3 DEF CommitTransaction, RowsDated, JobsSound, CollectionsKnow, Exists, At
  <2>3. OutputsDated' /\ AllOutputsKept'
    BY <1>3, ManagementAssumption
    DEF CommitTransaction, RowsDated, OutputsDated, AllOutputsKept, Exists
  <2>4. QED BY <2>1, <2>2, <2>3
<1>4. CASE Finish(i)
  BY <1>4, RowsStep, ZenonT(40) DEF Finish, Exists, RowType, Statuses
<1>5. CASE GiveUp(i)
  BY <1>5, RowsStep DEF GiveUp, Exists, RowType, Statuses, others
<1>6. CASE Stop(i)
  BY <1>6, RowsStep DEF Stop, Exists
<1>7. CASE Recover(i)
  BY <1>7, RowsStep DEF Recover, Exists
<1>8. ASSUME NEW c \in Ids, StartChild(i, c)
      PROVE  IInv'
  <2>1. NewRow("PENDING", "none", FALSE) \in RowType
    BY NewRowType DEF Statuses
  <2>2. NewRow("PENDING", "none", FALSE).created = clock
    BY DEF NewRow
  <2>3. QED BY <1>8, <2>1, <2>2, RowsStep DEF StartChild, Fresh, Exists
<1>9. ASSUME NEW c \in Ids, RecordChild(i, c)
      PROVE  IInv'
  BY <1>9, RowsStep DEF RecordChild, Exists
<1>10. QED
  BY <1>1, <1>2, <1>3, <1>4, <1>5, <1>6, <1>7, <1>8, <1>9 DEF Workflow

LEMMA ClientStep ==
  ASSUME IInv, NEW i \in Ids, Client(i)
  PROVE  IInv'
<1> USE DEF IInv, Types
<1>1. CASE Cancel(i)
  <2>1. Cancelled(i) \in RowType /\ Cancelled(i).created = row[i].created
    BY CancelledType
  <2>2. QED BY <1>1, <2>1, RowsStep DEF Cancel, Exists, others
<1>2. CASE Resume(i)
  BY <1>2, RowsStep, ZenonT(40) DEF Resume, Exists, RowType, Statuses, others
<1>3. ASSUME NEW new \in Ids, Restart(i, new)
      PROVE  IInv'
  <2>1. /\ NewRow("ENQUEUED", "internal", FALSE) \in RowType
        /\ NewRow("ENQUEUED", "internal", FALSE).created = clock
    BY NewRowType DEF Statuses
  <2>2. QED BY <1>3, <2>1, RowsStep DEF Restart, Fresh, Exists, others
<1>4. ASSUME NEW m \in Managers, NEW children \in BOOLEAN, BeginDelete(m, i, children)
      PROVE  IInv'
  <2> DEFINE ids == {i} \cup (IF children THEN Descendants(i) ELSE {})
  <2>1. ids \in SUBSET Ids
    BY DEF Descendants
  <2>2. /\ job' = [job EXCEPT ![m] =
                    [op |-> "delete", pc |-> "rows", cutoff |-> NoTime, ids |-> ids]]
        /\ deleted' = deleted \cup ids
        /\ UNCHANGED <<row, links, starting, running, outputs, committed, clock>>
    BY <1>4 DEF BeginDelete, Begin
  <2> HIDE DEF ids
  <2>3. Types'
    BY <2>1, <2>2 DEF JobType
  <2>4. RowsDated' /\ OutputsDated' /\ AllOutputsKept'
    BY <2>2 DEF RowsDated, OutputsDated, AllOutputsKept, Exists
  <2>5. JobsSound'
    BY <2>1, <2>2 DEF JobsSound, JobType
  <2>6. CollectionsKnow'
    BY <2>2 DEF CollectionsKnow, At, Exists, JobType
  <2>7. QED BY <2>3, <2>4, <2>5, <2>6
<1>5. QED
  BY <1>1, <1>2, <1>3, <1>4 DEF Client

-----------------------------------------------------------------------------
LEMMA AdminStep ==
  ASSUME IInv, NEW m \in Managers, Admin(m)
  PROVE  IInv'
<1> USE DEF IInv, Types
<1>1. ASSUME NEW given \in {NoTime} \cup 0..clock, FindCutoff(m, given)
      PROVE  IInv'
  <2>1. PICK t \in RowCutoff \cup (IF given = NoTime THEN {} ELSE {given}) :
          Begin(m, "collect", "rows", t, {})
    BY <1>1 DEF FindCutoff
  <2>2. t \in Nat /\ t <= clock
    BY DEF RowCutoff, RowsDated
  <2>3. /\ job' = [job EXCEPT ![m] =
                    [op |-> "collect", pc |-> "rows", cutoff |-> t, ids |-> {}]]
        /\ UNCHANGED <<row, running, outputs, committed, deleted, clock>>
    BY <1>1, <2>1 DEF FindCutoff, Begin
  <2>4. Types'
    BY <2>2, <2>3 DEF JobType
  <2>5. RowsDated' /\ OutputsDated' /\ AllOutputsKept'
    BY <2>3 DEF RowsDated, OutputsDated, AllOutputsKept, Exists
  <2>6. JobsSound' /\ CollectionsKnow'
    BY <2>2, <2>3 DEF JobsSound, CollectionsKnow, At, Exists, JobType
  <2>7. QED BY <2>4, <2>5, <2>6
<1>2. ASSUME NEW cutoff \in 0..clock, BeginTimeout(m, cutoff)
      PROVE  IInv'
  <2> DEFINE ids == Listed(cutoff, "PENDING")
  <2>1. ids \in SUBSET Ids
    BY DEF Listed, Before
  <2>2. /\ job' = [job EXCEPT ![m] =
                    [op |-> "timeout", pc |-> "pending", cutoff |-> cutoff, ids |-> ids]]
        /\ UNCHANGED <<row, running, outputs, committed, deleted, clock>>
    BY <1>2 DEF BeginTimeout, Begin
  <2> HIDE DEF ids
  <2>3. Types'
    BY <2>1, <2>2 DEF JobType
  <2>4. RowsDated' /\ OutputsDated' /\ AllOutputsKept'
    BY <2>2 DEF RowsDated, OutputsDated, AllOutputsKept, Exists
  <2>5. JobsSound' /\ CollectionsKnow'
    BY <2>2 DEF JobsSound, CollectionsKnow, At, Exists, JobType
  <2>6. QED BY <2>3, <2>4, <2>5
<1>3. QED
  BY <1>1, <1>2 DEF Admin

(* The two transactions of a collection: the first leaves no older row but *)
(* those it remembers, and the second removes no output of a row that is   *)
(* remembered or of one that is not older than the cutoff.                 *)
LEMMA CollectStep ==
  ASSUME IInv, NEW m \in Managers, CollectRows(m) \/ CollectOutputs(m)
  PROVE  IInv'
<1> USE DEF IInv, Types
<1>1. CASE CollectRows(m)
  <2> DEFINE cutoff == job[m].cutoff
             gone == {i \in Before(cutoff) : ~Active(i)}
             left == Remaining(cutoff)
  <2>1. /\ row' = [i \in Ids |-> IF i \in gone THEN Absent ELSE row[i]]
        /\ job' = [job EXCEPT ![m].pc = "outputs", ![m].ids = left]
        /\ UNCHANGED <<running, outputs, committed, deleted, clock>>
        /\ At(m, "collect", "rows")
    BY <1>1 DEF CollectRows, RemoveRows
  <2>2. left \in SUBSET Ids
    BY DEF Remaining, Before
  <2>3. \A i \in Ids : i \notin gone /\ Exists(i) /\ row[i].created < cutoff => i \in left
    BY DEF Remaining, Before
  <2> HIDE DEF gone, left
  <2>4. Types'
    BY <2>1, <2>2, AbsentType, ZenonT(40) DEF JobType
  <2>5. \A i \in Ids : Exists(i)' => Exists(i) /\ row'[i] = row[i]
    BY <2>1 DEF Exists, Absent
  <2>6. RowsDated' /\ OutputsDated' /\ AllOutputsKept'
    BY <2>1, <2>5 DEF RowsDated, OutputsDated, AllOutputsKept
  <2>7. JobsSound'
    BY <2>1, <2>2 DEF JobsSound, At, JobType
  <2>8. CollectionsKnow'
    <3> SUFFICES ASSUME NEW n \in Managers, At(n, "collect", "outputs")', NEW i \in Ids,
                        Exists(i)', row'[i].created < job'[n].cutoff
                 PROVE  i \in job'[n].ids
      BY DEF CollectionsKnow
    <3>1. Exists(i) /\ row'[i] = row[i]
      BY <2>5
    <3>2. CASE n = m
      <4>1. job'[n].ids = left /\ job'[n].cutoff = cutoff
        BY <2>1, <3>2 DEF JobType
      <4>2. i \notin gone
        BY <2>1, <3>1 DEF Exists, Absent
      <4>3. QED BY <2>3, <3>1, <4>1, <4>2
    <3>3. CASE n # m
      BY <2>1, <3>1, <3>3 DEF CollectionsKnow, At
    <3>4. QED BY <3>2, <3>3
  <2>9. QED BY <2>4, <2>6, <2>7, <2>8
<1>2. CASE CollectOutputs(m)
  <2> DEFINE gone == {i \in Ids \ job[m].ids :
                        outputs[i] # NoTime /\ outputs[i] < job[m].cutoff}
  <2>1. /\ outputs' = [i \in Ids |-> IF i \in gone THEN NoTime ELSE outputs[i]]
        /\ job' = [job EXCEPT ![m] = IdleJob]
        /\ UNCHANGED <<row, running, committed, deleted, clock>>
        /\ At(m, "collect", "outputs")
    BY <1>2 DEF CollectOutputs, RemoveOutputs
  <2>2. \A i \in Ids : i \in gone => ~Exists(i)
    <3> SUFFICES ASSUME NEW i \in Ids, i \in gone, Exists(i)
                 PROVE  FALSE
      OBVIOUS
    <3>1. i \notin job[m].ids /\ outputs[i] # NoTime /\ outputs[i] < job[m].cutoff
      OBVIOUS
    <3>2. job[m].cutoff \in Nat /\ outputs[i] \in Nat
      BY <2>1, <3>1 DEF JobsSound, At
    <3>3. row[i].created \in Nat /\ row[i].created <= outputs[i]
      BY <3>1 DEF RowsDated, OutputsDated
    <3>4. row[i].created < job[m].cutoff
      BY <3>1, <3>2, <3>3
    <3>5. QED BY <2>1, <3>1, <3>4 DEF CollectionsKnow
  <2> HIDE DEF gone
  <2>3. Types'
    BY <2>1 DEF JobType, IdleJob
  <2>4. RowsDated' /\ OutputsDated'
    BY <2>1 DEF RowsDated, OutputsDated, Exists
  <2>5. AllOutputsKept'
    BY <2>1, <2>2 DEF AllOutputsKept, Exists
  <2>6. JobsSound' /\ CollectionsKnow'
    BY <2>1 DEF JobsSound, CollectionsKnow, At, Exists, IdleJob
  <2>7. QED BY <2>3, <2>4, <2>5, <2>6
<1>3. QED BY <1>1, <1>2

LEMMA DeleteStep ==
  ASSUME IInv, NEW m \in Managers, DeleteRows(m) \/ DeleteOutputs(m)
  PROVE  IInv'
<1> USE DEF IInv, Types
<1> DEFINE gone == job[m].ids
<1>0. At(m, "delete", "rows") \/ At(m, "delete", "outputs")
  BY DEF DeleteRows, DeleteOutputs
<1>1. gone \subseteq deleted
  BY <1>0 DEF JobsSound, At
<1>2. CASE DeleteRows(m)
  <2>1. /\ row' = [i \in Ids |-> IF i \in gone THEN Absent ELSE row[i]]
        /\ job' = [job EXCEPT ![m].pc = "outputs"]
        /\ UNCHANGED <<running, outputs, committed, deleted, clock>>
        /\ At(m, "delete", "rows")
    BY <1>2 DEF DeleteRows, RemoveRows
  <2> HIDE DEF gone
  <2>2. Types'
    BY <2>1, AbsentType DEF JobType
  <2>3. \A i \in Ids : Exists(i)' => Exists(i) /\ row'[i] = row[i]
    BY <2>1 DEF Exists, Absent
  <2>4. RowsDated' /\ OutputsDated' /\ AllOutputsKept'
    BY <2>1, <2>3 DEF RowsDated, OutputsDated, AllOutputsKept
  <2>5. \A n \in Managers : /\ job'[n].op = job[n].op
                            /\ job'[n].ids = job[n].ids
                            /\ job'[n].cutoff = job[n].cutoff
                            /\ At(n, "collect", "outputs")' => At(n, "collect", "outputs")
    BY <2>1 DEF JobType, At
  <2>6. JobsSound'
    BY <2>1, <2>5 DEF JobsSound
  <2>7. CollectionsKnow'
    BY <2>3, <2>5 DEF CollectionsKnow
  <2>8. QED BY <2>2, <2>4, <2>6, <2>7
<1>3. CASE DeleteOutputs(m)
  <2>1. /\ outputs' = [i \in Ids |-> IF i \in gone THEN NoTime ELSE outputs[i]]
        /\ job' = [job EXCEPT ![m] = IdleJob]
        /\ UNCHANGED <<row, running, committed, deleted, clock>>
    BY <1>3 DEF DeleteOutputs, RemoveOutputs
  <2> HIDE DEF gone
  <2>2. Types'
    BY <2>1 DEF JobType, IdleJob
  <2>3. RowsDated' /\ OutputsDated'
    BY <2>1 DEF RowsDated, OutputsDated, Exists
  <2>4. AllOutputsKept'
    BY <1>1, <2>1 DEF AllOutputsKept, Exists
  <2>5. JobsSound' /\ CollectionsKnow'
    BY <2>1 DEF JobsSound, CollectionsKnow, At, Exists, IdleJob
  <2>6. QED BY <2>2, <2>3, <2>4, <2>5
<1>4. QED BY <1>2, <1>3

(* A step that changes only the job of one thread, to one that neither     *)
(* collects nor deletes.                                                   *)
LEMMA JobStep ==
  ASSUME IInv, NEW m \in Managers, NEW new \in JobType,
         new.op \in {"none", "timeout"},
         job' = [job EXCEPT ![m] = new],
         UNCHANGED <<row, running, outputs, committed, deleted, clock>>
  PROVE  IInv'
<1>1. Types' /\ RowsDated' /\ OutputsDated' /\ AllOutputsKept'
  BY DEF IInv, Types, RowsDated, OutputsDated, AllOutputsKept, Exists
<1>2. JobsSound' /\ CollectionsKnow'
  BY DEF IInv, Types, JobsSound, CollectionsKnow, At, Exists
<1>3. QED BY <1>1, <1>2 DEF IInv

LEMMA IdleType == IdleJob \in JobType /\ IdleJob.op = "none"
BY DEF IdleJob, JobType

LEMMA TimeoutStep ==
  ASSUME IInv, NEW m \in Managers,
         ListNext(m) \/ \E i \in Ids : CancelListed(m, i)
  PROVE  IInv'
<1> USE DEF IInv, Types
<1>1. CASE ListNext(m)
  <2>1. CASE job[m].pc = "pending"
    <3> DEFINE ids == Listed(job[m].cutoff, "ENQUEUED")
               new == [job[m] EXCEPT !.pc = "enqueued", !.ids = ids]
    <3>1. ids \in SUBSET Ids
      BY DEF Listed, Before
    <3>2. job' = [job EXCEPT ![m] = new]
      BY <1>1, <2>1 DEF ListNext
    <3> HIDE DEF ids
    <3>3. new \in JobType /\ new.op = "timeout"
      BY <1>1, <3>1 DEF JobType, ListNext
    <3> HIDE DEF new
    <3>4. QED BY <1>1, <3>2, <3>3, JobStep DEF ListNext
  <2>2. CASE job[m].pc # "pending"
    <3>1. job' = [job EXCEPT ![m] = IdleJob]
      BY <1>1, <2>2 DEF ListNext
    <3>2. QED BY <1>1, <3>1, IdleType, JobStep DEF ListNext
  <2>3. QED BY <2>1, <2>2
<1>2. ASSUME NEW i \in Ids, CancelListed(m, i)
      PROVE  IInv'
  <2>1. /\ row' = [row EXCEPT ![i] = Cancelled(i)]
        /\ job' = [job EXCEPT ![m].ids = job[m].ids \ {i}]
        /\ UNCHANGED <<running, outputs, committed, deleted, clock>>
        /\ job[m].op = "timeout"
    BY <1>2 DEF CancelListed
  <2>2. /\ Cancelled(i) \in RowType
        /\ Cancelled(i).created = row[i].created
        /\ Cancelled(i).status = "ABSENT" <=> row[i].status = "ABSENT"
    BY CancelledType
  <2>3. Types'
    BY <2>1, <2>2 DEF JobType
  <2>4. \A j \in Ids : Exists(j)' => Exists(j) /\ row'[j].created = row[j].created
    BY <2>1, <2>2 DEF Exists
  <2>5. RowsDated' /\ OutputsDated' /\ AllOutputsKept'
    BY <2>1, <2>4 DEF RowsDated, OutputsDated, AllOutputsKept
  <2>6. \A n \in Managers : /\ job'[n].op = job[n].op
                            /\ n # m => job'[n] = job[n]
    BY <2>1 DEF JobType
  <2>7. JobsSound'
    BY <2>1, <2>6 DEF JobsSound
  <2>8. CollectionsKnow'
    BY <2>1, <2>4, <2>6 DEF CollectionsKnow, At
  <2>9. QED BY <2>3, <2>5, <2>7, <2>8
<1>3. QED BY <1>1, <1>2

LEMMA TickStep ==
  ASSUME IInv, Tick
  PROVE  IInv'
<1> USE DEF IInv, Types
<1>1. Types' /\ OutputsDated' /\ AllOutputsKept' /\ CollectionsKnow'
  BY DEF Tick, OutputsDated, AllOutputsKept, CollectionsKnow, At, Exists
<1>2. RowsDated' /\ JobsSound'
  BY DEF Tick, RowsDated, JobsSound, Exists
<1>3. QED BY <1>1, <1>2

-----------------------------------------------------------------------------
LEMMA InitOK == Init => IInv
<1> SUFFICES ASSUME Init PROVE IInv
  OBVIOUS
<1>1. Types
  BY AbsentType, IdleType DEF Init, Types
<1>2. RowsDated /\ OutputsDated /\ AllOutputsKept
  BY DEF Init, RowsDated, OutputsDated, AllOutputsKept, Exists, Absent
<1>3. JobsSound /\ CollectionsKnow
  BY DEF Init, JobsSound, CollectionsKnow, At, Exists, Absent, IdleJob
<1>4. QED BY <1>1, <1>2, <1>3 DEF IInv

LEMMA NextOK ==
  ASSUME IInv, [Next]_managementVars
  PROVE  IInv'
<1>1. CASE \E i \in Ids : Workflow(i) \/ Client(i)
  BY <1>1, WorkflowStep, ClientStep
<1>2. ASSUME NEW m \in Managers, Admin(m)
      PROVE  IInv'
  BY <1>2, AdminStep
<1>3. ASSUME NEW m \in Managers, Proceed(m)
      PROVE  IInv'
  BY <1>3, DeleteStep, CollectStep, TimeoutStep DEF Proceed
<1>4. ASSUME NEW m \in Managers, Crash(m)
      PROVE  IInv'
  BY <1>4, IdleType, JobStep DEF Crash
<1>5. CASE UNCHANGED managementVars
  BY <1>5, RowsStep DEF managementVars, IInv, Types, Exists
<1>6. QED
  BY <1>1, <1>2, <1>3, <1>4, <1>5, TickStep DEF Next

THEOREM Invariance == Spec => []IInv
<1>1. IInv /\ [Next]_managementVars => IInv'
  BY NextOK
<1>2. QED BY InitOK, <1>1, PTL DEF Spec

(* Whatever is deleted, collected, cancelled, resumed and restarted at     *)
(* whatever time, a workflow that is still to run finds the outputs of its *)
(* transactions (garbage_collect in both databases).                       *)
THEOREM OutputsKeptCorrect == Spec => []OutputsKept
<1>1. IInv => OutputsKept
  BY DEF IInv, AllOutputsKept, OutputsKept, Active, Exists
<1>2. QED BY <1>1, Invariance, PTL

-----------------------------------------------------------------------------
(* A row that holds the deduplication ID after a step either is unchanged  *)
(* or is one that waits for its execution or has begun it.                 *)
LEMMA DedupStep ==
  ASSUME IInv, IInv', DedupHeldByActive,
         \A i \in Ids : row'[i].dedup =>
           row'[i] = row[i] \/ row'[i].status \in {"ENQUEUED", "PENDING"}
  PROVE  DedupHeldByActive'
BY DEF DedupHeldByActive, Active

LEMMA DedupNext ==
  ASSUME IInv, IInv', DedupHeldByActive, [Next]_managementVars
  PROVE  DedupHeldByActive'
<1> USE DEF IInv, Types, RowType
<1>1. ASSUME NEW i \in Ids, Workflow(i)
      PROVE  DedupHeldByActive'
  <2>1. CASE Enqueue(i)
    <3>1. row' = [row EXCEPT ![i] = NewRow("ENQUEUED", "app", i \in Deduped)]
      BY <2>1 DEF Enqueue
    <3>2. \A j \in Ids : row'[j] = row[j] \/ row'[j].status = "ENQUEUED"
      BY <3>1 DEF NewRow
    <3>3. QED BY <3>2, DedupStep
  <2>2. ASSUME NEW c \in Ids, StartChild(i, c)
        PROVE  DedupHeldByActive'
    BY <2>2, DedupStep DEF StartChild, NewRow
  <2>3. CASE Dequeue(i) \/ Finish(i) \/ GiveUp(i)
    <3>1. CASE Dequeue(i)
      BY <3>1, DedupStep DEF Dequeue
    <3>2. CASE Finish(i)
      BY <3>2, DedupStep DEF Finish
    <3>3. CASE GiveUp(i)
      BY <3>3, DedupStep DEF GiveUp
    <3>4. QED BY <2>3, <3>1, <3>2, <3>3
  <2>4. CASE CommitTransaction(i) \/ Stop(i) \/ Recover(i) \/ \E c \in Ids : RecordChild(i, c)
    <3>1. row' = row
      BY <2>4 DEF CommitTransaction, Stop, Recover, RecordChild
    <3>2. QED BY <3>1, DedupStep
  <2>5. QED BY <1>1, <2>1, <2>2, <2>3, <2>4 DEF Workflow
<1>2. ASSUME NEW i \in Ids, Client(i)
      PROVE  DedupHeldByActive'
  <2>1. CASE Cancel(i)
    <3>1. row' = [row EXCEPT ![i] = Cancelled(i)]
      BY <2>1 DEF Cancel
    <3>2. QED BY <3>1, CancelledType, DedupStep
  <2>2. CASE Resume(i)
    BY <2>2, DedupStep DEF Resume
  <2>3. ASSUME NEW new \in Ids, Restart(i, new)
        PROVE  DedupHeldByActive'
    BY <2>3, DedupStep DEF Restart, NewRow
  <2>4. ASSUME NEW m \in Managers, NEW children \in BOOLEAN, BeginDelete(m, i, children)
        PROVE  DedupHeldByActive'
    BY <2>4, DedupStep DEF BeginDelete
  <2>5. QED BY <1>2, <2>1, <2>2, <2>3, <2>4 DEF Client
<1>3. ASSUME NEW m \in Managers, Proceed(m)
      PROVE  DedupHeldByActive'
  <2>1. CASE DeleteRows(m) \/ CollectRows(m)
    <3>1. \A i \in Ids : row'[i] = row[i] \/ row'[i] = Absent
      BY <2>1 DEF DeleteRows, CollectRows, RemoveRows
    <3>2. QED BY <3>1, DedupStep DEF Absent
  <2>2. ASSUME NEW i \in Ids, CancelListed(m, i)
        PROVE  DedupHeldByActive'
    <3>1. row' = [row EXCEPT ![i] = Cancelled(i)]
      BY <2>2 DEF CancelListed
    <3>2. QED BY <3>1, CancelledType, DedupStep
  <2>3. CASE DeleteOutputs(m) \/ CollectOutputs(m) \/ ListNext(m)
    <3>1. row' = row
      BY <2>3 DEF DeleteOutputs, CollectOutputs, ListNext
    <3>2. QED BY <3>1, DedupStep
  <2>4. QED BY <1>3, <2>1, <2>2, <2>3 DEF Proceed
<1>4. ASSUME NEW m \in Managers, Admin(m) \/ Crash(m)
      PROVE  DedupHeldByActive'
  <2>1. row' = row
    BY <1>4 DEF Admin, FindCutoff, BeginTimeout, Crash
  <2>2. QED BY <2>1, DedupStep
<1>5. CASE Tick \/ UNCHANGED managementVars
  <2>1. row' = row
    BY <1>5 DEF Tick, managementVars
  <2>2. QED BY <2>1, DedupStep
<1>6. QED
  BY <1>1, <1>2, <1>3, <1>4, <1>5 DEF Next

(* A deduplication ID is given up by every transition that ends a          *)
(* workflow (update_workflow_outcome, cancel_workflow, the recovery        *)
(* limit) and is never left with one that is over.                         *)
THEOREM DedupCorrect == Spec => []DedupHeldByActive
<1>1. Init => DedupHeldByActive
  BY DEF Init, DedupHeldByActive, Absent
<1>2. IInv /\ IInv' /\ DedupHeldByActive /\ [Next]_managementVars => DedupHeldByActive'
  BY DedupNext
<1>3. QED BY Invariance, <1>1, <1>2, PTL DEF Spec

-----------------------------------------------------------------------------
(* Least and greatest elements of sets of numbers.  The induction they     *)
(* rest on is that "less than" is well-founded on the naturals.            *)
LEMMA LeastExists ==
  ASSUME NEW S \in SUBSET Nat, S # {}
  PROVE  \E x \in S : \A y \in S : x <= y
<1> DEFINE R == OpToRel(<, Nat)
<1>1. ASSUME NEW x \in Nat, NEW y \in Nat, y < x PROVE <<y, x>> \in R
  BY <1>1 DEF OpToRel
<1> HIDE DEF R
<1>2. IsWellFoundedOn(R, Nat)
  BY NatLessThanWellFounded, Zenon DEF R
<1>3. PICK x \in S : \A y \in S : ~ (<<y, x>> \in R)
  BY <1>2, WFMin
<1>4. ASSUME NEW y \in S PROVE x <= y
  <2>1. x \in Nat /\ y \in Nat
    OBVIOUS
  <2>2. ~(y < x)
    BY <1>1, <1>3, <2>1
  <2>3. QED BY <2>1, <2>2
<1>5. QED BY <1>4

LEMMA MinIsLeast ==
  ASSUME NEW S \in SUBSET Nat, S # {}
  PROVE  Min(S) \in S /\ \A y \in S : Min(S) <= y
BY LeastExists DEF Min

LEMMA MaxIsGreatest ==
  ASSUME NEW S \in SUBSET Nat, S # {}, NEW b \in Nat, \A y \in S : y <= b
  PROVE  Max(S) \in S /\ \A y \in S : Max(S) >= y
<1> DEFINE D == {b - y : y \in S}
<1>1. D \in SUBSET Nat
  <2> SUFFICES ASSUME NEW y \in S PROVE b - y \in Nat
    OBVIOUS
  <2>1. y \in Nat /\ y <= b
    OBVIOUS
  <2>2. QED BY <2>1
<1> HIDE DEF D
<1>2. PICK d \in D : \A e \in D : d <= e
  <2>1. D # {}
    BY DEF D
  <2>2. QED BY <1>1, <2>1, LeastExists
<1>3. PICK x \in S : d = b - x
  BY DEF D
<1>4. \A y \in S : x >= y
  <2> TAKE y \in S
  <2>1. b - y \in D
    BY DEF D
  <2>2. QED BY <1>2, <1>3, <2>1
<1>5. QED BY <1>4 DEF Max

-----------------------------------------------------------------------------
(* Copies of a workflow.                                                   *)
TableRows ==
  [status : {"ABSENT", "ENQUEUED", "PENDING", "SUCCESS"}, log : SUBSET Steps,
   history : SUBSET Steps, event : Nat, stream : SUBSET [step : Steps, offset : Nat]]

Typed(w) ==
  w \in TableRows /\ \E b \in Nat : \A r \in w.stream : r.offset <= b

CopyPoints == {"idle", "status", "log", "history", "event", "stream", "commit", "import"}
Copying == [op : {"none", "fork", "export"}, pc : CopyPoints, rows : TableRows]

CopyTypes ==
  /\ Typed(original) /\ Typed(fork) /\ Typed(import) /\ Typed(copying.rows)
  /\ copying \in Copying
  /\ start \in Nat /\ covered \in BOOLEAN /\ ran \in SUBSET Steps

(* The operations of a workflow are recorded in their order.               *)
LogPrefix(w) == \A f \in w.log, g \in Steps : g < f => g \in w.log
OffsetsSmall(w) == \A r \in w.stream : r.offset < r.step
Whole(w) == LogPrefix(w) /\ Consistent(w) /\ OffsetsSmall(w)

OriginalWhole ==
  Whole(original) /\ (original.status = "SUCCESS" => original.log = Steps)

(* A fork that is being copied has read of each table what belongs to the  *)
(* checkpoints below start_step, all of which the original had recorded    *)
(* before, and keeps.                                                      *)
Forking == copying.op = "fork" /\ copying.pc # "idle"
EventsBelow == {f \in Below(start) : CopiedProgram[f] = "event"}
BelowRead ==
  Forking /\ covered =>
    /\ Below(start) \subseteq original.log
    /\ copying.pc \in {"history", "event", "stream", "commit"} =>
         copying.rows.log = Below(start)
    /\ copying.pc \in {"event", "stream", "commit"} => copying.rows.history = EventsBelow
    /\ copying.pc \in {"stream", "commit"} => copying.rows.event = Max({0} \cup EventsBelow)
    /\ copying.pc = "commit" => StreamExact(copying.rows) /\ OffsetsSmall(copying.rows)
ForkOnce ==
  /\ Forking => start # 0
  /\ Forking \/ start = 0 => fork.status = "ABSENT" /\ ran = {}
ForkWhole ==
  fork.status # "ABSENT" /\ covered =>
    /\ Whole(fork) /\ Below(start) \subseteq fork.log
    /\ ran = {f \in fork.log : f >= start}

(* An export that has read the status of a completed workflow reads tables *)
(* that do not change any more.                                            *)
ExportRead ==
  copying.op = "export" /\ copying.pc # "idle" =>
    /\ copying.pc = "status" => copying.rows.status = "ABSENT"
    /\ copying.rows.status = "SUCCESS" =>
         /\ original.status = "SUCCESS"
         /\ copying.pc \in {"event", "history", "stream", "import"} =>
              copying.rows.log = original.log
         /\ copying.pc \in {"history", "stream", "import"} =>
              copying.rows.event = original.event
         /\ copying.pc \in {"stream", "import"} =>
              copying.rows.history = original.history
         /\ copying.pc = "import" => copying.rows.stream = original.stream
ImportSame ==
  import.status = "SUCCESS" => original.status = "SUCCESS" /\ import = original

CopyInv ==
  /\ CopyTypes /\ OriginalWhole
  /\ BelowRead /\ ForkOnce /\ ForkWhole
  /\ ExportRead /\ ImportSame

-----------------------------------------------------------------------------
(* The steps are the numbers from 1 on, up to the program's length.        *)
LEMMA StepsBounded ==
  /\ Len(CopiedProgram) \in Nat /\ Steps = 1..Len(CopiedProgram)
  /\ \A f \in Steps : CopiedProgram[f] \in {"event", "stream", "step"}
BY CopiedProgramAssumption DEF Steps

LEMMA LatestIsGreatest ==
  ASSUME NEW E \in SUBSET Steps
  PROVE  /\ Max({0} \cup E) \in Nat /\ Max({0} \cup E) \in {0} \cup E
         /\ \A f \in E : Max({0} \cup E) >= f
<1> DEFINE S == {0} \cup E
<1>1. S \in SUBSET Nat /\ S # {} /\ \A y \in S : y <= Len(CopiedProgram)
  BY StepsBounded
<1> HIDE DEF S
<1>2. Max(S) \in S /\ \A y \in S : Max(S) >= y
  BY <1>1, StepsBounded, MaxIsGreatest
<1>3. QED BY <1>1, <1>2 DEF S

(* A larger event replaces the latest one.                                 *)
LEMMA LatestAdded ==
  ASSUME NEW E \in SUBSET Steps, NEW f \in Steps, \A g \in E : g < f
  PROVE  Max({0} \cup (E \cup {f})) = f
<1>1. E \cup {f} \in SUBSET Steps
  OBVIOUS
<1>2. DEFINE m == Max({0} \cup (E \cup {f}))
<1>3. m \in {0} \cup (E \cup {f}) /\ m >= f /\ m \in Nat
  BY <1>1, LatestIsGreatest
<1> HIDE DEF m
<1>4. m = f
  BY <1>3, StepsBounded
<1>5. QED BY <1>4 DEF m

LEMMA NextStepAfter ==
  ASSUME NEW w \in TableRows, LogPrefix(w), Steps \ w.log # {}
  PROVE  /\ NextStep(w) \in Steps \ w.log
         /\ \A g \in Steps : g < NextStep(w) <=> g \in w.log
<1> DEFINE f == NextStep(w)
<1>1. Steps \ w.log \in SUBSET Nat
  BY StepsBounded
<1>2. f \in Steps \ w.log /\ \A g \in Steps \ w.log : f <= g
  BY <1>1, MinIsLeast DEF NextStep
<1> HIDE DEF f
<1>3. \A g \in Steps : g < f <=> g \in w.log
  <2> TAKE g \in Steps
  <2>1. g < f => g \in w.log
    BY <1>2, StepsBounded
  <2>2. g \in w.log => g < f
    BY <1>2, StepsBounded DEF LogPrefix
  <2>3. QED BY <2>1, <2>2
<1>4. QED BY <1>2, <1>3 DEF f

LEMMA LatestOfNone == Max({0} \cup {}) = 0
<1>1. {0} \cup {} = {0} /\ {0} \in SUBSET Nat /\ {0} # {}
  OBVIOUS
<1>2. Max({0} \cup {}) \in {0} \cup {}
  BY LatestIsGreatest
<1>3. QED BY <1>1, <1>2

(* The next offset is after all offsets and leaves no gap.                 *)
LEMMA NextOffsetAfter ==
  ASSUME NEW w \in TableRows, Whole(w), NEW f \in Steps, \A g \in w.log : g < f
  PROVE  LET o == NextOffset(w.stream)
         IN /\ o \in Nat /\ o < f
            /\ \A r \in w.stream : r.offset < o
            /\ \A p \in 0..(o - 1) : \E q \in w.stream : q.offset = p
<1> DEFINE O == {r.offset : r \in w.stream}
           o == NextOffset(w.stream)
<1>1. w.stream \in SUBSET [step : Steps, offset : Nat] /\ f \in Nat \ {0}
  BY StepsBounded DEF TableRows
<1>2. \A r \in w.stream : r.step < f /\ r.offset < r.step
  BY DEF Whole, Consistent, StreamExact, Recorded, OffsetsSmall
<1>3. CASE w.stream = {}
  BY <1>1, <1>3 DEF NextOffset
<1>4. CASE w.stream # {}
  <2>1. O \in SUBSET Nat /\ O # {}
    BY <1>1, <1>4
  <2>2. ASSUME NEW y \in O PROVE y <= f
    BY <1>1, <1>2, StepsBounded
  <2> DEFINE m == Max(O)
  <2> HIDE DEF O
  <2>3. m \in O /\ \A y \in O : m >= y
    BY <1>1, <2>1, <2>2, MaxIsGreatest
  <2> HIDE DEF m
  <2> USE DEF O
  <2>4. PICK last \in w.stream : last.offset = m
    BY <2>3
  <2>5. o = m + 1
    BY <1>4 DEF NextOffset, m
  <2>6. m \in Nat /\ m + 1 <= last.step /\ last.step < f /\ last.step \in Nat
    BY <1>1, <1>2, <2>4, StepsBounded
  <2>7. ASSUME NEW r \in w.stream PROVE r.offset < m + 1
    BY <1>1, <2>3, <2>6
  <2>8. \A p \in 0..m : \E q \in w.stream : q.offset = p
    BY <2>4 DEF Whole, Consistent, StreamExact
  <2> HIDE DEF o
  <2>9. 0..(o - 1) = 0..m
    BY <2>5, <2>6
  <2>10. o \in Nat /\ o < f
    BY <1>1, <2>5, <2>6
  <2>11. QED BY <2>5, <2>7, <2>8, <2>9, <2>10 DEF o
<1>5. QED BY <1>3, <1>4

(* Executing the next operation leaves the tables whole.                   *)
LEMMA ExecutedWhole ==
  ASSUME NEW w \in TableRows, Whole(w), Steps \ w.log # {}
  PROVE  Whole(Executed(w))
<1> DEFINE f == NextStep(w)
           kind == CopiedProgram[f]
           added == [step |-> f, offset |-> NextOffset(w.stream)]
           e == Executed(w)
<1>1. f \in Steps \ w.log /\ \A g \in Steps : g < f <=> g \in w.log
  BY NextStepAfter DEF Whole
<1>2. \A g \in w.log : g < f
  BY <1>1 DEF TableRows
<1>3. added.offset \in Nat /\ added.offset < f
      /\ (\A r \in w.stream : r.offset < added.offset)
      /\ \A p \in 0..(added.offset - 1) : \E q \in w.stream : q.offset = p
  BY <1>1, <1>2, NextOffsetAfter
<1>4. /\ e.log = w.log \cup {f}
      /\ e.history = IF kind = "event" THEN w.history \cup {f} ELSE w.history
      /\ e.event = IF kind = "event" THEN f ELSE w.event
      /\ e.stream = IF kind = "stream" THEN w.stream \cup {added} ELSE w.stream
  BY DEF Executed, TableRows
<1>5. w.log \in SUBSET Steps /\ w.stream \in SUBSET [step : Steps, offset : Nat]
  BY DEF TableRows
<1> HIDE DEF f, e
<1>6. LogPrefix(e)
  BY <1>1, <1>4 DEF Whole, LogPrefix
<1>7. \A k : Recorded(e, k) = IF kind = k THEN Recorded(w, k) \cup {f} ELSE Recorded(w, k)
  BY <1>4 DEF Recorded
<1>8. e.history = Recorded(e, "event")
  BY <1>4, <1>7 DEF Whole, Consistent
<1>9. e.event = Max({0} \cup Recorded(e, "event"))
  <2>1. Recorded(w, "event") \in SUBSET Steps /\ \A g \in Recorded(w, "event") : g < f
    BY <1>2, <1>5 DEF Recorded
  <2>2. Max({0} \cup (Recorded(w, "event") \cup {f})) = f
    BY <1>1, <2>1, LatestAdded
  <2>3. QED BY <1>4, <1>7, <2>2 DEF Whole, Consistent
<1>10. CASE kind # "stream"
  <2>1. StreamExact(e) /\ OffsetsSmall(e)
    BY <1>4, <1>7, <1>10 DEF Whole, Consistent, StreamExact, OffsetsSmall
  <2>2. QED BY <1>6, <1>8, <1>9, <2>1 DEF Whole, Consistent, e
<1>11. CASE kind = "stream"
  <2>1. e.stream = w.stream \cup {added} /\ added.step = f
    BY <1>4, <1>11
  <2>2. \A r \in w.stream : r.step < f /\ r.step \in Nat /\ r.offset \in Nat
    BY <1>2, <1>5, StepsBounded DEF Whole, Consistent, StreamExact, Recorded
  <2>3. f \in Nat
    BY <1>1, StepsBounded
  <2> HIDE DEF added
  <2>4. {r.step : r \in e.stream} = Recorded(e, "stream")
    BY <1>7, <1>11, <2>1 DEF Whole, Consistent, StreamExact
  <2>5. ASSUME NEW r \in e.stream, NEW q \in e.stream
        PROVE  r.step < q.step <=> r.offset < q.offset
    <3>1. CASE r \in w.stream /\ q \in w.stream
      BY <3>1 DEF Whole, Consistent, StreamExact
    <3>2. CASE r \in w.stream /\ q = added
      BY <1>3, <2>1, <2>2, <2>3, <3>2
    <3>3. CASE r = added /\ q \in w.stream
      BY <1>3, <2>1, <2>2, <2>3, <3>3
    <3>4. CASE r = added /\ q = added
      BY <1>3, <2>1, <2>3, <3>4
    <3>5. QED BY <2>1, <3>1, <3>2, <3>3, <3>4
  <2>6. ASSUME NEW r \in e.stream, NEW o \in 0..r.offset
        PROVE  \E q \in e.stream : q.offset = o
    <3>1. CASE r \in w.stream
      BY <2>1, <3>1 DEF Whole, Consistent, StreamExact
    <3>2. CASE r = added
      <4>1. o = added.offset \/ o \in 0..(added.offset - 1)
        BY <1>3, <3>2
      <4>2. QED BY <1>3, <2>1, <4>1
    <3>3. QED BY <2>1, <3>1, <3>2
  <2>7. StreamExact(e)
    BY <2>4, <2>5, <2>6 DEF StreamExact
  <2>8. OffsetsSmall(e)
    BY <1>3, <2>1 DEF Whole, OffsetsSmall
  <2>9. QED BY <1>6, <1>8, <1>9, <2>7, <2>8 DEF Whole, Consistent, e
<1>12. QED BY <1>10, <1>11

(* Any tables stay well typed, also those of a fork that lacks operations. *)
LEMMA ExecutedTyped ==
  ASSUME NEW w, Typed(w), Steps \ w.log # {}
  PROVE  /\ Typed(Executed(w)) /\ NextStep(w) \in Steps \ w.log
         /\ Executed(w).log = w.log \cup {NextStep(w)}
         /\ Executed(w).status = "PENDING"
<1> DEFINE f == NextStep(w)
           O == {r.offset : r \in w.stream}
           o == NextOffset(w.stream)
           added == [step |-> f, offset |-> o]
<1>1. f \in Steps \ w.log
  <2>1. Steps \ w.log \in SUBSET Nat
    BY StepsBounded
  <2>2. QED BY <2>1, MinIsLeast DEF NextStep
<1>2. w \in TableRows /\ w.stream \in SUBSET [step : Steps, offset : Nat]
  BY DEF Typed, TableRows
<1>3. PICK b \in Nat : \A r \in w.stream : r.offset <= b
  BY DEF Typed
<1>4. o \in Nat /\ o <= b + 1
  <2>1. CASE w.stream = {}
    BY <1>3, <2>1 DEF NextOffset
  <2>2. CASE w.stream # {}
    <3>1. O \in SUBSET Nat /\ O # {} /\ \A y \in O : y <= b
      BY <1>2, <1>3, <2>2
    <3> HIDE DEF O
    <3>2. Max(O) \in O
      BY <1>3, <3>1, MaxIsGreatest
    <3>3. o = Max(O) + 1
      BY <2>2 DEF NextOffset, O
    <3>4. Max(O) \in Nat /\ Max(O) <= b
      BY <3>1, <3>2
    <3> HIDE DEF o
    <3>5. QED BY <1>3, <3>3, <3>4
  <2>3. QED BY <2>1, <2>2
<1> HIDE DEF f, o
<1>5. added \in [step : Steps, offset : Nat] /\ f \in Nat
  BY <1>1, <1>4, StepsBounded
<1> DEFINE log == w.log \cup {f}
           history == IF CopiedProgram[f] = "event" THEN w.history \cup {f} ELSE w.history
           event == IF CopiedProgram[f] = "event" THEN f ELSE w.event
           stream == IF CopiedProgram[f] = "stream" THEN w.stream \cup {added} ELSE w.stream
           e == [w EXCEPT !.status = "PENDING", !.log = log, !.history = history,
                          !.event = event, !.stream = stream]
<1>6. /\ log \in SUBSET Steps /\ history \in SUBSET Steps /\ event \in Nat
      /\ stream \in SUBSET [step : Steps, offset : Nat]
      /\ stream \in {w.stream, w.stream \cup {added}}
  BY <1>1, <1>2, <1>5 DEF TableRows
<1>7. Executed(w) = e
  BY <1>2 DEF Executed, TableRows, f, o
<1> HIDE DEF added, log, history, event, stream
<1>8. /\ e \in TableRows
      /\ e.log = log /\ e.status = "PENDING" /\ e.stream = stream
  BY <1>2, <1>6 DEF TableRows
<1> HIDE DEF e
<1>9. \A r \in stream : r.offset <= b + 1
  BY <1>2, <1>3, <1>4, <1>6 DEF added
<1>10. QED BY <1>1, <1>3, <1>7, <1>8, <1>9 DEF Typed, f, log

-----------------------------------------------------------------------------
LEMMA CopyInitInv == CopyInit => CopyInv
<1> SUFFICES ASSUME CopyInit PROVE CopyInv
  OBVIOUS
<1>1. Max({0} \cup {}) = 0
  BY LatestOfNone
<1>2. CopyTypes
  <2>1. NoRows \in TableRows /\ [NoRows EXCEPT !.status = "PENDING"] \in TableRows
    BY DEF TableRows, NoRows
  <2>2. NoRows.stream = {} /\ [NoRows EXCEPT !.status = "PENDING"].stream = {}
    BY DEF NoRows
  <2>3. Typed(NoRows) /\ Typed([NoRows EXCEPT !.status = "PENDING"])
    BY <2>1, <2>2 DEF Typed
  <2>4. copying = [op |-> "none", pc |-> "idle", rows |-> NoRows]
    BY DEF CopyInit
  <2>5. copying.rows = NoRows /\ copying \in Copying
    BY <2>1, <2>4 DEF Copying, CopyPoints
  <2>6. QED BY <2>3, <2>5 DEF CopyInit, CopyTypes
<1>3. Whole(original)
  <2>1. /\ original.log = {} /\ original.history = {} /\ original.event = 0
        /\ original.stream = {}
    BY DEF CopyInit, NoRows
  <2>2. \A k : Recorded(original, k) = {}
    BY <2>1 DEF Recorded
  <2>3. original.event = Max({0} \cup Recorded(original, "event"))
    BY <1>1, <2>1, <2>2
  <2>4. LogPrefix(original) /\ StreamExact(original) /\ OffsetsSmall(original)
    BY <2>1, <2>2 DEF LogPrefix, StreamExact, OffsetsSmall
  <2>5. QED BY <2>1, <2>2, <2>3, <2>4 DEF Whole, Consistent
<1>4. QED
  BY <1>2, <1>3 DEF CopyInit, NoRows, CopyInv, OriginalWhole, BelowRead, ForkOnce, ForkWhole,
                    ExportRead, ImportSame, Forking

(* Steps of the original: what has been read of it stays.                  *)
LEMMA OriginalRuns ==
  ASSUME CopyInv, RunOriginal PROVE CopyInv'
<1>1. Typed(original) /\ Whole(original) /\ original.log \in SUBSET Steps
  BY DEF CopyInv, CopyTypes, OriginalWhole, Typed, TableRows
<1>2. original' = Executed(original) /\ Steps \ original.log # {}
  BY DEF RunOriginal
<1>3. Typed(original') /\ original.log \subseteq original'.log /\ original'.status = "PENDING"
  BY <1>1, <1>2, ExecutedTyped
<1>4. Whole(original')
  BY <1>1, <1>2, ExecutedWhole DEF Typed
<1>5. original.status # "SUCCESS"
  BY DEF RunOriginal, Unfinished
<1>6. CopyTypes'
  BY <1>3 DEF CopyInv, CopyTypes, RunOriginal
<1>7. OriginalWhole' /\ ForkOnce' /\ ForkWhole' /\ BelowRead'
  BY <1>3, <1>4 DEF CopyInv, OriginalWhole, ForkOnce, ForkWhole, BelowRead, Forking,
                    EventsBelow, RunOriginal
<1>8. ExportRead' /\ ImportSame'
  BY <1>5 DEF CopyInv, ExportRead, ImportSame, RunOriginal
<1>9. QED BY <1>6, <1>7, <1>8 DEF CopyInv

LEMMA OriginalCompletes ==
  ASSUME CopyInv, CompleteOriginal PROVE CopyInv'
<1>1. Typed(original) /\ Whole(original) /\ original \in TableRows
  BY DEF CopyInv, CopyTypes, OriginalWhole, Typed
<1>2. /\ original' \in TableRows /\ original'.status = "SUCCESS"
      /\ original'.log = original.log /\ original'.history = original.history
      /\ original'.event = original.event /\ original'.stream = original.stream
  BY <1>1 DEF CompleteOriginal, TableRows
<1>3. Typed(original') /\ Whole(original')
  BY <1>1, <1>2 DEF Typed, Whole, LogPrefix, Consistent, StreamExact, OffsetsSmall, Recorded
<1>4. original.status # "SUCCESS"
  BY DEF CompleteOriginal, Unfinished
<1>5. original.log = Steps
  BY <1>1 DEF CompleteOriginal, TableRows
<1>6. CopyTypes'
  BY <1>3 DEF CopyInv, CopyTypes, CompleteOriginal
<1>7. OriginalWhole' /\ ForkOnce' /\ ForkWhole' /\ BelowRead'
  BY <1>2, <1>3, <1>5 DEF CopyInv, OriginalWhole, ForkOnce, ForkWhole, BelowRead, Forking,
                    EventsBelow, CompleteOriginal
<1>8. ExportRead' /\ ImportSame'
  BY <1>4 DEF CopyInv, ExportRead, ImportSame, CompleteOriginal
<1>9. QED BY <1>6, <1>7, <1>8 DEF CopyInv

(* A fork whose log holds all that was copied executes later steps only.   *)
LEMMA ForkRuns ==
  ASSUME CopyInv, RunFork PROVE CopyInv'
<1> DEFINE f == NextStep(fork)
<1>1. Typed(fork) /\ fork \in TableRows /\ Steps \ fork.log # {} /\ fork.status # "ABSENT"
  BY DEF CopyInv, CopyTypes, Typed, RunFork, Unfinished
<1>2. /\ Typed(fork') /\ f \in Steps \ fork.log
      /\ fork'.log = fork.log \cup {f} /\ fork'.status = "PENDING" /\ ran' = ran \cup {f}
  BY <1>1, ExecutedTyped DEF RunFork
<1> HIDE DEF f
<1>3. ~Forking /\ start # 0
  BY <1>1 DEF CopyInv, ForkOnce
<1>4. covered => Whole(fork')
  BY <1>1, ExecutedWhole DEF CopyInv, ForkWhole, RunFork
<1>5. covered => f >= start
  <2>1. covered => f \notin Below(start)
    BY <1>1, <1>2 DEF CopyInv, ForkWhole
  <2>2. start \in Nat /\ f \in Nat
    BY <1>2, StepsBounded DEF CopyInv, CopyTypes
  <2>3. QED BY <1>2, <2>1, <2>2 DEF Below
<1>6. CopyTypes'
  BY <1>2 DEF CopyInv, CopyTypes, RunFork
<1>7. ForkWhole'
  BY <1>1, <1>2, <1>4, <1>5 DEF CopyInv, ForkWhole, Below, RunFork
<1>8. ForkOnce' /\ BelowRead'
  BY <1>3 DEF ForkOnce, BelowRead, Forking, RunFork
<1>9. OriginalWhole' /\ ExportRead' /\ ImportSame'
  BY DEF CopyInv, OriginalWhole, ExportRead, ImportSame, RunFork
<1>10. QED BY <1>6, <1>7, <1>8, <1>9 DEF CopyInv

(* Steps of the copies leave the original.                                 *)
LEMMA ReadTyped ==
  ASSUME CopyTypes, NEW table \in {"status", "log", "history", "event", "stream"},
         NEW rows, NEW pc \in CopyPoints, ReadTable(table, rows, pc),
         Typed([copying.rows EXCEPT ![table] = rows])
  PROVE  /\ copying' \in Copying
         /\ Typed(copying.rows')
         /\ copying'.op = copying.op /\ copying'.pc = pc
         /\ copying'.rows = [copying.rows EXCEPT ![table] = rows]
<1> DEFINE new == [copying.rows EXCEPT ![table] = rows]
<1>1. copying' = [op |-> copying.op, pc |-> pc, rows |-> new]
  BY DEF ReadTable, CopyTypes, Copying
<1>2. new \in TableRows
  BY DEF Typed
<1>3. copying.op \in {"none", "fork", "export"}
  BY DEF CopyTypes, Copying
<1> HIDE DEF new
<1>4. copying' \in Copying
  BY <1>1, <1>2, <1>3 DEF Copying
<1>5. copying'.op = copying.op /\ copying'.pc = pc /\ copying'.rows = new
  BY <1>1
<1>6. QED BY <1>4, <1>5 DEF new

LEMMA ForkBegins ==
  ASSUME CopyInv, NEW s \in 1..(Len(CopiedProgram) + 1), BeginFork(s) PROVE CopyInv'
<1> DEFINE rows == [NoRows EXCEPT !.status = "ENQUEUED"]
           pc == IF s > 1 THEN "log" ELSE "commit"
<1>1. s \in Nat \ {0} /\ start = 0 /\ start' = s
  BY StepsBounded DEF BeginFork
<1>2. /\ rows \in TableRows /\ rows.stream = {} /\ rows.log = {} /\ rows.history = {}
      /\ rows.event = 0
  BY DEF NoRows, TableRows
<1>3. Typed(rows)
  BY <1>2 DEF Typed
<1> HIDE DEF rows
<1>4. copying' = [op |-> "fork", pc |-> pc, rows |-> rows]
  BY DEF BeginFork, rows
<1>5. copying' \in Copying /\ copying'.op = "fork" /\ copying'.pc = pc /\ copying'.rows = rows
  BY <1>2, <1>4 DEF Copying, CopyPoints
<1>6. fork.status = "ABSENT" /\ ran = {}
  BY <1>1 DEF CopyInv, ForkOnce
<1>7. CopyTypes'
  BY <1>1, <1>3, <1>5 DEF CopyInv, CopyTypes, BeginFork
<1>8. OriginalWhole' /\ ForkOnce' /\ ForkWhole' /\ ExportRead' /\ ImportSame'
  BY <1>1, <1>5, <1>6 DEF CopyInv, OriginalWhole, ForkOnce, ForkWhole, ExportRead, ImportSame, BeginFork
<1>9. BelowRead'
  <2>1. CASE s > 1
    BY <1>1, <1>5, <2>1 DEF BelowRead, BeginFork
  <2>2. CASE s = 1
    <3>1. Below(start') = {}
      BY <1>1, <2>2, StepsBounded DEF Below
    <3>2. EventsBelow' = {}
      BY <3>1 DEF EventsBelow
    <3>3. StreamExact(rows) /\ OffsetsSmall(rows)
      BY <1>2 DEF StreamExact, OffsetsSmall, Recorded
    <3>4. copying'.rows = rows
      BY <1>5
    <3>5. Max({0} \cup EventsBelow') = 0
      BY <3>2, LatestOfNone
    <3>6. QED BY <1>2, <3>1, <3>2, <3>3, <3>4, <3>5 DEF BelowRead
  <2>3. QED BY <1>1, <2>1, <2>2
<1>10. QED BY <1>7, <1>8, <1>9 DEF CopyInv

(* The four tables of a fork.                                              *)
LEMMA ForkReads ==
  ASSUME CopyInv,
         \/ CopyCheckpoints \/ CopyHistory \/ CopyEvents \/ CopyStreams
  PROVE  CopyInv'
<1>1. copying.op = "fork" /\ Forking /\ copying.rows \in TableRows /\ Typed(copying.rows)
  BY DEF CopyInv, CopyTypes, Copying, CopyCheckpoints, CopyHistory, CopyEvents, CopyStreams,
         CopyAt, Forking
<1>2. Below(start) \in SUBSET Steps /\ EventsBelow = Recorded([log |-> Below(start)], "event")
  BY DEF Below, EventsBelow, Recorded
<1>3. covered => /\ original.log \cap Below(start) = Below(start)
                 /\ original.history \cap Below(start) = EventsBelow
  BY <1>1 DEF CopyInv, BelowRead, OriginalWhole, Whole, Consistent, Recorded, Below, EventsBelow
<1>4. UNCHANGED <<original, fork, import, start, covered, ran>>
  BY DEF CopyCheckpoints, CopyHistory, CopyEvents, CopyStreams
<1>5. ASSUME NEW table \in {"status", "log", "history", "event", "stream"}, NEW rows,
             NEW pc \in CopyPoints \ {"idle"}, ReadTable(table, rows, pc),
             Typed([copying.rows EXCEPT ![table] = rows]), BelowRead'
      PROVE  CopyInv'
  <2>1. /\ copying' \in Copying /\ Typed(copying.rows')
        /\ copying'.op = copying.op /\ copying'.pc = pc
    BY <1>5, ReadTyped DEF CopyInv
  <2>2. CopyTypes'
    BY <1>4, <2>1 DEF CopyInv, CopyTypes
  <2>3. OriginalWhole' /\ ForkOnce' /\ ForkWhole' /\ ImportSame' /\ ExportRead'
    BY <1>1, <1>4, <2>1 DEF CopyInv, OriginalWhole, ForkOnce, ForkWhole, ImportSame, ExportRead,
                            Forking
  <2>4. QED BY <1>5, <2>2, <2>3 DEF CopyInv
<1>6. CASE CopyCheckpoints
  <2> DEFINE rows == original.log \cap Below(start)
             new == [copying.rows EXCEPT !.log = rows]
  <2>1. new \in TableRows /\ new.stream = copying.rows.stream /\ new.log = rows
    BY <1>1, <1>2 DEF TableRows
  <2>2. Typed(new)
    BY <1>1, <2>1 DEF Typed
  <2>3. copying'.op = "fork" /\ copying'.pc = "history" /\ copying'.rows = new
    BY <1>1, <1>6, <2>2, ReadTyped DEF CopyInv, CopyCheckpoints, CopyPoints
  <2> HIDE DEF new
  <2>4. BelowRead'
    BY <1>1, <1>3, <1>4, <2>1, <2>3 DEF CopyInv, BelowRead, Forking, EventsBelow
  <2>5. QED BY <1>5, <1>6, <2>2, <2>4 DEF CopyCheckpoints, CopyPoints, new
<1>7. CASE CopyHistory
  <2> DEFINE rows == original.history \cap Below(start)
             new == [copying.rows EXCEPT !.history = rows]
  <2>1. new \in TableRows /\ new.stream = copying.rows.stream
        /\ new.log = copying.rows.log /\ new.history = rows
    BY <1>1, <1>2 DEF TableRows
  <2>2. Typed(new)
    BY <1>1, <2>1 DEF Typed
  <2>3. copying'.op = "fork" /\ copying'.pc = "event" /\ copying'.rows = new
    BY <1>1, <1>7, <2>2, ReadTyped DEF CopyInv, CopyHistory, CopyPoints
  <2>4. copying.pc = "history"
    BY <1>7 DEF CopyHistory, CopyAt
  <2> HIDE DEF new
  <2>5. BelowRead'
    BY <1>1, <1>3, <1>4, <2>1, <2>3, <2>4 DEF CopyInv, BelowRead, Forking, EventsBelow
  <2>6. QED BY <1>5, <1>7, <2>2, <2>5 DEF CopyHistory, CopyPoints, new
<1>8. CASE CopyEvents
  <2> DEFINE new == [copying.rows EXCEPT !.event = LatestEvent]
  <2>1. LatestEvent \in Nat
    BY <1>2, LatestIsGreatest DEF LatestEvent
  <2>2. covered => LatestEvent = Max({0} \cup EventsBelow)
    BY <1>3 DEF LatestEvent
  <2> HIDE DEF LatestEvent
  <2>3. new \in TableRows /\ new.stream = copying.rows.stream
        /\ new.log = copying.rows.log /\ new.history = copying.rows.history
        /\ new.event = LatestEvent
    BY <1>1, <2>1 DEF TableRows
  <2>4. Typed(new)
    BY <1>1, <2>3 DEF Typed
  <2>5. copying'.op = "fork" /\ copying'.pc = "stream" /\ copying'.rows = new
    BY <1>1, <1>8, <2>4, ReadTyped DEF CopyInv, CopyEvents, CopyPoints
  <2>6. copying.pc = "event"
    BY <1>8 DEF CopyEvents, CopyAt
  <2> HIDE DEF new
  <2>7. BelowRead'
    BY <1>1, <1>3, <1>4, <2>2, <2>3, <2>5, <2>6 DEF CopyInv, BelowRead, Forking, EventsBelow
  <2>8. QED BY <1>5, <1>8, <2>4, <2>7 DEF CopyEvents, CopyPoints, new
<1>9. CASE CopyStreams
  <2> DEFINE rows == {r \in original.stream : r.step < start}
             new == [copying.rows EXCEPT !.stream = rows]
  <2>1. original \in TableRows /\ Typed(original) /\ Whole(original)
    BY DEF CopyInv, CopyTypes, Typed, OriginalWhole
  <2>2. rows \in SUBSET original.stream /\ rows \in SUBSET [step : Steps, offset : Nat]
    BY <2>1 DEF TableRows
  <2>3. new \in TableRows /\ new.stream = rows
        /\ new.log = copying.rows.log /\ new.history = copying.rows.history
        /\ new.event = copying.rows.event
    BY <1>1, <2>2 DEF TableRows
  <2>4. Typed(new)
    BY <2>1, <2>2, <2>3 DEF Typed
  <2>5. copying'.op = "fork" /\ copying'.pc = "commit" /\ copying'.rows = new
    BY <1>1, <1>9, <2>4, ReadTyped DEF CopyInv, CopyStreams, CopyPoints
  <2>6. copying.pc = "stream"
    BY <1>9 DEF CopyStreams, CopyAt
  <2>7. covered => StreamExact(new) /\ OffsetsSmall(new)
    <3> SUFFICES ASSUME covered PROVE StreamExact(new) /\ OffsetsSmall(new)
      OBVIOUS
    <3>1. new.log = Below(start)
      BY <1>1, <2>3, <2>6 DEF CopyInv, BelowRead
    <3>2. {r.step : r \in rows} = {f \in Below(start) : CopiedProgram[f] = "stream"}
      <4>1. {r.step : r \in original.stream} = Recorded(original, "stream")
        BY <2>1 DEF Whole, Consistent, StreamExact
      <4>2. {r.step : r \in rows} = {f \in Recorded(original, "stream") : f < start}
        BY <4>1
      <4>3. original.log \in SUBSET Steps /\ Below(start) \subseteq original.log
        BY <1>3, <2>1 DEF TableRows
      <4>4. QED BY <4>2, <4>3 DEF Recorded, Below
    <3>3. ASSUME NEW r \in rows, NEW o \in 0..r.offset
          PROVE  \E q \in rows : q.offset = o
      <4>1. PICK q \in original.stream : q.offset = o
        BY <2>1 DEF Whole, Consistent, StreamExact
      <4>2. q.step \in Nat /\ r.step \in Nat /\ q.offset <= r.offset /\ start \in Nat
            /\ q.offset \in Nat /\ r.offset \in Nat
        BY <2>1, <4>1, StepsBounded DEF TableRows, CopyInv, CopyTypes
      <4>3. ~(r.step < q.step)
        BY <2>1, <4>2 DEF Whole, Consistent, StreamExact
      <4>4. QED BY <4>1, <4>2, <4>3
    <3>4. \A r, q \in rows : r.step < q.step <=> r.offset < q.offset
      BY <2>1 DEF Whole, Consistent, StreamExact
    <3> HIDE DEF rows
    <3>5. StreamExact(new)
      BY <2>3, <3>1, <3>2, <3>3, <3>4 DEF StreamExact, Recorded
    <3>6. OffsetsSmall(new)
      BY <2>1, <2>2, <2>3 DEF Whole, OffsetsSmall
    <3>7. QED BY <3>5, <3>6
  <2> HIDE DEF new
  <2>8. BelowRead'
    BY <1>1, <1>3, <1>4, <2>3, <2>5, <2>6, <2>7 DEF CopyInv, BelowRead, Forking, EventsBelow
  <2>9. QED BY <1>5, <1>9, <2>4, <2>8 DEF CopyStreams, CopyPoints, new
<1>10. QED BY <1>6, <1>7, <1>8, <1>9

LEMMA ForkCommits == ASSUME CopyInv, CommitFork PROVE CopyInv'
<1>1. Forking /\ copying.pc = "commit" /\ start # 0 /\ ran = {} /\ fork' = copying.rows
  BY DEF CopyInv, ForkOnce, CommitFork, CopyAt, Forking
<1>2. /\ copying' \in Copying /\ copying'.op = "fork" /\ copying'.pc = "idle"
      /\ copying'.rows = copying.rows
  BY DEF CopyInv, CopyTypes, Copying, CopyPoints, CommitFork, CopyAt
<1>3. CopyTypes'
  BY <1>1, <1>2 DEF CopyInv, CopyTypes, CommitFork
<1>4. ASSUME covered PROVE Whole(fork') /\ fork'.log = Below(start)
  <2>1. /\ fork'.log = Below(start) /\ fork'.history = EventsBelow
        /\ fork'.event = Max({0} \cup EventsBelow)
        /\ StreamExact(fork') /\ OffsetsSmall(fork')
    BY <1>1, <1>4 DEF CopyInv, BelowRead
  <2>2. Recorded(fork', "event") = EventsBelow
    BY <2>1 DEF Recorded, EventsBelow
  <2>3. start \in Nat
    BY DEF CopyInv, CopyTypes
  <2>4. LogPrefix(fork')
    BY <2>1, <2>3, StepsBounded DEF LogPrefix, Below
  <2>5. QED BY <2>1, <2>2, <2>4 DEF Whole, Consistent
<1>5. ForkWhole'
  <2>1. \A f \in Below(start) : ~(f >= start)
    BY StepsBounded DEF Below, CopyInv, CopyTypes
  <2>2. Below(start)' = Below(start)
    BY DEF Below, CommitFork
  <2>3. covered' = covered /\ ran' = ran /\ start' = start
    BY DEF CommitFork
  <2>4. QED BY <1>1, <1>4, <2>1, <2>2, <2>3 DEF ForkWhole
<1>6. OriginalWhole' /\ BelowRead' /\ ForkOnce' /\ ExportRead' /\ ImportSame'
  BY <1>1, <1>2 DEF CopyInv, OriginalWhole, BelowRead, ForkOnce, ExportRead, ImportSame,
                    Forking, CommitFork
<1>7. QED BY <1>3, <1>5, <1>6 DEF CopyInv

-----------------------------------------------------------------------------
LEMMA ExportBegins == ASSUME CopyInv, BeginExport PROVE CopyInv'
<1>1. NoRows \in TableRows /\ NoRows.stream = {} /\ NoRows.status = "ABSENT"
  BY DEF NoRows, TableRows
<1>2. Typed(NoRows)
  BY <1>1 DEF Typed
<1>3. copying' = [op |-> "export", pc |-> "status", rows |-> NoRows]
  BY DEF BeginExport, TableOrder
<1>4. /\ copying' \in Copying /\ copying'.op = "export" /\ copying'.pc = "status"
      /\ copying'.rows = NoRows
  BY <1>1, <1>3 DEF Copying, CopyPoints
<1>5. copying.pc = "idle"
  BY DEF BeginExport
<1>6. CopyTypes'
  BY <1>2, <1>4 DEF CopyInv, CopyTypes, BeginExport
<1>7. OriginalWhole' /\ BelowRead' /\ ForkOnce' /\ ForkWhole' /\ ExportRead' /\ ImportSame'
  BY <1>1, <1>4, <1>5 DEF CopyInv, OriginalWhole, BelowRead, ForkOnce, ForkWhole, ExportRead,
                          ImportSame, Forking, BeginExport
<1>8. QED BY <1>6, <1>7 DEF CopyInv

LEMMA ExportReads ==
  ASSUME CopyInv, NEW i \in DOMAIN TableOrder, ExportTable(i) PROVE CopyInv'
<1> DEFINE table == TableOrder[i]
           pc == IF i = Len(TableOrder) THEN "import" ELSE TableOrder[i + 1]
           new == [copying.rows EXCEPT ![table] = original[table]]
<1>1. <<table, pc>> \in {<<"status", "log">>, <<"log", "event">>, <<"event", "history">>,
                        <<"history", "stream">>, <<"stream", "import">>}
  BY DEF TableOrder
<1>2. copying.op = "export" /\ copying.pc = table /\ ReadTable(table, original[table], pc)
  BY DEF ExportTable, CopyAt
<1>3. UNCHANGED <<original, fork, import, start, covered, ran>>
  BY DEF ExportTable
<1> HIDE DEF table, pc
<1>4. table \in {"status", "log", "history", "event", "stream"} /\ pc \in CopyPoints \ {"idle"}
  BY <1>1 DEF CopyPoints
<1>5. Typed(original) /\ original \in TableRows /\ Typed(copying.rows) /\ copying.rows \in TableRows
  BY DEF CopyInv, CopyTypes, Typed
<1>6. /\ new \in TableRows /\ new[table] = original[table]
      /\ \A t \in {"status", "log", "history", "event", "stream"} : t # table => new[t] = copying.rows[t]
  <2>1. CASE table = "status" BY <1>5, <2>1 DEF TableRows
  <2>2. CASE table = "log" BY <1>5, <2>2 DEF TableRows
  <2>3. CASE table = "history" BY <1>5, <2>3 DEF TableRows
  <2>4. CASE table = "event" BY <1>5, <2>4 DEF TableRows
  <2>5. CASE table = "stream" BY <1>5, <2>5 DEF TableRows
  <2>6. QED BY <1>4, <2>1, <2>2, <2>3, <2>4, <2>5
<1>7. new.stream \in {copying.rows.stream, original.stream}
  BY <1>4, <1>6
<1>8. Typed(new)
  BY <1>5, <1>6, <1>7 DEF Typed
<1>9. copying' \in Copying /\ Typed(copying.rows')
      /\ copying'.op = "export" /\ copying'.pc = pc /\ copying'.rows = new
  BY <1>2, <1>4, <1>8, ReadTyped DEF CopyInv
<1> HIDE DEF new
<1>10. CopyTypes'
  BY <1>3, <1>9 DEF CopyInv, CopyTypes
<1>11. OriginalWhole' /\ BelowRead' /\ ForkOnce' /\ ForkWhole' /\ ImportSame'
  BY <1>2, <1>3, <1>9 DEF CopyInv, OriginalWhole, BelowRead, ForkOnce, ForkWhole, ImportSame, Forking
<1>12. ExportRead'
  <2>1. ExportRead
    BY DEF CopyInv
  <2>2. CASE table = "status" /\ pc = "log"
    BY <1>3, <1>6, <1>9, <2>2 DEF ExportRead
  <2>3. CASE table = "log" /\ pc = "event"
    BY <1>2, <1>3, <1>6, <1>9, <2>1, <2>3 DEF ExportRead
  <2>4. CASE table = "event" /\ pc = "history"
    BY <1>2, <1>3, <1>6, <1>9, <2>1, <2>4 DEF ExportRead
  <2>5. CASE table = "history" /\ pc = "stream"
    BY <1>2, <1>3, <1>6, <1>9, <2>1, <2>5 DEF ExportRead
  <2>6. CASE table = "stream" /\ pc = "import"
    BY <1>2, <1>3, <1>6, <1>9, <2>1, <2>6 DEF ExportRead
  <2>7. QED BY <1>1, <2>2, <2>3, <2>4, <2>5, <2>6
<1>13. QED BY <1>10, <1>11, <1>12 DEF CopyInv

LEMMA ImportInserts == ASSUME CopyInv, ImportWorkflow PROVE CopyInv'
<1>1. copying.op = "export" /\ copying.pc = "import" /\ import' = copying.rows
  BY DEF ImportWorkflow, CopyAt
<1>2. /\ copying' \in Copying /\ copying'.op = "export" /\ copying'.pc = "idle"
      /\ copying'.rows = copying.rows
  BY DEF CopyInv, CopyTypes, Copying, CopyPoints, ImportWorkflow, CopyAt
<1>3. original \in TableRows /\ copying.rows \in TableRows
  BY DEF CopyInv, CopyTypes, Typed
<1>4. copying.rows.status = "SUCCESS" => original.status = "SUCCESS" /\ copying.rows = original
  <2> SUFFICES ASSUME copying.rows.status = "SUCCESS"
               PROVE  original.status = "SUCCESS" /\ copying.rows = original
    OBVIOUS
  <2>1. /\ original.status = "SUCCESS" /\ copying.rows.log = original.log
        /\ copying.rows.event = original.event /\ copying.rows.history = original.history
        /\ copying.rows.stream = original.stream
    BY <1>1 DEF CopyInv, ExportRead
  <2>2. QED BY <1>3, <2>1 DEF TableRows
<1>5. CopyTypes'
  BY <1>1, <1>2 DEF CopyInv, CopyTypes, ImportWorkflow
<1>6. ImportSame'
  BY <1>1, <1>4 DEF ImportSame, ImportWorkflow
<1>7. OriginalWhole' /\ BelowRead' /\ ForkOnce' /\ ForkWhole' /\ ExportRead'
  BY <1>1, <1>2 DEF CopyInv, OriginalWhole, BelowRead, ForkOnce, ForkWhole, ExportRead,
                    Forking, ImportWorkflow
<1>8. QED BY <1>5, <1>6, <1>7 DEF CopyInv

LEMMA CopyCrashes == ASSUME CopyInv, CrashCopy PROVE CopyInv'
<1>1. /\ copying' \in Copying /\ copying'.op = copying.op /\ copying'.pc = "idle"
      /\ copying'.rows = copying.rows
  BY DEF CopyInv, CopyTypes, Copying, CopyPoints, CrashCopy
<1>2. start' = IF Forking THEN 0 ELSE start
  BY DEF CrashCopy, Forking
<1>3. CopyTypes'
  BY <1>1, <1>2 DEF CopyInv, CopyTypes, CrashCopy
<1>4. ForkOnce' /\ ForkWhole'
  BY <1>1, <1>2 DEF CopyInv, ForkOnce, ForkWhole, Forking, Below, CrashCopy
<1>5. OriginalWhole' /\ BelowRead' /\ ExportRead' /\ ImportSame'
  BY <1>1 DEF CopyInv, OriginalWhole, BelowRead, ExportRead, ImportSame, Forking, CrashCopy
<1>6. QED BY <1>3, <1>4, <1>5 DEF CopyInv

LEMMA CopyStuttering == ASSUME CopyInv, UNCHANGED copyVars PROVE CopyInv'
<1>1. CopyTypes' /\ OriginalWhole' /\ ExportRead' /\ ImportSame'
  BY DEF CopyInv, CopyTypes, OriginalWhole, ExportRead, ImportSame, copyVars
<1>2. BelowRead' /\ ForkOnce' /\ ForkWhole'
  BY DEF CopyInv, BelowRead, ForkOnce, ForkWhole, Forking, EventsBelow, copyVars
<1>3. QED BY <1>1, <1>2 DEF CopyInv

(* A fork from a step before which all is recorded has the event and the   *)
(* stream of its own recorded operations and executes start_step and the   *)
(* later ones once, and a workflow imported as completed is complete in    *)
(* all tables: for every program and however the reads of fork_workflow    *)
(* and export_workflow fall between the steps of the original.             *)
THEOREM CopiesWholeCorrect == CopySpec => []CopiesWhole
<1>1. CopyInv /\ [CopyNext]_copyVars => CopyInv'
  <2> SUFFICES ASSUME CopyInv, [CopyNext]_copyVars PROVE CopyInv'
    OBVIOUS
  <2>1. CASE RunOriginal BY <2>1, OriginalRuns
  <2>2. CASE CompleteOriginal BY <2>2, OriginalCompletes
  <2>3. CASE RunFork BY <2>3, ForkRuns
  <2>4. CASE \E s \in 1..(Len(CopiedProgram) + 1) : BeginFork(s) BY <2>4, ForkBegins
  <2>5. CASE CopyCheckpoints \/ CopyHistory \/ CopyEvents \/ CopyStreams BY <2>5, ForkReads
  <2>6. CASE CommitFork BY <2>6, ForkCommits
  <2>7. CASE BeginExport BY <2>7, ExportBegins
  <2>8. CASE \E i \in DOMAIN TableOrder : ExportTable(i) BY <2>8, ExportReads
  <2>9. CASE ImportWorkflow BY <2>9, ImportInserts
  <2>10. CASE CrashCopy BY <2>10, CopyCrashes
  <2>11. CASE UNCHANGED copyVars BY <2>11, CopyStuttering
  <2>12. QED
    BY <2>1, <2>2, <2>3, <2>4, <2>5, <2>6, <2>7, <2>8, <2>9, <2>10, <2>11 DEF CopyNext
<1>2. CopyInv => CopiesWhole
  BY DEF CopyInv, OriginalWhole, ForkWhole, ImportSame, Whole, CopiesWhole
<1>3. QED BY CopyInitInv, <1>1, <1>2, PTL DEF CopySpec
=============================================================================
