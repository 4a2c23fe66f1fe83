------------------------------ MODULE MCProgress ------------------------------
(* A queue with a global concurrency, what must come about in spite of     *)
(* limits and failures, and a step with an effect of its own.  Each        *)
(* initial state picks one of the settings; the state of the others stays  *)
(* as it is.  Native variables are those of a queue with a concurrency of  *)
(* one and everything that may happen to it ("churn") and of executions    *)
(* that race through one transaction ("transaction").  Others belong to a  *)
(* longer queue whose executors only crash ("concurrency") and to a        *)
(* workflow whose step kills its executor ("poison").                      *)
EXTENDS MCQueueDequeue, Transactions

CONSTANTS r1, r2, ok1, ok2, NoValue, NoRun

VARIABLES setting,
          qRows, qTxn, qTodo, qRunning, qListed, qUp, qClock, qStarts,
          row, log, run, active, workers, lost                  \* of the workflow

queueVars == <<qRows, qTxn, qTodo, qRunning, qListed, qUp, qClock, qStarts>>
workflowVars == <<row, log, run, active, workers, lost>>
allVars == <<setting, vars, queueVars, workflowVars, transactionVars>>

Longer == {t1, t2, t3}

Crowded == INSTANCE QueueDequeue
  WITH rows <- qRows, txn <- qTxn, todo <- qTodo, running <- qRunning,
       listed <- qListed, up <- qUp, clock <- qClock, starts <- qStarts,
       Tasks <- Longer, Rank <- InRank, TaskVersion <- [t \in Longer |-> NoVersion],
       Concurrency <- 2, Unregistered <- {}, Env <- {"crash"}

Poisoned == INSTANCE DurableExecution
  WITH Executors <- {e1}, Runs <- {r1, r2}, NumSteps <- 2, Values <- {ok1},
       Failures <- {}, MaxRecoveries <- 1, MaxLost <- 1,
       Env <- {"start", "enqueue", "poison"}, up <- workers

AllInit ==
  /\ setting \in {"churn", "concurrency", "poison", "transaction"}
  /\ Init
  /\ Crowded!Init
  /\ Poisoned!Init
  /\ TransactionInit

InChurn(A) ==
  setting = "churn" /\ A /\ UNCHANGED <<setting, queueVars, workflowVars, transactionVars>>
InCrowd(A) ==
  setting = "concurrency" /\ A /\ UNCHANGED <<setting, vars, workflowVars, transactionVars>>
InWorkflow(A) ==
  setting = "poison" /\ A /\ UNCHANGED <<setting, vars, queueVars, transactionVars>>
InTransaction(A) ==
  setting = "transaction" /\ A /\ UNCHANGED <<setting, vars, queueVars, workflowVars>>

AllNext ==
  \/ InChurn(Next)
  \/ InCrowd(Crowded!Next)
  \/ InWorkflow(Poisoned!Next)
  \/ InTransaction(TransactionNext)

(* The fairness of QueueDequeue and of DurableExecution, each within its   *)
(* setting.                                                                *)
AllSpec ==
  /\ AllInit /\ [][AllNext]_allVars
  /\ \A e \in Executors :
       /\ WF_allVars(InCrowd(Crowded!Worker(e)))
       /\ WF_allVars(InCrowd(Crowded!Launch(e)))
       /\ WF_allVars(InCrowd(\E t \in Longer : Crowded!Finish(e, t)))
       /\ WF_allVars(InCrowd(\E t \in Longer : Crowded!RecoverWorkflow(e, t)))
  /\ \A r \in {r1, r2} : WF_allVars(InWorkflow(Poisoned!RunStep(r)))
  /\ WF_allVars(InWorkflow(Poisoned!Launch(e1)))
  /\ WF_allVars(InWorkflow(\E r \in {r1, r2} : Poisoned!Dequeue(e1, r)))

-----------------------------------------------------------------------------
(* Executors that abort one another do not keep a task on the queue or     *)
(* unfinished: the queue drains.                                           *)
CrowdedDrains ==
  setting = "concurrency" /\ <>[](qUp = Executors) =>
    []<>(\A t \in Longer : qRows[t].status \notin {"ENQUEUED", "PENDING"})

(* A step that kills its process every time is not retried for ever.       *)
PoisonedOver == setting = "poison" => Poisoned!EventuallyOver
=============================================================================
