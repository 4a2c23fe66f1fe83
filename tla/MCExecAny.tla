------------------------------ MODULE MCExecAny ------------------------------
(* Settings of DurableExecution in one run: one executor with two runs    *)
(* ("one"), whom nobody must be able to tell from a single run; and, on    *)
(* variables of their own, two executors with two runs and everything the  *)
(* environment can do at once ("any"), with steps that may return or fail  *)
(* but no queue ("outcomes"), and with workflows that are started once and *)
(* not resumed, while all else may happen to them ("conducted").           *)
EXTENDS MCDurableExecution

VARIABLES setting, sharedRow, sharedLog, sharedRun, sharedActive, sharedUp, sharedLost

Shared == INSTANCE DurableExecution
  WITH row <- sharedRow, log <- sharedLog, run <- sharedRun,
       active <- sharedActive, up <- sharedUp, lost <- sharedLost,
       Executors <- {e1, e2}, Runs <- {q1, q2},
       Values <- {ok1}, Failures <- {}, MaxLost <- 0, Env <- Everything

Outcomes == INSTANCE DurableExecution
  WITH row <- sharedRow, log <- sharedLog, run <- sharedRun,
       active <- sharedActive, up <- sharedUp, lost <- sharedLost,
       Executors <- {e1, e2}, Runs <- {q1, q2}, Env <- Everything \ {"enqueue", "acall"}

Conducted == INSTANCE DurableExecution
  WITH row <- sharedRow, log <- sharedLog, run <- sharedRun,
       active <- sharedActive, up <- sharedUp, lost <- sharedLost,
       Executors <- {e1, e2}, Runs <- {q1, q2},
       Values <- {ok1}, Failures <- {}, Env <- EnvEvents \ {"duplicate", "resume"}

SharedVars == <<sharedRow, sharedLog, sharedRun, sharedActive, sharedUp, sharedLost>>

Settings == {"one", "any", "outcomes", "conducted"}

AllInit == setting \in Settings /\ Init /\ Shared!Init

AllNext ==
  /\ UNCHANGED setting
  /\ \/ setting = "one" /\ Next /\ UNCHANGED SharedVars
     \/ /\ \/ setting = "any" /\ Shared!Next
           \/ setting = "outcomes" /\ Outcomes!Next
           \/ setting = "conducted" /\ Conducted!Next
        /\ UNCHANGED vars

AllSpec == AllInit /\ [][AllNext]_<<vars, SharedVars, setting>>

(* In a setting the runs and executors of the other are idle: permutations *)
(* of both at once are not needed.                                         *)
SwapRuns == (q1 :> q2 @@ q2 :> q1)
SwapExecutors == (e1 :> e2 @@ e2 :> e1)
Symmetric ==
  Permutations(Runs) \cup {SwapRuns, SwapExecutors, SwapRuns @@ SwapExecutors}

-----------------------------------------------------------------------------
(* NoOrphan where workflows are started once and not resumed: no PENDING   *)
(* workflow is left with nobody to execute or recover it.                  *)
NoOrphanConducted == setting = "conducted" => Conducted!NoOrphan

(* Two executors do what they want to each other and yet the active set of *)
(* each stays exact, the recovery budget is kept, no checkpoint changes    *)
(* and no completed workflow is reopened.                                  *)
SharedKept ==
  /\ [](Outcomes!TypeOK /\ Shared!ActiveSetExact /\ Shared!RecoveryBudget)
  /\ Outcomes!CheckpointsFinal
  /\ Outcomes!CompletedFinal
=============================================================================
