----------------------------- MODULE Transactions -----------------------------
(***************************************************************************)
(* One @DBOS.transaction step: its function and its row of                 *)
(* transaction_outputs commit together in the application database, its    *)
(* checkpoint is written to the system database afterwards.  Several       *)
(* executions of the workflow may be in the step at once.                  *)
(*                                                                         *)
(* The function writes something (effects counts the commits) and returns  *)
(* a value, or raises.  The retries of a failed connection are unbounded.  *)
(***************************************************************************)
EXTENDS Naturals

CONSTANTS Runs,     \* executions of the workflow
          Outputs,  \* what the function may return
          Raised,   \* the exception it may raise
          None

ASSUME ResultsAssumption == None \notin Outputs /\ Raised \notin Outputs /\ Raised # None

Results == Outputs \cup {Raised}

VARIABLES stored,     \* the row of transaction_outputs
          effects,    \* commits of what the function wrote
          checkpoint, \* the row of operation_outputs
          tx          \* program counter and result of each run

transactionVars == <<stored, effects, checkpoint, tx>>

Idle == [pc |-> "idle", result |-> None]

TransactionInit ==
  /\ stored = None /\ effects = 0 /\ checkpoint = None
  /\ tx = [r \in Runs |-> Idle]

GoesTo(r, pc) == tx' = [tx EXCEPT ![r].pc = pc]
Keep(r, pc, result) == tx' = [tx EXCEPT ![r] = [pc |-> pc, result |-> result]]

-----------------------------------------------------------------------------
(* A recorded output is returned and a recorded error raised again.        *)
CheckStep(r) ==
  /\ tx[r].pc = "idle"
  /\ IF checkpoint # None THEN Keep(r, "done", checkpoint) ELSE GoesTo(r, "begin")
  /\ UNCHANGED <<stored, effects, checkpoint>>

Seen == stored

(* check_transaction_execution, the first query of the transaction.        *)
Begin(r) ==
  /\ tx[r].pc = "begin"
  /\ IF Seen # None THEN Keep(r, "record", Seen) ELSE GoesTo(r, "call")
  /\ UNCHANGED <<stored, effects, checkpoint>>

Return(r, v) ==
  /\ tx[r].pc = "call"
  /\ Keep(r, IF v = Raised THEN "raised" ELSE "commit", v)
  /\ UNCHANGED <<stored, effects, checkpoint>>

(* record_transaction_output and the commit.  A row that another run has   *)
(* inserted since the check is a conflict, or a serialization failure,     *)
(* which begins the transaction again, as a lost connection does whether   *)
(* or not the commit got through.                                          *)
UniqueNever == TRUE                                               \* faulty
Unique == stored = None

CommitFunction(r) ==
  /\ tx[r].pc = "commit"
  /\ \/ /\ Unique
        /\ stored' = tx[r].result
        /\ effects' = effects + 1
        /\ GoesTo(r, "record") \/ GoesTo(r, "begin")
     \/ /\ GoesTo(r, "begin")
        /\ UNCHANGED <<stored, effects>>
     \/ /\ ~Unique
        /\ GoesTo(r, "raised")
        /\ UNCHANGED <<stored, effects>>
  /\ UNCHANGED checkpoint

(* The finally clause: record_transaction_error, after the rollback and in *)
(* a transaction of its own.  If there is a row by now, it raises          *)
(* DBOSWorkflowConflictIDError and nothing is recorded.                    *)
CheckpointOnly(r) == stored' = stored /\ GoesTo(r, "record")        \* faulty
StoreError(r) ==
  IF stored = None
  THEN stored' = tx[r].result /\ GoesTo(r, "record")
  ELSE stored' = stored /\ Keep(r, "conflict", None)

RecordError(r) ==
  /\ tx[r].pc = "raised"
  /\ StoreError(r)
  /\ UNCHANGED <<effects, checkpoint>>

(* record_operation_result: on conflict it does nothing.                   *)
RecordOutput(r) ==
  /\ tx[r].pc = "record"
  /\ checkpoint' = IF checkpoint = None THEN tx[r].result ELSE checkpoint
  /\ GoesTo(r, "done")
  /\ UNCHANGED <<stored, effects>>

(* The process is killed, or the workflow executed again.                  *)
Restart(r) ==
  /\ tx' = [tx EXCEPT ![r] = Idle]
  /\ UNCHANGED <<stored, effects, checkpoint>>

TransactionNext ==
  \E r \in Runs :
    \/ CheckStep(r) \/ Begin(r) \/ CommitFunction(r) \/ RecordError(r) \/ RecordOutput(r)
    \/ \E v \in Results : Return(r, v)
    \/ Restart(r)

TransactionSpec == TransactionInit /\ [][TransactionNext]_transactionVars

-----------------------------------------------------------------------------
(* What a run knows to be the step's result.                               *)
Settled(r) == tx[r].pc \in {"record", "done"}

(* The function's writes commit at most once, exactly if the step's result *)
(* is a returned value, and the two databases and every run agree on that  *)
(* result: a step that is recorded as failed has left no trace.            *)
ExactlyOneEffect ==
  /\ effects = IF stored \in Outputs THEN 1 ELSE 0
  /\ checkpoint # None => checkpoint = stored
  /\ \A r \in Runs : Settled(r) => tx[r].result = stored
=============================================================================
