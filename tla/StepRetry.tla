------------------------------ MODULE StepRetry ------------------------------
(***************************************************************************)
(* One step, composed of check_existing_result, record_step_result and the *)
(* retries around its function, for a function that is a coroutine or not  *)
(* (classes Pending and Immediate).                                        *)
(*                                                                         *)
(* Left out: the time between attempts; a second execution of the workflow *)
(* at once, which is in DurableExecution.                                  *)
(***************************************************************************)
EXTENDS Naturals

CONSTANTS MaxAttempts,
          Values,    \* what the function may return
          Unwritten, \* a return value the serializer refuses, and its error
          Failed,    \* the function's exception
          Exceeded,  \* DBOSMaxStepRetriesExceeded
          NoResult

VARIABLES options,   \* how the step is called
          recorded,  \* its row of operation_outputs
          step       \* program counter, attempts and result of the execution

stepVars == <<options, recorded, step>>

NewStep == [pc |-> "idle", attempt |-> 0, result |-> NoResult]

(* decorate_step: outside of a workflow it is a plain call.                *)
Options == [async : BOOLEAN, retries_allowed : BOOLEAN, is_workflow : BOOLEAN]

StepInit ==
  /\ options \in Options
  /\ recorded = NoResult
  /\ step = NewStep

StepGoes(pc) == step' = [step EXCEPT !.pc = pc]
End(result) == step' = [step EXCEPT !.pc = "done", !.result = result]

-----------------------------------------------------------------------------
(* run_step: without a workflow there is no record and no retry.           *)
Begin ==
  /\ step.pc = "idle"
  /\ StepGoes(IF options.is_workflow THEN "check" ELSE "plain")
  /\ UNCHANGED <<options, recorded>>

PlainCall ==
  /\ step.pc = "plain"
  /\ \E v \in Values \cup {Failed, Unwritten} : End(v)
  /\ UNCHANGED <<options, recorded>>

(* check_existing_result: a recorded output or error is the outcome.       *)
ReplayedNever == NoResult                                         \* faulty
Replayed == recorded

Check ==
  /\ step.pc = "check"
  /\ IF Replayed # NoResult THEN End(Replayed) ELSE StepGoes("call")
  /\ UNCHANGED <<options, recorded>>

Attempts == IF options.retries_allowed THEN MaxAttempts ELSE 1

ReturnValue ==
  /\ step.pc = "call"
  /\ \E v \in Values \cup {Unwritten} :
       step' = [step EXCEPT !.pc = "record", !.result = v]
  /\ UNCHANGED <<options, recorded>>

(* Retries are inside of record_step_result: an attempt that is followed   *)
(* by another leaves nothing behind.                                       *)
Attempted(failure) ==
  [step EXCEPT !.attempt = @ + 1, !.result = failure,
               !.pc = IF step.attempt + 1 < Attempts THEN "call" ELSE "record"]

LastFailure == IF options.retries_allowed THEN Exceeded ELSE Failed

FailRecorded ==                                                   \* faulty
  /\ step' = Attempted(LastFailure)
  /\ recorded' = IF recorded = NoResult THEN Failed ELSE recorded
Fail ==
  /\ step' = Attempted(LastFailure)
  /\ UNCHANGED recorded

FailedCall ==
  /\ step.pc = "call"
  /\ Fail
  /\ UNCHANGED options

(* record_step_result.  If serialize_value raises, Pending._wrap calls it  *)
(* a second time with that error, which is recorded as the step's;         *)
(* Immediate records nothing.                                              *)
Unrecorded == step.result = Unwritten /\ ~options.async

Record ==
  /\ step.pc = "record"
  /\ recorded' = IF Unrecorded THEN recorded ELSE step.result
  /\ StepGoes("done")
  /\ UNCHANGED options

(* The process is killed or the coroutine cancelled, which is no Exception *)
(* to be recorded, and the workflow is executed again; or that happens     *)
(* after the step.                                                         *)
Restart ==
  /\ options.is_workflow
  /\ step' = NewStep
  /\ UNCHANGED <<options, recorded>>

StepNext ==
  \/ Begin \/ PlainCall \/ Check \/ ReturnValue \/ FailedCall \/ Record \/ Restart

StepSpec == StepInit /\ [][StepNext]_stepVars

-----------------------------------------------------------------------------
(* An execution goes on with the result that is recorded, the last of its  *)
(* attempts and never an earlier one; one of a value that could not be     *)
(* recorded goes on with an error and leaves nothing, so that another      *)
(* execution calls the function again.                                     *)
ResultStands ==
  step.pc = "done" /\ options.is_workflow =>
    \/ step.result = recorded
    \/ Unrecorded /\ recorded = NoResult
=============================================================================
