---------------------------- MODULE ExactlyOnce ----------------------------
(***************************************************************************)
(* What durable execution promises of one workflow: its steps take effect  *)
(* one at a time, in order, each exactly once, and the workflow ends once, *)
(* with the outcome its checkpoints determine.  Crashes, recoveries,       *)
(* duplicate starts and queues are invisible at this level.                *)
(***************************************************************************)
EXTENDS Naturals

CONSTANTS NumSteps,   \* number of steps of the workflow
          Values,     \* what a step may return or raise
          Failures,   \* the values that are exceptions: they end the workflow
          NoValue     \* no checkpoint, no outcome

VARIABLES log,        \* [1..NumSteps -> Values \cup {NoValue}]: the checkpoints
          outcome     \* the checkpoints the outcome was computed from, or NoValue

vars == <<log, outcome>>

Steps == 1..NumSteps
EmptyLog == [s \in Steps |-> NoValue]

(* Steps 1..s are checkpointed and none of them failed.                    *)
Passed(s) == \A i \in 1..s : log[i] \notin Failures \cup {NoValue}

Ended == \/ Passed(NumSteps)
         \/ \E s \in Steps : Passed(s - 1) /\ log[s] \in Failures

Init == /\ log = EmptyLog
        /\ outcome = NoValue

Checkpoint(s, v) ==
  /\ outcome = NoValue
  /\ Passed(s - 1)
  /\ log[s] = NoValue
  /\ log' = [log EXCEPT ![s] = v]
  /\ UNCHANGED outcome

Complete ==
  /\ outcome = NoValue
  /\ Ended
  /\ outcome' = log
  /\ UNCHANGED log

Next == \/ \E s \in Steps, v \in Values : Checkpoint(s, v)
        \/ Complete

Spec == Init /\ [][Next]_vars
=============================================================================
