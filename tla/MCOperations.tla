----------------------------- MODULE MCOperations -----------------------------
(* Operations of a workflow: steps with retries ("step"), events ("event") *)
(* and streams ("stream").  Each initial state picks one; the state of the *)
(* others stays as it is.                                                  *)
EXTENDS Streams, WorkflowEvents, StepRetry

CONSTANTS r1, r2, g1, g2, w1, w2, x1, a, b

VARIABLE part

Longer == INSTANCE Streams WITH MaxRows <- MaxRows + 1

allVars == <<part, stepVars, eventVars, streamVars>>

SuiteInit ==
  /\ part \in {"step", "event", "stream", "long"}
  /\ Init /\ StepInit /\ EventInit
  /\ part # "step" => options = [o \in DOMAIN options |-> FALSE]
  /\ part # "event" => ~listener.polls

InRetry(A) ==
  part = "step" /\ A /\ UNCHANGED <<part, eventVars, streamVars>>
InEvent(A) ==
  part = "event" /\ A /\ UNCHANGED <<part, stepVars, streamVars>>
InStream(A) ==
  part = "stream" /\ A /\ UNCHANGED <<part, stepVars, eventVars>>
InLong(A) ==
  /\ part = "long" /\ A /\ UNCHANGED <<part, stepVars, eventVars>>
  /\ over \/ UNCHANGED reader

SuiteNext ==
  \/ InRetry(StepNext)
  \/ InEvent(EventNext)
  \/ InStream(Next)
  \/ InLong(Longer!Next)

(* The fairness of WorkflowEvents and of Streams.                          *)
SuiteSpec ==
  /\ SuiteInit /\ [][SuiteNext]_allVars
  /\ \A g \in Getters : WF_allVars(InEvent(GetterStep(g)))
  /\ WF_allVars(InEvent(Listen))
  /\ \A x \in Readers : WF_allVars(InStream(ReaderStep(x)) \/ InLong(ReaderStep(x)))
=============================================================================
