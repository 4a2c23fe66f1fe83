------------------------------ MODULE MCMessages ------------------------------
(* Values of the constants of Messages for TLC, and two settings in one    *)
(* run: everything the environment can do with two attempts to send        *)
(* ("wide"), and one execution of the destination at a time with three,    *)
(* so that two messages and a repeated send meet ("deep").                 *)
EXTENDS Messages, TLC

CONSTANTS e1, r1, r2, m1, m2, m3

VARIABLE setting

(* m2 is sent after m1, the other messages by workflows of their own.      *)
TwoSenders == [m \in Msgs |-> IF m = m2 THEN m1 ELSE NoMsg]

Crashes == {"crash"}

Deep == INSTANCE Messages WITH MaxAttempts <- MaxAttempts + 1, Env <- EnvEvents \ {"second"}

AllVars == <<vars, setting>>

Within(A) == A /\ UNCHANGED setting

AllNext == \/ setting = "wide" /\ Within(Next)
           \/ setting = "deep" /\ Within(Deep!Next)

AllInit == setting \in {"wide", "deep"} /\ Init

(* The fairness of Messages.                                               *)
AllSpec ==
  /\ AllInit /\ [][AllNext]_AllVars
  /\ \A r \in Runs : WF_AllVars(Within(Step(r)))
  /\ \A e \in Executors : WF_AllVars(Within(Listen(e)))
=============================================================================
