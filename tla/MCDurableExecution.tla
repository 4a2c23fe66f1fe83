------------------------ MODULE MCDurableExecution ------------------------
(* Values of the constants of DurableExecution for TLC.                    *)
EXTENDS DurableExecution, TLC

CONSTANTS e0, e1, e2, r1, r2, r3, q1, q2, ok1, bad

Everything == EnvEvents \ {"poison"}
Indirect == Everything \ {"call", "acall"}
Duplicates == {"start", "duplicate", "crash"}
=============================================================================
