---------------------------- MODULE MCQueueDequeue ----------------------------
(* Values of the constants of QueueDequeue for TLC.                        *)
EXTENDS QueueDequeue, TLC

CONSTANTS e1, e2, t1, t2, t3, v1, v2

InRank == (t1 :> 1 @@ t2 :> 2 @@ t3 :> 3)
Ranks == [t \in Tasks |-> InRank[t]]

SameVersion == [e \in Executors |-> v1]
AnyVersion == [t \in Tasks |-> NoVersion]

(* A rolling upgrade, with tasks pinned to either version or to none.      *)
TwoVersions == (e1 :> v1 @@ e2 :> v2)
Pinned == (t1 :> v1 @@ t2 :> v2 @@ t3 :> NoVersion)

Calm == {}
Upgrade == {"overtake", "cancel", "crash"}

(* Everything but tasks that sort before one already on the queue.         *)
Churn == EnvEvents \ {"overtake"}
=============================================================================
