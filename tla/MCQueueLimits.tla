----------------------------- MODULE MCQueueLimits ----------------------------
(* Two limits of a queue in one run: a limit per worker during a rolling   *)
(* upgrade ("upgrade") and, on variables of its own, a rate limiter        *)
(* together with a global concurrency ("limiter").                         *)
EXTENDS MCQueueDequeue

VARIABLES setting, qRows, qTxn, qTodo, qRunning, qListed, qUp, qClock, qStarts

limiterVars == <<qRows, qTxn, qTodo, qRunning, qListed, qUp, qClock, qStarts>>

Limited == INSTANCE QueueDequeue
  WITH rows <- qRows, txn <- qTxn, todo <- qTodo, running <- qRunning,
       listed <- qListed, up <- qUp, clock <- qClock, starts <- qStarts,
       AppVersion <- SameVersion, TaskVersion <- AnyVersion,
       Concurrency <- 2, WorkerConcurrency <- NoLimit,
       Limit <- 1, Period <- 2, MaxTime <- 4, Env <- {}

AllInit == setting \in {"upgrade", "limiter"} /\ Init /\ Limited!Init

AllNext ==
  /\ UNCHANGED setting
  /\ \/ setting = "upgrade" /\ Next /\ UNCHANGED limiterVars
     \/ setting = "limiter" /\ Limited!Next /\ UNCHANGED vars

AllSpec == AllInit /\ [][AllNext]_<<setting, vars, limiterVars>>

(* The limiter counts what other executors started in the period, if the   *)
(* queue has a global concurrency.                                         *)
LimitedRate == setting = "limiter" => Limited!RateLimit
===============================================================================
