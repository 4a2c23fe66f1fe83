------------------------- MODULE Services_proofs -------------------------
(***************************************************************************)
(* Proofs about what enqueues workflows from outside: the consumer of a    *)
(* partition of a topic, the scheduler and the debouncer, for any number   *)
(* of messages, times, processes, versions, calls and messages sent.       *)
(***************************************************************************)
EXTENDS KafkaConsumer, Scheduler, Debouncer, TLAPS

-----------------------------------------------------------------------------
(* The consumer of a partition.                                            *)
MessageStatuses == {"ABSENT", "ENQUEUED", "PENDING", "SUCCESS"}
ConsumerTypes ==
  /\ committed_offset \in Nat
  /\ consumer \in [pc : {"closed", "poll", "polled", "checked"}, position : Nat, msg : Nat]
  /\ consumed \in [Offsets -> MessageStatuses]
  /\ started \in Seq(Offsets)

(* The consumer is never behind its group, and what it has in hand is the  *)
(* message at its position.                                                *)
Unseen(m) == consumed[m] = "ABSENT"
HasMessage == ConsumerAt("polled") \/ ConsumerAt("checked")
ConsumerAhead ==
  /\ ~ConsumerAt("closed") => committed_offset <= consumer.position
  /\ HasMessage => consumer.msg \in Offsets /\ consumer.msg = consumer.position

(* A message that may still be enqueued comes after all those that were: a *)
(* message the broker may send, and the one the consumer has in hand.  The *)
(* others up to its position it has enqueued or the group has committed.   *)
Last(m) == \A o \in Offsets : m < o => Unseen(o)
Unsent == \A m \in Offsets : committed_offset < m /\ Unseen(m) => Last(m)
InHand == HasMessage /\ Unseen(consumer.msg) => Last(consumer.msg)
PassedOver ==
  ~ConsumerAt("closed") =>
    \A m \in Offsets :
      Unseen(m) /\ committed_offset < m /\ m <= consumer.position =>
        HasMessage /\ m = consumer.msg
Frontier == Unsent /\ InHand /\ PassedOver

(* What waits on the queue comes after all that has been started.          *)
QueueSorted ==
  /\ KafkaInOrder
  /\ \A i \in DOMAIN started : consumed[started[i]] \in {"PENDING", "SUCCESS"}
  /\ \A m \in Offsets : consumed[m] = "ENQUEUED" => \A i \in DOMAIN started : started[i] < m

KafkaInv == ConsumerTypes /\ ConsumerAhead /\ Frontier /\ QueueSorted

-----------------------------------------------------------------------------
USE NumMessagesAssumption

LEMMA KafkaInitOK == KafkaInit => KafkaInv
<1> SUFFICES ASSUME KafkaInit PROVE KafkaInv
  OBVIOUS
<1>1. ConsumerTypes /\ ConsumerAhead /\ Frontier
  BY DEF KafkaInit, ConsumerTypes, MessageStatuses, ConsumerAhead, Frontier, Unsent, InHand, PassedOver, Last, Unseen, ConsumerAt,
         HasMessage, Closed
<1>2. QueueSorted
  BY DEF KafkaInit, QueueSorted, KafkaInOrder
<1>3. QED BY <1>1, <1>2 DEF KafkaInv

(* Steps of the consumer other than the enqueue leave rows and queue.      *)
LEMMA ConsumerStep ==
  ASSUME KafkaInv,
         \/ Subscribe \/ PollBroker \/ StopConsumer \/ Return \/ CheckStop \/ AutoCommit
         \/ Renew \/ CrashConsumer \/ Relaunch \/ UNCHANGED kafkaVars
  PROVE  KafkaInv'
<1> USE DEF KafkaInv, ConsumerTypes, ConsumerAt, HasMessage
<1>1. consumed' = consumed /\ started' = started
  BY DEF Subscribe, PollBroker, StopConsumer, Return, Close, CheckStop, AutoCommit, Renew, CrashConsumer, Relaunch,
         kafkaVars
<1>2. QueueSorted'
  BY <1>1 DEF QueueSorted, KafkaInOrder
<1>3. CASE PollBroker
  <2>1. consumer.position + 1 \in Offsets /\ committed_offset < consumer.position + 1
    BY <1>3 DEF PollBroker, ConsumerAhead, Offsets
  <2>2. ConsumerTypes' /\ ConsumerAhead'
    BY <1>1, <1>3, <2>1 DEF PollBroker, ConsumerAhead
  <2>3. Unsent' /\ InHand'
    BY <1>1, <1>3, <2>1 DEF PollBroker, Frontier, Unsent, InHand, Last, Unseen
  <2>4. PassedOver'
    BY <1>1, <1>3, <2>1 DEF PollBroker, Frontier, PassedOver, Unseen, Offsets
  <2>5. QED BY <1>2, <2>2, <2>3, <2>4 DEF Frontier
<1>4. CASE Subscribe \/ StopConsumer \/ CheckStop \/ CrashConsumer \/ Relaunch \/ UNCHANGED kafkaVars
  <2>1. ConsumerTypes' /\ ConsumerAhead'
    BY <1>1, <1>4
    DEF Subscribe, StopConsumer, CheckStop, CrashConsumer, Relaunch, kafkaVars, Closed, ConsumerAhead
  <2>2. Unsent' /\ InHand'
    BY <1>1, <1>4
    DEF Subscribe, StopConsumer, CheckStop, CrashConsumer, Relaunch, kafkaVars, Closed, Frontier, Unsent, InHand,
        Last, Unseen
  <2>3. PassedOver'
    BY <1>1, <1>4
    DEF Subscribe, StopConsumer, CheckStop, CrashConsumer, Relaunch, kafkaVars, Closed, Frontier, PassedOver, Unseen,
        Offsets
  <2>4. QED BY <1>2, <2>1, <2>2, <2>3 DEF Frontier
<1>5. CASE Return \/ AutoCommit \/ Renew
  <2>1. committed_offset' = consumer.position /\ committed_offset <= consumer.position
    BY <1>5 DEF Return, Close, AutoCommit, Renew, ConsumerAhead
  <2>2. consumer' = consumer \/ consumer' = Closed
    BY <1>5 DEF Return, Close, AutoCommit, Renew
  <2>3. ConsumerTypes' /\ ConsumerAhead'
    BY <1>1, <2>1, <2>2 DEF Closed, ConsumerAhead
  <2>4. Unsent' /\ InHand'
    BY <1>1, <2>1, <2>2 DEF Closed, Frontier, Unsent, InHand, Last, Unseen, Offsets
  <2>5. PassedOver'
    BY <1>1, <2>1, <2>2 DEF Closed, Frontier, PassedOver, Unseen, Offsets
  <2>6. QED BY <1>2, <2>3, <2>4, <2>5 DEF Frontier
<1>6. QED BY <1>3, <1>4, <1>5

LEMMA EnqueueMessageStep ==
  ASSUME KafkaInv, EnqueueMessage
  PROVE  KafkaInv'
<1> USE DEF KafkaInv, ConsumerTypes, ConsumerAt, HasMessage
<1> DEFINE m == consumer.msg
<1>1. m \in Offsets /\ m = consumer.position
  BY DEF EnqueueMessage, ConsumerAhead
<1>2. CASE ~Unseen(m)
  <2>1. consumed' = consumed /\ started' = started /\ committed_offset' = committed_offset
    BY <1>1, <1>2 DEF EnqueueMessage, UpsertMessage, Unseen
  <2>2. ConsumerTypes' /\ ConsumerAhead'
    BY <2>1 DEF EnqueueMessage, ConsumerAhead
  <2>3. Unsent' /\ InHand' /\ QueueSorted'
    BY <2>1 DEF EnqueueMessage, Frontier, Unsent, InHand, Last, Unseen, QueueSorted, KafkaInOrder
  <2>4. PassedOver'
    BY <1>2, <2>1 DEF EnqueueMessage, Frontier, PassedOver, Unseen
  <2>5. QED BY <2>2, <2>3, <2>4 DEF Frontier
<1>3. CASE Unseen(m)
  <2>1. /\ consumed' = [consumed EXCEPT ![m] = "ENQUEUED"]
        /\ UNCHANGED <<started, committed_offset>>
    BY <1>1, <1>3 DEF EnqueueMessage, UpsertMessage, Unseen
  <2>2. Last(m)
    BY <1>3 DEF EnqueueMessage, Frontier, InHand
  <2>3. ConsumerTypes' /\ ConsumerAhead'
    BY <1>1, <2>1 DEF EnqueueMessage, ConsumerAhead, MessageStatuses
  <2>4. Frontier'
    <3> SUFFICES ASSUME NEW n \in Offsets, committed_offset < n, consumed'[n] = "ABSENT",
                        NEW o \in Offsets, n < o
                 PROVE  consumed'[o] = "ABSENT"
      <4>1. \A k \in Offsets :
              committed_offset < k /\ consumed'[k] = "ABSENT" => ~(k <= consumer.position)
        BY <1>1, <2>1 DEF EnqueueMessage, Frontier, PassedOver, Unseen
      <4>2. consumer' = [consumer EXCEPT !.pc = "poll", !.msg = 0]
        BY DEF EnqueueMessage
      <4>3. PassedOver' /\ InHand'
        BY <2>1, <4>1, <4>2 DEF PassedOver, InHand, Unseen
      <4>4. QED BY <4>3, <2>1 DEF Frontier, Unsent, Last, Unseen
    <3>1. Unseen(n) /\ Last(n)
      BY <1>1, <2>1 DEF Frontier, Unsent, Unseen
    <3>2. Unseen(o)
      BY <3>1 DEF Last
    <3>3. o # m
      <4>1. n # m
        BY <1>1, <2>1
      <4>2. ~(n <= consumer.position)
        BY <3>1, <4>1 DEF EnqueueMessage, Frontier, PassedOver
      <4>3. QED BY <1>1, <4>2 DEF Offsets
    <3>4. QED BY <2>1, <3>2, <3>3 DEF Unseen
  <2>5. QueueSorted'
    <3>1. \A i \in DOMAIN started : started[i] \in Offsets /\ ~Unseen(started[i])
      BY DEF QueueSorted, Unseen
    <3>2. \A i \in DOMAIN started : started[i] < m
      BY <1>1, <1>3, <2>2, <3>1 DEF Last, Offsets
    <3>3. QED BY <1>1, <2>1, <3>1, <3>2 DEF QueueSorted, KafkaInOrder, Unseen
  <2>6. QED BY <2>3, <2>4, <2>5
<1>4. QED BY <1>2, <1>3

LEMMA MessageQueueStep ==
  ASSUME KafkaInv, NEW m \in Offsets, DequeueMessage(m) \/ FinishMessage(m)
  PROVE  KafkaInv'
<1> USE DEF KafkaInv, ConsumerTypes, ConsumerAt, HasMessage
<1>1. /\ UNCHANGED <<committed_offset, consumer>>
      /\ ~Unseen(m)
      /\ \A o \in Offsets : Unseen(o)' <=> Unseen(o)
  BY DEF DequeueMessage, FinishMessage, Unseen
<1>2. ConsumerAhead'
  BY <1>1 DEF ConsumerAhead
<1>3. Frontier'
  BY <1>1 DEF Frontier, Unsent, InHand, PassedOver, Last, ConsumerAhead
<1>4. CASE DequeueMessage(m)
  <2> DEFINE n == Len(started)
  <2>1. /\ consumed' = [consumed EXCEPT ![m] = "PENDING"]
        /\ consumed[m] = "ENQUEUED"
        /\ started' = Append(started, m)
    BY <1>4 DEF DequeueMessage
  <2>2. ConsumerTypes'
    BY <1>1, <2>1 DEF MessageStatuses
  <2>3. \A i \in 1..n : started[i] < m /\ started'[i] = started[i]
    BY <2>1 DEF QueueSorted
  <2>4. DOMAIN started' = 1..(n + 1) /\ started'[n + 1] = m /\ n \in Nat
    BY <2>1
  <2>5. KafkaInOrder'
    BY <2>3, <2>4 DEF QueueSorted, KafkaInOrder
  <2>6. \A i \in DOMAIN started' : consumed'[started'[i]] \in {"PENDING", "SUCCESS"}
    BY <2>1, <2>3, <2>4 DEF QueueSorted
  <2>7. ASSUME NEW o \in Offsets, consumed'[o] = "ENQUEUED", NEW i \in DOMAIN started'
        PROVE  started'[i] < o
    <3>1. consumed[o] = "ENQUEUED" /\ o # m /\ m <= o
      BY <1>4, <2>1, <2>7 DEF DequeueMessage
    <3>2. m < o
      BY <3>1 DEF Offsets
    <3>3. QED BY <2>3, <2>4, <2>7, <3>1, <3>2 DEF QueueSorted
  <2>8. QED BY <1>2, <1>3, <2>2, <2>5, <2>6, <2>7 DEF QueueSorted
<1>5. CASE FinishMessage(m)
  BY <1>1, <1>2, <1>3, <1>5 DEF FinishMessage, MessageStatuses, QueueSorted, KafkaInOrder
<1>6. QED BY <1>4, <1>5

-----------------------------------------------------------------------------
(* However often the consumer is stopped, loses its connection or dies,    *)
(* and whatever offset it has committed by then, the workflows of a        *)
(* partition run in the order of its messages and none runs twice          *)
(* (_kafka_consumer_loop with in_order, whose queue has concurrency 1).    *)
THEOREM KafkaInOrderCorrect == KafkaSpec => []KafkaInOrder
<1>1. KafkaInv /\ [KafkaNext]_kafkaVars => KafkaInv'
  BY ConsumerStep, EnqueueMessageStep, MessageQueueStep DEF KafkaNext
<1>2. KafkaInv => KafkaInOrder
  BY DEF KafkaInv, QueueSorted
<1>3. QED BY KafkaInitOK, <1>1, <1>2, PTL DEF KafkaSpec

-----------------------------------------------------------------------------
(* The scheduler.                                                          *)

ThreadPcs == {"none", "wait", "enqueue", "last"}
Threads == [pc : ThreadPcs, since : 0..LastTime, at : 0..(LastTime + 1)]
TimeStatuses == {"ABSENT", "ENQUEUED", "SUCCESS"}

SchedulerTypes ==
  /\ now \in 0..LastTime
  /\ thread \in [Processes -> [Versions -> Threads]]
  /\ timed \in [Times -> TimeStatuses]
  /\ runs \in [Times -> Nat]

(* The workflow of a time that has not been started has not run, and one   *)
(* that has is never put back.                                             *)
RunOnce ==
  \A t \in Times : runs[t] = IF timed[t] = "SUCCESS" THEN 1 ELSE 0

(* A thread enqueues times of the crontab only, and leaves none behind.    *)
Handled(t) == timed[t] # "ABSENT" \/ t \in failed
NoneBehind(th) ==
  /\ Enqueueing(th) => th.at \in Times
  /\ th.pc # "none" => \A t \in (th.since + 1)..(th.at - 1) : Handled(t)

SchedulerInv ==
  /\ SchedulerTypes
  /\ RunOnce
  /\ \A p \in Processes, v \in Versions : NoneBehind(thread[p][v])

-----------------------------------------------------------------------------
USE LastTimeAssumption

LEMMA SchedulerInitOK ==
  ASSUME SchedulerInit
  PROVE  SchedulerInv
BY DEF SchedulerInit, SchedulerInv, SchedulerTypes, RunOnce, NoneBehind, Enqueueing, Threads,
       ThreadPcs, TimeStatuses, NoThread, Times

(* A thread that a step leaves, or changes to one with nothing behind it,  *)
(* is right after it if no time handled is forgotten.                      *)
LEMMA ThreadsKept ==
  ASSUME SchedulerInv,
         \A t \in Times : Handled(t) => Handled(t)',
         NEW p \in Processes, NEW v \in Versions,
         thread' = thread
  PROVE  NoneBehind(thread[p][v])'
<1>1. /\ thread[p][v] \in Threads
      /\ NoneBehind(thread[p][v])
  BY DEF SchedulerInv, SchedulerTypes
<1>2. ASSUME NEW t \in (thread[p][v].since + 1)..(thread[p][v].at - 1)
      PROVE  t \in Times
  BY <1>1 DEF Threads, Times
<1>3. QED BY <1>1, <1>2 DEF NoneBehind, Enqueueing

(* Steps that leave the threads.                                           *)
LEMMA TablesStep ==
  ASSUME SchedulerInv,
         \/ CreateSchedule \/ ApplySchedules \/ DeleteSchedule
         \/ PauseSchedule \/ ResumeSchedule
         \/ \E start, end \in 0..(LastTime + 1) : BeginBackfill(start, end)
         \/ BackfillCheck \/ PassTime \/ UNCHANGED schedulerVars
  PROVE  SchedulerInv'
<1>1. /\ UNCHANGED <<thread, timed, runs, failed>>
      /\ now' \in 0..LastTime
  BY DEF SchedulerInv, SchedulerTypes, CreateSchedule, ApplySchedules, NewVersion, DeleteSchedule,
         PauseSchedule, ResumeSchedule, SetStatus, BeginBackfill, BackfillCheck, PassTime,
         schedulerVars, tables, workflows
<1>2. SchedulerTypes' /\ RunOnce'
  BY <1>1 DEF SchedulerInv, SchedulerTypes, RunOnce
<1>3. ASSUME NEW p \in Processes, NEW v \in Versions
      PROVE  NoneBehind(thread[p][v])'
  BY <1>1, ThreadsKept DEF Handled
<1>4. QED BY <1>2, <1>3 DEF SchedulerInv

LEMMA RowsStep ==
  ASSUME SchedulerInv,
         \/ BackfillEnqueue
         \/ \E t \in Times : RunTime(t)
  PROVE  SchedulerInv'
<1>1. SchedulerTypes' /\ RunOnce' /\ \A t \in Times : Handled(t) => Handled(t)'
  <2>1. CASE BackfillEnqueue
    BY <2>1 DEF BackfillEnqueue, UpsertTime, SchedulerInv, SchedulerTypes, RunOnce, Handled,
                TimeStatuses, tables
  <2>2. ASSUME NEW t \in Times, RunTime(t)
        PROVE  SchedulerTypes' /\ RunOnce' /\ \A o \in Times : Handled(o) => Handled(o)'
    BY <2>2 DEF RunTime, SchedulerInv, SchedulerTypes, RunOnce, Handled, TimeStatuses, tables
  <2>3. QED BY <2>1, <2>2
<1>2. thread' = thread
  BY DEF BackfillEnqueue, RunTime
<1>3. ASSUME NEW p \in Processes, NEW v \in Versions
      PROVE  NoneBehind(thread[p][v])'
  BY <1>1, <1>2, ThreadsKept
<1>4. QED BY <1>1, <1>3 DEF SchedulerInv

(* A thread that is new begins with no times behind it.                    *)
LEMMA PollStep ==
  ASSUME SchedulerInv, NEW p \in Processes,
         PollSchedules(p) \/ ExitProcess(p)
  PROVE  SchedulerInv'
<1>1. UNCHANGED <<now, timed, runs, failed>>
  BY DEF PollSchedules, ExitProcess, tables, workflows
<1>2. ASSUME NEW th \in Threads, NoneBehind(th)
      PROVE  /\ Stopped(th) \in Threads /\ NoneBehind(Stopped(th))
             /\ NewThread \in Threads /\ NoneBehind(NewThread)
             /\ NoThread \in Threads /\ NoneBehind(NoThread)
  BY <1>2 DEF Stopped, NewThread, NoThread, Threads, ThreadPcs, NoneBehind, Enqueueing,
              SchedulerInv, SchedulerTypes
<1>3. ASSUME NEW q \in Processes, NEW v \in Versions
      PROVE  thread'[q][v] \in Threads /\ NoneBehind(thread'[q][v])
  <2>1. thread[q][v] \in Threads /\ NoneBehind(thread[q][v])
    BY DEF SchedulerInv, SchedulerTypes
  <2>2. thread'[q][v] \in {thread[q][v], Stopped(thread[q][v]), NewThread, NoThread}
    BY DEF PollSchedules, ExitProcess, SchedulerInv, SchedulerTypes
  <2>3. QED BY <1>2, <2>1, <2>2
<1>4. thread' \in [Processes -> [Versions -> Threads]]
  <2>1. \A q \in Processes : thread'[q] = [v \in Versions |-> thread'[q][v]]
    BY DEF PollSchedules, ExitProcess, SchedulerInv, SchedulerTypes
  <2>2. thread' = [q \in Processes |-> thread'[q]]
    BY DEF PollSchedules, ExitProcess, SchedulerInv, SchedulerTypes
  <2>3. \A q \in Processes : thread'[q] \in [Versions -> Threads]
    BY <1>3, <2>1
  <2>4. QED BY <2>2, <2>3
<1>5. SchedulerTypes' /\ RunOnce'
  BY <1>1, <1>4 DEF SchedulerInv, SchedulerTypes, RunOnce
<1>6. ASSUME NEW q \in Processes, NEW v \in Versions
      PROVE  NoneBehind(thread[q][v])'
  BY <1>1, <1>3 DEF NoneBehind, Handled
<1>7. QED BY <1>5, <1>6 DEF SchedulerInv

(* A thread goes on from a time that is handled only.                      *)
LEMMA ThreadStep ==
  ASSUME SchedulerInv, NEW p \in Processes, NEW v \in Versions,
         CheckTime(p, v) \/ EnqueueTime(p, v) \/ FailTime(p, v)
  PROVE  SchedulerInv'
<1> DEFINE th == thread[p][v]
           Later == [th EXCEPT !.pc = "wait", !.at = NextTime(th.at)]
           HandledNow(t) == timed'[t] # "ABSENT" \/ t \in failed'
<1>1. th \in Threads /\ NoneBehind(th) /\ th.at \in Times /\ th.pc # "none"
  BY DEF CheckTime, Due, EnqueueTime, FailTime, Enqueueing, SchedulerInv, SchedulerTypes, NoneBehind
<1>2. /\ now' = now /\ runs' = runs
      /\ timed' = timed \/ timed' = UpsertTime(th.at)
      /\ failed \subseteq failed'
  BY DEF CheckTime, EnqueueTime, FailTime, workflows
<1>3. \A t \in Times : Handled(t) => HandledNow(t)
  BY <1>2 DEF UpsertTime, Handled, SchedulerInv, SchedulerTypes
<1>4. \/ thread' = [thread EXCEPT ![p][v].pc = "enqueue"]
      \/ HandledNow(th.at) /\ Advance(p, v)
  BY <1>1, <1>2 DEF CheckTime, EnqueueTime, FailTime, UpsertTime, Handled, SchedulerInv, SchedulerTypes,
                   TimeStatuses
<1>5. thread' \in [Processes -> [Versions -> Threads]]
  <2> DEFINE at == th.at + 1
  <2>1. at \in 0..(LastTime + 1) /\ Later = [th EXCEPT !.pc = "wait", !.at = at]
    BY <1>1 DEF NextTime, Times
  <2> HIDE DEF at
  <2>2. Later \in Threads
    BY <1>1, <2>1 DEF Threads, ThreadPcs
  <2>3. [th EXCEPT !.pc = "enqueue"] \in Threads /\ NoThread \in Threads /\ Later \in Threads
    BY <1>1, <2>2 DEF Threads, ThreadPcs, NoThread
  <2>4. \E new \in Threads : thread' = [thread EXCEPT ![p][v] = new]
    BY <1>4, <2>3 DEF Advance
  <2>5. QED BY <2>4 DEF SchedulerInv, SchedulerTypes
<1>6. SchedulerTypes' /\ RunOnce'
  BY <1>2, <1>5 DEF SchedulerInv, SchedulerTypes, RunOnce, UpsertTime, TimeStatuses
<1>7. ASSUME NEW q \in Processes, NEW w \in Versions
      PROVE  NoneBehind(thread[q][w])'
  <2>1. thread[q][w] \in Threads /\ NoneBehind(thread[q][w])
    BY DEF SchedulerInv, SchedulerTypes
  <2>2. ASSUME NEW t \in (thread[q][w].since + 1)..(thread[q][w].at - 1)
        PROVE  t \in Times
    BY <2>1 DEF Threads, Times
  <2>3. CASE thread'[q][w] = thread[q][w]
    BY <1>3, <2>1, <2>2, <2>3 DEF NoneBehind, Enqueueing, Handled
  <2>4. CASE thread'[q][w] # thread[q][w]
    <3>1. p = q /\ v = w
      BY <1>4, <2>4 DEF Advance, SchedulerInv, SchedulerTypes
    <3>2. \/ thread'[q][w] = [th EXCEPT !.pc = "enqueue"]
          \/ HandledNow(th.at) /\ thread'[q][w] \in {NoThread, Later}
      BY <1>4, <3>1 DEF Advance, SchedulerInv, SchedulerTypes
    <3>3. CASE thread'[q][w] = [th EXCEPT !.pc = "enqueue"]
      <4>1. /\ thread'[q][w].at = th.at
            /\ thread'[q][w].since = th.since
            /\ thread'[q][w].pc = "enqueue"
        BY <1>1, <3>3 DEF Threads
      <4>2. QED BY <1>1, <1>3, <2>2, <3>1, <4>1 DEF NoneBehind, Handled
    <3>4. CASE thread'[q][w] = NoThread
      BY <3>4 DEF NoThread, NoneBehind, Enqueueing
    <3>5. CASE HandledNow(th.at) /\ thread'[q][w] = Later
      <4>1. /\ thread'[q][w].at = th.at + 1
            /\ thread'[q][w].since = th.since
            /\ thread'[q][w].pc = "wait"
        BY <1>1, <3>5 DEF Threads, NextTime
      <4>2. \A t \in (th.since + 1)..(th.at - 1) : t \in Times /\ Handled(t)
        BY <1>1, <2>2, <3>1 DEF NoneBehind
      <4>3. (th.at + 1) - 1 = th.at
        BY <1>1 DEF Threads
      <4>4. ASSUME NEW t \in (th.since + 1)..th.at
            PROVE  HandledNow(t)
        <5>1. CASE t = th.at
          BY <3>5, <5>1
        <5>2. CASE t # th.at
          <6>1. t \in (th.since + 1)..(th.at - 1)
            BY <1>1, <5>2 DEF Threads
          <6>2. QED BY <1>3, <4>2, <6>1
        <5>3. QED BY <5>1, <5>2
      <4>5. QED BY <4>1, <4>3, <4>4 DEF NoneBehind, Enqueueing, Handled
    <3>6. QED BY <3>2, <3>3, <3>4, <3>5
  <2>5. QED BY <2>3, <2>4
<1>8. QED BY <1>6, <1>7 DEF SchedulerInv

(* Whatever processes, versions of a schedule and backfills enqueue the    *)
(* workflow of a time, and however late, it is executed at most once, and  *)
(* no thread leaves a time behind it that it neither found nor enqueued    *)
(* nor failed at (dynamic_scheduler_loop, backfill_schedule, and the IDs   *)
(* made of the time).                                                      *)
THEOREM TimesExactCorrect == SchedulerSpec => []TimesExact
<1>1. SchedulerInv /\ [SchedulerNext]_schedulerVars => SchedulerInv'
  BY TablesStep, RowsStep, PollStep, ThreadStep DEF SchedulerNext
<1>2. SchedulerInv => TimesExact
  BY DEF SchedulerInv, SchedulerTypes, RunOnce, NoneBehind, Handled, TimesExact
<1>3. QED BY SchedulerInitOK, <1>1, <1>2, PTL DEF SchedulerSpec

-----------------------------------------------------------------------------
(* The debouncer.                                                          *)

CallPcs == {"new", "enqueue", "lookup", "send", "wait", "returned"}
WorkflowPcs == {"absent", "enqueued", "loop", "ack", "start", "started", "over"}
Named == Calls \cup {NoCall}

CallRows == [pc : CallPcs, to : Named, sends : Nat, handle : Named]
DebouncerRows == [pc : WorkflowPcs, inputs : Named, inbox : Seq(Calls),
                  acked : SUBSET Calls, user : Named]

DebouncerTypes ==
  /\ call \in [Calls -> CallRows]
  /\ debouncer \in [Calls -> DebouncerRows]
  /\ before \in [Calls -> SUBSET Calls]
  /\ received \in [Calls -> SUBSET Calls]

Begun(c) == call[c].pc # "new"
Returned(c) == call[c].pc = "returned"
Present(d) == debouncer[d].pc # "absent"
Inbox(d) == debouncer[d].inbox

(* A call comes after calls that have returned, and not after itself.      *)
PastFixed ==
  \A c \in Calls : /\ c \notin before[c]
                   /\ before[c] # {} => Begun(c)
                   /\ \A b \in before[c] : Returned(b)

(* Who has sent to a debouncer has begun, and who waits for one has found  *)
(* one that exists; a debouncer exists as soon as its own call returns.    *)
SendersBegun ==
  \A d \in Calls :
    /\ \A c \in received[d] : Begun(c)
    /\ \A i \in DOMAIN Inbox(d) : Begun(Inbox(d)[i])
    /\ Present(d) => Returned(d)
    /\ ~Present(d) => received[d] = {} /\ Inbox(d) = <<>>
    /\ call[d].pc \in {"send", "wait"} => call[d].to \in Calls /\ Present(call[d].to)

(* No message of an inbox comes from a call that had returned before the   *)
(* call of an earlier one began, nor do the inputs it has now.             *)
InboxForward ==
  \A d \in Calls : \A i, j \in DOMAIN Inbox(d) :
    i < j => Inbox(d)[j] \notin before[Inbox(d)[i]]
ReceivedForward ==
  \A d \in Calls : \A c \in received[d] :
    /\ \A i \in DOMAIN Inbox(d) : Inbox(d)[i] \notin before[c]
    /\ debouncer[d].inputs \notin before[c]

(* Whose inputs a debouncer acknowledged or returned for it has received,  *)
(* and its user's workflow has the last it received.                       *)
Held ==
  \A d \in Calls :
    /\ Present(d) => debouncer[d].inputs \in received[d]
    /\ debouncer[d].acked \subseteq received[d]
    /\ debouncer[d].user = IF debouncer[d].pc \in {"started", "over"}
                           THEN debouncer[d].inputs ELSE NoCall
    /\ Returned(d) => call[d].handle \in Calls /\ d \in received[call[d].handle]

DebouncerInv ==
  /\ DebouncerTypes
  /\ PastFixed
  /\ SendersBegun
  /\ InboxForward
  /\ ReceivedForward
  /\ Held

-----------------------------------------------------------------------------
USE NoCallAssumption

LEMMA DebouncerInitOK == DebouncerInit => DebouncerInv
BY DEF DebouncerInit, DebouncerInv, DebouncerTypes, PastFixed, SendersBegun, InboxForward,
       ReceivedForward, Held, Begun, Returned, Present, Inbox, CallRows, CallPcs, DebouncerRows, WorkflowPcs, Named

(* A step of a call that sends nothing.                                    *)
LEMMA CallsMove ==
  ASSUME DebouncerInv, UNCHANGED <<debouncer, before, received>>,
         NEW c \in Calls, NEW new \in CallRows, call' = [call EXCEPT ![c] = new],
         Begun(c), ~Returned(c), new.pc # "new",
         new.pc \in {"send", "wait"} => new.to \in Calls /\ Present(new.to),
         new.pc = "returned" => new.handle \in Calls /\ c \in received[new.handle]
  PROVE  DebouncerInv'
<1>1. \A d \in Calls : call'[d] = IF d = c THEN new ELSE call[d]
  BY DEF DebouncerInv, DebouncerTypes
<1>2. /\ \A d \in Calls : Begun(d) => Begun(d)'
      /\ \A d \in Calls : Returned(d) => Returned(d)' /\ d # c
  BY <1>1 DEF Begun, Returned
<1>3. DebouncerTypes'
  BY DEF DebouncerInv, DebouncerTypes
<1>4. PastFixed'
  BY <1>2 DEF DebouncerInv, DebouncerTypes, PastFixed
<1>5. SendersBegun'
  <2>1. \A d \in Calls : \A i \in DOMAIN Inbox(d) : Inbox(d)[i] \in Calls
    BY DEF DebouncerInv, DebouncerTypes, DebouncerRows, Inbox
  <2>2. QED
    BY <1>1, <1>2, <2>1 DEF DebouncerInv, DebouncerTypes, SendersBegun, Present, Inbox
<1>6. InboxForward' /\ ReceivedForward'
  BY DEF DebouncerInv, InboxForward, ReceivedForward, Inbox
<1>7. Held'
  BY <1>1, <1>2 DEF DebouncerInv, DebouncerTypes, Held, Returned, Present
<1>8. QED BY <1>3, <1>4, <1>5, <1>6, <1>7 DEF DebouncerInv

LEMMA LookupStep ==
  ASSUME DebouncerInv, NEW c \in Calls,
         Deduplicated(c) \/ Lookup(c) \/ TimeOut(c) \/ Acknowledged(c)
  PROVE  DebouncerInv'
<1>1. \/ \E pc \in {"lookup", "enqueue"} : call' = [call EXCEPT ![c].pc = pc]
      \/ \E d \in Holders : call' = [call EXCEPT ![c].pc = "send", ![c].to = d]
      \/ Acknowledged(c)
  BY DEF Deduplicated, Lookup, TimeOut, CallGoes
<1>2. /\ UNCHANGED <<debouncer, before, received>>
      /\ Begun(c) /\ ~Returned(c) /\ call[c] \in CallRows
  BY DEF Deduplicated, Lookup, TimeOut, Acknowledged, Begun, Returned, DebouncerInv, DebouncerTypes
<1>3. ASSUME NEW pc \in {"lookup", "enqueue"}, call' = [call EXCEPT ![c].pc = pc]
      PROVE  DebouncerInv'
  <2> DEFINE new == [call[c] EXCEPT !.pc = pc]
  <2>1. new \in CallRows /\ new.pc = pc
    BY <1>2 DEF CallRows, CallPcs
  <2>2. call' = [call EXCEPT ![c] = new]
    BY <1>3 DEF DebouncerInv, DebouncerTypes
  <2> HIDE DEF new
  <2>3. QED BY <1>2, <2>1, <2>2, CallsMove
<1>4. ASSUME NEW d \in Holders, call' = [call EXCEPT ![c].pc = "send", ![c].to = d]
      PROVE  DebouncerInv'
  <2> DEFINE new == [call[c] EXCEPT !.pc = "send", !.to = d]
  <2>1. d \in Calls /\ Present(d)
    BY DEF Holders, Present
  <2>2. new \in CallRows /\ new.pc = "send" /\ new.to = d
    BY <1>2, <2>1 DEF CallRows, CallPcs, Named
  <2>3. call' = [call EXCEPT ![c] = new]
    BY <1>4 DEF DebouncerInv, DebouncerTypes
  <2> HIDE DEF new
  <2>4. QED BY <1>2, <2>1, <2>2, <2>3, CallsMove
<1>5. CASE Acknowledged(c)
  <2> DEFINE d == call[c].to
             new == [call[c] EXCEPT !.pc = "returned", !.handle = d]
  <2>1. d \in Calls /\ c \in received[d]
    BY <1>5 DEF Acknowledged, Answered, DebouncerInv, SendersBegun, Held
  <2>2. new \in CallRows /\ new.pc = "returned" /\ new.handle = d
    BY <1>2, <2>1 DEF CallRows, CallPcs, Named
  <2>3. call' = [call EXCEPT ![c] = new]
    BY <1>5 DEF Acknowledged, DebouncerInv, DebouncerTypes
  <2> HIDE DEF new
  <2>4. QED BY <1>2, <2>1, <2>2, <2>3, CallsMove
<1>6. QED BY <1>1, <1>3, <1>4, <1>5

(* No one has heard of a call that begins.                                 *)
LEMMA CallStep ==
  ASSUME DebouncerInv, NEW c \in Calls, Call(c)
  PROVE  DebouncerInv'
<1>1. /\ ~Begun(c)
      /\ call' = [call EXCEPT ![c].pc = "enqueue"]
      /\ before' = [before EXCEPT ![c] = {b \in Calls : Returned(b)}]
      /\ UNCHANGED <<debouncer, received>>
  BY DEF Call, CallGoes, Begun, Returned
<1>2. DebouncerTypes'
  <2>1. [call[c] EXCEPT !.pc = "enqueue"] \in CallRows
    BY DEF DebouncerInv, DebouncerTypes, CallRows, CallPcs
  <2>2. call' \in [Calls -> CallRows]
    BY <1>1, <2>1 DEF DebouncerInv, DebouncerTypes
  <2>3. QED BY <1>1, <2>2 DEF DebouncerInv, DebouncerTypes
<1>3. \A x \in Calls : /\ call'[x].pc = IF x = c THEN "enqueue" ELSE call[x].pc
                       /\ call'[x].to = call[x].to /\ call'[x].handle = call[x].handle
                       /\ before'[x] = IF x = c THEN {b \in Calls : Returned(b)} ELSE before[x]
  BY <1>1 DEF DebouncerInv, DebouncerTypes, CallRows
<1>4. call[c].pc = "new"
  BY <1>1 DEF Begun
<1>5. PastFixed'
  <2>1. ASSUME NEW x \in Calls
        PROVE  x \notin before'[x] /\ (before'[x] # {} => Begun(x)')
    BY <1>3, <1>4, ZenonT(40) DEF DebouncerInv, DebouncerTypes, PastFixed, Begun, Returned
  <2>2. ASSUME NEW x \in Calls, NEW b \in before'[x]
        PROVE  Returned(b)'
    <3>1. b \in Calls /\ Returned(b)
      BY <1>3 DEF DebouncerInv, DebouncerTypes, PastFixed
    <3>2. QED BY <1>3, <1>4, <3>1 DEF Returned
  <2>3. QED BY <2>1, <2>2 DEF PastFixed
<1>6. \A d \in Calls : /\ c \notin received[d]
                       /\ \A i \in DOMAIN Inbox(d) : Inbox(d)[i] \in Calls /\ Inbox(d)[i] # c
  BY <1>1 DEF DebouncerInv, DebouncerTypes, DebouncerRows, SendersBegun, Inbox
<1>7. SendersBegun'
  BY <1>1, <1>3, <1>4, <1>6
  DEF DebouncerInv, DebouncerTypes, SendersBegun, Begun, Returned, Present, Inbox
<1>8. InboxForward'
  BY <1>1, <1>3, <1>6 DEF DebouncerInv, InboxForward, Inbox
<1>9. ReceivedForward'
  BY <1>1, <1>3, <1>6 DEF DebouncerInv, DebouncerTypes, ReceivedForward, Inbox
<1>10. Held'
  BY <1>1, <1>3, <1>4 DEF DebouncerInv, Held, Returned, Present
<1>11. QED BY <1>2, <1>5, <1>7, <1>8, <1>9, <1>10 DEF DebouncerInv

(* Steps of a debouncer that leave its inputs and its inbox.               *)
LEMMA DebouncerMove ==
  ASSUME DebouncerInv, UNCHANGED <<call, before, received>>,
         NEW d \in Calls, Present(d),
         NEW new \in DebouncerRows, debouncer' = [debouncer EXCEPT ![d] = new],
         new.pc # "absent", new.inputs = debouncer[d].inputs, new.inbox = Inbox(d),
         new.acked \subseteq received[d],
         new.user = IF new.pc \in {"started", "over"} THEN new.inputs ELSE NoCall
  PROVE  DebouncerInv'
<1>1. \A e \in Calls : debouncer'[e] = IF e = d THEN new ELSE debouncer[e]
  BY DEF DebouncerInv, DebouncerTypes
<1>2. \A e \in Calls : /\ Present(e)' <=> Present(e)
                       /\ Inbox(e)' = Inbox(e)
                       /\ debouncer'[e].inputs = debouncer[e].inputs
  BY <1>1 DEF Present, Inbox
<1>3. DebouncerTypes' /\ PastFixed'
  BY DEF DebouncerInv, DebouncerTypes, PastFixed, Begun, Returned
<1>4. SendersBegun'
  BY <1>2 DEF DebouncerInv, SendersBegun, Begun, Returned
<1>5. InboxForward' /\ ReceivedForward'
  BY <1>2 DEF DebouncerInv, InboxForward, ReceivedForward
<1>6. Held'
  BY <1>1, <1>2 DEF DebouncerInv, Held, Returned
<1>7. QED BY <1>3, <1>4, <1>5, <1>6 DEF DebouncerInv

LEMMA WorkflowStep ==
  ASSUME DebouncerInv, NEW d \in Calls,
         \/ StartDebouncer(d) \/ \E c \in Calls : Acknowledge(d, c)
         \/ ExitLoop(d) \/ StartWorkflow(d) \/ FinishDebouncer(d)
  PROVE  DebouncerInv'
<1> DEFINE me == debouncer[d]
<1>1. UNCHANGED <<call, before, received>> /\ Present(d)
  BY DEF StartDebouncer, Acknowledge, ExitLoop, StartWorkflow, FinishDebouncer, DebouncerAt, Present
<1>2. /\ me \in DebouncerRows
      /\ me.inbox = Inbox(d)
      /\ me.inputs \in received[d]
      /\ me.acked \subseteq received[d]
      /\ me.user = IF me.pc \in {"started", "over"} THEN me.inputs ELSE NoCall
  BY <1>1 DEF DebouncerInv, DebouncerTypes, Held, Inbox
<1>4. CASE StartDebouncer(d) \/ ExitLoop(d)
  <2> PICK pc \in {"loop", "start"} : debouncer' = [debouncer EXCEPT ![d].pc = pc]
    BY <1>4 DEF StartDebouncer, ExitLoop
  <2> DEFINE new == [me EXCEPT !.pc = pc]
  <2>1. debouncer' = [debouncer EXCEPT ![d] = new] /\ me.pc \in {"enqueued", "loop"}
    BY <1>4 DEF StartDebouncer, ExitLoop, DebouncerAt, DebouncerInv, DebouncerTypes
  <2>2. /\ new \in DebouncerRows /\ new.pc = pc /\ new.inputs = me.inputs
        /\ new.inbox = me.inbox /\ new.acked = me.acked /\ new.user = me.user
    BY <1>2 DEF DebouncerRows, WorkflowPcs
  <2> HIDE DEF new
  <2>3. QED BY <1>1, <1>2, <2>1, <2>2, DebouncerMove
<1>5. ASSUME NEW c \in Calls, Acknowledge(d, c)
      PROVE  DebouncerInv'
  <2> DEFINE new == [me EXCEPT !.pc = "loop", !.acked = me.acked \cup {c}]
  <2>1. /\ debouncer' = [debouncer EXCEPT ![d] = new]
        /\ me.pc = "ack" /\ c = me.inputs
    BY <1>5 DEF Acknowledge, DebouncerAt, DebouncerInv, DebouncerTypes
  <2>2. /\ new \in DebouncerRows /\ new.pc = "loop" /\ new.inputs = me.inputs
        /\ new.inbox = me.inbox /\ new.acked = me.acked \cup {c} /\ new.user = me.user
    BY <1>2 DEF DebouncerRows, WorkflowPcs
  <2> HIDE DEF new
  <2>3. QED BY <1>1, <1>2, <2>1, <2>2, DebouncerMove
<1>6. CASE StartWorkflow(d)
  <2> DEFINE new == [me EXCEPT !.pc = "started", !.user = me.inputs]
  <2>1. debouncer' = [debouncer EXCEPT ![d] = new]
    BY <1>6 DEF StartWorkflow, DebouncerInv, DebouncerTypes
  <2>2. /\ new \in DebouncerRows /\ new.pc = "started" /\ new.inputs = me.inputs
        /\ new.inbox = me.inbox /\ new.acked = me.acked /\ new.user = me.inputs
    BY <1>2 DEF DebouncerRows, WorkflowPcs
  <2> HIDE DEF new
  <2>3. QED BY <1>1, <1>2, <2>1, <2>2, DebouncerMove
<1>7. CASE FinishDebouncer(d)
  <2> DEFINE new == [me EXCEPT !.pc = "over"]
  <2>1. debouncer' = [debouncer EXCEPT ![d] = new] /\ me.pc = "started"
    BY <1>7 DEF FinishDebouncer, DebouncerAt, DebouncerInv, DebouncerTypes
  <2>2. /\ new \in DebouncerRows /\ new.pc = "over" /\ new.inputs = me.inputs
        /\ new.inbox = me.inbox /\ new.acked = me.acked /\ new.user = me.user
    BY <1>2 DEF DebouncerRows, WorkflowPcs
  <2> HIDE DEF new
  <2>3. QED BY <1>1, <1>2, <2>1, <2>2, DebouncerMove
<1>8. QED BY <1>4, <1>5, <1>6, <1>7

(* The debouncer of a call has heard of nobody before it is enqueued.      *)
LEMMA EnqueueDebouncerStep ==
  ASSUME DebouncerInv, NEW c \in Calls, EnqueueDebouncer(c)
  PROVE  DebouncerInv'
<1> DEFINE me == debouncer[c]
           new == [me EXCEPT !.pc = "enqueued", !.inputs = c]
           mine == [call[c] EXCEPT !.pc = "returned", !.handle = c]
<1>1. call[c].pc = "enqueue" /\ ~Present(c) /\ received[c] = {} /\ Inbox(c) = <<>> /\ me.acked = {}
  BY DEF EnqueueDebouncer, DebouncerInv, SendersBegun, Held, Returned
<1>2. me \in DebouncerRows /\ call[c] \in CallRows /\ me.user = NoCall /\ c \notin before[c]
  BY <1>1 DEF DebouncerInv, DebouncerTypes, Held, Present, PastFixed
<1>3. /\ debouncer' = [debouncer EXCEPT ![c] = new]
      /\ call' = [call EXCEPT ![c] = mine]
      /\ received' = [received EXCEPT ![c] = {c}]
      /\ before' = before
  BY DEF EnqueueDebouncer, DebouncerInv, DebouncerTypes
<1>4. /\ new \in DebouncerRows /\ new.pc = "enqueued" /\ new.inputs = c
      /\ new.inbox = <<>> /\ new.acked = {} /\ new.user = NoCall
  BY <1>1, <1>2 DEF DebouncerRows, WorkflowPcs, Named, Inbox
<1>5. mine \in CallRows /\ mine.pc = "returned" /\ mine.handle = c
  BY <1>2 DEF CallRows, CallPcs, Named
<1> HIDE DEF new, mine, me
<1>6. \A x \in Calls :
        /\ debouncer'[x] = IF x = c THEN new ELSE debouncer[x]
        /\ call'[x] = IF x = c THEN mine ELSE call[x]
        /\ received'[x] = IF x = c THEN {c} ELSE received[x]
  BY <1>3 DEF DebouncerInv, DebouncerTypes
<1>7. DebouncerTypes'
  BY <1>3, <1>4, <1>5 DEF DebouncerInv, DebouncerTypes
<1>8. \A x \in Calls : /\ Begun(x) => Begun(x)'
                       /\ Returned(x) => Returned(x)'
                       /\ Present(x)' <=> x = c \/ Present(x)
                       /\ Inbox(x)' = Inbox(x)
  BY <1>1, <1>4, <1>5, <1>6 DEF Begun, Returned, Present, Inbox
<1>9. Begun(c)' /\ Returned(c)'
  BY <1>5, <1>6 DEF Begun, Returned
<1>10. PastFixed'
  BY <1>3, <1>8 DEF DebouncerInv, DebouncerTypes, PastFixed
<1>11. SendersBegun'
  <2>1. \A d \in Calls : \A i \in DOMAIN Inbox(d) : Inbox(d)[i] \in Calls
    BY DEF DebouncerInv, DebouncerTypes, DebouncerRows, Inbox
  <2>2. \A d \in Calls : received[d] \subseteq Calls
    BY DEF DebouncerInv, DebouncerTypes
  <2>3. QED BY <1>1, <1>5, <1>6, <1>8, <1>9, <2>1, <2>2 DEF DebouncerInv, SendersBegun
<1>12. InboxForward'
  BY <1>3, <1>8 DEF DebouncerInv, InboxForward
<1>13. ReceivedForward'
  BY <1>1, <1>2, <1>3, <1>4, <1>6, <1>8 DEF DebouncerInv, ReceivedForward
<1>14. Held'
  BY <1>1, <1>4, <1>5, <1>6, <1>8 DEF DebouncerInv, Held, Returned
<1>15. QED BY <1>7, <1>10, <1>11, <1>12, <1>13, <1>14 DEF DebouncerInv

(* What is sent comes last: its call has not returned, so it is not before *)
(* any other.                                                              *)
LEMMA SendStep ==
  ASSUME DebouncerInv, NEW c \in Calls, SendInputs(c)
  PROVE  DebouncerInv'
<1> DEFINE d == call[c].to
           box == Append(Inbox(d), c)
           sent == call[c].sends + 1
           new == [debouncer[d] EXCEPT !.inbox = box]
           mine == [call[c] EXCEPT !.pc = "wait", !.sends = sent]
<1>1. call[c].pc = "send" /\ d \in Calls /\ Present(d)
  BY DEF SendInputs, DebouncerInv, SendersBegun
<1>2. debouncer[d] \in DebouncerRows /\ call[c] \in CallRows /\ Inbox(d) \in Seq(Calls)
  BY <1>1 DEF DebouncerInv, DebouncerTypes, DebouncerRows, Inbox
<1>3. /\ debouncer' = [debouncer EXCEPT ![d] = new]
      /\ call' = [call EXCEPT ![c] = mine]
      /\ received' = received /\ before' = before
  BY <1>1 DEF SendInputs, Inbox, DebouncerInv, DebouncerTypes
<1>4. /\ new \in DebouncerRows /\ new.pc = debouncer[d].pc /\ new.inputs = debouncer[d].inputs
      /\ new.inbox = Append(Inbox(d), c) /\ new.acked = debouncer[d].acked
      /\ new.user = debouncer[d].user
  <2>1. box \in Seq(Calls)
    BY <1>2
  <2> HIDE DEF box
  <2>2. /\ new \in DebouncerRows /\ new.pc = debouncer[d].pc /\ new.inputs = debouncer[d].inputs
        /\ new.inbox = box /\ new.acked = debouncer[d].acked /\ new.user = debouncer[d].user
    BY <1>2, <2>1 DEF DebouncerRows
  <2>3. QED BY <2>2 DEF box
<1>5. mine \in CallRows /\ mine.pc = "wait" /\ mine.to = d /\ mine.handle = call[c].handle
  <2>1. sent \in Nat
    BY <1>2 DEF CallRows
  <2> HIDE DEF sent
  <2>2. QED BY <1>2, <2>1 DEF CallRows, CallPcs
<1>6. PICK to \in Calls : to = d
  BY <1>1
<1> HIDE DEF new, mine, d
<1>7. \A x \in Calls :
        /\ debouncer'[x] = IF x = to THEN new ELSE debouncer[x]
        /\ call'[x] = IF x = c THEN mine ELSE call[x]
  BY <1>3, <1>6 DEF DebouncerInv, DebouncerTypes
<1>8. DebouncerTypes'
  BY <1>3, <1>4, <1>5 DEF DebouncerInv, DebouncerTypes
<1>9. \A x \in Calls : /\ Begun(x) => Begun(x)'
                       /\ Returned(x)' <=> Returned(x)
                       /\ Present(x)' <=> Present(x)
                       /\ Inbox(x)' = IF x = to THEN Append(Inbox(to), c) ELSE Inbox(x)
                       /\ debouncer'[x].inputs = debouncer[x].inputs
  BY <1>1, <1>4, <1>5, <1>6, <1>7 DEF Begun, Returned, Present, Inbox
<1>10. Begun(c)' /\ ~Returned(c)
  BY <1>1, <1>5, <1>7 DEF Begun, Returned
<1>11. /\ Inbox(to) \in Seq(Calls)
       /\ \A i \in DOMAIN Append(Inbox(to), c) :
             \/ i \in DOMAIN Inbox(to) /\ Append(Inbox(to), c)[i] = Inbox(to)[i]
             \/ i = Len(Inbox(to)) + 1 /\ Append(Inbox(to), c)[i] = c
  BY <1>2, <1>6
<1>12. \A x \in Calls : c \notin before[x]
  BY <1>10 DEF DebouncerInv, PastFixed
<1>13. PastFixed'
  BY <1>3, <1>9 DEF DebouncerInv, DebouncerTypes, PastFixed
<1>14. \A x \in Calls : \A i \in DOMAIN Inbox(x) : Inbox(x)[i] \in Calls
  BY DEF DebouncerInv, DebouncerTypes, DebouncerRows, Inbox
<1>15. SendersBegun'
  <2>1. \A x \in Calls : \A i \in DOMAIN Inbox(x)' : Begun(Inbox(x)[i])'
    BY <1>9, <1>10, <1>11, <1>14 DEF DebouncerInv, SendersBegun
  <2>2. \A x \in Calls : received[x] \subseteq Calls
    BY DEF DebouncerInv, DebouncerTypes
  <2>3. \A x \in Calls :
          call'[x].pc \in {"send", "wait"} => call'[x].to \in Calls /\ Present(call'[x].to)
    BY <1>1, <1>5, <1>6, <1>7 DEF DebouncerInv, SendersBegun
  <2>4. QED
    BY <1>1, <1>3, <1>6, <1>9, <2>1, <2>2, <2>3 DEF DebouncerInv, SendersBegun
<1>16. InboxForward'
  <2>1. ASSUME NEW i \in DOMAIN Append(Inbox(to), c), NEW j \in DOMAIN Append(Inbox(to), c), i < j
        PROVE  Append(Inbox(to), c)[j] \notin before[Append(Inbox(to), c)[i]]
    <3>1. i \in DOMAIN Inbox(to) /\ Append(Inbox(to), c)[i] = Inbox(to)[i]
      BY <1>11, <2>1
    <3>2. Inbox(to)[i] \in Calls
      BY <1>14, <3>1
    <3>3. QED BY <1>11, <1>12, <2>1, <3>1, <3>2 DEF DebouncerInv, InboxForward
  <2>2. QED BY <1>3, <1>9, <2>1 DEF DebouncerInv, InboxForward
<1>17. ReceivedForward'
  <2>1. \A x \in Calls : received[x] \subseteq Calls
    BY DEF DebouncerInv, DebouncerTypes
  <2>2. QED BY <1>3, <1>9, <1>11, <1>12, <2>1, SMTT(20) DEF DebouncerInv, ReceivedForward
<1>18. Held'
  BY <1>3, <1>4, <1>5, <1>6, <1>7, <1>9 DEF DebouncerInv, Held
<1>19. QED BY <1>8, <1>13, <1>15, <1>16, <1>17, <1>18 DEF DebouncerInv

LEMMA ReceiveStep ==
  ASSUME DebouncerInv, NEW d \in Calls, ReceiveInputs(d)
  PROVE  DebouncerInv'
<1> DEFINE box == Inbox(d)
           new == [debouncer[d] EXCEPT !.pc = "ack", !.inputs = Head(box), !.inbox = Tail(box)]
<1>1. debouncer[d] \in DebouncerRows /\ debouncer[d].pc = "loop"
  BY DEF ReceiveInputs, DebouncerAt, DebouncerInv, DebouncerTypes
<1>2. box \in Seq(Calls) /\ box # <<>>
  BY <1>1 DEF ReceiveInputs, DebouncerRows, Inbox
<1>3. PICK m \in Calls : m = Head(box)
  BY <1>2
<1>4. /\ debouncer' = [debouncer EXCEPT ![d] = new]
      /\ received' = [received EXCEPT ![d] = received[d] \cup {m}]
      /\ call' = call /\ before' = before
  BY <1>3 DEF ReceiveInputs, Inbox, DebouncerInv, DebouncerTypes
<1>5. Tail(box) \in Seq(Calls)
  BY <1>2
<1>6. /\ new \in DebouncerRows /\ new.pc = "ack" /\ new.inputs = m
      /\ new.inbox = Tail(box) /\ new.acked = debouncer[d].acked
      /\ new.user = debouncer[d].user
  BY <1>1, <1>3, <1>5 DEF DebouncerRows, WorkflowPcs, Named
<1>7. /\ 1 \in DOMAIN box /\ box[1] = m
      /\ \A i \in DOMAIN Tail(box) :
           i \in Nat /\ i + 1 \in DOMAIN box /\ 1 < i + 1 /\ Tail(box)[i] = box[i + 1]
  BY <1>2, <1>3
<1> HIDE DEF new
<1>8. \A x \in Calls :
        /\ debouncer'[x] = IF x = d THEN new ELSE debouncer[x]
        /\ received'[x] = IF x = d THEN received[d] \cup {m} ELSE received[x]
        /\ received[x] \subseteq Calls
  BY <1>4 DEF DebouncerInv, DebouncerTypes
<1>9. DebouncerTypes'
  BY <1>4, <1>6, <1>8 DEF DebouncerInv, DebouncerTypes
<1>10. \A x \in Calls : /\ Present(x)' <=> Present(x)
                        /\ Inbox(x)' = IF x = d THEN Tail(box) ELSE Inbox(x)
  BY <1>1, <1>6, <1>8 DEF Present, Inbox
<1>11. PastFixed'
  BY <1>4 DEF DebouncerInv, PastFixed, Begun, Returned
<1>12. Begun(m) /\ m \notin before[m] /\ Present(d)
  BY <1>1, <1>7 DEF DebouncerInv, SendersBegun, PastFixed, Present
<1>13. SendersBegun'
  BY <1>4, <1>7, <1>8, <1>10, <1>12 DEF DebouncerInv, SendersBegun, Begun, Returned
<1>14. InboxForward'
  <2>1. ASSUME NEW i \in DOMAIN Tail(box), NEW j \in DOMAIN Tail(box), i < j
        PROVE  Tail(box)[j] \notin before[Tail(box)[i]]
    BY <1>7, <2>1 DEF DebouncerInv, InboxForward
  <2>2. QED BY <1>4, <1>10, <2>1 DEF DebouncerInv, InboxForward
<1>15. ReceivedForward'
  <2>1. \A i \in DOMAIN Tail(box) : Tail(box)[i] \notin before[m]
    BY <1>7 DEF DebouncerInv, InboxForward
  <2>2. \A c \in received[d] : /\ \A i \in DOMAIN Tail(box) : Tail(box)[i] \notin before[c]
                               /\ m \notin before[c]
    BY <1>7 DEF DebouncerInv, ReceivedForward
  <2>3. ASSUME NEW c \in received'[d]
        PROVE  /\ \A i \in DOMAIN Inbox(d)' : Inbox(d)'[i] \notin before'[c]
               /\ debouncer'[d].inputs \notin before'[c]
    <3>1. /\ Inbox(d)' = Tail(box)
          /\ debouncer'[d].inputs = m
          /\ before' = before
          /\ c \in received[d] \/ c = m
      BY <1>4, <1>6, <1>8, <1>10
    <3>2. QED BY <1>12, <2>1, <2>2, <3>1
  <2>4. QED BY <1>4, <1>8, <1>10, <2>3 DEF DebouncerInv, ReceivedForward
<1>16. Held'
  BY <1>1, <1>4, <1>6, <1>8, <1>10 DEF DebouncerInv, Held, Returned
<1>17. QED BY <1>9, <1>11, <1>13, <1>14, <1>15, <1>16 DEF DebouncerInv

(* However many calls are made with a key at once, and however late their  *)
(* messages come and are acknowledged, a call that returned has its inputs *)
(* in the debouncer whose workflow it returned, and that workflow does not *)
(* start with the inputs of a call that had returned before this one began *)
(* (Debouncer.debounce and debouncer_workflow).                            *)
THEOREM CallServedCorrect == DebouncerSpec => []CallServed
<1>1. ASSUME DebouncerInv, [DebouncerNext]_debounceVars
      PROVE  DebouncerInv'
  <2>1. CASE UNCHANGED debounceVars
    BY <1>1, <2>1
    DEF debounceVars, DebouncerInv, DebouncerTypes, PastFixed, SendersBegun, InboxForward,
        ReceivedForward, Held, Begun, Returned, Present, Inbox
  <2>2. CASE DebouncerNext
    BY <1>1, <2>2, CallStep, EnqueueDebouncerStep, LookupStep, SendStep, ReceiveStep, WorkflowStep
    DEF DebouncerNext, Debounce, DebouncerWorkflow
  <2>3. QED BY <1>1, <2>1, <2>2
<1>2. DebouncerInv => CallServed
  BY DEF DebouncerInv, DebouncerTypes, DebouncerRows, ReceivedForward, Held, CallServed, Returned
<1>3. QED BY DebouncerInitOK, <1>1, <1>2, PTL DEF DebouncerSpec
=============================================================================
