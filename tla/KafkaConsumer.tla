----------------------------- MODULE KafkaConsumer -----------------------------
(***************************************************************************)
(* The loop that consumes one partition of a topic in order and enqueues a *)
(* workflow for each message, under an ID made of its offset.              *)
(*                                                                         *)
(* The broker keeps the offset the group has committed.  The consumer of   *)
(* the library stores the offset of a message when poll returns it, and    *)
(* commits what is stored now and then and when it is closed, unless the   *)
(* configuration says otherwise, which the loop leaves to its caller.      *)
(* Left out: rebalances, other partitions, errors that are not fatal.      *)
(***************************************************************************)
EXTENDS Naturals, Sequences, FiniteSets

CONSTANTS NumMessages \* offsets 1, 2, ... of the partition

ASSUME NumMessagesAssumption == NumMessages \in Nat

Offsets == 1..NumMessages

VARIABLES committed_offset, \* of the group: messages up to it are not sent again
          consumer,         \* pc, position (the offset it has stored) and message
          stopping,         \* stop_event
          consumed,         \* workflow_status of the workflow of each message
          started           \* history: executions in the order they began

kafkaVars == <<committed_offset, consumer, stopping, consumed, started>>

Closed == [pc |-> "closed", position |-> 0, msg |-> 0]

KafkaInit ==
  /\ committed_offset = 0
  /\ consumer = Closed /\ stopping = FALSE
  /\ consumed = [m \in Offsets |-> "ABSENT"]
  /\ started = <<>>

ConsumerAt(pc) == consumer.pc = pc

-----------------------------------------------------------------------------
Subscribe ==
  /\ ConsumerAt("closed") /\ ~stopping
  /\ consumer' = [pc |-> "poll", position |-> committed_offset, msg |-> 0]
  /\ UNCHANGED <<committed_offset, stopping, consumed, started>>

PollBroker ==
  /\ ConsumerAt("poll") /\ ~stopping /\ consumer.position < NumMessages
  /\ LET m == consumer.position + 1
     IN consumer' = [pc |-> "polled", position |-> m, msg |-> m]
  /\ UNCHANGED <<committed_offset, stopping, consumed, started>>

AutoCommit ==
  /\ ~ConsumerAt("closed")
  /\ committed_offset' = consumer.position
  /\ UNCHANGED <<consumer, stopping, consumed, started>>

(* Enqueued under an ID that may exist: the row is kept.                   *)
UpsertMessageStatus(m) == [consumed EXCEPT ![m] = "ENQUEUED"]      \* faulty
UpsertMessage(m) == [consumed EXCEPT ![m] = IF @ = "ABSENT" THEN "ENQUEUED" ELSE @]

EnqueueMessage ==
  /\ ConsumerAt("checked")
  /\ consumed' = UpsertMessage(consumer.msg)
  /\ consumer' = [consumer EXCEPT !.pc = "poll", !.msg = 0]
  /\ UNCHANGED <<committed_offset, stopping, started>>

(* close commits the stored offset.                                        *)
Close ==
  /\ committed_offset' = consumer.position
  /\ consumer' = Closed
  /\ UNCHANGED <<stopping, consumed, started>>

(* The event may be set while poll waits: what it returns is not enqueued. *)
CheckStop ==
  /\ ConsumerAt("polled") /\ ~stopping
  /\ consumer' = [consumer EXCEPT !.pc = "checked"]
  /\ UNCHANGED <<committed_offset, stopping, consumed, started>>

StopConsumer ==
  /\ ~stopping /\ ~ConsumerAt("closed")
  /\ stopping' = TRUE
  /\ UNCHANGED <<committed_offset, consumer, consumed, started>>

Return == stopping /\ (ConsumerAt("poll") \/ ConsumerAt("polled")) /\ Close

(* A fatal error of poll: a new consumer goes on where the old one was.    *)
Renew ==
  /\ ConsumerAt("poll")
  /\ committed_offset' = consumer.position
  /\ UNCHANGED <<consumer, stopping, consumed, started>>

CrashConsumer ==
  /\ ~ConsumerAt("closed")
  /\ consumer' = Closed
  /\ stopping' = FALSE
  /\ UNCHANGED <<committed_offset, consumed, started>>

Relaunch ==
  /\ ConsumerAt("closed") /\ stopping
  /\ stopping' = FALSE
  /\ UNCHANGED <<committed_offset, consumer, consumed, started>>

-----------------------------------------------------------------------------
(* The queue of the topic: concurrency 1, the oldest row first.  The times *)
(* of two rows are different.                                              *)
RunningMessages == {m \in Offsets : consumed[m] = "PENDING"}

DequeueMessage(m) ==
  /\ consumed[m] = "ENQUEUED" /\ RunningMessages = {}
  /\ \A o \in Offsets : consumed[o] = "ENQUEUED" => m <= o
  /\ consumed' = [consumed EXCEPT ![m] = "PENDING"]
  /\ started' = Append(started, m)
  /\ UNCHANGED <<committed_offset, consumer, stopping>>

FinishMessage(m) ==
  /\ consumed[m] = "PENDING"
  /\ consumed' = [consumed EXCEPT ![m] = "SUCCESS"]
  /\ UNCHANGED <<committed_offset, consumer, stopping, started>>

KafkaNext ==
  \/ Subscribe \/ PollBroker \/ CheckStop \/ EnqueueMessage
  \/ StopConsumer \/ Return \/ AutoCommit
  \/ Renew \/ CrashConsumer \/ Relaunch
  \/ \E m \in Offsets : DequeueMessage(m) \/ FinishMessage(m)

KafkaSpec == KafkaInit /\ [][KafkaNext]_kafkaVars

-----------------------------------------------------------------------------
(* Messages are processed in the order of their offsets and none twice,    *)
(* although a crash makes the broker send some of them again.              *)
KafkaInOrder ==
  \A i, j \in DOMAIN started : i < j => started[i] < started[j]

(* A message the broker will not send again has its workflow, or is on the *)
(* way to it: the workflow "runs exactly-once for each message sent to the *)
(* topic" (README.md).                                                     *)
NoneLost ==
  \A m \in Offsets :
    m <= committed_offset => consumed[m] # "ABSENT" \/ consumer.msg = m
=============================================================================
