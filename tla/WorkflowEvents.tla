---------------------------- MODULE WorkflowEvents ----------------------------
(***************************************************************************)
(* One event (workflow ID and key): the workflow that sets it and the      *)
(* get_event calls of one process that wait for it.                        *)
(*                                                                         *)
(* The n-th set_event of the workflow sets the value n.  A set in the      *)
(* workflow's body is one transaction with its record; a set inside a step *)
(* has a transaction of its own and is repeated when the step is.  All     *)
(* calls of get_event for one key share the condition of the first one,    *)
(* each of which looks, waits and reads in transactions of its own; those  *)
(* made by a workflow record what they return.                             *)
(*                                                                         *)
(* Left out: exceptions of the reader between acquire and release, after   *)
(* which the condition stays locked; a listener that loses its connection, *)
(* which is in Messages; two executions of the setter at once.             *)
(***************************************************************************)
EXTENDS Naturals, FiniteSets

CONSTANTS NumSets,     \* calls of set_event for the key
          SetsInStep,  \* those made inside a step
          Getters,     \* calls of get_event
          InWorkflow,  \* those made by workflows
          NoGetter

ASSUME SetsAssumption == NumSets \in Nat /\ SetsInStep \subseteq 1..NumSets
ASSUME GettersAssumption == IsFiniteSet(Getters) /\ InWorkflow \subseteq Getters

NotYet == NumSets + 1  \* no result yet; 0 is None, after a timeout
Sets == 1..NumSets

VARIABLES event,     \* the row of workflow_events, 0 if there is none
          history,   \* rows of workflow_events_history by function_id
          sets,      \* sets that are steps recorded in operation_outputs
          setter,    \* the next set of the running workflow
          got,       \* what a getter's workflow has recorded for it
          getter,    \* program counter, condition and result of each call
          entry,     \* workflow_events_map: condition and count
          listener   \* the listener thread: mode, notifications, condition in hand

eventVars == <<event, history, sets, setter, got, getter, entry, listener>>
setterVars == <<event, history, sets, setter>>

Locking == {"peek", "timer", "final"}
Waiting == {"wait", "signalled"}
Using == Locking \cup Waiting \cup {"acquire"}

IdleGetter == [pc |-> "idle", cond |-> NoGetter, result |-> NotYet]
NoEntry == [cond |-> NoGetter, count |-> 0]
IdleListener(polls) == [polls |-> polls, pending |-> 0, hand |-> NoGetter]

EventInit ==
  /\ event = 0 /\ history = {} /\ sets = {} /\ setter = 1
  /\ got = [g \in Getters |-> NotYet]
  /\ getter = [g \in Getters |-> IdleGetter]
  /\ entry = NoEntry
  /\ \E polls \in BOOLEAN : listener = IdleListener(polls)

-----------------------------------------------------------------------------
(* The workflow that sets the event.                                       *)

(* AFTER INSERT: an update of the row notifies nobody.                     *)
Notified ==
  IF event = 0 /\ ~listener.polls
  THEN [listener EXCEPT !.pending = @ + 1] ELSE listener

Upsert(n) ==
  /\ event' = n
  /\ history' = history \cup {n}
  /\ listener' = Notified

SkippedNever(n) == FALSE                                          \* faulty
Skipped(n) == n \in sets

(* set_event_from_workflow; db_retry repeats it if the acknowledgement is  *)
(* lost.                                                                   *)
SetFromWorkflow ==
  /\ setter \in Sets \ SetsInStep /\ ~Skipped(setter)
  /\ Upsert(setter)
  /\ sets' = sets \cup {setter}
  /\ setter' \in {setter, setter + 1}
  /\ UNCHANGED <<got, getter, entry>>

(* set_event_from_step: the step is recorded when its function returns,    *)
(* and executed again after a crash before that.                           *)
SetFromStep ==
  /\ setter \in SetsInStep /\ ~Skipped(setter)
  /\ Upsert(setter)
  /\ UNCHANGED <<sets, setter, got, getter, entry>>

RecordSet ==
  /\ setter \in SetsInStep /\ ~Skipped(setter) /\ setter \in history
  /\ sets' = sets \cup {setter}
  /\ UNCHANGED <<event, history, setter, got, getter, entry, listener>>

SkipSet ==
  /\ setter \in Sets /\ Skipped(setter)
  /\ setter' = setter + 1
  /\ UNCHANGED <<event, history, sets, got, getter, entry, listener>>

(* The workflow is recovered and executed from its start.                  *)
CrashSetter ==
  /\ setter' = 1
  /\ UNCHANGED <<event, history, sets, got, getter, entry, listener>>

-----------------------------------------------------------------------------
(* get_event                                                               *)

GetterGoes(g, pc) == getter' = [getter EXCEPT ![g].pc = pc]

(* Another thread holds the condition's lock.                              *)
FreeAlways(c) == TRUE                                             \* faulty
Free(c) == \A g \in Getters : ~(getter[g].cond = c /\ getter[g].pc \in Locking)

(* A recorded value is returned again, a recorded None raises.             *)
RecallNever(g) == NotYet                                          \* faulty
Recall(g) == got[g]

Call(g) ==
  /\ getter[g].pc = "idle"
  /\ getter' = [getter EXCEPT ![g] =
       CASE Recall(g) = NotYet -> [@ EXCEPT !.pc = "set"]
         [] Recall(g) = 0 -> [@ EXCEPT !.pc = "failed"]
         [] OTHER -> [@ EXCEPT !.pc = "done", !.result = Recall(g)]]
  /\ UNCHANGED <<setterVars, got, entry, listener>>

(* ThreadSafeConditionDict.set: the first call puts its own condition,     *)
(* locked, into the map; later ones are counted and use that one.          *)
SetCondition(g) ==
  /\ getter[g].pc = "set"
  /\ LET c == IF entry.count = 0 THEN g ELSE entry.cond
     IN /\ entry' = [cond |-> c, count |-> entry.count + 1]
        /\ getter' = [getter EXCEPT ![g].cond = c,
                                    ![g].pc = IF c = g THEN "peek" ELSE "acquire"]
  /\ UNCHANGED <<setterVars, got, listener>>

Acquire(g) ==
  /\ getter[g].pc = "acquire" /\ Free(getter[g].cond)
  /\ GetterGoes(g, "peek")
  /\ UNCHANGED <<setterVars, got, entry, listener>>

Released(g, value) == [getter EXCEPT ![g].pc = "pop", ![g].result = value]

(* The condition is released at once if there is a value.                  *)
Peek(g) ==
  /\ getter[g].pc = "peek"
  /\ IF event = 0 THEN GetterGoes(g, "timer") ELSE getter' = Released(g, event)
  /\ UNCHANGED <<setterVars, got, entry, listener>>

(* sleep records the end of the timeout; condition.wait gives up the lock. *)
Wait(g) ==
  /\ getter[g].pc = "timer"
  /\ GetterGoes(g, "wait")
  /\ UNCHANGED <<setterVars, got, entry, listener>>

TimeOut(g) ==
  /\ getter[g].pc = "wait"
  /\ GetterGoes(g, "signalled")
  /\ UNCHANGED <<setterVars, got, entry, listener>>

Wake(g) ==
  /\ getter[g].pc = "signalled" /\ Free(getter[g].cond)
  /\ GetterGoes(g, "final")
  /\ UNCHANGED <<setterVars, got, entry, listener>>

ReadEvent(g) ==
  /\ getter[g].pc = "final"
  /\ getter' = Released(g, event)
  /\ UNCHANGED <<setterVars, got, entry, listener>>

(* ThreadSafeConditionDict.pop: the last user removes the key.             *)
PoppedAll == NoEntry                                              \* faulty
Popped == IF entry.count > 1 THEN [entry EXCEPT !.count = @ - 1] ELSE NoEntry

Pop(g) ==
  /\ getter[g].pc = "pop"
  /\ entry' = Popped
  /\ GetterGoes(g, IF g \in InWorkflow THEN "record" ELSE "done")
  /\ UNCHANGED <<setterVars, got, listener>>

RecordGet(g) ==
  /\ getter[g].pc = "record"
  /\ got' = [got EXCEPT ![g] = IF @ = NotYet THEN getter[g].result ELSE @]
  /\ GetterGoes(g, "done")
  /\ UNCHANGED <<setterVars, entry, listener>>

-----------------------------------------------------------------------------
(* The listener thread, which LISTENs or polls the keys of the map.        *)

Poll ==
  /\ listener.polls /\ listener.pending = 0
  /\ entry.count > 0 /\ event # 0
  /\ listener' = [listener EXCEPT !.pending = 1]
  /\ UNCHANGED <<setterVars, got, getter, entry>>

Receive ==
  /\ listener.pending > 0 /\ listener.hand = NoGetter
  /\ listener' = [listener EXCEPT !.pending = @ - 1, !.hand = entry.cond]
  /\ UNCHANGED <<setterVars, got, getter, entry>>

(* acquire, notify_all, release                                            *)
Signal ==
  LET c == listener.hand
  IN /\ c # NoGetter /\ Free(c)
     /\ listener' = [listener EXCEPT !.hand = NoGetter]
     /\ getter' = [g \in Getters |->
          IF getter[g].cond = c /\ getter[g].pc = "wait"
          THEN [getter[g] EXCEPT !.pc = "signalled"] ELSE getter[g]]
     /\ UNCHANGED <<setterVars, got, entry>>

(* The getters' process is killed and started again.                       *)
CrashGetters ==
  /\ getter' = [g \in Getters |-> IdleGetter]
  /\ entry' = NoEntry
  /\ listener' = IdleListener(listener.polls)
  /\ UNCHANGED <<setterVars, got>>

-----------------------------------------------------------------------------
GetterStep(g) ==
  \/ Call(g) \/ SetCondition(g) \/ Acquire(g) \/ Peek(g) \/ Wait(g)
  \/ Wake(g) \/ ReadEvent(g) \/ Pop(g) \/ RecordGet(g)

Listen == Poll \/ Receive \/ Signal

EventNext ==
  \/ SetFromWorkflow \/ SetFromStep \/ RecordSet \/ SkipSet \/ CrashSetter
  \/ \E g \in Getters : GetterStep(g) \/ TimeOut(g)
  \/ Listen \/ CrashGetters

(* Threads run.  Nothing is assumed of the setter, of crashes and of       *)
(* timeouts, which may be as long as one likes.                            *)
EventFairness ==
  /\ \A g \in Getters : WF_eventVars(GetterStep(g))
  /\ WF_eventVars(Listen)

EventSpec == EventInit /\ [][EventNext]_eventVars

-----------------------------------------------------------------------------
(* The value of an event never goes back to that of an earlier set_event,  *)
(* although a recovered workflow executes all of them again, and it is the *)
(* newest value of the history fork copies from.                           *)
EventForwardStep ==
  /\ event' >= event
  /\ \A n \in history' : n <= event'

EventForward == [][EventForwardStep]_eventVars

(* The calls of a key agree: it is in the map exactly while calls use it,  *)
(* all of them with the condition that is in the map, so that a signal     *)
(* reaches them all; and what a workflow recorded for its call is what     *)
(* every execution of it goes on with, although the event has changed.     *)
ConditionShared ==
  LET users == {g \in Getters : getter[g].pc \in Using \cup {"pop"}}
  IN /\ entry.count = Cardinality(users)
     /\ \A g \in users : getter[g].cond = entry.cond

GetRepeats ==
  \A g \in InWorkflow :
    getter[g].pc = "done" => getter[g].result = got[g]

GettersAgree == ConditionShared /\ GetRepeats

(* A get_event that waits for an event that is there is woken without its  *)
(* timeout.                                                                *)
EventDelivered ==
  \A g \in Getters : getter[g].pc = "wait" /\ event # 0 ~> getter[g].pc # "wait"
=============================================================================
