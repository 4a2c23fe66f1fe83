------------------------------- MODULE Messages -------------------------------
(***************************************************************************)
(* DBOS.send and DBOS.recv: workflows send messages on one topic to one    *)
(* destination workflow, which calls recv NumRecvs times.                  *)
(*                                                                         *)
(* inbox is the destination's part of the table notifications.  A recv     *)
(* puts a condition variable into the notifications_map of its process,    *)
(* looks into the inbox, waits until the listener thread of the process    *)
(* signals the condition or the (durable) timeout is over, and consumes    *)
(* the oldest message in the transaction that records its result.  The     *)
(* listener gets a NOTIFY for every committed message, or polls.           *)
(*                                                                         *)
(* Notifications of other topics and workflows have other keys and other   *)
(* conditions.  A definition marked "faulty" is a plausible mistake in the *)
(* one after it, used only to see that a property would notice it.         *)
(***************************************************************************)
EXTENDS Naturals, FiniteSets

CONSTANTS Executors,
          Runs,         \* executions of the destination workflow
          NumRecvs,
          Msgs,         \* messages, each the payload of one send
          After,        \* the message sent before it by the same workflow, or NoMsg
          MaxAttempts,  \* bound: attempts to send
          MaxTime,      \* bound: values of the clock, as it is rounded
          Env,
          NoMsg, NoCond, NoExecutor, NotYet, TimedOut

EnvEvents == {"twin",        \* a send may be executed by two runs of its workflow
              "second",      \* an executor may have two runs of the destination
              "crash",       \* executors of the destination crash and are restarted
              "drop",        \* the transaction of a send may fail and be retried
              "disconnect",  \* a listener may lose its connection
              "lost"}        \* recv may commit without learning of it

Recvs == 1..NumRecvs
Conds == Runs \X Recvs       \* a recv makes a condition of its own

ASSUME RecvsAssumption == NumRecvs \in Nat \ {0} /\ {MaxAttempts, MaxTime} \subseteq Nat
ASSUME SetsAssumption == Env \subseteq EnvEvents
ASSUME AfterAssumption == After \in [Msgs -> Msgs \cup {NoMsg}]
ASSUME NoneAssumption ==
  /\ NoMsg \notin Msgs /\ NoExecutor \notin Executors /\ NoCond \notin Conds
  /\ NotYet \notin Msgs /\ TimedOut \notin Msgs /\ NotYet # TimedOut

VARIABLES inbox,     \* notifications: message, message_uuid and created_at
          flying,    \* transactions of sends that have begun
          sent,      \* sends recorded in operation_outputs of their workflow
          attempts,  \* to send, counted
          sentAt,    \* history: created_at of what was sent
          out,       \* what the destination has recorded for each recv
          run,       \* the destination's executions
          map,       \* notifications_map of each executor: condition and count
          listener,  \* notifications on their way and the condition in hand
          missed,    \* history: executors that lost a notification
          overlap    \* history: a workflow was executed by two runs at once

vars == <<inbox, flying, sent, attempts, sentAt, out, run, map, listener,
          missed, overlap>>

Results == Msgs \cup {TimedOut}
Times == 1..MaxTime
Never == 0
Rows == [msg : Msgs, id : 1..MaxAttempts, created : Times]

(* Lock: the run holds its condition's lock.                               *)
Locking == {"peek", "timer", "woken"}
PCs == Locking \cup {"idle", "check", "set", "clash", "wait", "consume",
                     "await", "failed", "done"}
Ended == {"idle", "await", "failed", "done"}

RunStates == [pc : PCs, at : Executors \cup {NoExecutor}, recv : 1..NumRecvs + 1,
              got : [Recvs -> Results \cup {NotYet}]]

IdleRun == [pc |-> "idle", at |-> NoExecutor, recv |-> 1,
            got |-> [k \in Recvs |-> NotYet]]

Entries == [cond : Conds \cup {NoCond}, count : Nat]
NoEntry == [cond |-> NoCond, count |-> 0]

(* polls: the listener polls (use_listen_notify is off).                   *)
Listeners == [polls : BOOLEAN, pending : Nat, hand : Conds \cup {NoCond},
              connected : BOOLEAN]
IdleListener(polls) ==
  [polls |-> polls, pending |-> 0, hand |-> NoCond, connected |-> TRUE]

TypeOK ==
  /\ inbox \subseteq Rows
  /\ flying \subseteq Rows
  /\ sent \subseteq Msgs
  /\ attempts \in 0..MaxAttempts
  /\ sentAt \in [Msgs -> Times \cup {Never}]
  /\ out \in [Recvs -> Results \cup {NotYet}]
  /\ run \in [Runs -> RunStates]
  /\ map \in [Executors -> Entries]
  /\ listener \in [Executors -> Listeners]
  /\ missed \subseteq Executors
  /\ overlap \in BOOLEAN

Init ==
  /\ inbox = {} /\ flying = {} /\ sent = {} /\ attempts = 0
  /\ sentAt = [m \in Msgs |-> Never]
  /\ out = [k \in Recvs |-> NotYet]
  /\ run = [r \in Runs |-> IdleRun]
  /\ map = [e \in Executors |-> NoEntry]
  /\ \E polls \in [Executors -> BOOLEAN] :
       listener = [e \in Executors |-> IdleListener(polls[e])]
  /\ missed = {} /\ overlap = FALSE

Sending == <<inbox, flying, sent, attempts, sentAt>>
Receiving == <<out, run, map>>

-----------------------------------------------------------------------------
(* send: one transaction that checks, inserts the message and records the  *)
(* step.  The created_at of the message is what the database's clock says  *)
(* when the transaction starts, in milliseconds or, by SQLite with an      *)
(* older Python, in seconds: two sends may find the same time, and a clock *)
(* that is set back an earlier one.  message_uuid is random and unique.    *)

InFlight(m) == {x \in flying : x.msg = m}

SentNever(m) == FALSE                                             \* faulty
Sent(m) == m \in sent

BeginSend(m) ==
  /\ attempts < MaxAttempts
  /\ ~Sent(m) /\ (After[m] = NoMsg \/ After[m] \in sent)
  /\ InFlight(m) = {} \/ ("twin" \in Env /\ Cardinality(InFlight(m)) = 1)
  /\ attempts' = attempts + 1
  /\ \E t \in Times :
       flying' = flying \cup {[msg |-> m, id |-> attempts + 1, created |-> t]}
  /\ overlap' = (overlap \/ InFlight(m) # {})
  /\ UNCHANGED <<inbox, sent, sentAt, Receiving, listener, missed>>

(* The record finds a row if another run was faster, and does nothing.     *)
CommitSend(x) ==
  /\ x \in flying
  /\ flying' = flying \ {x}
  /\ inbox' = inbox \cup {x}
  /\ sent' = sent \cup {x.msg}
  /\ sentAt' = [sentAt EXCEPT ![x.msg] = x.created]
  /\ listener' = [e \in Executors |->
       IF ~listener[e].polls /\ listener[e].connected
       THEN [listener[e] EXCEPT !.pending = @ + 1] ELSE listener[e]]
  /\ missed' = missed \cup {e \in Executors : ~listener[e].polls /\ ~listener[e].connected}
  /\ UNCHANGED <<attempts, Receiving, overlap>>

FailSend(x) ==
  /\ "drop" \in Env
  /\ x \in flying
  /\ flying' = flying \ {x}
  /\ UNCHANGED <<inbox, sent, attempts, sentAt, Receiving, listener, missed, overlap>>

-----------------------------------------------------------------------------
(* recv                                                                    *)

Goto(r, pc) == run' = [run EXCEPT ![r].pc = pc]
CondOf(r) == <<r, run[r].recv>>

(* The recv is over and the workflow calls the next one.                   *)
Got(r, result) ==
  LET k == run[r].recv
  IN run' = [run EXCEPT ![r].got[k] = result, ![r].recv = k + 1,
                        ![r].pc = IF k = NumRecvs THEN "done" ELSE "check"]

StartRun(r, e) ==
  /\ run[r].pc = "idle"
  /\ \A q \in Runs :
       run[q].pc \in Ended \/ ("second" \in Env /\ run[q].at = e)
  /\ run' = [run EXCEPT ![r] = [IdleRun EXCEPT !.pc = "check", !.at = e]]
  /\ overlap' = (overlap \/ \E q \in Runs : run[q].pc \notin Ended)
  /\ UNCHANGED <<Sending, out, map, listener, missed>>

(* A recorded message is returned again; a recorded timeout has output     *)
(* NULL and raises "No output recorded in the last recv".                  *)
RecordedNever(k) == NotYet                                        \* faulty
Recorded(k) == out[k]

Check(r) ==
  LET recorded == Recorded(run[r].recv)
  IN /\ run[r].pc = "check"
     /\ CASE recorded = NotYet -> Goto(r, "set")
          [] recorded = TimedOut -> Goto(r, "failed")
          [] OTHER -> Got(r, recorded)
     /\ UNCHANGED <<Sending, out, map, listener, missed, overlap>>

(* ThreadSafeConditionDict.set, with the new condition's lock held.  If    *)
(* the key is taken its count still goes up, and the finally clause takes  *)
(* it down again before the conflict is reported.                          *)
SetCondition(r) ==
  LET e == run[r].at
  IN /\ run[r].pc = "set"
     /\ IF map[e].count = 0
        THEN /\ map' = [map EXCEPT ![e] = [cond |-> CondOf(r), count |-> 1]]
             /\ Goto(r, "peek")
        ELSE /\ map' = [map EXCEPT ![e].count = @ + 1]
             /\ Goto(r, "clash")
     /\ UNCHANGED <<Sending, out, listener, missed, overlap>>

Peek(r) ==
  /\ run[r].pc = "peek"
  /\ Goto(r, IF inbox = {} THEN "timer" ELSE "woken")
  /\ UNCHANGED <<Sending, out, map, listener, missed, overlap>>

(* sleep(skip_sleep=True) finds or records when the timeout ends, which is *)
(* any time here; then condition.wait gives up the lock.                   *)
SetTimer(r) ==
  /\ run[r].pc = "timer"
  /\ Goto(r, "wait")
  /\ UNCHANGED <<Sending, out, map, listener, missed, overlap>>

TimeOut(r) ==
  /\ run[r].pc = "wait"
  /\ Goto(r, "woken")
  /\ UNCHANGED <<Sending, out, map, listener, missed, overlap>>

(* The finally clause: release the lock and pop the key.                   *)
Popped(entry) ==
  IF entry.count > 1 THEN [entry EXCEPT !.count = @ - 1] ELSE NoEntry

Pop(r) ==
  /\ run[r].pc \in {"woken", "clash"}
  /\ map' = [map EXCEPT ![run[r].at] = Popped(@)]
  /\ Goto(r, IF run[r].pc = "woken" THEN "consume" ELSE "await")
  /\ UNCHANGED <<Sending, out, listener, missed, overlap>>

NewestRow(x) == x \in inbox /\ \A y \in inbox : y.created <= x.created      \* faulty
OldestRow(x) == x \in inbox /\ \A y \in inbox : x.created <= y.created

(* Whatever woke the recv, it deletes the oldest message if there is one,  *)
(* any of them if several are as old, and records it, or a timeout; a row  *)
(* already recorded stays as it is.                                        *)
RecordFirst(k, result) == [out EXCEPT ![k] = IF @ = NotYet THEN result ELSE @]

Consume(r) ==
  LET k == run[r].recv
  IN /\ run[r].pc = "consume"
     /\ \E result \in Results :
          /\ \/ inbox = {} /\ result = TimedOut /\ UNCHANGED inbox
             \/ \E x \in inbox : OldestRow(x) /\ result = x.msg /\ inbox' = inbox \ {x}
          /\ out' = RecordFirst(k, result)
          /\ Got(r, result) \/ ("lost" \in Env /\ Goto(r, "check"))
     /\ UNCHANGED <<flying, sent, attempts, sentAt, map, listener, missed, overlap>>

-----------------------------------------------------------------------------
(* The listener thread of an executor.                                     *)

(* Polling: a key in the map has a message in the table.                   *)
PollInbox(e) ==
  /\ listener[e].polls
  /\ map[e].count > 0 /\ inbox # {}
  /\ listener[e].pending = 0
  /\ listener' = [listener EXCEPT ![e].pending = 1]
  /\ UNCHANGED <<Sending, Receiving, missed, overlap>>

(* A notification is taken and its condition looked up.                    *)
Receive(e) ==
  /\ listener[e].pending > 0 /\ listener[e].hand = NoCond
  /\ listener' = [listener EXCEPT ![e].pending = @ - 1, ![e].hand = map[e].cond]
  /\ UNCHANGED <<Sending, Receiving, missed, overlap>>

(* condition.acquire waits for a run that holds the lock.                  *)
HeldNever(e, c) == FALSE                                          \* faulty
Held(e, c) ==
  \E r \in Runs : run[r].at = e /\ CondOf(r) = c /\ run[r].pc \in Locking

Signal(e) ==
  LET c == listener[e].hand
  IN /\ c # NoCond /\ ~Held(e, c)
     /\ listener' = [listener EXCEPT ![e].hand = NoCond]
     /\ run' = [r \in Runs |->
          IF run[r].at = e /\ CondOf(r) = c /\ run[r].pc = "wait"
          THEN [run[r] EXCEPT !.pc = "woken"] ELSE run[r]]
     /\ UNCHANGED <<Sending, out, map, missed, overlap>>

Disconnect(e) ==
  /\ "disconnect" \in Env
  /\ ~listener[e].polls /\ listener[e].connected /\ listener[e].hand = NoCond
  /\ listener' = [listener EXCEPT ![e].connected = FALSE, ![e].pending = 0]
  /\ missed' = IF listener[e].pending > 0 THEN missed \cup {e} ELSE missed
  /\ UNCHANGED <<Sending, Receiving, overlap>>

Reconnect(e) ==
  /\ ~listener[e].connected
  /\ listener' = [listener EXCEPT ![e].connected = TRUE]
  /\ UNCHANGED <<Sending, Receiving, missed, overlap>>

-----------------------------------------------------------------------------
(* The process is killed and started again; the runs it had are started  *)
(* again by a recovery.                                                    *)
Crash(e) ==
  /\ "crash" \in Env
  /\ run' = [r \in Runs |-> IF run[r].at = e THEN IdleRun ELSE run[r]]
  /\ map' = [map EXCEPT ![e] = NoEntry]
  /\ listener' = [listener EXCEPT ![e] = IdleListener(listener[e].polls)]
  /\ missed' = missed \ {e}
  /\ UNCHANGED <<Sending, out, overlap>>

-----------------------------------------------------------------------------
Step(r) ==
  \/ Check(r) \/ SetCondition(r) \/ Peek(r) \/ SetTimer(r) \/ Pop(r) \/ Consume(r)

Listen(e) == PollInbox(e) \/ Receive(e) \/ Signal(e) \/ Reconnect(e)

Next ==
  \/ \E m \in Msgs : BeginSend(m)
  \/ \E x \in flying : CommitSend(x) \/ FailSend(x)
  \/ \E r \in Runs : Step(r) \/ TimeOut(r) \/ \E e \in Executors : StartRun(r, e)
  \/ \E e \in Executors : Listen(e) \/ Disconnect(e) \/ Crash(e)

Spec == Init /\ [][Next]_vars

(* Threads run.  No fairness of TimeOut: a timeout may be as long as one    *)
(* likes, and what is promised does not depend on it.                      *)
FairSpec ==
  /\ Spec
  /\ \A r \in Runs : WF_vars(Step(r))
  /\ \A e \in Executors : WF_vars(Listen(e))

-----------------------------------------------------------------------------
Count(m) ==
  Cardinality({x \in inbox : x.msg = m}) + Cardinality({k \in Recvs : out[k] = m})

(* A message that was sent is in the inbox or was received, once, whatever *)
(* is retried, crashes or replays ("sent and received with exactly-once    *)
(* semantics", README.md:207).                                             *)
ExactlyOnce ==
  ~overlap => \A m \in Msgs : Count(m) = IF m \in sent THEN 1 ELSE 0

(* Of two messages sent one after the other by one workflow the first is   *)
(* received first, if the clock has told them apart: recv sorts by         *)
(* created_at_epoch_ms and by nothing else, so messages of the same        *)
(* millisecond come in any order.                                          *)
SenderOrder ==
  ~overlap => \A m \in Msgs, k \in Recvs :
    out[k] = m /\ After[m] # NoMsg /\ sentAt[After[m]] < sentAt[m] =>
      \E j \in 1..(k - 1) : out[j] = After[m]

(* A run continues with what is recorded of its earlier recvs.             *)
ReplayAgrees ==
  ~overlap => \A r \in Runs : \A k \in Recvs :
    run[r].got[k] # NotYet => run[r].got[k] = out[k]

(* The map has an entry exactly while a recv of the process is between set *)
(* and pop, and the condition in it is that run's, so that a signal for    *)
(* the key reaches the run that waits (ThreadSafeConditionDict).           *)
MapExact ==
  \A e \in Executors :
    LET using == {r \in Runs : run[r].at = e /\ run[r].pc \in Locking \cup {"wait", "clash"}}
    IN /\ map[e].count = Cardinality(using)
       /\ \A r \in using : run[r].pc # "clash" => map[e].cond = CondOf(r)

(* A recv does not sleep on a message that is there: unless the listener   *)
(* lost its connection, a notification is on its way or the condition is   *)
(* in the listener's hand (the lock is taken before the key is set).       *)
NoLostWakeup ==
  \A r \in Runs :
    LET e == run[r].at
    IN run[r].pc = "wait" /\ inbox # {} /\ e \notin missed /\ ~listener[e].polls
         => listener[e].pending > 0 \/ listener[e].hand = CondOf(r)

(* Signals alone end the wait for a message nobody else takes, also with a *)
(* listener that polls.                                                    *)
Delivered ==
  [](missed = {}) =>
    \A r \in Runs :
      (run[r].pc = "wait" /\ inbox # {}) ~> (run[r].pc # "wait" \/ inbox = {})

(* A workflow that is executed again resumes after the recvs it has        *)
(* recorded ("when it restarts all your workflows will automatically       *)
(* resume from the last completed step", README.md:42).                    *)
ReplayResumes == \A r \in Runs : run[r].pc # "failed"
=============================================================================
