---------------------------- MODULE Messages_proofs ----------------------------
(***************************************************************************)
(* Proofs about Messages for any executors, executions, messages and       *)
(* numbers of recvs.                                                       *)
(***************************************************************************)
EXTENDS Messages, FiniteSetTheorems, TLAPS

(* A run that is executing has a process and a recv to make.               *)
Executing(r) == run[r].pc \notin Ended
Placed == \A r \in Runs : Executing(r) => run[r].at \in Executors /\ run[r].recv \in Recvs
TypeInv == TypeOK /\ Placed

Assumptions ==
  /\ NumRecvs \in Nat \ {0} /\ MaxAttempts \in Nat /\ MaxTime \in Nat
  /\ After \in [Msgs -> Msgs \cup {NoMsg}]
  /\ NoMsg \notin Msgs /\ NoExecutor \notin Executors /\ NoCond \notin Conds
  /\ NotYet \notin Msgs /\ TimedOut \notin Msgs /\ NotYet # TimedOut
LEMMA AssumptionsHold == Assumptions
BY RecvsAssumption, AfterAssumption, NoneAssumption DEF Assumptions

-----------------------------------------------------------------------------
LEMMA IdleType == IdleRun \in RunStates /\ IdleRun.pc = "idle" /\ IdleRun.recv = 1
BY AssumptionsHold DEF Assumptions, IdleRun, RunStates, PCs, Locking, Recvs, Results

LEMMA EntryType ==
  /\ NoEntry \in Entries
  /\ \A entry \in Entries : Popped(entry) \in Entries
BY DEF NoEntry, Entries, Popped

LEMMA ListenerType == \A polls \in BOOLEAN : IdleListener(polls) \in Listeners
BY DEF IdleListener, Listeners

LEMMA TypeInit == Init => TypeInv
<1> SUFFICES ASSUME Init PROVE TypeInv
  OBVIOUS
<1>1. listener \in [Executors -> Listeners]
  BY ListenerType DEF Init
<1>2. run \in [Runs -> RunStates] /\ map \in [Executors -> Entries] /\ Placed
  BY IdleType, EntryType DEF Init, Placed, Executing, Ended
<1>3. attempts \in 0..MaxAttempts /\ sentAt \in [Msgs -> Times \cup {Never}]
      /\ out \in [Recvs -> Results \cup {NotYet}]
  BY AssumptionsHold DEF Assumptions, Init
<1>4. inbox \subseteq Rows /\ flying \subseteq Rows /\ sent \subseteq Msgs
      /\ missed \subseteq Executors /\ overlap \in BOOLEAN
  BY DEF Init
<1>5. QED BY <1>1, <1>2, <1>3, <1>4 DEF TypeInv, TypeOK

(* A step of a run that stays in its recv, or leaves the workflow.         *)
LEMMA GotoType ==
  ASSUME TypeInv, NEW r \in Runs, NEW pc \in PCs, Goto(r, pc),
         pc \in Ended \/ Executing(r)
  PROVE  run' \in [Runs -> RunStates] /\ Placed'
BY DEF TypeInv, TypeOK, Placed, Executing, RunStates, Goto

LEMMA GotType ==
  ASSUME TypeInv, NEW r \in Runs, NEW result \in Results, Got(r, result), Executing(r)
  PROVE  run' \in [Runs -> RunStates] /\ Placed'
<1> DEFINE k == run[r].recv
           new == [run[r] EXCEPT !.got = [run[r].got EXCEPT ![k] = result], !.recv = k + 1,
                                 !.pc = IF k = NumRecvs THEN "done" ELSE "check"]
<1>1. k \in Recvs /\ run[r] \in RunStates
  BY DEF TypeInv, TypeOK, Placed
<1>2. run' = [run EXCEPT ![r] = new]
  BY DEF Got, TypeInv, TypeOK, RunStates
<1>3. new \in RunStates /\ (new.pc \notin Ended => new.recv \in Recvs /\ new.at = run[r].at)
  <2>1. [run[r].got EXCEPT ![k] = result] \in [Recvs -> Results \cup {NotYet}]
    BY <1>1 DEF RunStates
  <2>2. k + 1 \in 1..NumRecvs + 1 /\ (k # NumRecvs => k + 1 \in Recvs)
    BY <1>1, AssumptionsHold DEF Assumptions, Recvs
  <2>3. QED BY <1>1, <2>1, <2>2 DEF RunStates, PCs, Ended
<1> HIDE DEF new
<1>4. QED BY <1>2, <1>3 DEF TypeInv, TypeOK, Placed, Executing

LEMMA TypeNext ==
  ASSUME TypeInv, [Next]_vars
  PROVE  TypeInv'
<1> USE AssumptionsHold DEF TypeInv, Assumptions
<1>1. ASSUME NEW m \in Msgs, BeginSend(m)
      PROVE  TypeInv'
  BY <1>1 DEF BeginSend, Receiving, TypeOK, Placed, Executing, Rows
<1>2. ASSUME NEW x \in flying, CommitSend(x) \/ FailSend(x)
      PROVE  TypeInv'
  <2>1. CASE CommitSend(x)
    <3>1. x \in Rows /\ x.msg \in Msgs
      BY DEF TypeOK, Rows
    <3>2. listener' \in [Executors -> Listeners]
      BY <2>1, SMTT(20) DEF CommitSend, TypeOK, Listeners
    <3>3. sentAt' \in [Msgs -> Times \cup {Never}]
      BY <2>1, <3>1 DEF CommitSend, TypeOK, Rows
    <3>4. QED BY <2>1, <3>1, <3>2, <3>3 DEF CommitSend, Receiving, TypeOK, Placed, Executing
  <2>2. CASE FailSend(x)
    BY <2>2 DEF FailSend, Receiving, TypeOK, Placed, Executing
  <2>3. QED BY <1>2, <2>1, <2>2
<1>3. ASSUME NEW r \in Runs, Step(r)
      PROVE  TypeInv'
  <2>1. CASE Check(r)
    <3>1. Executing(r) /\ run[r].recv \in Recvs
      BY <2>1 DEF Check, Placed, Executing, Ended
    <3>2. out[run[r].recv] \in Results \cup {NotYet}
      BY <3>1 DEF TypeOK
    <3>3. \/ Goto(r, "set") \/ Goto(r, "failed")
          \/ out[run[r].recv] \in Results /\ Got(r, out[run[r].recv])
      BY <2>1, <3>2 DEF Check, Recorded
    <3>4. run' \in [Runs -> RunStates] /\ Placed'
      BY <3>1, <3>3, GotoType, GotType DEF PCs, Ended
    <3>5. QED BY <2>1, <3>4 DEF Check, Sending, TypeOK
  <2>2. CASE SetCondition(r)
    <3>1. Executing(r) /\ run[r].recv \in Recvs /\ run[r].at \in Executors
      BY <2>2 DEF SetCondition, Placed, Executing, Ended
    <3>2. run' \in [Runs -> RunStates] /\ Placed'
      BY <2>2, <3>1, GotoType DEF SetCondition, PCs, Locking
    <3>3. CondOf(r) \in Conds
      BY <3>1 DEF CondOf, Conds
    <3>4. map' \in [Executors -> Entries]
      BY <2>2, <3>1, <3>3 DEF SetCondition, TypeOK, Entries
    <3>5. QED BY <2>2, <3>2, <3>4 DEF SetCondition, Sending, TypeOK
  <2>3. CASE Peek(r) \/ SetTimer(r)
    <3>1. Executing(r)
      BY <2>3 DEF Peek, SetTimer, Executing, Ended
    <3>2. run' \in [Runs -> RunStates] /\ Placed'
      BY <2>3, <3>1, GotoType DEF Peek, SetTimer, PCs, Locking
    <3>3. QED BY <2>3, <3>2 DEF Peek, SetTimer, Sending, TypeOK
  <2>4. CASE Pop(r)
    <3>1. Executing(r) /\ run[r].at \in Executors
      BY <2>4 DEF Pop, Placed, Executing, Ended
    <3>2. run' \in [Runs -> RunStates] /\ Placed'
      BY <2>4, <3>1, GotoType DEF Pop, PCs, Ended
    <3>3. map' \in [Executors -> Entries]
      BY <2>4, <3>1, EntryType DEF Pop, TypeOK
    <3>4. QED BY <2>4, <3>2, <3>3 DEF Pop, Sending, TypeOK
  <2>5. CASE Consume(r)
    <3>1. Executing(r) /\ run[r].recv \in Recvs
      BY <2>5 DEF Consume, Placed, Executing, Ended
    <3>2. PICK result \in Results :
            /\ inbox' \subseteq inbox
            /\ out' = RecordFirst(run[r].recv, result)
            /\ Got(r, result) \/ Goto(r, "check")
      BY <2>5 DEF Consume
    <3>3. run' \in [Runs -> RunStates] /\ Placed'
      BY <3>1, <3>2, GotoType, GotType DEF PCs
    <3>4. out' \in [Recvs -> Results \cup {NotYet}]
      BY <3>1, <3>2 DEF RecordFirst, TypeOK
    <3>5. QED BY <2>5, <3>2, <3>3, <3>4 DEF Consume, TypeOK
  <2>6. QED BY <1>3, <2>1, <2>2, <2>3, <2>4, <2>5 DEF Step
<1>4. ASSUME NEW r \in Runs, TimeOut(r)
      PROVE  TypeInv'
  <2>1. run' \in [Runs -> RunStates] /\ Placed'
    BY <1>4, GotoType DEF TimeOut, Executing, Ended, PCs, Locking
  <2>2. QED BY <1>4, <2>1 DEF TimeOut, Sending, TypeOK
<1>5. ASSUME NEW r \in Runs, NEW e \in Executors, StartRun(r, e)
      PROVE  TypeInv'
  <2> DEFINE new == [IdleRun EXCEPT !.pc = "check", !.at = e]
  <2>0. 1 \in Recvs
    BY DEF Recvs
  <2>1. new \in RunStates /\ new.at = e /\ new.recv \in Recvs
    BY <2>0, IdleType DEF RunStates, PCs
  <2>2. run' = [run EXCEPT ![r] = new]
    BY <1>5 DEF StartRun
  <2> HIDE DEF new
  <2>3. QED BY <1>5, <2>1, <2>2 DEF StartRun, Sending, TypeOK, Placed, Executing
<1>6. ASSUME NEW e \in Executors, Signal(e)
      PROVE  TypeInv'
  <2>1. run' \in [Runs -> RunStates] /\ Placed'
    BY <1>6, SMTT(20) DEF Signal, TypeOK, RunStates, PCs, Locking, Placed, Executing, Ended
  <2>2. listener' \in [Executors -> Listeners]
    BY <1>6 DEF Signal, TypeOK, Listeners
  <2>3. QED BY <1>6, <2>1, <2>2 DEF Signal, Sending, TypeOK
<1>7. ASSUME NEW e \in Executors, PollInbox(e) \/ Receive(e) \/ Reconnect(e) \/ Disconnect(e)
      PROVE  TypeInv'
  <2>1. listener' \in [Executors -> Listeners]
    <3> listener[e] \in Listeners /\ map[e].cond \in Conds \cup {NoCond}
      BY DEF TypeOK, Entries
    <3>1. PICK new \in Listeners : listener' = [listener EXCEPT ![e] = new]
      <4>1. CASE PollInbox(e)
        <5>1. [listener[e] EXCEPT !.pending = 1] \in Listeners
          BY <4>1 DEF PollInbox, Listeners
        <5>2. QED BY <4>1, <5>1 DEF PollInbox
      <4>2. CASE Reconnect(e)
        <5>1. [listener[e] EXCEPT !.connected = TRUE] \in Listeners
          BY <4>2 DEF Reconnect, Listeners
        <5>2. QED BY <4>2, <5>1 DEF Reconnect
      <4>3. CASE Disconnect(e)
        <5>1. [listener[e] EXCEPT !.connected = FALSE, !.pending = 0] \in Listeners
          BY <4>3 DEF Disconnect, Listeners
        <5>2. QED BY <4>3, <5>1 DEF Disconnect
      <4>4. CASE Receive(e)
        <5> DEFINE pending == listener[e].pending - 1
                   hand == map[e].cond
        <5>1. pending \in Nat
          BY <4>4 DEF Receive, Listeners
        <5>2. listener' = [listener EXCEPT ![e] =
                             [listener[e] EXCEPT !.pending = pending, !.hand = hand]]
          BY <4>4 DEF Receive
        <5> HIDE DEF pending
        <5>3. [listener[e] EXCEPT !.pending = pending, !.hand = hand] \in Listeners
          BY <5>1 DEF Listeners
        <5>4. QED BY <5>2, <5>3
      <4>5. QED BY <1>7, <4>1, <4>2, <4>3, <4>4
    <3>2. QED BY <3>1 DEF TypeOK
  <2>2. missed' \subseteq Executors
    BY <1>7 DEF PollInbox, Receive, Reconnect, Disconnect, TypeOK
  <2>3. QED
    BY <1>7, <2>1, <2>2
    DEF PollInbox, Receive, Reconnect, Disconnect, Sending, Receiving, TypeOK, Placed, Executing
<1>8. ASSUME NEW e \in Executors, Crash(e)
      PROVE  TypeInv'
  <2>1. run' \in [Runs -> RunStates] /\ Placed'
    BY <1>8, IdleType DEF Crash, TypeOK, Placed, Executing, Ended
  <2>2. listener' \in [Executors -> Listeners] /\ map' \in [Executors -> Entries]
    BY <1>8, ListenerType, EntryType DEF Crash, TypeOK, Listeners
  <2>3. QED BY <1>8, <2>1, <2>2 DEF Crash, Sending, TypeOK
<1>9. CASE UNCHANGED vars
  BY <1>9 DEF vars, TypeOK, Placed, Executing
<1>10. QED
  BY <1>1, <1>2, <1>3, <1>4, <1>5, <1>6, <1>7, <1>8, <1>9 DEF Next, Listen

(* The tables, the executions of the destination and the maps of all       *)
(* processes are what they should be.                                      *)
THEOREM MessagesTypeCorrect == Spec => []TypeInv
<1>1. TypeInv /\ [Next]_vars => TypeInv'
  BY TypeNext
<1>2. QED BY TypeInit, <1>1, PTL DEF Spec

-----------------------------------------------------------------------------
(* Delivery, while no workflow has been executed by two runs at once.      *)

(* A send that is under way is not recorded, and no other run makes it.    *)
Flights ==
  /\ \A x \in flying : x.msg \notin sent
  /\ \A x, y \in flying : x.msg = y.msg => x = y

(* One run executes the destination; until it consumes, nothing is         *)
(* recorded of its recv, and of those before it what it goes on with.      *)
Alone == \A r, q \in Runs : Executing(r) /\ Executing(q) => r = q
Before == {"set", "peek", "timer", "wait", "woken", "consume"}
Unrecorded == \A r \in Runs : run[r].pc \in Before => out[run[r].recv] = NotYet
Agree == \A r \in Runs : \A k \in Recvs : run[r].got[k] # NotYet => run[r].got[k] = out[k]
Complete ==
  \A r \in Runs : Executing(r) =>
    \A k \in Recvs : k < run[r].recv => run[r].got[k] # NotYet
Filled == \A j, k \in Recvs : j < k /\ out[k] # NotYet => out[j] # NotYet

(* ExactlyOnce without counting.                                           *)
InInbox(m) == \E x \in inbox : x.msg = m
Received(m) == \E k \in Recvs : out[k] = m
Once ==
  /\ \A x, y \in inbox : x.msg = y.msg => x = y
  /\ \A j, k \in Recvs : out[j] \in Msgs /\ out[j] = out[k] => j = k
  /\ \A m \in Msgs : InInbox(m) => ~Received(m)
  /\ \A m \in Msgs : m \in sent <=> InInbox(m) \/ Received(m)

(* A message is sent after the one before it was recorded, and the inbox   *)
(* has the times the messages were sent at.                                *)
Begun(m) == m \in sent \/ \E x \in flying : x.msg = m
Dated ==
  /\ \A m \in Msgs : Begun(m) /\ After[m] # NoMsg => After[m] \in sent
  /\ \A x \in inbox : x.created = sentAt[x.msg]
Follows(m) == After[m] # NoMsg /\ sentAt[After[m]] < sentAt[m]
InOrder ==
  \A m \in Msgs, k \in Recvs :
    out[k] = m /\ Follows(m) => \E j \in Recvs : j < k /\ out[j] = After[m]

RunsInv == Alone /\ Unrecorded /\ Agree /\ Complete
TablesInv == Filled /\ Once /\ InOrder
Delivery == Flights /\ RunsInv /\ TablesInv /\ Dated

-----------------------------------------------------------------------------
LEMMA DeliveryInit == Init => Delivery
<1> SUFFICES ASSUME Init PROVE Delivery
  OBVIOUS
<1>1. RunsInv
  BY DEF Init, RunsInv, Alone, Unrecorded, Agree, Complete, Executing, Ended, Before, IdleRun
<1>2. TablesInv
  BY AssumptionsHold
  DEF Assumptions, Init, TablesInv, Filled, Once, InInbox, Received, InOrder, Follows
<1>3. Flights /\ Dated
  BY DEF Init, Flights, Dated, Begun
<1>4. QED BY <1>1, <1>2, <1>3 DEF Delivery

(* A step that leaves the tables as they are.                              *)
LEMMA TablesStep ==
  ASSUME UNCHANGED <<inbox, flying, sent, attempts, sentAt, out>>
  PROVE  /\ Flights => Flights'
         /\ TablesInv => TablesInv'
         /\ Dated => Dated'
BY DEF Flights, TablesInv, Filled, Once, InInbox, Received, InOrder, Follows, Dated,
       Begun

(* A step within a recv: runs keep their place and what they have got.     *)
LEMMA RunsStep ==
  ASSUME TypeInv, RunsInv, out' = out,
         \A r \in Runs :
           /\ run'[r].recv = run[r].recv
           /\ run'[r].got = run[r].got
           /\ Executing(r)' => Executing(r)
           /\ run'[r].pc \in Before => run[r].pc \in Before \/ out[run[r].recv] = NotYet
  PROVE  RunsInv'
BY DEF RunsInv, Alone, Unrecorded, Agree, Complete

LEMMA WithinStep ==
  ASSUME TypeInv, Delivery, UNCHANGED <<inbox, flying, sent, attempts, sentAt, out>>,
         \A r \in Runs :
           /\ run'[r].recv = run[r].recv
           /\ run'[r].got = run[r].got
           /\ Executing(r)' => Executing(r)
           /\ run'[r].pc \in Before => run[r].pc \in Before \/ out[run[r].recv] = NotYet
  PROVE  Delivery'
<1>1. RunsInv'
  BY RunsStep DEF Delivery
<1>2. Flights' /\ TablesInv' /\ Dated'
  BY TablesStep DEF Delivery
<1>3. QED BY <1>1, <1>2 DEF Delivery

LEMMA GotIs ==
  ASSUME TypeInv, NEW r \in Runs, NEW result, Got(r, result), run[r].recv \in Recvs
  PROVE  /\ \A q \in Runs : q # r => run'[q] = run[q]
         /\ run'[r].got = [run[r].got EXCEPT ![run[r].recv] = result]
         /\ run'[r].recv = run[r].recv + 1
         /\ run'[r].pc \in {"done", "check"}
BY DEF Got, TypeInv, TypeOK, RunStates

-----------------------------------------------------------------------------
LEMMA SendStep ==
  ASSUME TypeInv, Delivery, ~overlap', NEW m \in Msgs, BeginSend(m)
  PROVE  Delivery'
<1> USE DEF TypeInv, TypeOK
<1> PICK t \in Times :
      flying' = flying \cup {[msg |-> m, id |-> attempts + 1, created |-> t]}
  BY DEF BeginSend
<1> DEFINE new == [msg |-> m, id |-> attempts + 1, created |-> t]
<1>1. /\ flying' = flying \cup {new}
      /\ UNCHANGED <<inbox, sent, sentAt, out, run>>
      /\ m \notin sent /\ (After[m] = NoMsg \/ After[m] \in sent)
      /\ \A x \in flying : x.msg # m
  BY DEF BeginSend, Receiving, Sent, InFlight
<1>2. new.msg = m
  OBVIOUS
<1> HIDE DEF new
<1>3. Flights'
  BY <1>1, <1>2 DEF Delivery, Flights
<1>4. RunsInv'
  BY <1>1, RunsStep DEF Delivery, Executing
<1>5. TablesInv'
  BY <1>1 DEF Delivery, TablesInv, Filled, Once, InInbox, Received, InOrder, Follows
<1>6. Dated'
  BY <1>1, <1>2 DEF Delivery, Dated, Begun
<1>7. QED BY <1>3, <1>4, <1>5, <1>6 DEF Delivery

LEMMA CommitStep ==
  ASSUME TypeInv, Delivery, NEW x \in flying, CommitSend(x) \/ FailSend(x)
  PROVE  Delivery'
<1> USE DEF TypeInv, TypeOK
<1>1. x.msg \in Msgs
  BY DEF Rows
<1>2. CASE CommitSend(x)
  <2>1. /\ flying' = flying \ {x} /\ inbox' = inbox \cup {x} /\ sent' = sent \cup {x.msg}
        /\ sentAt' = [sentAt EXCEPT ![x.msg] = x.created]
        /\ UNCHANGED <<out, run>>
    BY <1>2 DEF CommitSend, Receiving
  <2>2. x.msg \notin sent /\ ~InInbox(x.msg) /\ ~Received(x.msg)
    BY <1>1 DEF Delivery, Flights, TablesInv, Once
  <2>3. Flights'
    BY <2>1, <2>2 DEF Delivery, Flights
  <2>4. RunsInv'
    BY <2>1, RunsStep DEF Delivery, Executing
  <2>5. Once'
    <3>1. \A m : Received(m)' <=> Received(m)
      BY <2>1 DEF Received
    <3>2. \A m : InInbox(m)' <=> InInbox(m) \/ m = x.msg
      BY <2>1 DEF InInbox
    <3>3. \A y, z \in inbox' : y.msg = z.msg => y = z
      BY <2>1, <2>2 DEF Delivery, TablesInv, Once, InInbox
    <3>4. QED BY <2>1, <2>2, <3>1, <3>2, <3>3 DEF Delivery, TablesInv, Once
  <2>6. Filled' /\ InOrder'
    <3>1. Filled'
      BY <2>1 DEF Delivery, TablesInv, Filled
    <3>2. ASSUME NEW m \in Msgs, NEW k \in Recvs, out'[k] = m, Follows(m)'
          PROVE  \E j \in Recvs : j < k /\ out'[j] = After[m]
      <4>1. m \in sent /\ m # x.msg
        BY <2>1, <2>2, <3>2 DEF Delivery, TablesInv, Once, Received
      <4>2. After[m] \in sent /\ After[m] # x.msg
        BY <2>2, <3>2, <4>1 DEF Delivery, Dated, Begun, Follows
      <4>3. Follows(m)
        BY <2>1, <3>2, <4>1, <4>2 DEF Follows
      <4>4. QED BY <2>1, <3>2, <4>3 DEF Delivery, TablesInv, InOrder
    <3>3. QED BY <3>1, <3>2 DEF InOrder
  <2>7. Dated'
    <3>1. ASSUME NEW m \in Msgs, Begun(m)', After[m] # NoMsg
          PROVE  After[m] \in sent'
      <4>1. Begun(m)
        BY <2>1, <3>1 DEF Begun
      <4>2. QED BY <2>1, <3>1, <4>1 DEF Delivery, Dated
    <3>2. ASSUME NEW y \in inbox' PROVE y.created = sentAt'[y.msg]
      <4>1. CASE y = x
        BY <1>1, <2>1, <4>1
      <4>2. CASE y # x
        BY <2>1, <2>2, <4>2 DEF Delivery, Dated, InInbox
      <4>3. QED BY <4>1, <4>2
    <3>3. QED BY <3>1, <3>2 DEF Dated
  <2>8. QED BY <2>3, <2>4, <2>5, <2>6, <2>7 DEF Delivery, TablesInv
<1>3. CASE FailSend(x)
  <2>1. flying' = flying \ {x} /\ UNCHANGED <<inbox, sent, sentAt, out, run>>
    BY <1>3 DEF FailSend, Receiving
  <2>2. Flights' /\ Dated'
    BY <2>1 DEF Delivery, Flights, Dated, Begun
  <2>3. RunsInv'
    BY <2>1, RunsStep DEF Delivery, Executing
  <2>4. TablesInv'
    BY <2>1 DEF Delivery, TablesInv, Filled, Once, InInbox, Received, InOrder, Follows
  <2>5. QED BY <2>2, <2>3, <2>4 DEF Delivery
<1>4. QED BY <1>2, <1>3

LEMMA CheckStep ==
  ASSUME TypeInv, Delivery, NEW r \in Runs, Check(r)
  PROVE  Delivery'
<1> DEFINE k == run[r].recv
<1>1. run[r].pc = "check" /\ Executing(r) /\ k \in Recvs
  BY DEF Check, Executing, Ended, TypeInv, Placed
<1>2. UNCHANGED <<inbox, flying, sent, attempts, sentAt, out>>
  BY DEF Check, Sending
<1>3. CASE out[k] \in {NotYet, TimedOut}
  <2>1. Goto(r, IF out[k] = NotYet THEN "set" ELSE "failed")
    BY <1>3, AssumptionsHold DEF Check, Recorded, Assumptions
  <2>2. QED BY <1>1, <1>2, <2>1, WithinStep DEF Goto, TypeInv, TypeOK, RunStates, Executing,
                                               Ended, Before
<1>4. CASE out[k] \notin {NotYet, TimedOut}
  <2>1. Got(r, out[k])
    BY <1>4 DEF Check, Recorded
  <2>2. /\ \A q \in Runs : q # r => run'[q] = run[q]
        /\ run'[r].got = [run[r].got EXCEPT ![k] = out[k]]
        /\ run'[r].recv = k + 1
        /\ run'[r].pc \in {"done", "check"}
    BY <1>1, <2>1, GotIs
  <2>3. RunsInv'
    <3>1. Alone' /\ Unrecorded'
      BY <1>1, <1>2, <2>2 DEF Delivery, RunsInv, Alone, Unrecorded, Executing, Ended, Before
    <3>2. run[r].got \in [Recvs -> Results \cup {NotYet}]
      BY DEF TypeInv, TypeOK, RunStates
    <3>3. Agree'
      BY <1>1, <1>2, <2>2, <3>2 DEF Delivery, RunsInv, Agree
    <3>4. Complete'
      BY <1>1, <1>4, <2>2, <3>2, AssumptionsHold
      DEF Assumptions, Delivery, RunsInv, Complete, Executing, Ended, Recvs
    <3>5. QED BY <3>1, <3>3, <3>4 DEF RunsInv
  <2>4. QED BY <1>2, <2>3, TablesStep DEF Delivery
<1>5. QED BY <1>3, <1>4

(* The recv that consumes takes the oldest message, so the one before it   *)
(* has been received by an earlier recv.                                   *)
LEMMA ConsumeTables ==
  ASSUME TypeInv, Delivery, NEW k \in Recvs, out[k] = NotYet,
         \A j \in Recvs : j < k => out[j] # NotYet,
         NEW result \in Results, out' = [out EXCEPT ![k] = result],
         UNCHANGED <<flying, sent, sentAt>>,
         \/ result = TimedOut /\ UNCHANGED inbox
         \/ \E x \in inbox : OldestRow(x) /\ result = x.msg /\ inbox' = inbox \ {x}
  PROVE  Flights' /\ TablesInv' /\ Dated'
<1> USE DEF TypeInv, TypeOK, Delivery
<1>1. inbox' \subseteq inbox
  OBVIOUS
<1>2. Flights' /\ Dated'
  BY <1>1 DEF Flights, Dated, Begun
<1>3. /\ out'[k] = result
      /\ \A j \in Recvs : j # k => out'[j] = out[j]
  OBVIOUS
<1>4. result # NotYet
  BY AssumptionsHold DEF Assumptions, Results
<1>5. Filled'
  BY <1>3, <1>4 DEF TablesInv, Filled, Recvs
<1>6. CASE result = TimedOut /\ UNCHANGED inbox
  <2>1. \A m \in Msgs : Received(m)' <=> Received(m)
    BY <1>3, <1>6, AssumptionsHold DEF Received, Assumptions
  <2>2. \A m : InInbox(m)' <=> InInbox(m)
    BY <1>6 DEF InInbox
  <2>3. \A i, j \in Recvs : out'[i] \in Msgs /\ out'[i] = out'[j] => i = j
    BY <1>3, <1>6, AssumptionsHold DEF TablesInv, Once, Assumptions
  <2>4. Once'
    BY <1>6, <2>1, <2>2, <2>3 DEF TablesInv, Once
  <2>5. InOrder'
    <3> SUFFICES ASSUME NEW m \in Msgs, NEW i \in Recvs, out'[i] = m, Follows(m),
                        After[m] # NoMsg
                 PROVE  \E j \in Recvs : j < i /\ out'[j] = After[m]
      BY DEF InOrder, Follows
    <3>1. i # k /\ out[i] = m /\ After[m] \in Msgs
      BY <1>3, <1>6, AssumptionsHold DEF Assumptions
    <3>2. PICK j \in Recvs : j < i /\ out[j] = After[m]
      BY <3>1 DEF TablesInv, InOrder
    <3>3. j # k
      BY <3>1, <3>2, AssumptionsHold DEF Assumptions
    <3>4. QED BY <1>3, <3>2, <3>3
  <2>6. QED BY <1>2, <1>5, <2>4, <2>5 DEF TablesInv
<1>7. ASSUME NEW x \in inbox, OldestRow(x), result = x.msg, inbox' = inbox \ {x}
      PROVE  TablesInv'
  <2>1. x.msg \in Msgs
    BY DEF Rows
  <2>2. ~Received(x.msg) /\ x.msg \in sent
    BY <2>1 DEF TablesInv, Once, InInbox
  <2>3. \A m \in Msgs : Received(m)' <=> Received(m) \/ m = x.msg
    BY <1>3, <1>7, AssumptionsHold DEF Received, Assumptions
  <2>4. \A m \in Msgs : InInbox(m)' <=> InInbox(m) /\ m # x.msg
    BY <1>7 DEF InInbox, TablesInv, Once
  <2>5. \A i, j \in Recvs : out'[i] \in Msgs /\ out'[i] = out'[j] => i = j
    BY <1>3, <1>7, <2>2 DEF TablesInv, Once, Received
  <2>6. Once'
    BY <1>7, <2>2, <2>3, <2>4, <2>5 DEF TablesInv, Once
  <2>7. InOrder'
    <3> SUFFICES ASSUME NEW m \in Msgs, NEW i \in Recvs, out'[i] = m, Follows(m),
                        After[m] # NoMsg
                 PROVE  \E j \in Recvs : j < i /\ out'[j] = After[m]
      BY DEF InOrder, Follows
    <3>1. After[m] \in Msgs
      BY AssumptionsHold DEF Assumptions
    <3>2. CASE i # k
      <4>1. PICK j \in Recvs : j < i /\ out[j] = After[m]
        BY <1>3, <3>2 DEF TablesInv, InOrder
      <4>2. j # k
        BY <3>1, <4>1, AssumptionsHold DEF Assumptions
      <4>3. QED BY <1>3, <4>1, <4>2
    <3>3. CASE i = k
      <4>1. m = x.msg
        BY <1>3, <1>7, <3>3
      <4>2. After[m] \in sent /\ \A y \in inbox : y.msg = After[m] => y.created < x.created
        BY <2>2, <4>1 DEF Dated, Begun, Follows
      <4>3. ~InInbox(After[m])
        <5> SUFFICES ASSUME NEW y \in inbox, y.msg = After[m]
                     PROVE  FALSE
          BY DEF InInbox
        <5>1. y.created < x.created /\ x.created <= y.created
          BY <1>7, <4>2 DEF OldestRow
        <5>2. y.created \in Nat /\ x.created \in Nat
          BY DEF Rows, Times
        <5>3. QED BY <5>1, <5>2
      <4>4. PICK j \in Recvs : out[j] = After[m]
        BY <3>1, <4>2, <4>3 DEF TablesInv, Once, Received
      <4>5. out[j] # NotYet
        BY <3>1, <4>4, AssumptionsHold DEF Assumptions
      <4>6. j < k
        BY <4>5 DEF TablesInv, Filled, Recvs
      <4>7. QED BY <1>3, <3>3, <4>4, <4>6
    <3>4. QED BY <3>2, <3>3
  <2>8. QED BY <1>5, <2>6, <2>7 DEF TablesInv
<1>8. QED BY <1>2, <1>6, <1>7

LEMMA ConsumeStep ==
  ASSUME TypeInv, Delivery, NEW r \in Runs, Consume(r)
  PROVE  Delivery'
<1> DEFINE k == run[r].recv
<1>1. run[r].pc = "consume" /\ Executing(r) /\ k \in Recvs
  BY DEF Consume, Executing, Ended, TypeInv, Placed
<1>2. out[k] = NotYet
  BY <1>1 DEF Delivery, RunsInv, Unrecorded, Before
<1>3. \A j \in Recvs : j < k => out[j] # NotYet
  BY <1>1 DEF Delivery, RunsInv, Complete, Agree
<1>4. PICK result \in Results :
        /\ \/ result = TimedOut /\ UNCHANGED inbox
           \/ \E x \in inbox : OldestRow(x) /\ result = x.msg /\ inbox' = inbox \ {x}
        /\ out' = RecordFirst(k, result)
        /\ Got(r, result) \/ Goto(r, "check")
  BY DEF Consume
<1>5. out' = [out EXCEPT ![k] = result]
  BY <1>1, <1>2, <1>4 DEF RecordFirst
<1>6. UNCHANGED <<flying, sent, sentAt>>
  BY DEF Consume
<1>7. Flights' /\ TablesInv' /\ Dated'
  BY <1>1, <1>2, <1>3, <1>4, <1>5, <1>6, ConsumeTables
<1>8. /\ out'[k] = result
      /\ \A j \in Recvs : j # k => out'[j] = out[j]
      /\ result # NotYet
  BY <1>1, <1>5, AssumptionsHold DEF Assumptions, TypeInv, TypeOK, Results
<1>9. /\ \A q \in Runs : q # r => ~Executing(q)
      /\ \A q \in Runs : run[q].got[k] = NotYet
  BY <1>1, <1>2, AssumptionsHold
  DEF Assumptions, Delivery, RunsInv, Alone, Agree, TypeInv, TypeOK, RunStates, Results
<1>10. CASE Got(r, result)
  <2>1. /\ \A q \in Runs : q # r => run'[q] = run[q]
        /\ run'[r].got = [run[r].got EXCEPT ![k] = result]
        /\ run'[r].recv = k + 1
        /\ run'[r].pc \in {"done", "check"}
    BY <1>1, <1>10, GotIs
  <2>2. Alone' /\ Unrecorded'
    BY <1>9, <2>1 DEF Alone, Unrecorded, Executing, Ended, Before
  <2>3. run[r].got \in [Recvs -> Results \cup {NotYet}]
    BY DEF TypeInv, TypeOK, RunStates
  <2>4. Agree'
    BY <1>8, <1>9, <2>1, <2>3 DEF Delivery, RunsInv, Agree
  <2>5. Complete'
    <3> SUFFICES ASSUME NEW q \in Runs, Executing(q)', NEW j \in Recvs, j < run'[q].recv
                 PROVE  run'[q].got[j] # NotYet
      BY DEF Complete
    <3>1. q = r
      BY <1>9, <2>1 DEF Executing
    <3>2. CASE j = k
      BY <1>8, <2>1, <2>3, <3>1, <3>2
    <3>3. CASE j # k
      <4>1. j < k
        BY <1>1, <2>1, <3>1, <3>3 DEF Recvs
      <4>2. QED BY <1>1, <2>1, <2>3, <3>1, <3>3, <4>1 DEF Delivery, RunsInv, Complete
    <3>4. QED BY <3>2, <3>3
  <2>6. QED BY <1>7, <2>2, <2>4, <2>5 DEF Delivery, RunsInv
<1>11. CASE Goto(r, "check")
  <2>1. /\ \A q \in Runs : q # r => run'[q] = run[q]
        /\ run'[r].got = run[r].got
        /\ run'[r].recv = k
        /\ run'[r].pc = "check"
    BY <1>11 DEF Goto, TypeInv, TypeOK, RunStates
  <2>2. Alone' /\ Unrecorded'
    BY <1>9, <2>1 DEF Alone, Unrecorded, Executing, Ended, Before
  <2>3. \A q \in Runs : run'[q].got = run[q].got
    BY <2>1
  <2>4. Agree'
    BY <1>8, <1>9, <2>3 DEF Delivery, RunsInv, Agree
  <2>5. Complete'
    BY <1>1, <1>9, <2>1 DEF Delivery, RunsInv, Complete, Executing
  <2>6. QED BY <1>7, <2>2, <2>4, <2>5 DEF Delivery, RunsInv
<1>12. QED BY <1>4, <1>10, <1>11

LEMMA StartStep ==
  ASSUME TypeInv, Delivery, ~overlap', NEW r \in Runs, NEW e \in Executors, StartRun(r, e)
  PROVE  Delivery'
<1>1. /\ UNCHANGED <<inbox, flying, sent, attempts, sentAt, out>>
      /\ \A q \in Runs : ~Executing(q)
      /\ \A q \in Runs : q # r => run'[q] = run[q]
      /\ run'[r].pc = "check" /\ run'[r].recv = 1 /\ run'[r].got = [k \in Recvs |-> NotYet]
  BY DEF StartRun, Sending, Executing, IdleRun, TypeInv, TypeOK
<1>2. Alone' /\ Unrecorded'
  BY <1>1 DEF Delivery, RunsInv, Alone, Unrecorded, Executing, Ended, Before
<1>3. Agree'
  BY <1>1 DEF Delivery, RunsInv, Agree
<1>4. Complete'
  BY <1>1 DEF Complete, Executing, Recvs
<1>5. QED BY <1>1, <1>2, <1>3, <1>4, TablesStep DEF Delivery, RunsInv

LEMMA CrashStep ==
  ASSUME TypeInv, Delivery, NEW e \in Executors, Crash(e)
  PROVE  Delivery'
<1>1. /\ UNCHANGED <<inbox, flying, sent, attempts, sentAt, out>>
      /\ \A q \in Runs : run'[q] \in {run[q], IdleRun}
  BY DEF Crash, Sending
<1>2. /\ IdleRun.pc = "idle"
      /\ \A k \in Recvs : IdleRun.got[k] = NotYet
  BY DEF IdleRun
<1>3. \A q \in Runs : Executing(q)' \/ run'[q].pc \in Before => run'[q] = run[q]
  BY <1>1, <1>2 DEF Executing, Ended, Before
<1>4. Alone' /\ Complete'
  BY <1>3 DEF Delivery, RunsInv, Alone, Complete, Executing
<1>5. Unrecorded'
  BY <1>1, <1>3 DEF Delivery, RunsInv, Unrecorded
<1>6. Agree'
  <2> SUFFICES ASSUME NEW q \in Runs, NEW k \in Recvs, run'[q].got[k] # NotYet
               PROVE  run'[q].got[k] = out'[k]
    BY DEF Agree
  <2>1. run'[q] = run[q]
    BY <1>1, <1>2
  <2>2. QED BY <1>1, <2>1 DEF Delivery, RunsInv, Agree
<1>7. QED BY <1>1, <1>4, <1>5, <1>6, TablesStep DEF Delivery, RunsInv

LEMMA DeliveryNext ==
  ASSUME TypeInv, ~overlap => Delivery, [Next]_vars
  PROVE  ~overlap' => Delivery'
<1> SUFFICES ASSUME ~overlap' PROVE Delivery'
  OBVIOUS
<1> USE DEF TypeInv, TypeOK
<1>1. Delivery
  BY DEF Next, Step, Listen, BeginSend, CommitSend, FailSend, Check, SetCondition, Peek,
         SetTimer, Pop, Consume, TimeOut, StartRun, PollInbox, Receive, Signal, Reconnect,
         Disconnect, Crash, vars
<1>2. ASSUME NEW r \in Runs, SetCondition(r) \/ Peek(r) \/ SetTimer(r) \/ TimeOut(r) \/ Pop(r)
      PROVE  Delivery'
  <2>1. PICK pc : /\ Goto(r, pc) /\ pc \in Before \cup {"clash", "await"}
                  /\ UNCHANGED <<inbox, flying, sent, attempts, sentAt, out>>
    BY <1>2 DEF SetCondition, Peek, SetTimer, TimeOut, Pop, Sending, Before
  <2>2. run[r].pc \in Before \cup {"clash"} /\ (pc \in Before => run[r].pc \in Before)
    BY <1>2, <2>1
    DEF SetCondition, Peek, SetTimer, TimeOut, Pop, Goto, Before, RunStates
  <2>3. \A q \in Runs :
          /\ run'[q].recv = run[q].recv /\ run'[q].got = run[q].got
          /\ q # r => run'[q].pc = run[q].pc
          /\ run'[r].pc = pc
    BY <2>1 DEF Goto, RunStates
  <2>4. Executing(r) /\ \A q \in Runs : Executing(q)' => Executing(q)
    BY <2>2, <2>3 DEF Executing, Ended, Before
  <2>5. QED BY <1>1, <2>1, <2>2, <2>3, <2>4, WithinStep
<1>3. ASSUME NEW e \in Executors, Signal(e)
      PROVE  Delivery'
  BY <1>1, <1>3, WithinStep DEF Signal, Sending, Executing, Ended, Before, RunStates
<1>4. ASSUME NEW e \in Executors, PollInbox(e) \/ Receive(e) \/ Reconnect(e) \/ Disconnect(e)
      PROVE  Delivery'
  BY <1>1, <1>4, WithinStep
  DEF PollInbox, Receive, Reconnect, Disconnect, Sending, Receiving, Executing
<1>5. CASE UNCHANGED vars
  BY <1>1, <1>5, WithinStep DEF vars, Executing
<1>6. QED
  BY <1>1, <1>2, <1>3, <1>4, <1>5, SendStep, CommitStep, CheckStep, ConsumeStep, StartStep,
     CrashStep
  DEF Next, Step, Listen

THEOREM DeliveryInvariance == Spec => [](TypeInv /\ (~overlap => Delivery))
<1>1. TypeInv /\ (~overlap => Delivery) /\ [Next]_vars =>
        (TypeInv /\ (~overlap => Delivery))'
  BY TypeNext, DeliveryNext
<1>2. QED BY TypeInit, DeliveryInit, <1>1, PTL DEF Spec

-----------------------------------------------------------------------------
(* Whatever sends are retried, whenever processes die and connections are  *)
(* lost, a message that was sent is in the table or was received, once     *)
(* (send, recv).                                                           *)
THEOREM ExactlyOnceCorrect == Spec => []ExactlyOnce
<1>1. ASSUME TypeInv, ~overlap => Delivery
      PROVE  ExactlyOnce
  <2> SUFFICES ASSUME Delivery, NEW m \in Msgs
               PROVE  Count(m) = IF m \in sent THEN 1 ELSE 0
    BY <1>1 DEF ExactlyOnce
  <2> DEFINE waiting == {x \in inbox : x.msg = m}
             received == {k \in Recvs : out[k] = m}
  <2>1. Cardinality(waiting) = IF InInbox(m) THEN 1 ELSE 0
    <3>1. CASE InInbox(m)
      <4>1. PICK x \in inbox : x.msg = m
        BY <3>1 DEF InInbox
      <4>2. waiting = {x}
        BY <4>1 DEF Delivery, TablesInv, Once
      <4>3. QED BY <3>1, <4>2, FS_Singleton
    <3>2. CASE ~InInbox(m)
      <4>1. waiting = {}
        BY <3>2 DEF InInbox
      <4>2. QED BY <3>2, <4>1, FS_EmptySet
    <3>3. QED BY <3>1, <3>2
  <2>2. Cardinality(received) = IF Received(m) THEN 1 ELSE 0
    <3>1. CASE Received(m)
      <4>1. PICK k \in Recvs : out[k] = m
        BY <3>1 DEF Received
      <4>2. received = {k}
        BY <4>1 DEF Delivery, TablesInv, Once
      <4>3. QED BY <3>1, <4>2, FS_Singleton
    <3>2. CASE ~Received(m)
      <4>1. received = {}
        BY <3>2 DEF Received
      <4>2. QED BY <3>2, <4>1, FS_EmptySet
    <3>3. QED BY <3>1, <3>2
  <2>3. Count(m) = Cardinality(waiting) + Cardinality(received)
    BY DEF Count
  <2> HIDE DEF waiting, received
  <2>4. /\ m \in sent <=> InInbox(m) \/ Received(m)
        /\ ~(InInbox(m) /\ Received(m))
    BY DEF Delivery, TablesInv, Once
  <2>5. QED BY <2>1, <2>2, <2>3, <2>4
<1>2. QED BY <1>1, DeliveryInvariance, PTL

(* Messages of one sender that the clock tells apart are received in the   *)
(* order in which they were sent (recv's ORDER BY created_at_epoch_ms).    *)
THEOREM SenderOrderCorrect == Spec => []SenderOrder
<1>1. ASSUME TypeInv, ~overlap => Delivery
      PROVE  SenderOrder
  <2> SUFFICES ASSUME Delivery, NEW m \in Msgs, NEW k \in Recvs,
                      out[k] = m, Follows(m)
               PROVE  \E j \in 1..(k - 1) : out[j] = After[m]
    BY <1>1 DEF SenderOrder, Follows
  <2>1. PICK j \in Recvs : j < k /\ out[j] = After[m]
    BY DEF Delivery, TablesInv, InOrder
  <2>2. j \in 1..(k - 1)
    BY <2>1 DEF Recvs
  <2>3. QED BY <2>1, <2>2
<1>2. QED BY <1>1, DeliveryInvariance, PTL

(* An execution continues with what earlier ones have recorded of its      *)
(* recvs.                                                                  *)
THEOREM ReplayAgreesCorrect == Spec => []ReplayAgrees
<1>1. ASSUME TypeInv, ~overlap => Delivery
      PROVE  ReplayAgrees
  BY <1>1 DEF ReplayAgrees, Delivery, RunsInv, Agree
<1>2. QED BY <1>1, DeliveryInvariance, PTL

-----------------------------------------------------------------------------
(* Wake-ups: the map of conditions tells who waits, and a run that has     *)
(* found the table empty is on the way to being signalled as soon as it is *)
(* not.                                                                    *)

Mapped == Locking \cup {"wait", "clash"}
Using(e) == {r \in Runs : run[r].at = e /\ run[r].pc \in Mapped}
MapInv ==
  \A e \in Executors :
    /\ map[e].count = Cardinality(Using(e))
    /\ \A r \in Using(e) : run[r].pc # "clash" => map[e].cond = CondOf(r)

Wakeups ==
  \A r \in Runs : \A e \in Executors :
    /\ run[r].pc \in {"timer", "wait"} /\ run[r].at = e
    /\ inbox # {} /\ e \notin missed /\ ~listener[e].polls
    => listener[e].pending > 0 \/ listener[e].hand = CondOf(r)

(* A step that leaves the map, and everyone who uses it in its recv.       *)
LEMMA MapSame ==
  ASSUME TypeInv, MapInv, map' = map,
         \A r \in Runs :
           \/ run'[r].pc \notin Mapped /\ run[r].pc \notin Mapped
           \/ /\ run'[r].pc \in Mapped /\ run[r].pc \in Mapped
              /\ run'[r].pc = "clash" <=> run[r].pc = "clash"
              /\ run'[r].at = run[r].at /\ run'[r].recv = run[r].recv
  PROVE  MapInv'
<1>1. \A e \in Executors : Using(e)' = Using(e)
  BY DEF Using
<1>2. QED BY <1>1, ZenonT(40) DEF MapInv, Using, CondOf

(* A run that comes or goes.                                               *)
LEMMA MapCount ==
  ASSUME IsFiniteSet(Runs), TypeInv
  PROVE  \A e \in Executors :
           /\ IsFiniteSet(Using(e))
           /\ Cardinality(Using(e)) \in Nat
           /\ Cardinality(Using(e)) = 0 <=> Using(e) = {}
           /\ \A r \in Using(e) : Cardinality(Using(e) \ {r}) = Cardinality(Using(e)) - 1
           /\ \A r : r \notin Using(e) =>
                Cardinality(Using(e) \cup {r}) = Cardinality(Using(e)) + 1
<1> SUFFICES ASSUME NEW e \in Executors
             PROVE  /\ IsFiniteSet(Using(e))
                    /\ Cardinality(Using(e)) \in Nat
                    /\ Cardinality(Using(e)) = 0 <=> Using(e) = {}
                    /\ \A r \in Using(e) : Cardinality(Using(e) \ {r}) = Cardinality(Using(e)) - 1
                    /\ \A r : r \notin Using(e) =>
                         Cardinality(Using(e) \cup {r}) = Cardinality(Using(e)) + 1
  OBVIOUS
<1>1. IsFiniteSet(Using(e))
  BY FS_Subset DEF Using
<1>2. Cardinality(Using(e)) \in Nat
  BY <1>1, FS_CardinalityType
<1>3. Cardinality(Using(e)) = 0 <=> Using(e) = {}
  BY <1>1, FS_EmptySet
<1>4. \A r \in Using(e) : Cardinality(Using(e) \ {r}) = Cardinality(Using(e)) - 1
  BY <1>1, FS_RemoveElement
<1>5. \A r : r \notin Using(e) => Cardinality(Using(e) \cup {r}) = Cardinality(Using(e)) + 1
  BY <1>1, FS_AddElement
<1>6. QED BY <1>1, <1>2, <1>3, <1>4, <1>5

LEMMA MapSet ==
  ASSUME IsFiniteSet(Runs), TypeInv, MapInv, NEW r \in Runs, SetCondition(r)
  PROVE  MapInv'
<1> USE DEF TypeInv, TypeOK
<1> SUFFICES ASSUME NEW e \in Executors, run[r].at = e
             PROVE  MapInv'
  BY DEF SetCondition, Pop, Placed, Executing, Ended
<1>1. e \in Executors /\ r \notin Using(e) /\ run[r].pc = "set"
  BY DEF SetCondition, Placed, Executing, Ended, Using, Mapped, Locking
<1>2. \A f \in Executors : f # e => Using(f)' = Using(f) /\ map'[f] = map[f]
  <2>1. \A f \in Executors : f # e => map'[f] = map[f]
    BY DEF SetCondition
  <2>2. \A q \in Runs : run'[q].at = run[q].at /\ (q # r => run'[q].pc = run[q].pc)
    BY DEF SetCondition, Goto, RunStates
  <2>3. \A f \in Executors : f # e => Using(f)' = Using(f)
    BY <2>2 DEF Using
  <2>4. QED BY <2>1, <2>3
<1>3. Using(e)' = Using(e) \cup {r}
  BY <1>1 DEF SetCondition, Goto, Using, Mapped, Locking, RunStates
<1>4. \A q \in Runs : q # r => run'[q] = run[q]
  BY DEF SetCondition, Goto
<1>5. Cardinality(Using(e)') = Cardinality(Using(e)) + 1
  BY <1>1, <1>3, MapCount
<1>6. CASE map[e].count = 0
  <2>1. /\ map' = [map EXCEPT ![e] = [cond |-> CondOf(r), count |-> 1]]
        /\ run'[r].recv = run[r].recv
    BY <1>6 DEF SetCondition, Goto, RunStates
  <2>2. Cardinality(Using(e)) = 0 /\ Using(e) = {}
    BY <1>1, <1>6, MapCount DEF MapInv
  <2>3. map'[e].count = Cardinality(Using(e)') /\ map'[e].cond = CondOf(r)
    BY <1>1, <1>5, <2>1, <2>2
  <2>4. Using(e)' = {r} /\ CondOf(r)' = CondOf(r)
    BY <1>3, <2>1, <2>2 DEF CondOf
  <2>5. ASSUME NEW f \in Executors, f # e
        PROVE  /\ map'[f].count = Cardinality(Using(f)')
               /\ \A q \in Using(f)' : run'[q].pc # "clash" => map'[f].cond = CondOf(q)'
    <3>1. Using(f)' = Using(f) /\ map'[f] = map[f] /\ r \notin Using(f)
      BY <1>2, <2>5 DEF Using
    <3>2. map[f].count = Cardinality(Using(f))
      BY DEF MapInv
    <3>3. ASSUME NEW q \in Using(f), run'[q].pc # "clash"
          PROVE  map[f].cond = CondOf(q)'
      <4>1. run'[q] = run[q]
        BY <1>4, <3>1 DEF Using
      <4>2. QED BY <3>3, <4>1 DEF MapInv, CondOf
    <3>4. QED BY <3>1, <3>2, <3>3
  <2>6. QED BY <2>3, <2>4, <2>5 DEF MapInv
<1>7. CASE map[e].count # 0
  <2>1. map' = [map EXCEPT ![e].count = map[e].count + 1] /\ run'[r].pc = "clash"
    BY <1>7 DEF SetCondition, Goto, RunStates
  <2>2. map'[e].count = Cardinality(Using(e)') /\ map'[e].cond = map[e].cond
    BY <1>1, <1>5, <2>1 DEF MapInv, Entries
  <2>3. ASSUME NEW f \in Executors
        PROVE  \A q \in Using(f)' : run'[q].pc # "clash" => map'[f].cond = CondOf(q)'
    <3>1. map'[f].cond = map[f].cond /\ \A q \in Using(f)' : q # r => q \in Using(f)
      <4>1. CASE f = e
        BY <1>3, <2>2, <4>1
      <4>2. CASE f # e
        BY <1>2, <4>2
      <4>3. QED BY <4>1, <4>2
    <3>2. \A q \in Using(f)' : q # r => run'[q] = run[q]
      BY <1>4 DEF Using
    <3>3. QED BY <2>1, <3>1, <3>2 DEF MapInv, CondOf
  <2>4. \A f \in Executors : map'[f].count = Cardinality(Using(f)')
    BY <1>2, <2>2 DEF MapInv
  <2>5. QED BY <2>3, <2>4 DEF MapInv
<1>8. QED BY <1>6, <1>7

(* The condition in the map is the one of the only run that does not       *)
(* clash, so it may stay when another run leaves.                          *)
LEMMA MapPop ==
  ASSUME IsFiniteSet(Runs), TypeInv, MapInv, NEW r \in Runs, Pop(r)
  PROVE  MapInv'
<1> USE DEF TypeInv, TypeOK
<1> SUFFICES ASSUME NEW e \in Executors, run[r].at = e
             PROVE  MapInv'
  BY DEF SetCondition, Pop, Placed, Executing, Ended
<1>1. e \in Executors /\ r \in Using(e)
  BY DEF Pop, Placed, Executing, Ended, Using, Mapped, Locking
<1>2. \A f \in Executors : f # e => Using(f)' = Using(f) /\ map'[f] = map[f]
  BY <1>1 DEF Pop, Goto, Using, Mapped, Locking, RunStates
<1>3. Using(e)' = Using(e) \ {r}
  BY <1>1 DEF Pop, Goto, Using, Mapped, Locking, RunStates
<1>4. \A q \in Runs : q # r => run'[q] = run[q]
  BY DEF Pop, Goto
<1>5. map' = [map EXCEPT ![e] = Popped(map[e])]
  BY DEF Pop
<1>6. /\ Cardinality(Using(e)') = Cardinality(Using(e)) - 1
      /\ map[e].count = Cardinality(Using(e)) /\ map[e].count \in Nat
  BY <1>1, <1>3, MapCount DEF MapInv
<1>7. map[e].count # 0
  BY <1>1, <1>6, MapCount
<1>8. map'[e].count = Cardinality(Using(e)')
  <2>1. CASE map[e].count > 1
    BY <1>1, <1>5, <1>6, <2>1 DEF Popped, Entries
  <2>2. CASE map[e].count = 1
    BY <1>1, <1>5, <1>6, <2>2 DEF Popped, NoEntry
  <2>3. QED BY <1>6, <1>7, <2>1, <2>2
<1>9. \A q \in Using(e)' : map'[e].cond = map[e].cond
  <2>1. CASE map[e].count > 1
    BY <1>1, <1>5, <2>1 DEF Popped, Entries
  <2>2. CASE map[e].count = 1
    <3>1. Cardinality(Using(e)') = 0
      BY <1>6, <2>2
    <3>2. IsFiniteSet(Using(e)')
      BY <1>1, <1>3, MapCount, FS_Subset
    <3>3. Using(e)' = {}
      BY <3>1, <3>2, FS_EmptySet
    <3>4. QED BY <3>3
  <2>3. QED BY <1>6, <1>7, <2>1, <2>2
<1>10. ASSUME NEW f \in Executors, NEW q \in Using(f)', run'[q].pc # "clash"
       PROVE  map'[f].cond = CondOf(q)'
  <2>1. q \in Using(f) /\ q # r /\ map'[f].cond = map[f].cond
    BY <1>1, <1>2, <1>3, <1>9, <1>10 DEF Using
  <2>2. run'[q] = run[q]
    BY <1>4, <2>1 DEF Using
  <2>3. QED BY <1>10, <2>1, <2>2 DEF MapInv, CondOf
<1>11. \A f \in Executors : map'[f].count = Cardinality(Using(f)')
  BY <1>2, <1>8 DEF MapInv
<1>12. QED BY <1>10, <1>11 DEF MapInv

LEMMA MapCrash ==
  ASSUME TypeInv, MapInv, NEW e \in Executors, Crash(e)
  PROVE  MapInv'
<1> USE DEF TypeInv, TypeOK
<1>1. Using(e)' = {}
  BY AssumptionsHold DEF Assumptions, Crash, Using, IdleRun
<1>2. map'[e].count = 0
  BY DEF Crash, NoEntry
<1>3. ASSUME NEW f \in Executors, f # e
      PROVE  /\ Using(f)' = Using(f) /\ map'[f] = map[f]
             /\ \A r \in Using(f) : run'[r] = run[r]
  BY <1>3, AssumptionsHold DEF Assumptions, Crash, Using, IdleRun
<1>4. ASSUME NEW f \in Executors
      PROVE  /\ map'[f].count = Cardinality(Using(f)')
             /\ \A r \in Using(f)' : run'[r].pc # "clash" => map'[f].cond = CondOf(r)'
  <2>1. CASE f = e
    BY <1>1, <1>2, <2>1, FS_EmptySet
  <2>2. CASE f # e
    BY <1>3, <2>2 DEF MapInv, CondOf
  <2>3. QED BY <2>1, <2>2
<1>5. QED BY <1>4 DEF MapInv

LEMMA MapInit == Init => MapInv
<1> SUFFICES ASSUME Init, NEW e \in Executors
             PROVE  /\ map[e].count = Cardinality(Using(e))
                    /\ \A r \in Using(e) : run[r].pc # "clash" => map[e].cond = CondOf(r)
  BY DEF MapInv
<1>1. Using(e) = {}
  BY DEF Init, Using, Mapped, Locking, IdleRun
<1>2. map[e].count = 0
  BY DEF Init, NoEntry
<1>3. QED BY <1>1, <1>2, FS_EmptySet

LEMMA MapNext ==
  ASSUME IsFiniteSet(Runs), TypeInv, MapInv, [Next]_vars
  PROVE  MapInv'
<1> USE DEF TypeInv, TypeOK
<1>1. ASSUME NEW r \in Runs, Peek(r) \/ SetTimer(r) \/ TimeOut(r)
      PROVE  MapInv'
  BY <1>1, MapSame
  DEF Peek, SetTimer, TimeOut, Goto, Mapped, Locking, RunStates
<1>2. ASSUME NEW r \in Runs, Check(r) \/ Consume(r)
      PROVE  MapInv'
  <2>1. run[r].pc \in {"check", "consume"} /\ run[r].recv \in Recvs
    BY <1>2 DEF Check, Consume, Placed, Executing, Ended
  <2>2. (\E result : Got(r, result)) \/ \E pc \in {"set", "failed", "check"} : Goto(r, pc)
    BY <1>2 DEF Check, Consume
  <2>3. /\ \A q \in Runs : q # r => run'[q] = run[q]
        /\ run'[r].pc \in {"done", "check", "set", "failed"}
    <3>1. ASSUME NEW result, Got(r, result)
          PROVE  /\ \A q \in Runs : q # r => run'[q] = run[q]
                 /\ run'[r].pc \in {"done", "check"}
      BY <2>1, <3>1, GotIs
    <3>2. ASSUME NEW pc \in {"set", "failed", "check"}, Goto(r, pc)
          PROVE  /\ \A q \in Runs : q # r => run'[q] = run[q]
                 /\ run'[r].pc = pc
      BY <3>2 DEF Goto, RunStates
    <3>3. QED BY <2>2, <3>1, <3>2
  <2>4. map' = map
    BY <1>2 DEF Check, Consume
  <2>5. QED BY <2>1, <2>3, <2>4, MapSame DEF Mapped, Locking
<1>3. ASSUME NEW r \in Runs, NEW e \in Executors, StartRun(r, e)
      PROVE  MapInv'
  BY <1>3, MapSame DEF StartRun, IdleRun, Mapped, Locking
<1>4. ASSUME NEW e \in Executors, Signal(e)
      PROVE  MapInv'
  BY <1>4, MapSame DEF Signal, Mapped, Locking, RunStates
<1>5. CASE UNCHANGED <<run, map>>
  BY <1>5, MapSame
<1>6. QED
  BY <1>1, <1>2, <1>3, <1>4, <1>5, MapSet, MapPop, MapCrash
  DEF Next, Step, Listen, BeginSend, CommitSend, FailSend, Receiving, PollInbox, Receive,
      Reconnect, Disconnect, vars

(* The two parts of Wakeups for one run and its process.                   *)
Sleeps(r, e) == run[r].pc \in {"timer", "wait"} /\ run[r].at = e
Unmissed(e) == inbox # {} /\ e \notin missed /\ ~listener[e].polls
Signalled(r, e) == listener[e].pending > 0 \/ listener[e].hand = CondOf(r)

LEMMA WakeupsNext ==
  ASSUME TypeInv, MapInv, Wakeups, [Next]_vars
  PROVE  Wakeups'
<1> USE DEF TypeInv, TypeOK
<1> SUFFICES ASSUME NEW r \in Runs, NEW e \in Executors, Sleeps(r, e)', Unmissed(e)'
             PROVE  Signalled(r, e)'
  BY DEF Wakeups, Sleeps, Unmissed, Signalled
<1>0. Sleeps(r, e) /\ Unmissed(e) => Signalled(r, e)
  BY DEF Wakeups, Sleeps, Unmissed, Signalled
<1>1. CASE \E m \in Msgs : BeginSend(m)
  BY <1>0, <1>1 DEF BeginSend, Receiving, Sleeps, Unmissed, Signalled, CondOf
<1>2. ASSUME NEW x \in flying, CommitSend(x)
      PROVE  Signalled(r, e)'
  <2>1. listener[e] \in Listeners
    OBVIOUS
  <2>2. ~listener[e].polls /\ listener[e].connected
    BY <1>2 DEF CommitSend, Unmissed, Listeners
  <2>3. listener'[e].pending = listener[e].pending + 1
    BY <1>2, <2>1, <2>2 DEF CommitSend, Listeners
  <2>4. QED BY <2>1, <2>3 DEF Signalled, Listeners
<1>3. ASSUME NEW x \in flying, FailSend(x)
      PROVE  Signalled(r, e)'
  BY <1>0, <1>3 DEF FailSend, Receiving, Sleeps, Unmissed, Signalled, CondOf
<1>4. ASSUME NEW q \in Runs, Step(q) \/ TimeOut(q) \/ \E f \in Executors : StartRun(q, f)
      PROVE  Signalled(r, e)'
  <2>1. listener' = listener /\ missed' = missed
    BY <1>4 DEF Step, TimeOut, StartRun, Check, SetCondition, Peek, SetTimer, Pop, Consume
  <2>2. inbox' \subseteq inbox
    BY <1>4 DEF Step, TimeOut, StartRun, Check, SetCondition, Peek, SetTimer, Pop, Consume,
                Sending
  <2>3. Unmissed(e)
    BY <2>1, <2>2 DEF Unmissed
  <2>4. CASE q # r
    <3>1. run'[r] = run[r]
      BY <1>4, <2>4 DEF Step, TimeOut, StartRun, Check, SetCondition, Peek, SetTimer, Pop,
                        Consume, Goto, Got
    <3>2. QED BY <1>0, <2>1, <2>3, <3>1 DEF Sleeps, Signalled, CondOf
  <2>5. CASE q = r
    <3>1. CASE Peek(r)
      BY <2>3, <3>1 DEF Peek, Goto, Sleeps, Unmissed, RunStates
    <3>2. CASE SetTimer(r)
      BY <1>0, <2>1, <2>3, <3>2 DEF SetTimer, Goto, Sleeps, Signalled, CondOf, RunStates
    <3>3. CASE Check(r) \/ Consume(r)
      <4>1. run[r].recv \in Recvs
        BY <3>3 DEF Check, Consume, Placed, Executing, Ended
      <4>2. (\E result : Got(r, result)) \/ \E pc \in {"set", "failed", "check"} : Goto(r, pc)
        BY <3>3 DEF Check, Consume
      <4>3. run'[r].pc \in {"done", "check", "set", "failed"}
        <5>1. ASSUME NEW result, Got(r, result)
              PROVE  run'[r].pc \in {"done", "check"}
          BY <4>1, <5>1, GotIs
        <5>2. ASSUME NEW pc \in {"set", "failed", "check"}, Goto(r, pc)
              PROVE  run'[r].pc = pc
          BY <5>2 DEF Goto, RunStates
        <5>3. QED BY <4>2, <5>1, <5>2
      <4>4. QED BY <4>3 DEF Sleeps
    <3>4. CASE SetCondition(r) \/ Pop(r) \/ TimeOut(r)
      <4>1. run'[r].pc \in {"peek", "clash", "consume", "await", "woken"}
        BY <3>4 DEF SetCondition, Pop, TimeOut, Goto, RunStates
      <4>2. QED BY <4>1 DEF Sleeps
    <3>5. CASE \E f \in Executors : StartRun(r, f)
      <4>1. run'[r].pc = "check"
        BY <3>5 DEF StartRun, IdleRun
      <4>2. QED BY <4>1 DEF Sleeps
    <3>6. QED BY <1>4, <2>5, <3>1, <3>2, <3>3, <3>4, <3>5 DEF Step
  <2>6. QED BY <2>4, <2>5
<1>5. ASSUME NEW f \in Executors, PollInbox(f) \/ Reconnect(f)
      PROVE  Signalled(r, e)'
  <2>1. /\ run' = run /\ inbox' = inbox /\ missed' = missed
        /\ listener'[e].polls = listener[e].polls
        /\ listener'[e].hand = listener[e].hand
        /\ listener'[e].pending = listener[e].pending \/ listener[e].polls
    BY <1>5 DEF PollInbox, Reconnect, Sending, Receiving, Listeners
  <2>2. QED BY <1>0, <2>1 DEF Sleeps, Unmissed, Signalled, CondOf
<1>6. ASSUME NEW f \in Executors, Receive(f)
      PROVE  Signalled(r, e)'
  <2>1. run' = run /\ inbox' = inbox /\ missed' = missed
    BY <1>6 DEF Receive, Sending, Receiving
  <2>2. CASE f = e
    <3>1. listener'[e].hand = map[e].cond
      BY <1>6, <2>2 DEF Receive, Listeners
    <3>2. map[e].cond = CondOf(r)
      BY <2>1 DEF Sleeps, MapInv, Using, Mapped, Locking
    <3>3. QED BY <2>1, <3>1, <3>2 DEF Signalled, CondOf
  <2>3. CASE f # e
    BY <1>0, <1>6, <2>1, <2>3 DEF Receive, Sleeps, Unmissed, Signalled, CondOf
  <2>4. QED BY <2>2, <2>3
<1>7. ASSUME NEW f \in Executors, Signal(f)
      PROVE  Signalled(r, e)'
  <2>1. inbox' = inbox /\ missed' = missed
    BY <1>7 DEF Signal, Sending
  <2>2. run'[r] = run[r] /\ Sleeps(r, e)
    BY <1>7 DEF Signal, Sleeps, RunStates
  <2>3. CASE f = e
    <3>1. listener'[e] = [listener[e] EXCEPT !.hand = NoCond]
      BY <1>7, <2>3 DEF Signal
    <3>2. Unmissed(e)
      BY <2>1, <3>1 DEF Unmissed, Listeners
    <3>3. listener[e].hand # CondOf(r)
      <4>1. CASE run[r].pc = "wait"
        BY <1>7, <2>2, <2>3, <4>1 DEF Signal, Sleeps, RunStates
      <4>2. CASE run[r].pc = "timer"
        BY <1>7, <2>2, <2>3, <4>2 DEF Signal, Held, Sleeps, Locking
      <4>3. QED BY <2>2, <4>1, <4>2 DEF Sleeps
    <3>4. listener[e].pending > 0
      BY <1>0, <2>2, <3>2, <3>3 DEF Signalled
    <3>5. QED BY <3>1, <3>4 DEF Signalled, Listeners
  <2>4. CASE f # e
    <3>1. listener'[e] = listener[e]
      BY <1>7, <2>4 DEF Signal
    <3>2. QED BY <1>0, <2>1, <2>2, <3>1 DEF Unmissed, Signalled, CondOf
  <2>5. QED BY <2>3, <2>4
<1>8. ASSUME NEW f \in Executors, Disconnect(f)
      PROVE  Signalled(r, e)'
  <2>1. run' = run /\ inbox' = inbox /\ missed \subseteq missed'
    BY <1>8 DEF Disconnect, Sending, Receiving
  <2>2. CASE f = e
    <3>1. ~listener[e].polls /\ listener[e].hand = NoCond
      BY <1>8, <2>2 DEF Disconnect
    <3>2. Sleeps(r, e) /\ Unmissed(e)
      BY <2>1, <3>1 DEF Sleeps, Unmissed
    <3>3. CondOf(r) \in Conds
      BY <3>2 DEF CondOf, Conds, Sleeps, Placed, Executing, Ended
    <3>4. listener[e].pending > 0
      BY <1>0, <3>1, <3>2, <3>3, AssumptionsHold DEF Assumptions, Signalled
    <3>5. e \in missed'
      BY <1>8, <2>2, <3>4 DEF Disconnect
    <3>6. QED BY <3>5 DEF Unmissed
  <2>3. CASE f # e
    BY <1>0, <1>8, <2>1, <2>3 DEF Disconnect, Sleeps, Unmissed, Signalled, CondOf
  <2>4. QED BY <2>2, <2>3
<1>9. ASSUME NEW f \in Executors, Crash(f)
      PROVE  Signalled(r, e)'
  <2>1. run'[r] = run[r] /\ f # e
    BY <1>9, AssumptionsHold DEF Crash, Sleeps, IdleRun, Assumptions
  <2>2. listener'[e] = listener[e] /\ inbox' = inbox /\ (e \in missed' <=> e \in missed)
    BY <1>9, <2>1 DEF Crash, Sending
  <2>3. QED BY <1>0, <2>1, <2>2 DEF Sleeps, Unmissed, Signalled, CondOf
<1>10. CASE UNCHANGED vars
  BY <1>0, <1>10 DEF vars, Sleeps, Unmissed, Signalled, CondOf
<1>11. QED
  BY <1>1, <1>2, <1>3, <1>4, <1>5, <1>6, <1>7, <1>8, <1>9, <1>10 DEF Next, Listen

(* No recv sleeps on a message that is there, with any number of messages, *)
(* crashes and executions in one process: the run takes its condition's    *)
(* lock before it puts the condition into the map and gives it up only     *)
(* when it waits (recv, ThreadSafeConditionDict, notification listener).   *)
THEOREM NoLostWakeupCorrect ==
  ASSUME IsFiniteSet(Runs)
  PROVE  Spec => []NoLostWakeup
<1>1. Init => TypeInv /\ MapInv /\ Wakeups
  BY TypeInit, MapInit DEF Init, Wakeups
<1>2. TypeInv /\ MapInv /\ Wakeups /\ [Next]_vars => (TypeInv /\ MapInv /\ Wakeups)'
  BY TypeNext, MapNext, WakeupsNext
<1>3. TypeInv /\ Wakeups => NoLostWakeup
  <2> SUFFICES ASSUME TypeInv, Wakeups, NEW r \in Runs, run[r].pc = "wait", inbox # {},
                      run[r].at \notin missed, ~listener[run[r].at].polls
               PROVE  \/ listener[run[r].at].pending > 0
                      \/ listener[run[r].at].hand = CondOf(r)
    BY DEF NoLostWakeup
  <2>1. run[r].at \in Executors
    BY DEF TypeInv, Placed, Executing, Ended
  <2>2. QED BY <2>1 DEF Wakeups
<1>4. QED BY <1>1, <1>2, <1>3, PTL DEF Spec

(* The map of a process counts the recvs that use it and holds the         *)
(* condition of the one that does not clash.                               *)
THEOREM MapExactCorrect ==
  ASSUME IsFiniteSet(Runs)
  PROVE  Spec => []MapExact
<1>1. TypeInv /\ MapInv /\ [Next]_vars => (TypeInv /\ MapInv)'
  BY TypeNext, MapNext
<1>2. MapInv => MapExact
  BY DEF MapInv, MapExact, Using, Mapped
<1>3. QED BY TypeInit, MapInit, <1>1, <1>2, PTL DEF Spec
=============================================================================
