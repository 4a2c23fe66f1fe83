--------------------------- MODULE Operations_proofs ---------------------------
(***************************************************************************)
(* Proofs about the operations of a workflow: Streams for any writes,      *)
(* executions, readers and lengths, WorkflowEvents for any sets and calls, *)
(* StepRetry for any values and number of attempts.                        *)
(***************************************************************************)
EXTENDS Streams, WorkflowEvents, StepRetry, FiniteSetTheorems, TLAPS

-----------------------------------------------------------------------------
(* Streams.                                                                *)

(* A step's writes are among the writes, and closing is none of them.      *)
Distinct == InStep \subseteq Writes /\ Close \notin Writes

PCs == {"idle", "insert", "commit", "written", "done"}
CallType == [pc : PCs, offset : Nat]
Types ==
  /\ stream \in Seq(Calls)
  /\ checkpoint \in SUBSET Calls
  /\ call \in [Runs -> [Calls -> CallType]]
  /\ alive \in SUBSET Runs

(* What each call knows of the table and of its record.                    *)
Occurs(w) == \E i \in 1..Len(stream) : stream[i] = w
Pc(r, w) == call[r][w].pc
Busy(r, w) == Pc(r, w) \in {"insert", "commit", "written"}
CallsKnow ==
  \A r \in Runs, w \in Calls :
    /\ Pc(r, w) = "commit" => call[r][w].offset <= Len(stream)
    /\ Pc(r, w) = "written" => Occurs(w)
    /\ Pc(r, w) = "done" => w \in checkpoint
    /\ r \notin alive => Pc(r, w) = "idle"

(* The stream is closed by a run that is done with its writes.             *)
ClosesLast ==
  /\ \A r \in Runs : Pc(r, Close) # "idle" => \A w \in Writes : Pc(r, w) = "done"
  /\ Close \in checkpoint => Writes \subseteq checkpoint

RecordedOccurs == \A w \in Calls : w \in checkpoint => Occurs(w)
OnceEach ==
  \A w \in Calls : w \notin InStep =>
    /\ Occurs(w) => w \in checkpoint
    /\ \A i, j \in 1..Len(stream) : stream[i] = w /\ stream[j] = w => i = j

(* Without twins a call is at work only while it is not recorded.          *)
Alone ==
  /\ \A r, q \in alive : r = q
  /\ \A r \in Runs, w \in Calls : Busy(r, w) => w \notin checkpoint
CloseLast == \A i \in 1..Len(stream) : stream[i] = Close => i = Len(stream)
Single == Alone /\ OnceEach /\ CloseLast

IInv == Types /\ CallsKnow /\ ClosesLast /\ RecordedOccurs /\ (~twins => Single)

-----------------------------------------------------------------------------
LEMMA InitOK == Init => IInv
<1> SUFFICES ASSUME Init PROVE IInv
  OBVIOUS
<1>1. Types
  BY DEF Init, Types, CallType, PCs, IdleCall
<1>2. \A r \in Runs, w \in Calls : Pc(r, w) = "idle"
  BY DEF Init, Pc, IdleCall
<1>3. Len(stream) = 0 /\ checkpoint = {}
  BY DEF Init
<1>4. CallsKnow /\ ClosesLast /\ RecordedOccurs
  BY <1>2, <1>3 DEF CallsKnow, ClosesLast, RecordedOccurs, Calls
<1>5. Single
  BY <1>2, <1>3 DEF Init, Single, Alone, OnceEach, CloseLast, Occurs, Busy
<1>6. QED BY <1>1, <1>4, <1>5 DEF IInv

(* A step of one call that leaves the tables.                              *)
LEMMA CallMoves ==
  ASSUME IInv, Distinct, NEW r \in alive, NEW w \in Calls, NEW new \in CallType,
         call' = [call EXCEPT ![r][w] = new],
         UNCHANGED <<stream, checkpoint, alive, twins>>,
         new.pc = "commit" => new.offset <= Len(stream),
         new.pc \in {"idle", "insert", "commit", "done"},
         new.pc = "done" => w \in checkpoint,
         new.pc \in {"insert", "commit"} => Busy(r, w) \/ w \notin checkpoint,
         Pc(r, w) # "done",
         w = Close => \A v \in Writes : Pc(r, v) = "done"
  PROVE  IInv'
<1> USE DEF Types
<1>1. Types'
  BY DEF IInv
<1>2. \A q \in Runs, v \in Calls :
        IF q = r /\ v = w THEN call'[q][v] = new ELSE call'[q][v] = call[q][v]
  BY DEF IInv
<1>3. \A v : Occurs(v)' <=> Occurs(v)
  BY DEF Occurs
<1>4. CallsKnow'
  BY <1>2, <1>3 DEF IInv, CallsKnow, Pc
<1>5. ClosesLast'
  BY <1>2 DEF IInv, ClosesLast, Pc, Calls, Distinct
<1>6. RecordedOccurs'
  BY <1>3 DEF IInv, RecordedOccurs
<1>7. ASSUME ~twins'
      PROVE  Single'
  <2>1. Single
    BY <1>7 DEF IInv
  <2>2. Alone'
    BY <1>2, <2>1 DEF Single, Alone, Busy, Pc
  <2>3. OnceEach' /\ CloseLast'
    BY <1>3, <2>1 DEF Single, OnceEach, CloseLast
  <2>4. QED BY <2>2, <2>3 DEF Single
<1>8. QED BY <1>1, <1>4, <1>5, <1>6, <1>7 DEF IInv

LEMMA CheckStep ==
  ASSUME IInv, Distinct, NEW r \in Runs, NEW w \in Calls, CheckWrite(r, w) \/ Insert(r, w)
  PROVE  IInv'
<1> USE DEF IInv, Types
<1>1. r \in alive /\ call[r][w] \in CallType /\ Len(stream) \in Nat
  BY DEF CheckWrite, Insert
<1>2. UNCHANGED <<stream, checkpoint, alive, twins>>
  BY DEF CheckWrite, Insert
<1>3. CASE CheckWrite(r, w)
  <2> DEFINE new == [call[r][w] EXCEPT !.pc = IF w \in checkpoint THEN "done" ELSE "insert"]
  <2>1. call' = [call EXCEPT ![r][w] = new]
    BY <1>1, <1>3 DEF CheckWrite, Goto, Checked
  <2>2. /\ new \in CallType
        /\ new.pc = IF w \in checkpoint THEN "done" ELSE "insert"
    BY <1>1 DEF CallType, PCs
  <2>3. /\ Pc(r, w) = "idle"
        /\ w = Close => \A v \in Writes : Pc(r, v) = "done"
    BY <1>3 DEF CheckWrite, Ready, Done, Pc
  <2> HIDE DEF new, IInv, Types
  <2>4. QED BY <1>1, <1>2, <2>1, <2>2, <2>3, CallMoves
<1>4. CASE Insert(r, w)
  <2> DEFINE new == [pc |-> "commit", offset |-> Len(stream)]
  <2>1. call' = [call EXCEPT ![r][w] = new]
    BY <1>4 DEF Insert
  <2>2. new \in CallType /\ new.pc = "commit" /\ new.offset <= Len(stream)
    BY <1>1 DEF CallType, PCs
  <2>3. /\ Pc(r, w) # "done" /\ Busy(r, w)
        /\ w = Close => \A v \in Writes : Pc(r, v) = "done"
    BY <1>4 DEF Insert, Pc, Busy, ClosesLast
  <2>4. new.pc \in {"idle", "insert", "commit", "done"} /\ new.pc # "done"
    BY <2>2
  <2> HIDE DEF new, IInv, Types
  <2>5. IInv /\ r \in alive
    BY <1>1
  <2>6. QED BY <1>2, <2>1, <2>2, <2>3, <2>4, <2>5, CallMoves
<1>5. QED BY <1>3, <1>4

(* The stream after a value is appended.                                   *)
LEMMA PutAppends ==
  ASSUME stream \in Seq(Calls), NEW w \in Calls, Put(w, Len(stream))
  PROVE  /\ stream' \in Seq(Calls) /\ Len(stream') = Len(stream) + 1
         /\ stream'[Len(stream) + 1] = w
         /\ \A i \in 1..Len(stream) : stream'[i] = stream[i]
<1>1. Len(stream) \in Nat /\ \A i \in 1..Len(stream) : stream[i] \in Calls
  OBVIOUS
<1>2. \A i \in 1..Len(stream) + 1 : i # Len(stream) + 1 => i \in 1..Len(stream)
  BY <1>1
<1>3. stream' = [i \in 1..Len(stream) + 1 |-> IF i = Len(stream) + 1 THEN w ELSE stream[i]]
  BY DEF Put
<1>4. \A i \in 1..Len(stream) + 1 : (IF i = Len(stream) + 1 THEN w ELSE stream[i]) \in Calls
  BY <1>1, <1>2
<1>5. Len(stream) + 1 \in Nat /\ Len(stream) + 1 \in 1..Len(stream) + 1
  BY <1>1
<1>6. stream' \in Seq(Calls) /\ Len(stream') = Len(stream) + 1
  BY <1>3, <1>4, <1>5
<1>7. \A i \in 1..Len(stream) : i \in 1..Len(stream) + 1 /\ i # Len(stream) + 1
  BY <1>1
<1>8. QED BY <1>3, <1>5, <1>6, <1>7

(* A call that commits its value.                                          *)
LEMMA Appends ==
  ASSUME IInv, Distinct, NEW r \in alive, NEW w \in Calls, NEW new \in CallType,
         call' = [call EXCEPT ![r][w] = new],
         Pc(r, w) = "commit", Put(w, Len(stream)),
         UNCHANGED <<alive, twins>>,
         IF w \in InStep THEN new.pc = "written" /\ checkpoint' = checkpoint
         ELSE new.pc \in {"idle", "done"} /\ checkpoint' = checkpoint \cup {w}
  PROVE  IInv'
<1>1. /\ stream' \in Seq(Calls) /\ Len(stream') = Len(stream) + 1 /\ Len(stream) \in Nat
      /\ stream'[Len(stream) + 1] = w
      /\ \A i \in 1..Len(stream) : stream'[i] = stream[i]
  BY PutAppends DEF IInv, Types
<1>2. call \in [Runs -> [Calls -> CallType]] /\ r \in Runs
  BY DEF IInv, Types
<1>3. Types'
  BY <1>1, <1>2 DEF IInv, Types
<1>4. \A q \in Runs, v \in Calls :
        IF q = r /\ v = w THEN call'[q][v] = new ELSE call'[q][v] = call[q][v]
  BY <1>2
<1>5. 1..Len(stream') = 1..Len(stream) \cup {Len(stream) + 1}
  BY <1>1
<1>6. \A v : Occurs(v)' <=> Occurs(v) \/ v = w
  BY <1>1, <1>5 DEF Occurs
<1>7. /\ new.pc # "commit" /\ (new.pc = "done" => w \in checkpoint')
      /\ checkpoint \subseteq checkpoint' /\ checkpoint' \subseteq checkpoint \cup {w}
  OBVIOUS
<1>8. CallsKnow'
  <2> SUFFICES ASSUME NEW q \in Runs, NEW v \in Calls
               PROVE  /\ call'[q][v].pc = "commit" => call'[q][v].offset <= Len(stream')
                      /\ call'[q][v].pc = "written" => Occurs(v)'
                      /\ call'[q][v].pc = "done" => v \in checkpoint'
                      /\ q \notin alive => call'[q][v].pc = "idle"
    BY DEF CallsKnow, Pc
  <2>1. CASE q = r /\ v = w
    BY <1>4, <1>6, <1>7, <2>1
  <2>2. CASE ~(q = r /\ v = w)
    <3>1. call'[q][v] = call[q][v] /\ call[q][v] \in CallType
      BY <1>2, <1>4, <2>2
    <3>2. call[q][v].offset \in Nat
      BY <3>1 DEF CallType
    <3>3. /\ call[q][v].pc = "commit" => call[q][v].offset <= Len(stream)
          /\ call[q][v].pc = "written" => Occurs(v)
          /\ call[q][v].pc = "done" => v \in checkpoint
          /\ q \notin alive => call[q][v].pc = "idle"
      BY DEF IInv, CallsKnow, Pc
    <3>4. call[q][v].offset <= Len(stream) => call[q][v].offset <= Len(stream')
      BY <1>1, <3>2
    <3>5. QED BY <1>6, <1>7, <3>1, <3>3, <3>4
  <2>3. QED BY <2>1, <2>2
<1>9. w = Close => \A v \in Writes : Pc(r, v) = "done" /\ v \in checkpoint
  BY <1>2 DEF IInv, ClosesLast, CallsKnow, Calls
<1>10. ClosesLast'
  <2>1. \A q \in Runs : call'[q][Close].pc # "idle" => \A v \in Writes : call'[q][v].pc = "done"
    BY <1>2, <1>4, <1>9 DEF IInv, ClosesLast, Pc, Calls, Distinct
  <2>2. Close \in checkpoint' => Writes \subseteq checkpoint'
    BY <1>7, <1>9 DEF IInv, ClosesLast
  <2>3. QED BY <2>1, <2>2 DEF ClosesLast, Pc
<1>11. RecordedOccurs'
  BY <1>6, <1>7 DEF IInv, RecordedOccurs
<1>12. ASSUME ~twins'
       PROVE  Single'
  <2>1. Single /\ w \notin checkpoint
    BY <1>2, <1>12 DEF IInv, Single, Alone, Busy
  <2>2. Alone'
    <3> SUFFICES ASSUME NEW q \in Runs, NEW v \in Calls,
                        call'[q][v].pc \in {"insert", "commit", "written"}
                 PROVE  v \notin checkpoint'
      BY <2>1 DEF Single, Alone, Busy, Pc
    <3>1. CASE q = r /\ v = w
      BY <1>4, <2>1, <3>1
    <3>2. CASE q = r /\ v # w
      BY <1>2, <1>4, <1>7, <2>1, <3>2 DEF Single, Alone, Busy, Pc
    <3>3. CASE q # r
      <4>1. q \notin alive
        BY <2>1, <3>3 DEF Single, Alone
      <4>2. Pc(q, v) = "idle"
        BY <4>1 DEF IInv, CallsKnow
      <4>3. QED BY <1>4, <3>3, <4>2 DEF Pc
    <3>4. QED BY <3>1, <3>2, <3>3
  <2>3. OnceEach'
    <3> SUFFICES ASSUME NEW v \in Calls, v \notin InStep
                 PROVE  /\ Occurs(v)' => v \in checkpoint'
                        /\ \A i, j \in 1..Len(stream') : stream'[i] = v /\ stream'[j] = v => i = j
      BY DEF OnceEach
    <3>1. Occurs(v)' => v \in checkpoint'
      BY <1>6, <1>7, <2>1 DEF Single, OnceEach
    <3>2. v = w => \A i \in 1..Len(stream) : stream[i] # v
      BY <2>1 DEF Single, OnceEach, Occurs
    <3>3. \A i, j \in 1..Len(stream) : stream[i] = v /\ stream[j] = v => i = j
      BY <2>1 DEF Single, OnceEach
    <3>4. \A i, j \in 1..Len(stream') : stream'[i] = v /\ stream'[j] = v => i = j
      BY <1>1, <1>5, <3>2, <3>3
    <3>5. QED BY <3>1, <3>4
  <2>4. CloseLast'
    <3>1. ~Occurs(Close)
      <4>1. Occurs(Close) => Close \in checkpoint /\ Writes \subseteq checkpoint
        BY <2>1 DEF IInv, ClosesLast, Single, OnceEach, Distinct, Calls
      <4>2. QED BY <2>1, <4>1 DEF Calls
    <3>2. QED BY <1>1, <1>5, <3>1 DEF CloseLast, Occurs
  <2>5. QED BY <2>1, <2>2, <2>3, <2>4 DEF Single
<1>13. QED BY <1>3, <1>8, <1>10, <1>11, <1>12 DEF IInv

LEMMA CommitStep ==
  ASSUME IInv, Distinct, NEW r \in Runs, NEW w \in Calls, Commit(r, w)
  PROVE  IInv'
<1>1. /\ r \in alive /\ call[r][w] \in CallType /\ Len(stream) \in Nat
      /\ call[r][w].offset \in Nat /\ call[r][w].offset <= Len(stream)
  <2>1. r \in alive /\ call[r][w] \in CallType /\ Len(stream) \in Nat
    BY DEF Commit, IInv, Types
  <2>2. Pc(r, w) = "commit"
    BY DEF Commit, Pc
  <2>3. QED BY <2>1, <2>2 DEF IInv, CallsKnow, CallType
<1>2. /\ Pc(r, w) = "commit" /\ Busy(r, w)
      /\ w = Close => \A v \in Writes : Pc(r, v) = "done"
      /\ UNCHANGED <<alive, twins>>
  BY DEF Commit, Pc, Busy, IInv, ClosesLast
<1> DEFINE At(pc) == [call[r][w] EXCEPT !.pc = pc]
<1>3. \A pc \in PCs : At(pc) \in CallType /\ At(pc).pc = pc
  BY <1>1 DEF CallType
<1>4. \A pc : Goto(r, w, pc) => call' = [call EXCEPT ![r][w] = At(pc)]
  BY <1>1 DEF Goto
<1> HIDE DEF At
<1>5. CASE Clashes(r, w)
  <2>1. PICK pc \in {"insert", "idle"} : Goto(r, w, pc) /\ UNCHANGED <<stream, checkpoint>>
    BY <1>5 DEF Commit
  <2>2. /\ At(pc) \in CallType /\ At(pc).pc = pc /\ pc # "commit" /\ pc # "done"
        /\ call' = [call EXCEPT ![r][w] = At(pc)]
    BY <1>3, <1>4, <2>1 DEF PCs
  <2>3. Pc(r, w) # "done" /\ At(pc).pc \in {"idle", "insert", "commit", "done"}
    BY <1>2, <2>1, <2>2
  <2>4. UNCHANGED <<stream, checkpoint, alive, twins>>
    BY <1>2, <2>1
  <2>5. At(pc).pc # "commit" /\ At(pc).pc # "done"
    BY <2>2
  <2>6. QED BY <1>1, <1>2, <2>2, <2>3, <2>4, <2>5, CallMoves
<1>6. CASE ~Clashes(r, w)
  <2>1. Put(w, Len(stream))
    BY <1>1, <1>6 DEF Commit, Clashes
  <2>2. PICK pc \in {"written", "idle", "done"} :
          /\ Goto(r, w, pc)
          /\ IF w \in InStep THEN pc = "written" /\ checkpoint' = checkpoint
             ELSE pc \in {"idle", "done"} /\ checkpoint' = checkpoint \cup {w}
    BY <1>6 DEF Commit
  <2>3. /\ At(pc) \in CallType /\ At(pc).pc = pc
        /\ call' = [call EXCEPT ![r][w] = At(pc)]
    BY <1>3, <1>4, <2>2 DEF PCs
  <2>4. IF w \in InStep THEN At(pc).pc = "written" /\ checkpoint' = checkpoint
        ELSE At(pc).pc \in {"idle", "done"} /\ checkpoint' = checkpoint \cup {w}
    BY <2>2, <2>3
  <2>5. QED BY <1>1, <1>2, <2>1, <2>3, <2>4, Appends
<1>7. QED BY <1>5, <1>6

LEMMA RecordStepOK ==
  ASSUME IInv, Distinct, NEW r \in Runs, NEW w \in Calls, RecordStep(r, w)
  PROVE  IInv'
<1>1. /\ r \in alive /\ Pc(r, w) = "written"
      /\ checkpoint' = checkpoint \cup {w} /\ UNCHANGED <<stream, alive, twins>>
  BY DEF RecordStep, Pc
<1>2. call \in [Runs -> [Calls -> CallType]]
  BY DEF IInv, Types
<1>3. call' = [call EXCEPT ![r][w].pc = "done"]
  BY DEF RecordStep, Goto
<1>4. Types'
  <2>1. [call[r][w] EXCEPT !.pc = "done"] \in CallType
    BY <1>2 DEF CallType, PCs
  <2>2. call' \in [Runs -> [Calls -> CallType]]
    BY <1>2, <1>3, <2>1
  <2>3. QED BY <1>1, <2>2 DEF IInv, Types
<1>5. \A q \in Runs, v \in Calls :
        IF q = r /\ v = w THEN call'[q][v].pc = "done" ELSE call'[q][v] = call[q][v]
  BY <1>2, <1>3 DEF CallType
<1>6. \A v : Occurs(v)' <=> Occurs(v)
  BY <1>1 DEF Occurs
<1>7. CallsKnow'
  BY <1>1, <1>5, <1>6 DEF IInv, CallsKnow, Pc
<1>8. ClosesLast'
  <2>1. w = Close => \A v \in Writes : Pc(r, v) = "done" /\ v \in checkpoint
    BY <1>1 DEF IInv, ClosesLast, CallsKnow, Calls
  <2>2. \A q \in Runs : call'[q][Close].pc # "idle" => \A v \in Writes : call'[q][v].pc = "done"
    BY <1>5, <2>1 DEF IInv, ClosesLast, Pc, Calls
  <2>3. Close \in checkpoint' => Writes \subseteq checkpoint'
    BY <1>1, <2>1 DEF IInv, ClosesLast
  <2>4. QED BY <2>2, <2>3 DEF ClosesLast, Pc
<1>9. RecordedOccurs'
  BY <1>1, <1>6 DEF IInv, RecordedOccurs, CallsKnow
<1>10. ASSUME ~twins'
       PROVE  Single'
  <2>1. Single
    BY <1>1, <1>10 DEF IInv
  <2>2. \A q \in Runs, v \in Calls : q # r => Pc(q, v) = "idle"
    BY <1>1, <2>1 DEF Single, Alone, IInv, CallsKnow
  <2>3. Alone'
    BY <1>1, <1>5, <2>1, <2>2 DEF Single, Alone, Busy, Pc
  <2>4. OnceEach' /\ CloseLast'
    BY <1>1, <1>6, <2>1 DEF Single, OnceEach, CloseLast
  <2>5. QED BY <2>3, <2>4 DEF Single
<1>11. QED BY <1>4, <1>7, <1>8, <1>9, <1>10 DEF IInv

LEMMA EndsOK ==
  ASSUME IInv, NEW r \in Runs, Ends(r), UNCHANGED <<stream, checkpoint, twins>>
  PROVE  IInv'
<1>1. call \in [Runs -> [Calls -> CallType]] /\ IdleCall \in CallType
  BY DEF IInv, Types, IdleCall, CallType, PCs
<1>2. Types'
  BY <1>1 DEF IInv, Types, Ends
<1>3. \A q \in Runs, v \in Calls :
        IF q = r THEN call'[q][v].pc = "idle" ELSE call'[q][v] = call[q][v]
  BY <1>1 DEF Ends, IdleCall
<1>4. \A v : Occurs(v)' <=> Occurs(v)
  BY DEF Occurs
<1>5. alive' = alive \ {r}
  BY DEF Ends
<1>6. CallsKnow'
  BY <1>3, <1>4, <1>5 DEF IInv, CallsKnow, Pc
<1>7. ClosesLast'
  BY <1>3 DEF IInv, ClosesLast, Pc, Calls
<1>8. RecordedOccurs' /\ (~twins' => Single')
  BY <1>3, <1>4, <1>5 DEF IInv, RecordedOccurs, Single, Alone, OnceEach, CloseLast, Busy, Pc
<1>9. QED BY <1>2, <1>6, <1>7, <1>8 DEF IInv

LEMMA StartOK ==
  ASSUME IInv, NEW r \in Runs, StartRun(r)
  PROVE  IInv'
<1>1. /\ alive' = alive \cup {r} /\ UNCHANGED <<stream, checkpoint, call>>
      /\ ~twins' => ~twins /\ alive = {}
  BY DEF StartRun
<1>2. Types'
  BY <1>1 DEF IInv, Types
<1>3. \A v : Occurs(v)' <=> Occurs(v)
  BY <1>1 DEF Occurs
<1>4. CallsKnow' /\ ClosesLast' /\ RecordedOccurs'
  BY <1>1, <1>3 DEF IInv, CallsKnow, ClosesLast, RecordedOccurs, Pc
<1>5. ~twins' => Single'
  BY <1>1, <1>3 DEF IInv, Single, Alone, OnceEach, CloseLast, Busy, Pc
<1>6. QED BY <1>2, <1>4, <1>5 DEF IInv

LEMMA Steady ==
  ASSUME IInv, UNCHANGED <<stream, checkpoint, call, alive, twins>>
  PROVE  IInv'
BY DEF IInv, Types, CallsKnow, ClosesLast, RecordedOccurs, Single, Alone, OnceEach,
       CloseLast, Occurs, Busy, Pc

-----------------------------------------------------------------------------
(* Every step keeps what the calls know of the tables.                     *)
THEOREM Invariance == ASSUME Distinct PROVE Spec => []IInv
<1>1. IInv /\ [Next]_streamVars => IInv'
  <2> SUFFICES ASSUME IInv, [Next]_streamVars PROVE IInv'
    OBVIOUS
  <2>1. ASSUME NEW r \in Runs, StartRun(r) PROVE IInv'
    BY <2>1, StartOK
  <2>2. ASSUME NEW r \in Runs, Return(r) \/ Crash(r) PROVE IInv'
    BY <2>2, EndsOK DEF Return, Crash
  <2>3. ASSUME NEW r \in Runs, NEW w \in Calls, CallStep(r, w) PROVE IInv'
    BY <2>3, Distinct, CheckStep, CommitStep, RecordStepOK DEF CallStep
  <2>4. ASSUME NEW x \in Readers, ReaderStep(x) PROVE IInv'
    BY <2>4, Steady DEF ReaderStep, Read, AskStatus
  <2>5. CASE UNCHANGED streamVars
    BY <2>5, Steady DEF streamVars
  <2>6. QED BY <2>1, <2>2, <2>3, <2>4, <2>5 DEF Next
<1>2. QED BY <1>1, InitOK, PTL DEF Spec

(* How often a value is in the stream.                                     *)
LEMMA Count ==
  ASSUME stream \in Seq(Calls), NEW w \in Calls
  PROVE  /\ Copies(w) \in Nat
         /\ Occurs(w) => Copies(w) >= 1
         /\ ~Occurs(w) => Copies(w) = 0
         /\ Occurs(w) /\ (\A i, j \in 1..Len(stream) : stream[i] = w /\ stream[j] = w => i = j)
              => Copies(w) = 1
<1> DEFINE At == {i \in DOMAIN stream : stream[i] = w}
<1>1. DOMAIN stream = 1..Len(stream) /\ Len(stream) \in Nat
  OBVIOUS
<1>2. IsFiniteSet(1..Len(stream))
  BY <1>1, FS_Interval
<1>3. At \subseteq 1..Len(stream)
  BY <1>1
<1>4. IsFiniteSet(At)
  BY <1>2, <1>3, FS_Subset
<1>5. Cardinality(At) \in Nat /\ (Cardinality(At) = 0 <=> At = {})
  BY <1>4, FS_CardinalityType, FS_EmptySet
<1>6. At = {} <=> ~Occurs(w)
  BY <1>1 DEF Occurs
<1>7. ASSUME \A i, j \in 1..Len(stream) : stream[i] = w /\ stream[j] = w => i = j,
             Occurs(w)
      PROVE  Cardinality(At) = 1
  <2>1. PICK i \in 1..Len(stream) : stream[i] = w
    BY <1>7 DEF Occurs
  <2>2. At = {i}
    BY <1>1, <1>7, <2>1
  <2>3. QED BY <2>2, FS_Singleton
<1>8. Copies(w) = Cardinality(At)
  BY DEF Copies
<1> HIDE DEF At
<1>9. Cardinality(At) # 0 => Cardinality(At) >= 1
  BY <1>5
<1>10. QED BY <1>5, <1>6, <1>7, <1>8, <1>9

(* A recorded write is in the stream, and one made in the body exactly     *)
(* once unless two executions were under way (write_stream_from_workflow). *)
THEOREM WrittenOnceCorrect == ASSUME Distinct PROVE Spec => []WrittenOnce
<1>1. IInv => WrittenOnce
  <2> SUFFICES ASSUME IInv, NEW w \in Calls
               PROVE  /\ w \in checkpoint => Copies(w) >= 1
                      /\ w \notin InStep /\ ~twins =>
                           Copies(w) = IF w \in checkpoint THEN 1 ELSE 0
    BY DEF WrittenOnce
  <2>1. stream \in Seq(Calls) /\ (w \in checkpoint => Occurs(w))
    BY DEF IInv, Types, RecordedOccurs
  <2>2. w \notin InStep /\ ~twins =>
          /\ Occurs(w) => w \in checkpoint
          /\ \A i, j \in 1..Len(stream) : stream[i] = w /\ stream[j] = w => i = j
    BY DEF IInv, Single, OnceEach
  <2>3. QED BY <2>1, <2>2, Count
<1>2. QED BY <1>1, Invariance, Distinct, PTL

(* The sentinel is the last row (close_stream comes after the writes).     *)
THEOREM CloseIsLastCorrect == ASSUME Distinct PROVE Spec => []CloseIsLast
<1>1. IInv => CloseIsLast
  BY DEF IInv, Types, Single, CloseLast, CloseIsLast
<1>2. QED BY <1>1, Invariance, Distinct, PTL

-----------------------------------------------------------------------------
(* Steps.  ResultStands is not inductive: that a step which still calls    *)
(* its function has nothing recorded has to be known until it is over.     *)
StepFresh ==
  /\ step.pc = "plain" => ~options.is_workflow
  /\ step.pc \in {"check", "call", "record"} => options.is_workflow
  /\ step.pc \in {"call", "record"} => recorded = NoResult

StepType ==
  /\ step \in [pc : {"idle", "plain", "check", "call", "record", "done"},
               attempt : Nat,
               result : Values \cup {Unwritten, Failed, Exceeded, NoResult}]
  /\ recorded \in Values \cup {Unwritten, Failed, Exceeded, NoResult}
  /\ options \in Options

StepInv == StepType /\ StepFresh /\ ResultStands

LEMMA InitStepInv == StepInit => StepInv
BY DEF StepInit, StepInv, StepType, StepFresh, ResultStands, NewStep

LEMMA NextStepInv == StepInv /\ [StepNext]_stepVars => StepInv'
<1> SUFFICES ASSUME StepInv, [StepNext]_stepVars PROVE StepInv'
  OBVIOUS
<1> USE DEF StepInv, StepType
<1>1. CASE Begin
  BY <1>1 DEF Begin, StepGoes, StepFresh, ResultStands, Unrecorded
<1>2. CASE PlainCall
  BY <1>2 DEF PlainCall, End, StepFresh, ResultStands, Unrecorded
<1>3. CASE Check
  <2>1. CASE recorded # NoResult
    BY <1>3, <2>1 DEF Check, Replayed, End, StepFresh, ResultStands
  <2>2. CASE recorded = NoResult
    BY <1>3, <2>2 DEF Check, Replayed, StepGoes, StepFresh, ResultStands
  <2>3. QED BY <2>1, <2>2
<1>4. CASE ReturnValue
  <2>1. PICK v \in Values \cup {Unwritten} :
          step' = [step EXCEPT !.pc = "record", !.result = v]
    BY <1>4 DEF ReturnValue
  <2>2. /\ step'.pc = "record"
        /\ step' \in [pc : {"idle", "plain", "check", "call", "record", "done"},
                      attempt : Nat,
                      result : Values \cup {Unwritten, Failed, Exceeded, NoResult}]
    BY <2>1
  <2>3. QED BY <1>4, <2>2 DEF ReturnValue, StepFresh, ResultStands
<1>5. CASE FailedCall
  <2> DEFINE pc == IF step.attempt + 1 < Attempts THEN "call" ELSE "record"
           n == step.attempt + 1
  <2>1. step' = [step EXCEPT !.attempt = n, !.result = LastFailure, !.pc = pc]
        /\ recorded' = recorded /\ options' = options /\ step.pc = "call"
    BY <1>5 DEF FailedCall, Fail, Attempted
  <2>2. LastFailure \in {Exceeded, Failed} /\ pc \in {"call", "record"} /\ n \in Nat
    BY DEF LastFailure
  <2> HIDE DEF pc, n
  <2>3. /\ step'.pc \in {"call", "record"}
        /\ step' \in [pc : {"idle", "plain", "check", "call", "record", "done"},
                      attempt : Nat,
                      result : Values \cup {Unwritten, Failed, Exceeded, NoResult}]
    BY <2>1, <2>2
  <2>4. QED BY <2>1, <2>3 DEF StepFresh, ResultStands
<1>6. CASE Record
  BY <1>6 DEF Record, Unrecorded, StepGoes, StepFresh, ResultStands
<1>7. CASE Restart
  BY <1>7 DEF Restart, NewStep, StepFresh, ResultStands
<1>8. CASE UNCHANGED stepVars
  BY <1>8 DEF stepVars, StepFresh, ResultStands, Unrecorded
<1>9. QED
  BY <1>1, <1>2, <1>3, <1>4, <1>5, <1>6, <1>7, <1>8 DEF StepNext

(* Whatever the function returns or raises, however often it is tried and  *)
(* wherever the process dies, an execution of a step goes on with what is  *)
(* recorded for it, or records nothing at all (ResultStands).              *)
THEOREM ResultStandsCorrect == StepSpec => []ResultStands
<1>1. StepInv => ResultStands
  BY DEF StepInv
<1>2. QED BY InitStepInv, NextStepInv, <1>1, PTL DEF StepSpec

-----------------------------------------------------------------------------
(* Events: the setter.  That a set is not skipped must mean that no later  *)
(* one has been made, so the sets before the running workflow's next one,  *)
(* and those before any in the history, are recorded.                      *)
SetterInv ==
  /\ event \in 0..NumSets /\ history \subseteq Sets /\ sets \subseteq Sets
  /\ setter \in 1..(NumSets + 1)
  /\ \A m \in Sets : m < setter => m \in sets
  /\ \A n \in history : n <= event /\ \A m \in Sets : m < n => m \in sets
  /\ event # 0 => event \in history

LEMMA InitSetterInv == EventInit => SetterInv
BY SetsAssumption DEF EventInit, SetterInv, Sets

(* A set that is made is not older than the event.                         *)
LEMMA UpsertForward ==
  ASSUME SetterInv, setter \in Sets, ~Skipped(setter), Upsert(setter)
  PROVE  /\ event <= setter /\ event' = setter /\ history' = history \cup {setter}
         /\ \A n \in history : n <= setter
<1>1. \A n \in history : n <= setter
  <2> SUFFICES ASSUME NEW n \in history PROVE n <= setter
    OBVIOUS
  <2>1. n \in Nat /\ setter \in Nat /\ (setter < n => setter \in sets)
    BY DEF SetterInv, Sets
  <2>2. QED BY <2>1 DEF Skipped
<1>2. event <= setter
  BY <1>1, SetsAssumption DEF SetterInv, Sets
<1>3. QED BY <1>1, <1>2 DEF Upsert

LEMMA NextSetterInv ==
  ASSUME SetterInv, [EventNext]_eventVars
  PROVE  SetterInv' /\ [EventForwardStep]_eventVars
<1> USE SetsAssumption
<1>1. CASE SetFromWorkflow
  <2>1. /\ event <= setter /\ event' = setter /\ history' = history \cup {setter}
        /\ \A n \in history : n <= setter
    BY <1>1, UpsertForward DEF SetFromWorkflow
  <2>2. /\ setter \in Sets /\ sets' = sets \cup {setter}
        /\ setter' \in {setter, setter + 1}
    BY <1>1 DEF SetFromWorkflow
  <2>3. QED BY <2>1, <2>2 DEF SetterInv, EventForwardStep, Sets
<1>2. CASE SetFromStep
  <2>1. setter \in Sets /\ sets' = sets /\ setter' = setter
    BY <1>2 DEF SetFromStep, Sets
  <2>2. /\ event <= setter /\ event' = setter /\ history' = history \cup {setter}
        /\ \A n \in history : n <= setter
    BY <1>2, <2>1, UpsertForward DEF SetFromStep
  <2>3. QED BY <2>1, <2>2 DEF SetterInv, EventForwardStep, Sets
<1>3. CASE RecordSet
  BY <1>3 DEF RecordSet, SetterInv, EventForwardStep, Sets
<1>4. CASE SkipSet
  BY <1>4 DEF SkipSet, Skipped, SetterInv, EventForwardStep, Sets
<1>5. CASE CrashSetter
  BY <1>5 DEF CrashSetter, SetterInv, EventForwardStep, Sets
<1>6. CASE UNCHANGED setterVars
  BY <1>6 DEF setterVars, SetterInv, EventForwardStep, Sets
<1>7. QED
  BY <1>1, <1>2, <1>3, <1>4, <1>5, <1>6
  DEF EventNext, GetterStep, TimeOut, Listen, CrashGetters, Call, SetCondition, Acquire,
      Peek, Wait, Wake, ReadEvent, Pop, RecordGet, Poll, Receive, Signal, eventVars, setterVars

(* However often the setting workflow crashes and sets all its values      *)
(* again, in its body or inside steps that are not recorded yet, the event *)
(* never goes back to an earlier one (EventForward).                       *)
THEOREM EventForwardCorrect == EventSpec => EventForward
<1>1. SetterInv /\ [EventNext]_eventVars => SetterInv' /\ [EventForwardStep]_eventVars
  BY NextSetterInv
<1>2. QED BY InitSetterInv, <1>1, PTL DEF EventSpec, EventForward

-----------------------------------------------------------------------------
(* Events: the getters.                                                    *)
GetterPCs == {"idle", "set", "done", "failed", "record", "pop"} \cup Using

Users == {g \in Getters : getter[g].pc \in Using \cup {"pop"}}

GetterType ==
  /\ getter \in [Getters -> [pc : GetterPCs, cond : Getters \cup {NoGetter},
                             result : 0..NotYet]]
  /\ got \in [Getters -> 0..NotYet]
  /\ entry \in [cond : Getters \cup {NoGetter}, count : Nat]
  /\ event \in 0..NumSets

(* A call that is under way has nothing recorded yet.                      *)
Unanswered ==
  \A g \in Getters : getter[g].pc \in Using \cup {"set", "pop", "record"} => got[g] = NotYet

GetterInv == GetterType /\ Unanswered /\ GettersAgree

LEMMA InitGetterInv == EventInit => GetterInv
<1> SUFFICES ASSUME EventInit PROVE GetterInv
  OBVIOUS
<1>1. GetterType
  BY SetsAssumption
  DEF EventInit, GetterType, IdleGetter, NoEntry, GetterPCs, NotYet
<1>2. {g \in Getters : getter[g].pc \in Using \cup {"pop"}} = {}
  BY DEF EventInit, IdleGetter, Using, Locking, Waiting
<1>3. ConditionShared
  BY <1>2, FS_EmptySet DEF EventInit, NoEntry, ConditionShared
<1>4. QED
  BY <1>1, <1>3, GettersAssumption
  DEF EventInit, GetterInv, Unanswered, GettersAgree, GetRepeats, IdleGetter, Using,
      Locking, Waiting

(* A step of one call that uses the condition before and after it.         *)
LEMMA UserMoves ==
  ASSUME GetterInv, NEW g \in Getters, NEW me \in [pc : GetterPCs,
           cond : Getters \cup {NoGetter}, result : 0..NotYet],
         getter[g].pc \in Using, me.pc \in Using \cup {"pop"}, me.cond = getter[g].cond,
         getter' = [getter EXCEPT ![g] = me],
         UNCHANGED <<setterVars, got, entry>>
  PROVE  GetterInv'
<1>1. Users' = Users
  BY DEF Users, GetterInv, GetterType
<1>2. GetterType'
  BY DEF GetterInv, GetterType, setterVars
<1>3. Unanswered'
  BY DEF GetterInv, GetterType, Unanswered
<1>4. ConditionShared'
  <2>1. \A f \in Users' : getter'[f].cond = entry'.cond
    BY <1>1 DEF GetterInv, GetterType, GettersAgree, ConditionShared, Users
  <2>2. entry'.count = Cardinality(Users')
    BY <1>1 DEF GetterInv, GettersAgree, ConditionShared, Users
  <2>3. QED BY <2>1, <2>2 DEF ConditionShared, Users
<1>5. GetRepeats'
  BY GettersAssumption
  DEF GetterInv, GetterType, GettersAgree, GetRepeats, Using, Locking, Waiting
<1>6. QED BY <1>2, <1>3, <1>4, <1>5 DEF GetterInv, GettersAgree

LEMMA CallInv ==
  ASSUME GetterInv, NEW g \in Getters, Call(g)
  PROVE  GetterInv'
<1>1. PICK me \in [pc : GetterPCs, cond : Getters \cup {NoGetter}, result : 0..NotYet] :
        /\ getter' = [getter EXCEPT ![g] = me]
        /\ \/ me.pc = "set" /\ got[g] = NotYet
           \/ me.pc = "failed"
           \/ me.pc = "done" /\ me.result = got[g]
  <2> DEFINE me == CASE Recall(g) = NotYet -> [getter[g] EXCEPT !.pc = "set"]
                     [] Recall(g) = 0 -> [getter[g] EXCEPT !.pc = "failed"]
                     [] OTHER -> [getter[g] EXCEPT !.pc = "done", !.result = Recall(g)]
  <2>1. getter' = [getter EXCEPT ![g] = me]
    BY DEF Call
  <2>2. CASE got[g] = NotYet
    <3>1. me = [getter[g] EXCEPT !.pc = "set"]
      BY <2>2, SetsAssumption DEF Recall, NotYet
    <3>2. QED BY <2>1, <2>2, <3>1, ZenonT(40) DEF GetterInv, GetterType, GetterPCs
  <2>3. CASE got[g] # NotYet /\ got[g] = 0
    <3>1. me = [getter[g] EXCEPT !.pc = "failed"]
      BY <2>3 DEF Recall
    <3>2. QED BY <2>1, <2>3, <3>1, ZenonT(40) DEF GetterInv, GetterType, GetterPCs
  <2>4. CASE got[g] # NotYet /\ got[g] # 0
    <3>1. me = [getter[g] EXCEPT !.pc = "done", !.result = got[g]]
      BY <2>4 DEF Recall
    <3>2. QED BY <2>1, <2>4, <3>1, ZenonT(40) DEF GetterInv, GetterType, GetterPCs
  <2>5. QED BY <2>2, <2>3, <2>4
<1>2. getter[g].pc = "idle" /\ UNCHANGED <<event, got, entry>>
  BY DEF Call, setterVars
<1>3. Users' = Users
  BY <1>1, <1>2 DEF Users, GetterInv, GetterType, Using, Locking, Waiting
<1>4. GetterType'
  BY <1>1, <1>2 DEF GetterInv, GetterType
<1>5. Unanswered'
  BY <1>1, <1>2 DEF GetterInv, GetterType, Unanswered, Using, Locking, Waiting
<1>6. ConditionShared'
  <2>1. \A f \in Users' : getter'[f].cond = entry'.cond
    <3>1. g \notin Users
      BY <1>2 DEF Users, Using, Locking, Waiting
    <3>2. \A f \in Users : getter'[f] = getter[f] /\ getter[f].cond = entry.cond
      BY <1>1, <3>1 DEF GetterInv, GetterType, GettersAgree, ConditionShared, Users
    <3>3. QED BY <1>2, <1>3, <3>2
  <2>2. entry'.count = Cardinality(Users')
    BY <1>2, <1>3 DEF GetterInv, GettersAgree, ConditionShared, Users
  <2>3. QED BY <2>1, <2>2 DEF ConditionShared, Users
<1>7. GetRepeats'
  BY <1>1, <1>2, GettersAssumption DEF GetterInv, GetterType, GettersAgree, GetRepeats
<1>8. QED BY <1>4, <1>5, <1>6, <1>7 DEF GetterInv, GettersAgree

(* The count and the condition grow with the set of users ...              *)
LEMMA SetConditionInv ==
  ASSUME GetterInv, NEW g \in Getters, SetCondition(g)
  PROVE  GetterInv'
<1> DEFINE c == IF entry.count = 0 THEN g ELSE entry.cond
           me == [getter[g] EXCEPT !.cond = c, !.pc = IF c = g THEN "peek" ELSE "acquire"]
<1>1. /\ getter[g].pc = "set"
      /\ entry' = [cond |-> c, count |-> entry.count + 1]
      /\ getter' = [getter EXCEPT ![g] = me]
      /\ UNCHANGED <<event, got>>
  BY DEF SetCondition, setterVars, GetterInv, GetterType
<1>2. c \in Getters \cup {NoGetter} /\ entry.count \in Nat
  BY DEF GetterInv, GetterType
<1>3. me.cond = c /\ me.pc \in Using
      /\ me \in [pc : GetterPCs, cond : Getters \cup {NoGetter}, result : 0..NotYet]
  BY <1>2 DEF GetterInv, GetterType, GetterPCs, Using, Locking, Waiting
<1> HIDE DEF me
<1>4. GetterType'
  BY <1>1, <1>2, <1>3 DEF GetterInv, GetterType
<1>5. g \notin Users /\ Users \subseteq Getters /\ IsFiniteSet(Users)
  BY <1>1, GettersAssumption, FS_Subset DEF Users, Using, Locking, Waiting
<1>6. Users' = Users \cup {g}
  BY <1>1, <1>3 DEF Users, GetterInv, GetterType
<1>7. entry.count = Cardinality(Users) /\ \A f \in Users : getter[f].cond = entry.cond
  BY DEF GetterInv, GettersAgree, ConditionShared, Users
<1>8. entry'.count = Cardinality(Users')
  <2>1. Cardinality(Users \cup {g}) = Cardinality(Users) + 1
    BY <1>5, FS_AddElement
  <2>2. entry'.count = entry.count + 1
    BY <1>1
  <2>3. QED BY <1>6, <1>7, <2>1, <2>2
<1>9. \A f \in Users' : getter'[f].cond = entry'.cond
  <2>1. entry'.cond = c /\ getter'[g].cond = c
    BY <1>1, <1>3 DEF GetterInv, GetterType
  <2>2. ASSUME NEW f \in Users PROVE getter'[f].cond = c
    <3>1. f # g /\ getter'[f] = getter[f]
      BY <1>1, <1>5, <2>2 DEF GetterInv, GetterType
    <3>2. entry.count # 0
      BY <1>5, <1>7, <2>2, FS_EmptySet
    <3>3. QED BY <1>7, <2>2, <3>1, <3>2
  <2>3. QED BY <1>6, <2>1, <2>2
<1>10. Unanswered'
  BY <1>1 DEF GetterInv, GetterType, Unanswered
<1>11. GetRepeats'
  BY <1>1, <1>3, GettersAssumption
  DEF GetterInv, GetterType, GettersAgree, GetRepeats, Using, Locking, Waiting
<1>12. QED
  BY <1>4, <1>8, <1>9, <1>10, <1>11 DEF GetterInv, GettersAgree, ConditionShared, Users

(* ... and shrink with it.                                                 *)
LEMMA PopInv ==
  ASSUME GetterInv, NEW g \in Getters, Pop(g)
  PROVE  GetterInv'
<1> DEFINE pc == IF g \in InWorkflow THEN "record" ELSE "done"
           me == [getter[g] EXCEPT !.pc = pc]
<1>1. /\ getter[g].pc = "pop" /\ entry' = Popped
      /\ getter' = [getter EXCEPT ![g] = me]
      /\ UNCHANGED <<event, got>>
  BY DEF Pop, GetterGoes, setterVars, GetterInv, GetterType
<1>2. /\ me.pc = pc /\ me \in [pc : GetterPCs, cond : Getters \cup {NoGetter}, result : 0..NotYet]
      /\ pc \in {"record", "done"} /\ (g \in InWorkflow => pc # "done")
  BY DEF GetterInv, GetterType, GetterPCs
<1> HIDE DEF me, pc
<1>3. g \in Users /\ IsFiniteSet(Users)
  BY <1>1, GettersAssumption, FS_Subset DEF Users
<1>4. Users' = Users \ {g}
  BY <1>1, <1>2 DEF Users, GetterInv, GetterType, Using, Locking, Waiting
<1>5. /\ entry.count = Cardinality(Users) /\ entry.count \in Nat
      /\ \A f \in Users : getter[f].cond = entry.cond
  BY DEF GetterInv, GetterType, GettersAgree, ConditionShared, Users
<1>6. Cardinality(Users') = entry.count - 1 /\ IsFiniteSet(Users')
  BY <1>3, <1>4, <1>5, FS_RemoveElement
<1>7. entry.count # 0
  BY <1>3, <1>5, FS_EmptySet
<1>8. CASE entry.count > 1
  <2>1. /\ entry'.count = entry.count - 1 /\ entry'.cond = entry.cond
        /\ entry' \in [cond : Getters \cup {NoGetter}, count : Nat]
    BY <1>1, <1>5, <1>8 DEF Popped, GetterInv, GetterType
  <2>2. \A f \in Users' : getter'[f].cond = entry'.cond
    BY <1>1, <1>4, <1>5, <2>1 DEF Users, GetterInv, GetterType
  <2>3. ConditionShared' /\ GetterType'
    BY <1>1, <1>2, <1>6, <2>1, <2>2 DEF ConditionShared, Users, GetterInv, GetterType
  <2>4. Unanswered' /\ GetRepeats'
    BY <1>1, <1>2, GettersAssumption
    DEF GetterInv, GetterType, GettersAgree, GetRepeats, Unanswered, Using, Locking, Waiting
  <2>5. QED BY <2>3, <2>4 DEF GetterInv, GettersAgree
<1>9. CASE ~(entry.count > 1)
  <2>1. entry' = NoEntry /\ Cardinality(Users') = 0
    BY <1>1, <1>5, <1>6, <1>7, <1>9 DEF Popped
  <2>2. Users' = {}
    BY <1>6, <2>1, FS_EmptySet
  <2>3. ConditionShared'
    BY <2>1, <2>2 DEF ConditionShared, Users, NoEntry
  <2>4. GetterType'
    BY <1>1, <1>2, <2>1 DEF GetterInv, GetterType, NoEntry
  <2>5. Unanswered' /\ GetRepeats'
    BY <1>1, <1>2, GettersAssumption
    DEF GetterInv, GetterType, GettersAgree, GetRepeats, Unanswered, Using, Locking, Waiting
  <2>6. QED BY <2>3, <2>4, <2>5 DEF GetterInv, GettersAgree
<1>10. QED BY <1>8, <1>9

LEMMA RecordGetInv ==
  ASSUME GetterInv, NEW g \in Getters, RecordGet(g)
  PROVE  GetterInv'
<1> DEFINE me == [getter[g] EXCEPT !.pc = "done"]
<1>1. /\ getter[g].pc = "record" /\ got[g] = NotYet
      /\ got' = [got EXCEPT ![g] = getter[g].result]
      /\ getter' = [getter EXCEPT ![g] = me]
      /\ UNCHANGED <<event, entry>>
  BY DEF RecordGet, GetterGoes, setterVars, GetterInv, GetterType, Unanswered
<1>2. /\ me.pc = "done" /\ me.result = getter[g].result
      /\ me \in [pc : GetterPCs, cond : Getters \cup {NoGetter}, result : 0..NotYet]
  BY DEF GetterInv, GetterType, GetterPCs
<1> HIDE DEF me
<1>3. Users' = Users /\ g \notin Users
  BY <1>1, <1>2 DEF Users, GetterInv, GetterType, Using, Locking, Waiting
<1>4. GetterType'
  BY <1>1, <1>2 DEF GetterInv, GetterType
<1>5. ConditionShared'
  <2>1. entry'.count = Cardinality(Users')
    BY <1>1, <1>3 DEF GetterInv, GettersAgree, ConditionShared, Users
  <2>2. \A f \in Users' : getter'[f].cond = entry'.cond
    BY <1>1, <1>3 DEF GetterInv, GetterType, GettersAgree, ConditionShared, Users
  <2>3. QED BY <2>1, <2>2 DEF ConditionShared, Users
<1>6. Unanswered'
  BY <1>1, <1>2 DEF GetterInv, GetterType, Unanswered, Using, Locking, Waiting
<1>7. GetRepeats'
  BY <1>1, <1>2, GettersAssumption DEF GetterInv, GetterType, GettersAgree, GetRepeats
<1>8. QED BY <1>4, <1>5, <1>6, <1>7 DEF GetterInv, GettersAgree

(* notify_all wakes calls that wait, all of which go on using it.          *)
LEMMA SignalInv ==
  ASSUME GetterInv, Signal
  PROVE  GetterInv'
<1>1. /\ \A g \in Getters :
           \/ getter'[g] = getter[g]
           \/ getter[g].pc = "wait" /\ getter'[g] = [getter[g] EXCEPT !.pc = "signalled"]
      /\ DOMAIN getter' = Getters /\ getter' = [g \in DOMAIN getter' |-> getter'[g]]
      /\ UNCHANGED <<event, got, entry>>
  BY DEF Signal, setterVars
<1>2. \A g \in Getters :
        /\ getter'[g] \in [pc : GetterPCs, cond : Getters \cup {NoGetter}, result : 0..NotYet]
        /\ getter'[g].cond = getter[g].cond /\ getter'[g].result = getter[g].result
        /\ getter'[g].pc = getter[g].pc \/ (getter[g].pc = "wait" /\ getter'[g].pc = "signalled")
  BY <1>1 DEF GetterInv, GetterType, GetterPCs, Using, Waiting
<1>3. Users' = Users
  BY <1>2 DEF Users, Using, Waiting
<1>4. GetterType'
  BY <1>1, <1>2 DEF GetterInv, GetterType
<1>5. ConditionShared'
  <2>1. entry'.count = Cardinality(Users')
    BY <1>1, <1>3 DEF GetterInv, GettersAgree, ConditionShared, Users
  <2>2. \A f \in Users' : getter'[f].cond = entry'.cond
    BY <1>1, <1>2, <1>3 DEF GetterInv, GettersAgree, ConditionShared, Users
  <2>3. QED BY <2>1, <2>2 DEF ConditionShared, Users
<1>6. Unanswered'
  BY <1>1, <1>2 DEF GetterInv, Unanswered, Using, Waiting
<1>7. GetRepeats'
  BY <1>1, <1>2, GettersAssumption DEF GetterInv, GettersAgree, GetRepeats
<1>8. QED BY <1>4, <1>5, <1>6, <1>7 DEF GetterInv, GettersAgree

LEMMA CrashGettersInv ==
  ASSUME GetterInv, CrashGetters
  PROVE  GetterInv'
<1>1. /\ getter' = [g \in Getters |-> IdleGetter] /\ entry' = NoEntry
      /\ UNCHANGED <<event, got>>
  BY DEF CrashGetters, setterVars
<1>2. Users' = {}
  BY <1>1 DEF Users, IdleGetter, Using, Locking, Waiting
<1>3. GetterType'
  BY <1>1, SetsAssumption
  DEF GetterInv, GetterType, IdleGetter, NoEntry, GetterPCs, NotYet
<1>4. ConditionShared'
  BY <1>1, <1>2, FS_EmptySet DEF ConditionShared, Users, NoEntry
<1>5. Unanswered' /\ GetRepeats'
  BY <1>1, GettersAssumption
  DEF Unanswered, GetRepeats, IdleGetter, Using, Locking, Waiting
<1>6. QED BY <1>3, <1>4, <1>5 DEF GetterInv, GettersAgree

LEMMA NextGetterInv ==
  ASSUME SetterInv, SetterInv', GetterInv, [EventNext]_eventVars
  PROVE  GetterInv'
<1>1. ASSUME UNCHANGED <<getter, got, entry>> PROVE GetterInv'
  BY <1>1
  DEF GetterInv, GetterType, Unanswered, GettersAgree, ConditionShared, GetRepeats, SetterInv
<1>2. ASSUME NEW g \in Getters, Acquire(g) \/ Wait(g) \/ TimeOut(g) \/ Wake(g)
      PROVE  GetterInv'
  <2>1. PICK pc \in Using :
          /\ getter' = [getter EXCEPT ![g] = [getter[g] EXCEPT !.pc = pc]]
          /\ getter[g].pc \in Using /\ UNCHANGED <<setterVars, got, entry>>
    BY <1>2 DEF Acquire, Wait, TimeOut, Wake, GetterGoes, Using, Locking, Waiting, GetterInv, GetterType
  <2> DEFINE me == [getter[g] EXCEPT !.pc = pc]
  <2>2. /\ me.pc = pc /\ me.cond = getter[g].cond
        /\ me \in [pc : GetterPCs, cond : Getters \cup {NoGetter}, result : 0..NotYet]
    BY DEF GetterInv, GetterType, GetterPCs
  <2> HIDE DEF me
  <2>3. getter' = [getter EXCEPT ![g] = me]
    BY <2>1 DEF me
  <2>4. QED BY <2>1, <2>2, <2>3, UserMoves
<1>3. ASSUME NEW g \in Getters, getter[g].pc \in Using, getter' = Released(g, event),
             UNCHANGED <<setterVars, got, entry>>
      PROVE  GetterInv'
  <2> DEFINE me == [getter[g] EXCEPT !.pc = "pop", !.result = event]
  <2>1. event \in 0..NotYet
    BY SetsAssumption DEF GetterInv, GetterType, NotYet
  <2>2. /\ me.pc = "pop" /\ me.cond = getter[g].cond
        /\ me \in [pc : GetterPCs, cond : Getters \cup {NoGetter}, result : 0..NotYet]
    BY <2>1 DEF GetterInv, GetterType, GetterPCs
  <2>3. getter' = [getter EXCEPT ![g] = me]
    BY <1>3 DEF Released, GetterInv, GetterType
  <2> HIDE DEF me
  <2>4. QED BY <1>3, <2>2, <2>3, UserMoves
<1>4. ASSUME NEW g \in Getters, Peek(g) PROVE GetterInv'
  <2>1. getter[g].pc \in Using /\ UNCHANGED <<setterVars, got, entry>>
    BY <1>4 DEF Peek, Using, Locking
  <2>2. CASE event # 0
    BY <1>3, <1>4, <2>1, <2>2 DEF Peek
  <2>3. CASE event = 0
    <3> DEFINE me == [getter[g] EXCEPT !.pc = "timer"]
    <3>1. /\ me.pc = "timer" /\ me.cond = getter[g].cond
          /\ me \in [pc : GetterPCs, cond : Getters \cup {NoGetter}, result : 0..NotYet]
      BY DEF GetterInv, GetterType, GetterPCs, Using, Locking
    <3>2. getter' = [getter EXCEPT ![g] = me]
      BY <1>4, <2>3 DEF Peek, GetterGoes, GetterInv, GetterType
    <3> HIDE DEF me
    <3>3. me.pc \in Using
      BY <3>1 DEF Using, Locking
    <3>4. QED BY <2>1, <3>1, <3>2, <3>3, UserMoves
  <2>4. QED BY <2>2, <2>3
<1>5. ASSUME NEW g \in Getters, ReadEvent(g) PROVE GetterInv'
  <2>1. getter[g].pc \in Using
    BY <1>5 DEF ReadEvent, Using, Locking
  <2>2. QED BY <1>3, <1>5, <2>1 DEF ReadEvent
<1>6. ASSUME NEW g \in Getters, GetterStep(g) PROVE GetterInv'
  BY <1>2, <1>4, <1>5, <1>6, CallInv, SetConditionInv, PopInv, RecordGetInv DEF GetterStep
<1>7. QED
  BY <1>1, <1>2, <1>6, SignalInv, CrashGettersInv
  DEF EventNext, SetFromWorkflow, SetFromStep, RecordSet, SkipSet, CrashSetter, Listen,
      Poll, Receive, eventVars

(* Any number of get_event calls of a key, in threads that lock, wait, are *)
(* woken, time out or die in any order, keep the count of the shared       *)
(* condition exact and all wait on the one that is signalled; and a call   *)
(* of a workflow returns the same value in every execution (GettersAgree). *)
THEOREM GettersAgreeCorrect == EventSpec => []GettersAgree
<1>1. SetterInv /\ [EventNext]_eventVars => SetterInv'
  BY NextSetterInv
<1>2. SetterInv /\ SetterInv' /\ GetterInv /\ [EventNext]_eventVars => GetterInv'
  BY NextGetterInv
<1>3. GetterInv => GettersAgree
  BY DEF GetterInv
<1>4. QED BY InitSetterInv, InitGetterInv, <1>1, <1>2, <1>3, PTL DEF EventSpec
=============================================================================
