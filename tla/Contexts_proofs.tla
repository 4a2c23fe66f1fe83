---------------------------- MODULE Contexts_proofs ----------------------------
(***************************************************************************)
(* Proofs about the steps of a workflow: Contexts for every program,       *)
(* Transactions for any number of executions.                              *)
(***************************************************************************)
EXTENDS Contexts, Transactions, FiniteSetTheorems, TLAPS

-----------------------------------------------------------------------------
(* Contexts.  What a workflow's function ID counts, for every program: the *)
(* IDs that the operations before the current one have used.  From it      *)
(* follows that executions that begin again give every operation the same  *)
(* child.  First the numbering that all executions of a program share.     *)
Width(i) == IF Program[i].kind \in {"call", "fork"} THEN 2 ELSE 1

(* The function IDs used before operation i: one for each, and another one *)
(* for those that take two.                                                *)
Wide(i) == {j \in 1..(i - 1) : Width(j) = 2}
Base(i) == i - 1 + Cardinality(Wide(i))

Children == {i \in Ops : Program[i].kind \in {"start", "call"}}

(* SetWorkflowID blocks enclose the start or call of a workflow, no two    *)
(* with the same ID, and none with an ID that is derived.                  *)
IDsEnclosed ==
  /\ \A i \in Ops : Program[i].id # NoID => i \in Children
  /\ \A i, j \in Ops : Program[i].id = Program[j].id /\ i # j => Program[i].id = NoID
  /\ \A i \in Ops, f \in Nat : Program[i].id # Derived(f)

ChildOf(i) == IF Program[i].id = NoID THEN Derived(Base(i) + 1) ELSE Program[i].id

LEMMA OpsLength == Ops = 1..Len(Program) /\ Len(Program) \in Nat
  BY ProgramAssumption DEF Ops

LEMMA ProgramKind ==
  ASSUME NEW i \in Ops
  PROVE  Program[i].kind \in {"step", "start", "call", "fork"}
  BY ProgramAssumption DEF Ops

LEMMA BaseNat ==
  ASSUME NEW i \in Nat \ {0}
  PROVE  IsFiniteSet(Wide(i)) /\ Cardinality(Wide(i)) \in Nat /\ Base(i) \in Nat
<1>1. IsFiniteSet(1..(i - 1))
  BY FS_Interval
<1>2. IsFiniteSet(Wide(i))
  BY <1>1, FS_Subset DEF Wide
<1>3. QED BY <1>2, FS_CardinalityType DEF Base

(* The first operation starts at zero, each takes its width, and what is   *)
(* before an operation is before those after it.                           *)
LEMMA BaseFirst == Base(1) = 0
<1>1. Wide(1) = {}
  BY DEF Wide
<1>2. QED BY <1>1, FS_EmptySet DEF Base

LEMMA BaseNext ==
  ASSUME NEW i \in Ops
  PROVE  Base(i + 1) = Base(i) + Width(i)
<1>1. i \in Nat \ {0} /\ i \notin Wide(i)
  BY OpsLength DEF Wide
<1>2. IsFiniteSet(Wide(i)) /\ Cardinality(Wide(i)) \in Nat
  BY <1>1, BaseNat
<1>3. CASE Width(i) = 1
  <2>1. Wide(i + 1) = Wide(i)
    BY <1>1, <1>3 DEF Wide
  <2>2. QED BY <1>1, <1>2, <1>3, <2>1 DEF Base
<1>4. CASE Width(i) = 2
  <2>1. Wide(i + 1) = Wide(i) \cup {i}
    BY <1>1, <1>4 DEF Wide
  <2>2. Cardinality(Wide(i + 1)) = Cardinality(Wide(i)) + 1
    BY <1>1, <1>2, <2>1, FS_AddElement
  <2>3. QED BY <1>1, <1>2, <1>4, <2>2 DEF Base
<1>5. QED BY <1>3, <1>4 DEF Width

LEMMA BaseLater ==
  ASSUME NEW i \in Ops, NEW j \in Ops, i < j
  PROVE  Base(i) + Width(i) <= Base(j)
<1>1. i + 1 \in Nat \ {0} /\ j \in Nat \ {0} /\ i + 1 <= j
  BY OpsLength
<1>2. Wide(i + 1) \subseteq Wide(j)
  BY <1>1 DEF Wide
<1>3. /\ IsFiniteSet(Wide(j)) /\ Cardinality(Wide(j)) \in Nat
      /\ Cardinality(Wide(i + 1)) \in Nat
  BY <1>1, BaseNat
<1>4. Cardinality(Wide(i + 1)) <= Cardinality(Wide(j))
  BY <1>2, <1>3, FS_Subset
<1>5. Base(i + 1) <= Base(j)
  BY <1>1, <1>3, <1>4 DEF Base
<1>6. QED BY <1>5, BaseNext

(* No two operations have a function ID in common.                         *)
LEMMA BasesApart ==
  ASSUME NEW i \in Ops, NEW j \in Ops, i # j,
         NEW p \in {1, 2}, p <= Width(i), NEW q \in {1, 2}, q <= Width(j)
  PROVE  Base(i) + p # Base(j) + q
<1>1. i \in Nat \ {0} /\ j \in Nat \ {0}
  BY OpsLength
<1>2. Base(i) \in Nat /\ Base(j) \in Nat
  BY <1>1, BaseNat
<1>3. Width(i) \in {1, 2} /\ Width(j) \in {1, 2}
  BY DEF Width
<1>4. CASE i < j
  BY <1>2, <1>3, <1>4, BaseLater
<1>5. CASE j < i
  BY <1>2, <1>3, <1>5, BaseLater
<1>6. QED BY <1>1, <1>4, <1>5

(* No two operations give their children the same ID.                      *)
LEMMA ChildrenApart ==
  ASSUME IDsEnclosed, NEW i \in Ops, NEW j \in Ops, i # j
  PROVE  ChildOf(i) # ChildOf(j)
<1>1. i \in Nat \ {0} /\ j \in Nat \ {0}
  BY OpsLength
<1>2. Base(i) \in Nat /\ Base(j) \in Nat
  BY <1>1, BaseNat
<1>3. Base(i) + 1 # Base(j) + 1
  BY BasesApart DEF Width
<1>4. QED BY <1>2, <1>3 DEF ChildOf, IDsEnclosed, Derived

-----------------------------------------------------------------------------
(* Where an execution is says what its context holds, whichever execution  *)
(* it is; a recorded child and one that was given are those of the         *)
(* operation.                                                              *)
Kinds == {"step", "start", "call", "fork"}
Pcs == Kinds \cup {"enter", "check", "insert", "record", "result", "forked",
                   "status", "exit"}
AnyID == {NoID, Generated} \cup {Program[i].id : i \in Ops} \cup {ChildOf(i) : i \in Ops}
AnyOption == {NoOption} \cup {Program[i].option : i \in Ops}

Gift(i) == <<ChildOf(i), Base(i) + 1, Program[i].option>>

TypeInv ==
  /\ ctx \in [function_id : Nat, assigned : AnyID, block : BOOLEAN, option : AnyOption]
  /\ next \in [op : 1..(Len(Program) + 1), pc : Pcs, child : AnyID, fid : Nat,
               saved : AnyOption]
  /\ given \in [Ops -> SUBSET {Gift(i) : i \in Ops}]

PlaceInv ==
  /\ next.saved = NoOption
  /\ next.pc = "enter" => /\ ctx.function_id = Base(next.op)
                          /\ ctx.assigned = NoID /\ ctx.option = NoOption
  /\ next.pc # "enter" => next.op \in Ops /\ ctx.option = Program[next.op].option
  /\ next.pc \in Kinds => /\ Program[next.op].kind = next.pc
                          /\ ctx.function_id = Base(next.op)
                          /\ ctx.assigned = Program[next.op].id
  /\ next.pc \in {"check", "insert", "record", "result"} =>
       /\ next.op \in Children
       /\ ctx.function_id = Base(next.op) + 1 /\ ctx.assigned = NoID
       /\ next.fid = Base(next.op) + 1 /\ next.child = ChildOf(next.op)
  /\ next.pc \in {"forked", "status"} =>
       /\ Program[next.op].kind = "fork"
       /\ ctx.function_id = Base(next.op) + 1 /\ ctx.assigned = NoID
  /\ next.pc = "exit" => ctx.function_id = Base(next.op + 1) /\ ctx.assigned = NoID

LogInv ==
  \A i \in Children : Base(i) + 1 \in DOMAIN log => log[Base(i) + 1] = ChildOf(i)

GivenInv ==
  /\ \A i \in Ops : given[i] \subseteq {Gift(i)}
  /\ \A i \in Ops \ Children : given[i] = {}

Inv == TypeInv /\ PlaceInv /\ LogInv /\ GivenInv

LEMMA OpPlace ==
  ASSUME NEW i \in Ops
  PROVE  /\ i \in Nat \ {0} /\ i \in 1..(Len(Program) + 1)
         /\ i + 1 \in 1..(Len(Program) + 1)
         /\ Base(i) \in Nat /\ Base(i + 1) \in Nat
         /\ Base(i + 1) = Base(i) + Width(i)
         /\ Program[i].kind \in Kinds
         /\ Width(i) = IF Program[i].kind \in {"call", "fork"} THEN 2 ELSE 1
<1>1. /\ i \in Nat \ {0} /\ i \in 1..(Len(Program) + 1)
      /\ i + 1 \in Nat \ {0} /\ i + 1 \in 1..(Len(Program) + 1)
  BY OpsLength
<1>2. QED BY <1>1, BaseNat, BaseNext, ProgramKind DEF Width, Kinds

(* What is recorded under a function ID of an operation that is no child,  *)
(* or of a call's result, is not where a child is looked for.              *)
LEMMA RecordElsewhere ==
  ASSUME LogInv, NEW i \in Ops, NEW id, NEW p \in {1, 2}, p <= Width(i),
         i \notin Children \/ p = 2
  PROVE  \A j \in Children : Base(j) + 1 \in DOMAIN Logged(Base(i) + p, id) =>
           Logged(Base(i) + p, id)[Base(j) + 1] = ChildOf(j)
<1> SUFFICES ASSUME NEW j \in Children
             PROVE  Base(j) + 1 \in DOMAIN Logged(Base(i) + p, id) =>
                      Logged(Base(i) + p, id)[Base(j) + 1] = ChildOf(j)
  OBVIOUS
<1>1. j \in Ops /\ 1 <= Width(j)
  BY DEF Children, Width
<1>2. Base(j) + 1 # Base(i) + p
  <2>1. CASE i = j
    BY <2>1, OpPlace
  <2>2. CASE i # j
    BY <1>1, <2>2, BasesApart
  <2>3. QED BY <2>1, <2>2
<1>3. QED BY <1>2 DEF Logged, LogInv

LEMMA RecordHere ==
  ASSUME LogInv, NEW i \in Children
  PROVE  \A j \in Children : Base(j) + 1 \in DOMAIN Logged(Base(i) + 1, ChildOf(i)) =>
           Logged(Base(i) + 1, ChildOf(i))[Base(j) + 1] = ChildOf(j)
<1> SUFFICES ASSUME NEW j \in Children
             PROVE  Base(j) + 1 \in DOMAIN Logged(Base(i) + 1, ChildOf(i)) =>
                      Logged(Base(i) + 1, ChildOf(i))[Base(j) + 1] = ChildOf(j)
  OBVIOUS
<1>1. CASE i = j
  BY <1>1 DEF Logged, LogInv
<1>2. CASE i # j
  <2>1. Base(j) + 1 # Base(i) + 1
    BY <1>2, BasesApart DEF Children, Width
  <2>2. QED BY <2>1 DEF Logged, LogInv
<1>3. QED BY <1>1, <1>2

LEMMA InitInv == ContextInit => Inv
<1> SUFFICES ASSUME ContextInit PROVE Inv
  OBVIOUS
<1>1. 1 \in 1..(Len(Program) + 1)
  BY OpsLength
<1>2. TypeInv
  BY <1>1 DEF TypeInv, ContextInit, NewContext, FirstOp, AnyID, AnyOption, Pcs
<1>3. PlaceInv
  BY BaseFirst DEF PlaceInv, ContextInit, NewContext, FirstOp, Kinds
<1>4. LogInv /\ GivenInv
  BY DEF LogInv, GivenInv, ContextInit
<1>5. QED BY <1>2, <1>3, <1>4 DEF Inv

(* A child that is given is the one of its operation.                      *)
LEMMA GiveKept ==
  ASSUME Inv, Running, next.pc \in {"check", "insert"}, Give(ChildOf(next.op))
  PROVE  GivenInv' /\ given' \in [Ops -> SUBSET {Gift(i) : i \in Ops}]
<1>1. /\ next.op \in Children /\ next.op \in Ops
      /\ next.fid = Base(next.op) + 1 /\ ctx.option = Program[next.op].option
  BY DEF Inv, PlaceInv, Running
<1>2. given' = [given EXCEPT ![next.op] = @ \cup {Gift(next.op)}]
  BY <1>1 DEF Give, Gift
<1>3. /\ given \in [Ops -> SUBSET {Gift(i) : i \in Ops}]
      /\ \A i \in Ops : given[i] \subseteq {Gift(i)}
      /\ \A i \in Ops \ Children : given[i] = {}
  BY DEF Inv, TypeInv, GivenInv
<1>4. given' \in [Ops -> SUBSET {Gift(i) : i \in Ops}]
  BY <1>1, <1>2, <1>3
<1>5. \A i \in Ops : given'[i] \subseteq {Gift(i)}
  BY <1>1, <1>2, <1>3
<1>6. \A i \in Ops \ Children : given'[i] = {}
  BY <1>1, <1>2, <1>3
<1>7. QED BY <1>4, <1>5, <1>6 DEF GivenInv

LEMMA NextInv == ASSUME IDsEnclosed, Inv, [ContextNext]_contextVars PROVE Inv'
<1> USE DEF Inv
<1>1. CASE UNCHANGED contextVars
  BY <1>1 DEF contextVars, TypeInv, PlaceInv, LogInv, GivenInv
<1>2. CASE BeginAgain
  <2>1. TypeInv'
    BY <1>2, OpsLength DEF BeginAgain, TypeInv, NewContext, FirstOp, AnyID, AnyOption, Pcs
  <2>2. PlaceInv'
    BY <1>2, BaseFirst DEF BeginAgain, PlaceInv, NewContext, FirstOp, Kinds
  <2>3. LogInv' /\ GivenInv'
    BY <1>2 DEF BeginAgain, LogInv, GivenInv
  <2>4. QED BY <2>1, <2>2, <2>3
<1> DEFINE i == next.op
<1>3. ASSUME Running
      PROVE  /\ i \in Ops /\ i \in Nat \ {0} /\ i + 1 \in 1..(Len(Program) + 1)
             /\ Base(i) \in Nat /\ Base(i + 1) \in Nat
             /\ Base(i + 1) = Base(i) + Width(i)
             /\ Program[i].kind \in Kinds
             /\ Width(i) = IF Program[i].kind \in {"call", "fork"} THEN 2 ELSE 1
             /\ Program[i].id \in AnyID /\ Program[i].option \in AnyOption
             /\ ChildOf(i) \in AnyID
  BY <1>3, OpPlace DEF Running, AnyID, AnyOption
<1>4. CASE Enter
  <2>1. TypeInv'
    BY <1>3, <1>4 DEF Enter, ContextAt, Op, EnterOption, EnterID, TypeInv, Pcs
  <2>2. PlaceInv'
    BY <1>3, <1>4 DEF Enter, ContextAt, Op, EnterOption, EnterID, TypeInv, PlaceInv, Kinds
  <2>3. LogInv' /\ GivenInv'
    BY <1>4 DEF Enter, LogInv, GivenInv
  <2>4. QED BY <2>1, <2>2, <2>3
<1>5. CASE Step
  <2>1. TypeInv'
    BY <1>3, <1>5 DEF Step, ContextAt, Goto, TypeInv, Pcs
  <2>2. PlaceInv'
    BY <1>3, <1>5 DEF Step, ContextAt, Goto, TypeInv, PlaceInv, Kinds, IDsEnclosed, Children
  <2>3. LogInv'
    <3>1. i \in Ops /\ i \notin Children /\ ctx.function_id + 1 = Base(i) + 1
      BY <1>3, <1>5 DEF Step, ContextAt, PlaceInv, Kinds, Children
    <3>2. log' \in {log, Logged(Base(i) + 1, NoID)}
      BY <1>5, <3>1 DEF Step
    <3>3. QED BY <1>3, <1>5, <3>1, <3>2, RecordElsewhere DEF LogInv, Step, ContextAt
  <2>4. GivenInv'
    BY <1>5 DEF Step, GivenInv
  <2>5. QED BY <2>1, <2>2, <2>3, <2>4
<1>6. CASE Start \/ CallChild
  <2>1. /\ Running /\ next.pc \in {"start", "call"} /\ CreateChild
    BY <1>6 DEF Start, CallChild, ContextAt
  <2>2. i \in Children /\ ctx.function_id = Base(i) /\ ChildID(Base(i) + 1) = ChildOf(i)
    BY <1>3, <2>1 DEF PlaceInv, Kinds, Children, ChildID, ChildOf
  <2>3. TypeInv'
    <3>1. /\ ctx' = [ctx EXCEPT !.function_id = Base(i) + 1, !.assigned = NoID]
          /\ next' = [next EXCEPT !.pc = "check", !.child = ChildOf(i),
                                  !.fid = Base(i) + 1]
          /\ given' = given
      BY <2>1, <2>2 DEF CreateChild, Used
    <3>2. Base(i) + 1 \in Nat /\ NoID \in AnyID /\ ChildOf(i) \in AnyID
      BY <1>3, <2>1 DEF AnyID
    <3>3. ctx' \in [function_id : Nat, assigned : AnyID, block : BOOLEAN,
                    option : AnyOption]
      BY <3>1, <3>2 DEF TypeInv
    <3>4. next' \in [op : 1..(Len(Program) + 1), pc : Pcs, child : AnyID, fid : Nat,
                     saved : AnyOption]
      BY <3>1, <3>2 DEF TypeInv, Pcs
    <3>5. QED BY <3>1, <3>3, <3>4 DEF TypeInv
  <2>4. PlaceInv'
    BY <1>3, <2>1, <2>2 DEF CreateChild, Used, TypeInv, PlaceInv, Kinds
  <2>5. LogInv' /\ GivenInv'
    BY <2>1 DEF CreateChild, LogInv, GivenInv
  <2>6. QED BY <2>3, <2>4, <2>5
<1>7. CASE CheckChild
  <2>1. Running /\ next.pc = "check" /\ i \in Children /\ next.fid = Base(i) + 1
    BY <1>7 DEF CheckChild, ContextAt, PlaceInv
  <2>2. CASE next.fid \in DOMAIN log
    <3>1. log[next.fid] = ChildOf(i)
      BY <2>1, <2>2 DEF LogInv
    <3>2. GivenInv' /\ given' \in [Ops -> SUBSET {Gift(j) : j \in Ops}]
      BY <1>7, <2>1, <2>2, <3>1, GiveKept DEF CheckChild
    <3>3. TypeInv'
      BY <1>3, <1>7, <2>1, <2>2, <3>2 DEF CheckChild, Goto, TypeInv, Pcs
    <3>4. PlaceInv' /\ LogInv'
      BY <1>3, <1>7, <2>1, <2>2 DEF CheckChild, Goto, TypeInv, PlaceInv, LogInv, Kinds
    <3>5. QED BY <3>2, <3>3, <3>4
  <2>3. CASE next.fid \notin DOMAIN log
    <3>1. TypeInv'
      BY <1>3, <1>7, <2>1, <2>3 DEF CheckChild, Goto, TypeInv, Pcs
    <3>2. PlaceInv' /\ LogInv' /\ GivenInv'
      BY <1>3, <1>7, <2>1, <2>3
      DEF CheckChild, Goto, TypeInv, PlaceInv, LogInv, GivenInv, Kinds
    <3>3. QED BY <3>1, <3>2
  <2>4. QED BY <2>2, <2>3
<1>8. CASE InsertChild
  <2>1. Running /\ next.pc = "insert" /\ next.child = ChildOf(i)
    BY <1>8 DEF InsertChild, ContextAt, PlaceInv
  <2>2. GivenInv' /\ given' \in [Ops -> SUBSET {Gift(j) : j \in Ops}]
    BY <1>8, <2>1, GiveKept DEF InsertChild
  <2>3. TypeInv'
    BY <1>3, <1>8, <2>1, <2>2 DEF InsertChild, Goto, TypeInv, Pcs
  <2>4. PlaceInv' /\ LogInv'
    BY <1>3, <1>8, <2>1 DEF InsertChild, Goto, TypeInv, PlaceInv, LogInv, Kinds
  <2>5. QED BY <2>2, <2>3, <2>4
<1>9. CASE RecordStart
  <2>1. /\ Running /\ next.pc = "record" /\ i \in Children
        /\ next.fid = Base(i) + 1 /\ next.child = ChildOf(i)
    BY <1>9 DEF RecordStart, ContextAt, PlaceInv
  <2>2. TypeInv'
    BY <1>3, <1>9, <2>1 DEF RecordStart, Goto, TypeInv, Pcs
  <2>3. PlaceInv' /\ GivenInv'
    BY <1>3, <1>9, <2>1 DEF RecordStart, Goto, TypeInv, PlaceInv, GivenInv, Kinds
  <2>4. LogInv'
    BY <1>9, <2>1, RecordHere DEF RecordStart, LogInv
  <2>5. QED BY <2>2, <2>3, <2>4
<1>10. CASE Result
  <2>1. /\ Running /\ next.pc = "result" /\ i \in Children
        /\ next.fid = Base(i) + 1 /\ ctx.function_id = Base(i) + 1
    BY <1>10 DEF Result, ContextAt, PlaceInv
  <2>2. TypeInv'
    BY <1>3, <1>10, <2>1 DEF Result, Goto, TypeInv, Pcs
  <2>3. PlaceInv'
    BY <1>3, <1>10, <2>1 DEF Result, Goto, TypeInv, PlaceInv, Kinds, Children, Op
  <2>4. LogInv'
    <3>1. CASE Program[i].kind = "call"
      <4>1. log' \in {log, Logged(Base(i) + 2, next.child)}
        BY <1>3, <1>10, <2>1, <3>1 DEF Result, Op
      <4>2. QED BY <1>3, <2>1, <3>1, <4>1, RecordElsewhere DEF LogInv
    <3>2. CASE Program[i].kind # "call"
      BY <1>10, <3>2 DEF Result, Op, LogInv
    <3>3. QED BY <3>1, <3>2
  <2>5. GivenInv'
    BY <1>10 DEF Result, GivenInv
  <2>6. QED BY <2>2, <2>3, <2>4, <2>5
<1>11. CASE Fork
  <2>1. /\ Running /\ next.pc = "fork" /\ Program[i].kind = "fork"
        /\ ctx.function_id = Base(i) /\ ctx.assigned = NoID
    BY <1>3, <1>11 DEF Fork, ContextAt, PlaceInv, Kinds, IDsEnclosed, Children
  <2>2. /\ ctx' = [ctx EXCEPT !.function_id = Base(i) + 1, !.assigned = NoID]
        /\ given' = given
    BY <1>11, <2>1 DEF Fork, TypeInv
  <2>3. \/ next' = [next EXCEPT !.pc = "status"]
        \/ next' = [next EXCEPT !.pc = "forked", !.child = Generated]
    BY <1>11, <2>1 DEF Fork, Goto
  <2>4. TypeInv'
    <3>1. Base(i) + 1 \in Nat /\ NoID \in AnyID /\ Generated \in AnyID
      BY <1>3, <2>1 DEF AnyID
    <3>2. ctx' \in [function_id : Nat, assigned : AnyID, block : BOOLEAN,
                    option : AnyOption]
      BY <2>2, <3>1 DEF TypeInv
    <3>3. next' \in [op : 1..(Len(Program) + 1), pc : Pcs, child : AnyID, fid : Nat,
                     saved : AnyOption]
      BY <2>3, <3>1 DEF TypeInv, Pcs
    <3>4. QED BY <2>2, <3>2, <3>3 DEF TypeInv
  <2>5. PlaceInv'
    <3>1. /\ next'.op = i /\ next'.pc \in {"status", "forked"}
          /\ next'.saved = NoOption
      BY <2>3 DEF TypeInv, PlaceInv
    <3>2. /\ ctx'.function_id = Base(i) + 1 /\ ctx'.assigned = NoID
          /\ ctx'.option = Program[i].option
      BY <2>1, <2>2 DEF TypeInv, PlaceInv
    <3>3. QED BY <1>3, <2>1, <3>1, <3>2 DEF PlaceInv, Kinds
  <2>6. LogInv' /\ GivenInv'
    BY <1>11 DEF Fork, LogInv, GivenInv
  <2>7. QED BY <2>4, <2>5, <2>6
<1>12. CASE RecordFork
  <2>1. /\ Running /\ next.pc = "forked" /\ Program[i].kind = "fork"
        /\ ctx.function_id = Base(i) + 1
    BY <1>12 DEF RecordFork, ContextAt, PlaceInv
  <2>2. TypeInv'
    BY <1>3, <1>12, <2>1 DEF RecordFork, Goto, TypeInv, Pcs
  <2>3. PlaceInv' /\ GivenInv'
    BY <1>3, <1>12, <2>1 DEF RecordFork, Goto, TypeInv, PlaceInv, GivenInv, Kinds
  <2>4. i \in Ops /\ i \notin Children /\ log' = Logged(Base(i) + 1, next.child)
    BY <1>3, <1>12, <2>1 DEF RecordFork, Children
  <2>5. LogInv'
    BY <1>3, <2>1, <2>4, RecordElsewhere DEF LogInv
  <2>6. QED BY <2>2, <2>3, <2>5
<1>13. CASE Retrieve
  <2>1. /\ Running /\ next.pc = "status" /\ Program[i].kind = "fork"
        /\ ctx.function_id = Base(i) + 1
    BY <1>13 DEF Retrieve, ContextAt, PlaceInv
  <2>2. TypeInv'
    BY <1>3, <1>13, <2>1 DEF Retrieve, Goto, TypeInv, Pcs
  <2>3. PlaceInv'
    BY <1>3, <1>13, <2>1 DEF Retrieve, Goto, TypeInv, PlaceInv, Kinds
  <2>4. log' \in {log, Logged(Base(i) + 2, NoID)}
    BY <1>3, <1>13, <2>1 DEF Retrieve
  <2>5. LogInv'
    BY <1>3, <2>1, <2>4, RecordElsewhere DEF LogInv
  <2>6. GivenInv'
    BY <1>13 DEF Retrieve, GivenInv
  <2>7. QED BY <2>2, <2>3, <2>5, <2>6
<1>14. CASE Exit
  <2>1. Running /\ next.pc = "exit"
    BY <1>14 DEF Exit, ContextAt
  <2>2. TypeInv'
    BY <1>3, <1>14, <2>1 DEF Exit, ExitBlock, FirstOp, TypeInv, Pcs, AnyID, AnyOption
  <2>3. PlaceInv'
    BY <1>3, <1>14, <2>1 DEF Exit, ExitBlock, FirstOp, TypeInv, PlaceInv, Kinds
  <2>4. LogInv' /\ GivenInv'
    BY <1>14 DEF Exit, LogInv, GivenInv
  <2>5. QED BY <2>2, <2>3, <2>4
<1>15. QED
  BY <1>1, <1>2, <1>4, <1>5, <1>6, <1>7, <1>8, <1>9, <1>10, <1>11, <1>12, <1>13, <1>14
  DEF ContextNext

(* Every operation of a workflow that starts another one gives it the same *)
(* ID, function_id and options in every execution, wherever the executions *)
(* before it ended, and no two operations give the same ID (ChildrenKept). *)
(* It takes that a SetWorkflowID block encloses the start or call of a     *)
(* workflow and that the IDs are different ones.                           *)
THEOREM ChildrenKeptCorrect ==
  ASSUME IDsEnclosed
  PROVE  ContextSpec => []ChildrenKept
<1>1. ASSUME Inv PROVE ChildrenKept
  <2>1. \A i \in Ops : given[i] \subseteq {Gift(i)}
    BY <1>1 DEF Inv, GivenInv
  <2>2. ASSUME NEW i \in Ops PROVE Cardinality(given[i]) <= 1
    <3>1. given[i] = {} \/ given[i] = {Gift(i)}
      BY <2>1
    <3>2. QED BY <3>1, FS_EmptySet, FS_Singleton
  <2>3. ASSUME NEW i \in Ops, NEW j \in Ops, i # j,
               NEW a \in given[i], NEW b \in given[j]
        PROVE  a[1] # b[1]
    <3>1. a[1] = ChildOf(i) /\ b[1] = ChildOf(j)
      BY <2>1 DEF Gift
    <3>2. QED BY <2>3, <3>1, ChildrenApart
  <2>4. ASSUME NEW i \in Ops, NEW a \in given[i] PROVE a[3] = Program[i].option
    BY <2>1 DEF Gift
  <2>5. QED BY <2>2, <2>3, <2>4 DEF ChildrenKept
<1>2. QED BY <1>1, InitInv, NextInv, PTL DEF ContextSpec

(* An ID set by SetWorkflowID goes to the workflow invocation that the     *)
(* block encloses and to no other, whatever is recovered in between.       *)
THEOREM EnclosedInvocationCorrect ==
  ASSUME IDsEnclosed
  PROVE  ContextSpec => []EnclosedInvocation
<1>1. ASSUME Inv PROVE EnclosedInvocation
  <2> SUFFICES ASSUME NEW i \in Ops, NEW a \in given[i], NEW j \in Ops,
                      a[1] = Program[j].id
               PROVE  a[1] = Program[i].id
    BY DEF EnclosedInvocation
  <2>1. a[1] = ChildOf(i)
    BY <1>1 DEF Inv, GivenInv, Gift
  <2>2. Base(i) + 1 \in Nat
    BY OpPlace
  <2>3. QED BY <2>1, <2>2 DEF ChildOf, IDsEnclosed
<1>2. QED BY <1>1, InitInv, NextInv, PTL DEF ContextSpec

-----------------------------------------------------------------------------
(* Transactions.                                                           *)
RunPcs == {"idle", "begin", "call", "commit", "raised", "record", "conflict", "done"}
RunTypes ==
  /\ stored \in Results \cup {None}
  /\ effects \in {0, 1}
  /\ checkpoint \in Results \cup {None}
  /\ tx \in [Runs -> [pc : RunPcs, result : Results \cup {None}]]

Effect == effects = IF stored \in Outputs THEN 1 ELSE 0
Checkpoint == checkpoint # None => checkpoint = stored

(* A run that is about to commit has a returned value, and one that failed *)
(* before there was a row has the function's exception.                    *)
ResultKnown(r) ==
  /\ tx[r].pc = "commit" => tx[r].result \in Outputs
  /\ tx[r].pc = "raised" /\ stored = None => tx[r].result = Raised
  /\ Settled(r) => stored # None /\ tx[r].result = stored

TransactionInv == RunTypes /\ Effect /\ Checkpoint /\ \A r \in Runs : ResultKnown(r)

LEMMA InitTransactionInv == TransactionInit => TransactionInv
BY ResultsAssumption
DEF TransactionInit, Idle, TransactionInv, RunTypes, RunPcs, Effect, Checkpoint, ResultKnown, Settled, Results

(* Once there is a row it stays, so a step of one run leaves what is known *)
(* of the others.                                                          *)
LEMMA RunStep ==
  ASSUME TransactionInv, NEW r \in Runs, NEW mine \in [pc : RunPcs, result : Results \cup {None}],
         tx' = [tx EXCEPT ![r] = mine],
         stored' \in Results \cup {None}, stored # None => stored' = stored,
         effects' \in {0, 1}, checkpoint' \in Results \cup {None},
         Effect', Checkpoint', ResultKnown(r)'
  PROVE  TransactionInv'
<1>1. RunTypes'
  BY DEF TransactionInv, RunTypes
<1>2. ASSUME NEW s \in Runs, s # r
      PROVE  ResultKnown(s)'
  BY <1>2 DEF TransactionInv, RunTypes, ResultKnown, Settled
<1>3. QED BY <1>1, <1>2 DEF TransactionInv

LEMMA NextTransactionInv ==
  ASSUME TransactionInv, [TransactionNext]_transactionVars
  PROVE  TransactionInv'
<1> USE ResultsAssumption DEF Results
<1>1. ASSUME NEW r \in Runs, CheckStep(r)
      PROVE  TransactionInv'
  BY <1>1, RunStep DEF CheckStep, GoesTo, Keep, TransactionInv, RunTypes, RunPcs, Effect, Checkpoint,
                       ResultKnown, Settled
<1>2. ASSUME NEW r \in Runs, Begin(r)
      PROVE  TransactionInv'
  BY <1>2, RunStep DEF Begin, Seen, GoesTo, Keep, TransactionInv, RunTypes, RunPcs, Effect, Checkpoint,
                       ResultKnown, Settled
<1>3. ASSUME NEW r \in Runs, NEW v \in Results, Return(r, v)
      PROVE  TransactionInv'
  BY <1>3, RunStep DEF Return, Keep, TransactionInv, RunTypes, RunPcs, Effect, Checkpoint,
                       ResultKnown, Settled
<1>4. ASSUME NEW r \in Runs, CommitFunction(r)
      PROVE  TransactionInv'
  <2>1. tx[r].result \in Outputs
    BY <1>4 DEF CommitFunction, TransactionInv, ResultKnown
  <2>2. CASE /\ Unique /\ stored' = tx[r].result /\ effects' = effects + 1
             /\ GoesTo(r, "record") \/ GoesTo(r, "begin")
    BY <1>4, <2>1, <2>2, RunStep
    DEF CommitFunction, Unique, GoesTo, TransactionInv, RunTypes, RunPcs, Effect, Checkpoint, ResultKnown, Settled
  <2>3. CASE /\ GoesTo(r, "begin") \/ (~Unique /\ GoesTo(r, "raised"))
             /\ UNCHANGED <<stored, effects>>
    BY <1>4, <2>3, RunStep
    DEF CommitFunction, Unique, GoesTo, TransactionInv, RunTypes, RunPcs, Effect, Checkpoint, ResultKnown, Settled
  <2>4. QED BY <1>4, <2>2, <2>3 DEF CommitFunction
<1>5. ASSUME NEW r \in Runs, RecordError(r)
      PROVE  TransactionInv'
  BY <1>5, RunStep DEF RecordError, StoreError, GoesTo, Keep, TransactionInv, RunTypes, RunPcs, Effect,
                       Checkpoint, ResultKnown, Settled
<1>6. ASSUME NEW r \in Runs, RecordOutput(r)
      PROVE  TransactionInv'
  BY <1>6, RunStep DEF RecordOutput, GoesTo, TransactionInv, RunTypes, RunPcs, Effect, Checkpoint,
                       ResultKnown, Settled
<1>7. ASSUME NEW r \in Runs, Restart(r)
      PROVE  TransactionInv'
  BY <1>7, RunStep DEF Restart, Idle, TransactionInv, RunTypes, RunPcs, Effect, Checkpoint,
                       ResultKnown, Settled
<1>8. CASE UNCHANGED transactionVars
  BY <1>8 DEF transactionVars, TransactionInv, RunTypes, Effect, Checkpoint, ResultKnown, Settled
<1>9. QED
  BY <1>1, <1>2, <1>3, <1>4, <1>5, <1>6, <1>7, <1>8 DEF TransactionNext

THEOREM TransactionInvariance == TransactionSpec => []TransactionInv
<1>1. TransactionInv /\ [TransactionNext]_transactionVars => TransactionInv'
  BY NextTransactionInv
<1>2. QED BY InitTransactionInv, <1>1, PTL DEF TransactionSpec

(* Whatever number of executions run the transaction at once and wherever  *)
(* each of them dies, its function's writes are committed exactly if its   *)
(* result is a returned value, once, and both databases and every run      *)
(* know that result (decorate_transaction).                                *)
THEOREM ExactlyOneEffectCorrect == TransactionSpec => []ExactlyOneEffect
<1>1. TransactionInv => ExactlyOneEffect
  BY DEF TransactionInv, Effect, Checkpoint, ResultKnown, ExactlyOneEffect
<1>2. QED BY <1>1, TransactionInvariance, PTL
=============================================================================
