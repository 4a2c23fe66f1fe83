------------------------------- MODULE Contexts -------------------------------
(***************************************************************************)
(* The DBOSContext of a workflow: which function ID each of its operations *)
(* gets, and which workflow ID and options the workflows it starts, over   *)
(* executions that may end at any point and begin again.                   *)
(*                                                                         *)
(* The workflow's function is a program of operations, each of which may   *)
(* be enclosed in a SetWorkflowID block, and in one of SetWorkflowTimeout  *)
(* or SetEnqueueOptions.  The children run by themselves: what they do is  *)
(* left out, and so are authentication, spans and the function's own       *)
(* exceptions.                                                             *)
(***************************************************************************)
EXTENDS Naturals, Sequences, FiniteSets

CONSTANTS Program,   \* sequence of [kind, id, option]
          NoID,
          NoOption,
          Generated  \* an ID of generate_uuid

ASSUME ProgramAssumption ==
  /\ Len(Program) \in Nat /\ DOMAIN Program = 1..Len(Program)
  /\ \A i \in DOMAIN Program :
       Program[i].kind \in {"step", "start", "call", "fork"}

Ops == DOMAIN Program

VARIABLES ctx,    \* the context of the running execution
          next,   \* position in the program: operation and what is next of it
          log,    \* rows of operation_outputs by function_id
          children, \* IDs of the workflows that exist
          given   \* history: what each operation has been given

contextVars == <<ctx, next, log, children, given>>

(* The ID of a child without one of its own: its parent's and function_id. *)
Derived(fid) == <<"parent", fid>>

(* A recovery sets the ID of the workflow itself, which start_workflow     *)
(* uses up, and enters it with a new context.                              *)
NewContext ==
  [function_id |-> 0, assigned |-> NoID, block |-> FALSE, option |-> NoOption]

FirstOp ==
  [op |-> 1, pc |-> "enter", child |-> NoID, fid |-> 0, saved |-> NoOption]

ContextInit ==
  /\ ctx = NewContext /\ next = FirstOp
  /\ log = [f \in {} |-> NoID]
  /\ children = {}
  /\ given = [i \in Ops |-> {}]

-----------------------------------------------------------------------------
Running == next.op \in Ops
Op == Program[next.op]
ContextAt(pc) == Running /\ next.pc = pc
Goto(pc) == next' = [next EXCEPT !.pc = pc]

Logged(f, id) == [g \in DOMAIN log \cup {f} |-> IF g = f THEN id ELSE log[g]]
Give(id) ==
  given' = [given EXCEPT ![next.op] = @ \cup {<<id, next.fid, ctx.option>>}]

(* __enter__ of SetWorkflowID: the ID waits for the next workflow.         *)
EnterID ==
  IF Op.id = NoID THEN ctx ELSE [ctx EXCEPT !.assigned = Op.id, !.block = TRUE]

(* __enter__ of SetWorkflowTimeout and SetEnqueueOptions.                  *)
EnterOption(c) == IF Op.option = NoOption THEN c ELSE [c EXCEPT !.option = Op.option]

Enter ==
  /\ ContextAt("enter")
  /\ ctx' = EnterOption(EnterID)
  /\ next' = [next EXCEPT !.pc = Op.kind, !.saved = ctx.option]
  /\ UNCHANGED <<log, children, given>>

(* snapshot_step_ctx: a copy of the context with the next function_id.     *)
Step ==
  /\ ContextAt("step")
  /\ LET f == ctx.function_id + 1
     IN /\ ctx' = [ctx EXCEPT !.function_id = f]
        /\ log' = IF f \in DOMAIN log THEN log ELSE Logged(f, NoID)
  /\ Goto("exit")
  /\ UNCHANGED <<children, given>>

(* create_start_workflow_child, create_child and assign_workflow_id: the   *)
(* child takes the ID that waits.                                          *)
ChildID(f) == IF ctx.assigned = NoID THEN Derived(f) ELSE ctx.assigned
UsedKept == ctx.assigned                                          \* faulty
Used == NoID

CreateChild ==
  LET f == ctx.function_id + 1
  IN /\ ctx' = [ctx EXCEPT !.function_id = f, !.assigned = Used]
     /\ next' = [next EXCEPT !.pc = "check", !.child = ChildID(f), !.fid = f]
     /\ UNCHANGED <<log, children, given>>

Start == ContextAt("start") /\ CreateChild
CallChild == ContextAt("call") /\ CreateChild

(* check_operation_execution: the child that is recorded, if there is one. *)
CheckChild ==
  /\ ContextAt("check")
  /\ IF next.fid \in DOMAIN log
     THEN Give(log[next.fid]) /\ Goto("result")
     ELSE Goto("insert") /\ UNCHANGED given
  /\ UNCHANGED <<ctx, log, children>>

(* _init_workflow: an existing row is kept.                                *)
InsertChild ==
  /\ ContextAt("insert")
  /\ children' = children \cup {next.child}
  /\ Give(next.child)
  /\ Goto("record")
  /\ UNCHANGED <<ctx, log>>

RecordStart ==
  /\ ContextAt("record")
  /\ log' = Logged(next.fid, next.child)
  /\ Goto("result")
  /\ UNCHANGED <<ctx, children, given>>

(* A direct call records the child's result under an ID of its own, which  *)
(* is reserved when the call begins and never looked at again.             *)
Result ==
  /\ ContextAt("result")
  /\ IF Op.kind = "call"
     THEN /\ ctx' = [ctx EXCEPT !.function_id = @ + 1]
          /\ log' = IF next.fid + 1 \in DOMAIN log THEN log
                    ELSE Logged(next.fid + 1, next.child)
     ELSE UNCHANGED <<ctx, log>>
  /\ Goto("exit")
  /\ UNCHANGED <<children, given>>

(* fork_workflow, a step whose function uses the ID that waits; a recorded *)
(* fork does not.                                                          *)
Fork ==
  /\ ContextAt("fork")
  /\ LET f == ctx.function_id + 1
         id == IF ctx.assigned = NoID THEN Generated ELSE ctx.assigned
     IN IF f \in DOMAIN log
        THEN /\ ctx' = [ctx EXCEPT !.function_id = f]
             /\ Goto("status")
             /\ UNCHANGED children
        ELSE /\ ctx' = [ctx EXCEPT !.function_id = f, !.assigned = NoID]
             /\ children' = children \cup {id}
             /\ next' = [next EXCEPT !.pc = "forked", !.child = id]
  /\ UNCHANGED <<log, given>>

RecordFork ==
  /\ ContextAt("forked")
  /\ log' = Logged(ctx.function_id, next.child)
  /\ Goto("status")
  /\ UNCHANGED <<ctx, children, given>>

(* fork_workflow ends with retrieve_workflow, which is another step.       *)
Retrieve ==
  /\ ContextAt("status")
  /\ LET f == ctx.function_id + 1
     IN /\ ctx' = [ctx EXCEPT !.function_id = f]
        /\ log' = IF f \in DOMAIN log THEN log ELSE Logged(f, NoID)
  /\ Goto("exit")
  /\ UNCHANGED <<children, given>>

(* __exit__ of the blocks: what was saved comes back; an ID nobody used    *)
(* stays.                                                                  *)
ExitForgotten == [ctx EXCEPT !.block = FALSE]                     \* faulty
ExitBlock == [ctx EXCEPT !.block = FALSE, !.option = next.saved]

Exit ==
  /\ ContextAt("exit")
  /\ ctx' = ExitBlock
  /\ next' = [FirstOp EXCEPT !.op = next.op + 1]
  /\ UNCHANGED <<log, children, given>>

(* The execution ends where it is, and another one begins.                 *)
BeginAgain ==
  /\ ctx' = NewContext
  /\ next' = FirstOp
  /\ UNCHANGED <<log, children, given>>

ContextNext ==
  \/ Enter \/ Step \/ Start \/ CallChild \/ CheckChild \/ InsertChild \/ RecordStart
  \/ Result \/ Fork \/ RecordFork \/ Retrieve \/ Exit \/ BeginAgain

ContextSpec == ContextInit /\ [][ContextNext]_contextVars

-----------------------------------------------------------------------------
(* Each operation that starts a workflow gets one ID and function_id in    *)
(* all executions, different ones get different ones, and each passes on   *)
(* the options of its own block: so an execution that begins again finds   *)
(* the children of the one before it.                                      *)
ChildrenKept ==
  /\ \A i \in Ops : Cardinality(given[i]) <= 1
  /\ \A i, j \in Ops : i # j => \A a \in given[i], b \in given[j] : a[1] # b[1]
  /\ \A i \in Ops : \A a \in given[i] : a[3] = Program[i].option

(* An ID set by SetWorkflowID is "used for the enclosed workflow           *)
(* invocation" (docstring of SetWorkflowID) and for no other.              *)
EnclosedInvocation ==
  \A i \in Ops : \A a \in given[i] :
    a[1] \in {Program[j].id : j \in Ops} => a[1] = Program[i].id
=============================================================================
