------------------------------- MODULE Debouncer -------------------------------
(***************************************************************************)
(* Calls of debounce with one key, and the debouncer workflows they start  *)
(* or send to.  A debouncer holds the deduplication ID of the key until it *)
(* has started the user's workflow with the inputs it received last.       *)
(*                                                                         *)
(* A debouncer is named after the call that enqueues it, and an input      *)
(* after the call that gives it.  All steps of a debouncer are recorded,   *)
(* so one that crashes goes on where it was; that, what the user's         *)
(* workflow does, and its own deduplication ID are left out.               *)
(***************************************************************************)
EXTENDS Naturals, Sequences

CONSTANTS Calls,
          MaxSends, \* bound: messages sent by one call
          NoCall

ASSUME NoCallAssumption == NoCall \notin Calls

VARIABLES call,      \* the calls: pc, debouncer found, messages sent, handle
          debouncer, \* their workflows, with inbox and acknowledgements
          before,    \* history: calls that had returned when a call began
          received   \* history: calls whose inputs a debouncer has had

debounceVars == <<call, debouncer, before, received>>

DebouncerInit ==
  /\ call = [c \in Calls |-> [pc |-> "new", to |-> NoCall, sends |-> 0, handle |-> NoCall]]
  /\ debouncer = [d \in Calls |-> [pc |-> "absent", inputs |-> NoCall, inbox |-> <<>>,
                                   acked |-> {}, user |-> NoCall]]
  /\ before = [c \in Calls |-> {}]
  /\ received = [d \in Calls |-> {}]

CallGoes(c, pc) == call' = [call EXCEPT ![c].pc = pc]

(* The debouncer that has the deduplication ID.                            *)
Holders == {d \in Calls : debouncer[d].pc \notin {"absent", "over"}}

-----------------------------------------------------------------------------
(* debounce, of a workflow or of a client.                                 *)

Call(c) ==
  /\ call[c].pc = "new"
  /\ CallGoes(c, "enqueue")
  /\ before' = [before EXCEPT ![c] = {b \in Calls : call[b].pc = "returned"}]
  /\ UNCHANGED <<debouncer, received>>

EnqueueDebouncer(c) ==
  /\ call[c].pc = "enqueue" /\ Holders = {}
  /\ debouncer' = [debouncer EXCEPT ![c].pc = "enqueued", ![c].inputs = c]
  /\ received' = [received EXCEPT ![c] = {c}]
  /\ call' = [call EXCEPT ![c].pc = "returned", ![c].handle = c]
  /\ UNCHANGED before

Deduplicated(c) ==
  /\ call[c].pc = "enqueue" /\ Holders # {}
  /\ CallGoes(c, "lookup")
  /\ UNCHANGED <<debouncer, before, received>>

(* get_deduplicated_workflow; the debouncer may be over by now.            *)
Lookup(c) ==
  /\ call[c].pc = "lookup"
  /\ \/ /\ Holders = {}
        /\ CallGoes(c, "enqueue")
     \/ \E d \in Holders : call' = [call EXCEPT ![c].pc = "send", ![c].to = d]
  /\ UNCHANGED <<debouncer, before, received>>

SendInputs(c) ==
  /\ call[c].pc = "send" /\ call[c].sends < MaxSends
  /\ debouncer' = [debouncer EXCEPT ![call[c].to].inbox = Append(@, c)]
  /\ call' = [call EXCEPT ![c].pc = "wait", ![c].sends = @ + 1]
  /\ UNCHANGED <<before, received>>

AnsweredAlways(c) == TRUE                                         \* faulty
Answered(c) == c \in debouncer[call[c].to].acked

(* The handle is that of the workflow the debouncer found will start.      *)
Acknowledged(c) ==
  /\ call[c].pc = "wait" /\ Answered(c)
  /\ call' = [call EXCEPT ![c].pc = "returned", ![c].handle = call[c].to]
  /\ UNCHANGED <<debouncer, before, received>>

(* get_event has waited for one second.                                    *)
TimeOut(c) ==
  /\ call[c].pc = "wait" /\ ~Answered(c)
  /\ CallGoes(c, "enqueue")
  /\ UNCHANGED <<debouncer, before, received>>

-----------------------------------------------------------------------------
(* debouncer_workflow.                                                     *)

DebouncerAt(d, pc) == debouncer[d].pc = pc

StartDebouncer(d) ==
  /\ DebouncerAt(d, "enqueued")
  /\ debouncer' = [debouncer EXCEPT ![d].pc = "loop"]
  /\ UNCHANGED <<call, before, received>>

ReceiveInputs(d) ==
  /\ DebouncerAt(d, "loop") /\ debouncer[d].inbox # <<>>
  /\ LET message == Head(debouncer[d].inbox)
     IN /\ debouncer' = [debouncer EXCEPT ![d].pc = "ack", ![d].inputs = message,
                                            ![d].inbox = Tail(@)]
        /\ received' = [received EXCEPT ![d] = @ \cup {message}]
  /\ UNCHANGED <<call, before>>

(* The message_id of the last message received.                            *)
Acknowledge(d, c) ==
  /\ DebouncerAt(d, "ack") /\ c = debouncer[d].inputs
  /\ debouncer' = [debouncer EXCEPT ![d].pc = "loop", ![d].acked = @ \cup {c}]
  /\ UNCHANGED <<call, before, received>>

(* The deadline has passed, or the period without a message.               *)
ExitLoop(d) ==
  /\ DebouncerAt(d, "loop")
  /\ debouncer' = [debouncer EXCEPT ![d].pc = "start"]
  /\ UNCHANGED <<call, before, received>>

StartWorkflow(d) ==
  /\ DebouncerAt(d, "start")
  /\ debouncer' = [debouncer EXCEPT ![d].pc = "started", ![d].user = debouncer[d].inputs]
  /\ UNCHANGED <<call, before, received>>

(* The deduplication ID is free again.                                     *)
FinishDebouncer(d) ==
  /\ DebouncerAt(d, "started")
  /\ debouncer' = [debouncer EXCEPT ![d].pc = "over"]
  /\ UNCHANGED <<call, before, received>>

-----------------------------------------------------------------------------
Debounce(c) ==
  \/ Call(c) \/ EnqueueDebouncer(c) \/ Deduplicated(c) \/ Lookup(c) \/ SendInputs(c)
  \/ Acknowledged(c) \/ TimeOut(c)

DebouncerWorkflow(d) ==
  \/ StartDebouncer(d) \/ ReceiveInputs(d) \/ \E c \in Calls : Acknowledge(d, c)
  \/ ExitLoop(d) \/ StartWorkflow(d) \/ FinishDebouncer(d)

DebouncerNext == \E c \in Calls : Debounce(c) \/ DebouncerWorkflow(c)

DebouncerSpec == DebouncerInit /\ [][DebouncerNext]_debounceVars

-----------------------------------------------------------------------------
(* A call that returns has its inputs in the debouncer whose workflow it   *)
(* returns: that workflow is not started without them, nor with the inputs *)
(* of a call that had returned before this one began.  So no call is lost  *)
(* to a debouncer that was about to start its workflow, and no message     *)
(* that was sent twice comes back over a later one.                        *)
CallServed ==
  \A c \in Calls :
    call[c].pc = "returned" /\ debouncer[call[c].handle].user # NoCall =>
      /\ c \in received[call[c].handle]
      /\ debouncer[call[c].handle].user \notin before[c]
=============================================================================
