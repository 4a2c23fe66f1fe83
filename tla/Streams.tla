------------------------------- MODULE Streams -------------------------------
(***************************************************************************)
(* One stream (workflow ID and key): the executions of the workflow that   *)
(* writes it, and the readers that follow it.                              *)
(*                                                                         *)
(* A workflow may have several writes under way at once (write_stream_     *)
(* async), in its body or inside steps.  Each is an INSERT of the value at *)
(* max(offset) + 1, which fails with an IntegrityError if another write    *)
(* has committed that offset meanwhile, and is tried again.  The function  *)
(* closes the stream when its writes are done, or just returns.            *)
(***************************************************************************)
EXTENDS Naturals, Sequences, FiniteSets

CONSTANTS Writes,   \* write_stream calls of the workflow
          InStep,   \* those made inside a step
          Close,    \* the sentinel, also the name of the close_stream call
          Runs,     \* executions of the workflow
          Readers,
          MaxRows   \* bound: rows of the stream

Calls == Writes \cup {Close}

VARIABLES stream,     \* values in the table, by offset from 0
          checkpoint, \* calls recorded in operation_outputs
          over,       \* the workflow is no longer active
          call,       \* each execution's calls: program counter and offset
          alive,      \* executions under way
          twins,      \* history: two executions were under way at once
          reader      \* program counter and offset

streamVars == <<stream, checkpoint, over, call, alive, twins, reader>>

IdleCall == [pc |-> "idle", offset |-> 0]
NewReader == [pc |-> "read", offset |-> 0]

Init ==
  /\ stream = <<>> /\ checkpoint = {} /\ over = FALSE
  /\ call = [r \in Runs |-> [w \in Calls |-> IdleCall]]
  /\ alive = {} /\ twins = FALSE
  /\ reader = [x \in Readers |-> NewReader]

-----------------------------------------------------------------------------
(* The writing workflow.                                                   *)

Goto(r, w, pc) == call' = [call EXCEPT ![r][w].pc = pc]
Done(r, w) == call[r][w].pc = "done"

(* Started, or executed again by a recovery while another execution may    *)
(* still be at work.                                                       *)
StartRun(r) ==
  /\ r \notin alive /\ ~over
  /\ alive' = alive \cup {r}
  /\ twins' = (twins \/ alive # {})
  /\ UNCHANGED <<stream, checkpoint, over, call, reader>>

Ready(r, w) == w = Close => \A v \in Writes : Done(r, v)

CheckedNever(w) == FALSE                                          \* faulty
Checked(w) == w \in checkpoint

(* check_operation_execution, of the write or of the step it is made in.   *)
CheckWrite(r, w) ==
  /\ r \in alive /\ call[r][w].pc = "idle" /\ Ready(r, w)
  /\ Goto(r, w, IF Checked(w) THEN "done" ELSE "insert")
  /\ UNCHANGED <<stream, checkpoint, over, alive, twins, reader>>

(* The statement computes its offset.                                      *)
Insert(r, w) ==
  /\ r \in alive /\ call[r][w].pc = "insert"
  /\ Len(stream) < MaxRows
  /\ call' = [call EXCEPT ![r][w] = [pc |-> "commit", offset |-> Len(stream)]]
  /\ UNCHANGED <<stream, checkpoint, over, alive, twins, reader>>

ClashesNever(r, w) == FALSE                                       \* faulty
Clashes(r, w) == call[r][w].offset < Len(stream)

(* The row goes to its offset; the ones before it are there.               *)
Put(w, offset) ==
  stream' = [i \in 1..offset + 1 |-> IF i = offset + 1 THEN w ELSE stream[i]]

(* write_stream_from_workflow commits the value with its record; on a      *)
(* clash, or if the acknowledgement is lost, it begins again with the      *)
(* check.  write_stream_from_step only tries to insert again.              *)
Commit(r, w) ==
  /\ r \in alive /\ call[r][w].pc = "commit"
  /\ IF Clashes(r, w)
     THEN /\ Goto(r, w, IF w \in InStep THEN "insert" ELSE "idle")
          /\ UNCHANGED <<stream, checkpoint>>
     ELSE /\ Put(w, call[r][w].offset)
          /\ IF w \in InStep
             THEN Goto(r, w, "written") /\ UNCHANGED checkpoint
             ELSE /\ checkpoint' = checkpoint \cup {w}
                  /\ Goto(r, w, "done") \/ Goto(r, w, "idle")
  /\ UNCHANGED <<over, alive, twins, reader>>

(* The step returns and is recorded.                                       *)
RecordStep(r, w) ==
  /\ r \in alive /\ call[r][w].pc = "written"
  /\ checkpoint' = checkpoint \cup {w}
  /\ Goto(r, w, "done")
  /\ UNCHANGED <<stream, over, alive, twins, reader>>

Ends(r) ==
  /\ alive' = alive \ {r}
  /\ call' = [call EXCEPT ![r] = [w \in Calls |-> IdleCall]]

(* The function returns, with the stream closed or not.                    *)
Return(r) ==
  /\ r \in alive
  /\ \A w \in Writes : Done(r, w)
  /\ call[r][Close].pc \in {"idle", "done"}
  /\ Close \in checkpoint => Done(r, Close)
  /\ over' = TRUE
  /\ Ends(r)
  /\ UNCHANGED <<stream, checkpoint, twins, reader>>

Crash(r) ==
  /\ r \in alive
  /\ Ends(r)
  /\ UNCHANGED <<stream, checkpoint, over, twins, reader>>

-----------------------------------------------------------------------------
(* read_stream                                                             *)

Read(x) ==
  /\ reader[x].pc = "read"
  /\ LET offset == reader[x].offset
     IN reader' =
          IF offset = Len(stream) THEN [reader EXCEPT ![x].pc = "status"]
          ELSE IF stream[offset + 1] = Close THEN [reader EXCEPT ![x].pc = "end"]
          ELSE [reader EXCEPT ![x].offset = offset + 1]
  /\ UNCHANGED <<stream, checkpoint, over, call, alive, twins>>

(* No value at the offset: the reader ends if the workflow has terminated. *)
TerminatedNever == FALSE                                          \* faulty
Terminated == over

AskStatus(x) ==
  /\ reader[x].pc = "status"
  /\ reader' = [reader EXCEPT ![x].pc = IF Terminated THEN "end" ELSE "read"]
  /\ UNCHANGED <<stream, checkpoint, over, call, alive, twins>>

-----------------------------------------------------------------------------
CallStep(r, w) == CheckWrite(r, w) \/ Insert(r, w) \/ Commit(r, w) \/ RecordStep(r, w)
ReaderStep(x) == Read(x) \/ AskStatus(x)

Next ==
  \/ \E r \in Runs : StartRun(r) \/ Return(r) \/ Crash(r)
  \/ \E r \in Runs, w \in Calls : CallStep(r, w)
  \/ \E x \in Readers : ReaderStep(x)

Fairness == \A x \in Readers : WF_streamVars(ReaderStep(x))

Spec == Init /\ [][Next]_streamVars

-----------------------------------------------------------------------------
Copies(w) == Cardinality({i \in DOMAIN stream : stream[i] = w})

(* A write that is recorded is in the stream, once if it was made in the   *)
(* workflow's body, and no value of a workflow without twins is there      *)
(* without its record, whatever conflicts, crashes and lost                *)
(* acknowledgements made of it.                                            *)
WrittenOnce ==
  \A w \in Calls :
    /\ w \in checkpoint => Copies(w) >= 1
    /\ w \notin InStep /\ ~twins => Copies(w) = IF w \in checkpoint THEN 1 ELSE 0

(* Nothing follows the sentinel, so no reader stops before a value.        *)
CloseIsLast ==
  ~twins => \A i \in DOMAIN stream : stream[i] = Close => i = Len(stream)

(* A reader ends once the workflow has, also if nobody closed the stream.  *)
ReadersEnd == \A x \in Readers : over ~> reader[x].pc = "end"

(* A reader that ends has seen every value that was in the stream when it  *)
(* did ("yielding each value in order until the stream is closed or the    *)
(* workflow terminates", read_stream).                                     *)
ReaderComplete ==
  [][\A x \in Readers :
       reader[x].pc # "end" /\ reader'[x].pc = "end" =>
         \/ reader[x].offset = Len(stream)
         \/ stream[reader[x].offset + 1] = Close]_streamVars
=============================================================================
