---------------------------- MODULE WorkflowCopies ----------------------------
(***************************************************************************)
(* Copies of a workflow that is running: fork_workflow, which starts a new *)
(* workflow with the checkpoints before a step, and export_workflow with   *)
(* import_workflow, which moves the rows of a workflow to another          *)
(* database.  Both read one table after the other, and each read sees what *)
(* the workflow has committed until then.                                  *)
(*                                                                         *)
(* The workflow executes one operation per function_id: an event that is   *)
(* set or a write to a stream, each recorded in one transaction, or a      *)
(* plain step.  Left out: writes from within steps, other keys, and the    *)
(* children of an exported workflow, which are exported the same way.      *)
(***************************************************************************)
EXTENDS Naturals, Sequences, FiniteSetsExt

CONSTANTS CopiedProgram \* sequence of "event", "stream" and "step"

ASSUME CopiedProgramAssumption == CopiedProgram \in Seq({"event", "stream", "step"})

Steps == DOMAIN CopiedProgram

VARIABLES original, \* the workflow's rows in all tables
          fork,     \* those of its fork
          import,   \* those of its import into the other database
          copying,  \* the procedure under way, and what it has read
          start,    \* start_step of the fork
          covered,  \* history: all before start_step was recorded in time
          ran       \* history: steps executed by the fork

copyVars == <<original, fork, import, copying, start, covered, ran>>

NoRows ==
  [status |-> "ABSENT", log |-> {}, history |-> {}, event |-> 0, stream |-> {}]

CopyInit ==
  /\ original = [NoRows EXCEPT !.status = "PENDING"]
  /\ fork = NoRows /\ import = NoRows
  /\ copying = [op |-> "none", pc |-> "idle", rows |-> NoRows]
  /\ start = 0 /\ covered = FALSE /\ ran = {}

-----------------------------------------------------------------------------
(* Execution: the first operation that is not recorded, and its rows.  A   *)
(* row of the stream goes to the offset after the largest one.             *)
Unfinished(w) == w.status \in {"ENQUEUED", "PENDING"}
NextStep(w) == Min(Steps \ w.log)
NextOffset(stream) ==
  IF stream = {} THEN 0 ELSE Max({r.offset : r \in stream}) + 1

Executed(w) ==
  LET f == NextStep(w)
      kind == CopiedProgram[f]
      row == [step |-> f, offset |-> NextOffset(w.stream)]
  IN [w EXCEPT !.status = "PENDING",
               !.log = @ \cup {f},
               !.history = IF kind = "event" THEN @ \cup {f} ELSE @,
               !.event = IF kind = "event" THEN f ELSE @,
               !.stream = IF kind = "stream" THEN @ \cup {row} ELSE @]

RunOriginal ==
  /\ Unfinished(original) /\ Steps \ original.log # {}
  /\ original' = Executed(original)
  /\ UNCHANGED <<fork, import, copying, start, covered, ran>>

CompleteOriginal ==
  /\ Unfinished(original) /\ Steps \ original.log = {}
  /\ original' = [original EXCEPT !.status = "SUCCESS"]
  /\ UNCHANGED <<fork, import, copying, start, covered, ran>>

RunFork ==
  /\ Unfinished(fork) /\ Steps \ fork.log # {}
  /\ fork' = Executed(fork)
  /\ ran' = ran \cup {NextStep(fork)}
  /\ UNCHANGED <<original, import, copying, start, covered>>

-----------------------------------------------------------------------------
(* Reads of one table each.                                                *)
CopyAt(op, pc) == copying.op = op /\ copying.pc = pc
ReadTable(table, rows, pc) ==
  copying' = [copying EXCEPT !.rows[table] = rows, !.pc = pc]
Below(s) == {f \in Steps : f < s}

(* fork_workflow copies nothing for a start_step of 1.                     *)
BeginFork(s) ==
  /\ copying.pc = "idle" /\ start = 0
  /\ start' = s
  /\ covered' = (Below(s) \subseteq original.log)
  /\ copying' = [op |-> "fork", pc |-> IF s > 1 THEN "log" ELSE "commit",
                 rows |-> [NoRows EXCEPT !.status = "ENQUEUED"]]
  /\ UNCHANGED <<original, fork, import, ran>>

CopyCheckpoints ==
  /\ CopyAt("fork", "log")
  /\ ReadTable("log", original.log \cap Below(start), "history")
  /\ UNCHANGED <<original, fork, import, start, covered, ran>>

CopyHistory ==
  /\ CopyAt("fork", "history")
  /\ ReadTable("history", original.history \cap Below(start), "event")
  /\ UNCHANGED <<original, fork, import, start, covered, ran>>

(* The version with the maximum function_id below start_step.              *)
CurrentEvent == original.event                                    \* faulty
LatestEvent == Max({0} \cup (original.history \cap Below(start)))

CopyEvents ==
  /\ CopyAt("fork", "event")
  /\ ReadTable("event", LatestEvent, "stream")
  /\ UNCHANGED <<original, fork, import, start, covered, ran>>

CopyStreams ==
  /\ CopyAt("fork", "stream")
  /\ ReadTable("stream", {r \in original.stream : r.step < start}, "commit")
  /\ UNCHANGED <<original, fork, import, start, covered, ran>>

CommitFork ==
  /\ CopyAt("fork", "commit")
  /\ fork' = copying.rows
  /\ copying' = [copying EXCEPT !.pc = "idle"]
  /\ UNCHANGED <<original, import, start, covered, ran>>

(* export_workflow reads the status first; import_workflow inserts all in  *)
(* one transaction.                                                        *)
StatusLast == <<"log", "event", "history", "stream", "status">>   \* faulty
TableOrder == <<"status", "log", "event", "history", "stream">>

BeginExport ==
  /\ copying.pc = "idle" /\ import = NoRows
  /\ copying' = [op |-> "export", pc |-> TableOrder[1], rows |-> NoRows]
  /\ UNCHANGED <<original, fork, import, start, covered, ran>>

ExportTable(i) ==
  /\ CopyAt("export", TableOrder[i])
  /\ ReadTable(TableOrder[i], original[TableOrder[i]],
               IF i = Len(TableOrder) THEN "import" ELSE TableOrder[i + 1])
  /\ UNCHANGED <<original, fork, import, start, covered, ran>>

ImportWorkflow ==
  /\ CopyAt("export", "import")
  /\ import' = copying.rows
  /\ copying' = [copying EXCEPT !.pc = "idle"]
  /\ UNCHANGED <<original, fork, start, covered, ran>>

(* The process that copies is killed: nothing of the copy is left.         *)
CrashCopy ==
  /\ copying.pc # "idle"
  /\ copying' = [copying EXCEPT !.pc = "idle"]
  /\ start' = IF copying.op = "fork" THEN 0 ELSE start
  /\ UNCHANGED <<original, fork, import, covered, ran>>

CopyNext ==
  \/ RunOriginal \/ CompleteOriginal \/ RunFork
  \/ \E s \in 1..(Len(CopiedProgram) + 1) : BeginFork(s)
  \/ CopyCheckpoints \/ CopyHistory \/ CopyEvents \/ CopyStreams \/ CommitFork
  \/ BeginExport \/ ImportWorkflow \/ CrashCopy
  \/ \E i \in DOMAIN TableOrder : ExportTable(i)

CopySpec == CopyInit /\ [][CopyNext]_copyVars

-----------------------------------------------------------------------------
Recorded(w, kind) == {f \in w.log : CopiedProgram[f] = kind}

(* What read_stream finds, offset by offset until the first one missing:   *)
(* the recorded writes, each once and in their order.                      *)
StreamExact(w) ==
  /\ {r.step : r \in w.stream} = Recorded(w, "stream")
  /\ \A r, q \in w.stream : r.step < q.step <=> r.offset < q.offset
  /\ \A r \in w.stream : \A o \in 0..r.offset : \E q \in w.stream : q.offset = o

(* The event and the stream that readers see are those of the recorded     *)
(* operations, each once.                                                  *)
Consistent(w) ==
  /\ w.history = Recorded(w, "event")
  /\ w.event = Max({0} \cup Recorded(w, "event"))
  /\ StreamExact(w)

(* A fork from a step before which all is recorded goes on as the original *)
(* did from there: it executes that step and the later ones, once, and its *)
(* readers see nothing of the original's later steps, however far the      *)
(* original has come meanwhile.  A workflow that is imported as completed  *)
(* is complete in all tables.                                              *)
CopiesWhole ==
  /\ fork.status # "ABSENT" /\ covered =>
       Consistent(fork) /\ ran = {f \in fork.log : f >= start}
  /\ import.status = "SUCCESS" => Consistent(import) /\ import.log = Steps
=============================================================================
