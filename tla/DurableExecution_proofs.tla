----------------------- MODULE DurableExecution_proofs -----------------------
(***************************************************************************)
(* Proofs about DurableExecution for any number of executors, runs and     *)
(* steps and whatever the environment does.                                *)
(***************************************************************************)
EXTENDS DurableExecution, TLAPS

USE StepsAssumption, ValuesAssumption, RecoveriesAssumption, NullAssumption

(* A run that is not over is somewhere; about to check, execute or record  *)
(* a step it is at a step, and before it has begun it is at the first.     *)
AtStep(me) == /\ me.pc \notin {"idle", "done"} => me.at \in Executors
              /\ me.pc \in {"check", "body", "record"} => me.step \in Steps
              /\ me.pc \in {"listed", "fetch", "init", "ready"} => me.step = 1
StepInv == \A r \in Runs : AtStep(run[r])

TypeInv == TypeOK /\ StepInv

LEMMA EmptyLogType == EmptyLog \in Logs
BY DEF EmptyLog, Logs

LEMMA IdleRunType == IdleRun \in RunStates
BY EmptyLogType DEF IdleRun, RunStates, PCs, Executing, Kinds, Guarded, Forced

LEMMA DoneRunType ==
  ASSUME NEW result \in Logs \cup {NoValue}
  PROVE  DoneRun(result) \in RunStates
BY IdleRunType DEF DoneRun, RunStates, PCs, Executing

LEMMA NewRunType ==
  ASSUME row \in Rows, NEW e \in Executors, NEW kind \in Kinds, NEW pc \in PCs
  PROVE  NewRun(e, kind, pc) \in RunStates
BY IdleRunType DEF NewRun, RunStates, Rows

(* Advance, field by field.                                                *)
LEMMA AdvanceFields ==
  ASSUME NEW me \in RunStates, me.step \in Steps, NEW v \in Values \cup {NoValue}
  PROVE  /\ Advance(me, v) \in RunStates
         /\ Advance(me, v).pc = "check" => me.step < NumSteps /\ v \notin Failures
         /\ Advance(me, v).pc \in {"check", "outcome", "await"}
         /\ Advance(me, v).step = me.step + 1
         /\ Advance(me, v).vals = [me.vals EXCEPT ![me.step] = v]
         /\ Advance(me, v).at = me.at
         /\ Advance(me, v).kind = me.kind
         /\ Advance(me, v).shadow = me.shadow
         /\ Advance(me, v).ret = me.ret
         /\ Advance(me, v).pc = "await" => me.shadow
<1> DEFINE vs == [me.vals EXCEPT ![me.step] = v]
           st == me.step + 1
           p == IF v \notin Failures /\ me.step < NumSteps THEN "check"
                ELSE IF me.shadow THEN "await" ELSE "outcome"
           new == [me EXCEPT !.vals = vs, !.step = st, !.pc = p]
<1>1. st \in 1..NumSteps + 1
  BY DEF Steps
<1>2. vs \in Logs
  BY DEF RunStates, Logs
<1>3. /\ p \in {"check", "outcome", "await"}
      /\ p = "check" => me.step < NumSteps /\ v \notin Failures
      /\ p = "await" => me.shadow
  OBVIOUS
<1>4. p \in PCs
  BY <1>3 DEF PCs, Executing
<1>5. Advance(me, v) = new
  BY DEF Advance
<1> HIDE DEF vs, st, p
<1>6. new \in RunStates
  BY <1>1, <1>2, <1>4 DEF RunStates
<1>7. /\ new.pc = p /\ new.step = st /\ new.vals = vs
      /\ new.at = me.at /\ new.kind = me.kind
      /\ new.shadow = me.shadow /\ new.ret = me.ret
  BY DEF RunStates
<1> HIDE DEF new
<1>8. QED BY <1>3, <1>5, <1>6, <1>7 DEF vs, st

LEMMA AdvanceAtStep ==
  ASSUME NEW me \in RunStates, AtStep(me), me.step \in Steps, me.at \in Executors,
         NEW v \in Values \cup {NoValue}
  PROVE  Advance(me, v) \in RunStates /\ AtStep(Advance(me, v))
<1> DEFINE past == Advance(me, v)
<1>1. /\ past \in RunStates /\ past.at = me.at /\ past.step = me.step + 1
      /\ past.pc = "check" => me.step < NumSteps
      /\ past.pc \in {"check", "outcome", "await"}
  BY AdvanceFields
<1> HIDE DEF past
<1>2. AtStep(past)
  BY <1>1 DEF AtStep, Steps
<1>3. QED BY <1>1, <1>2 DEF past

LEMMA InitTypeInv == Init => TypeInv
<1> SUFFICES ASSUME Init PROVE TypeInv
  OBVIOUS
<1>1. NoRow \in Rows
  BY DEF NoRow, Rows, Statuses, Completed
<1>2. TypeOK
  BY <1>1, EmptyLogType, IdleRunType DEF Init, TypeOK
<1>3. QED BY <1>2 DEF TypeInv, StepInv, AtStep, Init, IdleRun

-----------------------------------------------------------------------------
(* The step of one run from one well-typed state to another.               *)
LEMMA BecomesType ==
  ASSUME TypeInv, NEW r \in Runs, NEW new \in RunStates, Becomes(r, new),
         AtStep(new)
  PROVE  run' \in [Runs -> RunStates] /\ StepInv'
BY DEF TypeInv, TypeOK, StepInv, Becomes

LEMMA UpsertType ==
  ASSUME TypeInv, NEW e \in Executors, NEW toQueue \in BOOLEAN,
         NEW force, NEW owner \in Runs \cup {NoRun},
         InsertStatus(e, toQueue, force, owner)
  PROVE  row' \in Rows
<1> DEFINE bury == DeadLettered(force, owner) /\ row.status = "PENDING"
           st == IF bury THEN "MAX_RECOVERY_ATTEMPTS_EXCEEDED" ELSE row.status
           ex == IF toQueue THEN row.executor ELSE e
           qd == row.queued /\ ~bury
<1>1. row \in Rows
  BY DEF TypeInv, TypeOK
<1>2. Attempts(force) \in Nat
  BY <1>1 DEF Attempts, Rows
<1>3. st \in Statuses \cup {"NONE"} /\ ex \in Executors \cup {NoExecutor} /\ qd \in BOOLEAN
  BY <1>1 DEF Rows, Statuses
<1>4. CASE Exists
  <2>1. row' = [row EXCEPT !.attempts = Attempts(force), !.executor = ex,
                           !.status = st, !.queued = qd]
    BY <1>4 DEF InsertStatus
  <2> HIDE DEF st, ex, qd
  <2>2. QED BY <1>1, <1>2, <1>3, <2>1 DEF Rows
<1>5. CASE ~Exists
  BY <1>5 DEF InsertStatus, Rows, Statuses
<1>6. QED BY <1>4, <1>5

(* What a run may do after its upsert.                                     *)
LEMMA AfterInitCases ==
  ASSUME NEW r \in Runs, run[r] \in RunStates
  PROVE  \/ AfterInit(r) = DoneRun(NoValue)
         \/ AfterInit(r) = [run[r] EXCEPT !.pc = "await"]
         \/ AfterInit(r) = [run[r] EXCEPT !.pc = "ready"] /\ run[r].kind \in Guarded
         \/ AfterInit(r) = [run[r] EXCEPT !.pc = "check"] /\ run[r].kind = "call"
         \/ /\ \E sh \in BOOLEAN :
                 AfterInit(r) = [run[r] EXCEPT !.pc = "check", !.shadow = sh]
            /\ run[r].kind = "acall"
<1> DEFINE execute == ~Exists \/ run[r].kind \in Forced \/ Mine(r)
           runs == execute /\ row.status \notin Completed
           a == [run[r] EXCEPT !.pc = "check", !.shadow = ~runs]
           b == [run[r] EXCEPT !.pc = "check"]
           c == [run[r] EXCEPT !.pc = "await"]
           d == [run[r] EXCEPT !.pc = "ready"]
<1>1. AfterInit(r) = CASE DeadLettered(run[r].kind \in Forced, r) -> DoneRun(NoValue)
                       [] run[r].kind = "acall" -> a
                       [] run[r].kind = "call" -> IF runs THEN b ELSE c
                       [] run[r].kind = "start" -> IF runs THEN d ELSE c
                       [] OTHER -> IF runs THEN d ELSE DoneRun(NoValue)
  BY DEF AfterInit
<1>2. run[r].kind \in {"start", "call", "acall", "dequeue", "recover"}
  BY DEF RunStates, Kinds, Guarded, Forced
<1> HIDE DEF execute
<1>3. (~runs) \in BOOLEAN
  OBVIOUS
<1>4. QED BY <1>1, <1>2, <1>3 DEF Guarded, Forced

LEMMA AfterInitType ==
  ASSUME TypeInv, NEW r \in Runs, run[r].step = 1, run[r].at \in Executors
  PROVE  AfterInit(r) \in RunStates /\ AtStep(AfterInit(r))
<1>1. run[r] \in RunStates /\ 1 \in Steps
  BY DEF TypeInv, TypeOK, Steps
<1>2. CASE AfterInit(r) = DoneRun(NoValue)
  BY <1>2, DoneRunType, ZenonT(80) DEF AtStep, DoneRun, IdleRun
<1>3. CASE AfterInit(r) \in {[run[r] EXCEPT !.pc = pc] : pc \in {"await", "ready", "check"}}
  BY <1>1, <1>3 DEF AtStep, RunStates, PCs, Executing
<1>4. CASE \E sh \in BOOLEAN :
             AfterInit(r) = [run[r] EXCEPT !.pc = "check", !.shadow = sh]
  BY <1>1, <1>4 DEF AtStep, RunStates, PCs, Executing
<1>5. QED BY <1>1, <1>2, <1>3, <1>4, AfterInitCases

(* Every action keeps rows, checkpoints and runs well typed.               *)
LEMMA NextTypeInv == TypeInv /\ [Next]_vars => TypeInv'
<1> SUFFICES ASSUME TypeInv, [Next]_vars PROVE TypeInv'
  OBVIOUS
<1> USE DEF TypeInv, TypeOK
<1>0. \A r \in Runs : run[r] \in RunStates /\ AtStep(run[r])
  BY DEF StepInv
<1>1. ASSUME NEW r \in Runs, ClearQueueAssignment(r) PROVE TypeInv'
  <2>1. DoneRun(NoValue) \in RunStates /\ AtStep(DoneRun(NoValue))
    BY DoneRunType DEF DoneRun, IdleRun, AtStep
  <2>2. row' \in Rows
    BY <1>1 DEF ClearQueueAssignment, Rows, Statuses
  <2>3. QED BY <1>1, <2>1, <2>2, BecomesType DEF ClearQueueAssignment
<1>2. ASSUME NEW r \in Runs, RecoverDirectly(r) \/ Fetch(r) PROVE TypeInv'
  <2>1. run[r].step = 1
    BY <1>0, <1>2 DEF RecoverDirectly, Fetch, AtStep
  <2> DEFINE fetched(q) == [run[r] EXCEPT !.pc = "init", !.fromQueue = q]
             direct == [run[r] EXCEPT !.pc = "fetch"]
  <2>2. \A q \in BOOLEAN : fetched(q) \in RunStates /\ AtStep(fetched(q))
    BY <1>0, <1>2, <2>1, ZenonT(40) DEF RunStates, PCs, AtStep, RecoverDirectly, Fetch
  <2>3. direct \in RunStates /\ AtStep(direct)
    BY <1>0, <1>2, <2>1 DEF RunStates, PCs, AtStep, RecoverDirectly, Fetch
  <2>4. row.queued \in BOOLEAN
    BY DEF Rows
  <2>5. QED BY <1>2, <2>2, <2>3, <2>4, BecomesType DEF RecoverDirectly, Fetch
<1>3. ASSUME NEW r \in Runs, InitWorkflow(r) PROVE TypeInv'
  <2>1. run[r].step = 1 /\ run[r].fromQueue \in BOOLEAN
    BY <1>0, <1>3 DEF InitWorkflow, AtStep, RunStates
  <2>2. run[r].at \in Executors
    BY <1>0, <1>3 DEF InitWorkflow, AtStep
  <2>3. AfterInit(r) \in RunStates /\ AtStep(AfterInit(r))
    BY <2>1, <2>2, AfterInitType
  <2>4. row' \in Rows
    BY <1>3, <2>1, <2>2, UpsertType DEF InitWorkflow
  <2>5. QED BY <1>3, <2>3, <2>4, BecomesType DEF InitWorkflow, Acked, Unacked, StepInv
<1>4. ASSUME NEW r \in Runs, Acquire(r) PROVE TypeInv'
  <2> DEFINE new(pc) == [run[r] EXCEPT !.pc = pc]
  <2>1. \A pc \in {"await", "check"} : new(pc) \in RunStates /\ AtStep(new(pc))
    BY <1>0, <1>4 DEF Acquire, AtStep, RunStates, PCs, Executing, Steps
  <2>2. active' \subseteq Executors
    BY <1>0, <1>4 DEF Acquire, AtStep
  <2>3. QED BY <1>4, <2>1, <2>2, BecomesType DEF Acquire
<1>5. ASSUME NEW r \in Runs, CheckStep(r) PROVE TypeInv'
  <2> DEFINE me == run[r]
             new(pc) == [me EXCEPT !.pc = pc]
             past == Advance(me, Recorded(me.step))
  <2>1. me \in RunStates /\ me.step \in Steps /\ me.at \in Executors
    BY <1>0, <1>5 DEF CheckStep, AtStep
  <2>2. Recorded(me.step) \in Values \cup {NoValue}
    BY <2>1 DEF Recorded, Logs
  <2>3. past \in RunStates /\ AtStep(past)
    BY <1>0, <2>1, <2>2, AdvanceAtStep
  <2>4. \A pc \in {"await", "unwind", "body"} : new(pc) \in RunStates /\ AtStep(new(pc))
    BY <2>1 DEF AtStep, RunStates, PCs, Executing
  <2> HIDE DEF past
  <2>5. QED BY <1>5, <2>3, <2>4, BecomesType DEF CheckStep, past
<1>6. ASSUME NEW r \in Runs, NEW v \in Values, StepBody(r, v) PROVE TypeInv'
  <2> DEFINE vs == [run[r].vals EXCEPT ![run[r].step] = v]
             new == [run[r] EXCEPT !.pc = "record", !.vals = vs]
  <2>1. run[r] \in RunStates /\ run[r].step \in Steps /\ run[r].at \in Executors
    BY <1>0, <1>6 DEF StepBody, AtStep
  <2>2. vs \in Logs
    BY <2>1 DEF RunStates, Logs
  <2>3. Becomes(r, new)
    BY <1>6 DEF StepBody
  <2> HIDE DEF vs
  <2>4. new \in RunStates /\ AtStep(new)
    BY <2>1, <2>2 DEF AtStep, RunStates, PCs, Executing
  <2>5. QED BY <1>6, <2>3, <2>4, BecomesType DEF StepBody
<1>7. ASSUME NEW r \in Runs, RecordStep(r) PROVE TypeInv'
  <2> DEFINE me == run[r]
             past == Advance(me, me.vals[me.step])
  <2>1. me \in RunStates /\ me.step \in Steps /\ me.at \in Executors
    BY <1>0, <1>7 DEF RecordStep, AtStep
  <2>2. me.vals[me.step] \in Values \cup {NoValue}
    BY <2>1 DEF RunStates, Logs
  <2>3. past \in RunStates /\ AtStep(past)
    BY <1>0, <2>1, <2>2, AdvanceAtStep
  <2>4. row' \in Rows
    BY <1>7, <2>1 DEF RecordStep, Rows
  <2>5. log' \in Logs
    BY <1>7, <2>2 DEF RecordStep, InsertOutput, Logs
  <2> HIDE DEF past
  <2>6. QED BY <1>7, <2>3, <2>4, <2>5, BecomesType DEF RecordStep, Acked, Unacked, StepInv, past
<1>8. ASSUME NEW r \in Runs, WriteOutcome(r) PROVE TypeInv'
  <2> DEFINE new == [run[r] EXCEPT !.pc = "unwind", !.ret = run[r].vals]
  <2>1. run[r] \in RunStates /\ run[r].at \in Executors
    BY <1>0, <1>8 DEF WriteOutcome, AtStep
  <2>2. new \in RunStates /\ AtStep(new)
    BY <2>1 DEF RunStates, AtStep, PCs
  <2>3. row' \in Rows
    BY <1>8, <2>1 DEF WriteOutcome, Rows, Statuses, Completed, RunStates
  <2>4. QED BY <1>8, <2>2, <2>3, BecomesType DEF WriteOutcome, Acked, Unacked, StepInv
<1>9. ASSUME NEW r \in Runs, Release(r) PROVE TypeInv'
  <2>1. run[r].ret \in Logs \cup {NoValue}
    BY DEF RunStates
  <2>2. DoneRun(run[r].ret) \in RunStates /\ AtStep(DoneRun(run[r].ret))
    BY <2>1, DoneRunType DEF DoneRun, IdleRun, AtStep
  <2>3. active' \subseteq Executors
    BY <1>9 DEF Release
  <2>4. QED BY <1>9, <2>2, <2>3, BecomesType DEF Release
<1>10. ASSUME NEW r \in Runs, AwaitResult(r) PROVE TypeInv'
  <2> DEFINE result == IF row.status \in Completed THEN row.outcome ELSE NoValue
  <2>1. result \in Logs \cup {NoValue}
    BY DEF Rows
  <2>2. Becomes(r, DoneRun(result))
    BY <1>10 DEF AwaitResult
  <2> HIDE DEF result
  <2>3. DoneRun(result) \in RunStates /\ AtStep(DoneRun(result))
    BY <2>1, DoneRunType DEF DoneRun, IdleRun, AtStep
  <2>4. QED BY <1>10, <2>2, <2>3, BecomesType DEF AwaitResult
<1>11. ASSUME NEW e \in Executors, NEW kind \in Kinds, NEW pc \in {"listed", "fetch", "init"}
       PROVE  NewRun(e, kind, pc) \in RunStates /\ AtStep(NewRun(e, kind, pc))
  BY NewRunType DEF NewRun, IdleRun, AtStep, PCs, Executing
<1>12. ASSUME NEW e \in Executors, NEW r \in Runs, NEW kind \in {"start", "call", "acall"},
              Start(e, r, kind)
       PROVE  TypeInv'
  <2> DEFINE fresh == NewRun(e, kind, "init")
             new == [fresh EXCEPT !.fromQueue = FALSE]
  <2>1. fresh \in RunStates /\ AtStep(fresh)
    BY <1>11 DEF Kinds, Guarded
  <2>2. new \in RunStates /\ AtStep(new)
    <3> HIDE DEF fresh
    <3> QED BY <2>1 DEF RunStates, AtStep
  <2>3. QED BY <1>12, <2>2, BecomesType DEF Start
<1>13. ASSUME NEW e \in Executors, NEW r \in Runs, Dequeue(e, r) PROVE TypeInv'
  <2>1. row' \in Rows
    BY <1>13 DEF Dequeue, Rows, Statuses
  <2>2. "dequeue" \in Kinds
    BY DEF Kinds, Guarded, Forced
  <2>3. QED BY <1>11, <1>13, <2>1, <2>2, BecomesType DEF Dequeue
<1>14. ASSUME NEW e \in Executors, NEW x \in Executors, NEW r \in Runs, Listed(e, x, r)
       PROVE  run' \in [Runs -> RunStates] /\ StepInv'
  <2>1. "recover" \in Kinds
    BY DEF Kinds, Guarded, Forced
  <2>2. QED BY <1>11, <1>14, <2>1, BecomesType DEF Listed
<1>15. ASSUME NEW e \in Executors, NEW x \in Executors, NEW r \in Runs, RecoverPending(e, x, r)
       PROVE  TypeInv'
  BY <1>14, <1>15 DEF RecoverPending
<1>16. ASSUME NEW e \in Executors, Enqueue(e) PROVE TypeInv'
  <2>1. row' \in Rows
    BY <1>16, UpsertType DEF Enqueue
  <2>2. QED BY <1>16, <2>1 DEF Enqueue, StepInv
<1>17. ASSUME NEW e \in Executors, Launch(e) PROVE TypeInv'
  <2>1. run' \in [Runs -> RunStates] /\ StepInv'
    BY <1>14, <1>17 DEF Launch, StepInv
  <2>2. QED BY <1>17, <2>1 DEF Launch
<1>18. ASSUME NEW e \in Executors, Crash(e) PROVE TypeInv'
  BY <1>0, <1>18, IdleRunType DEF Crash, StepInv, AtStep, IdleRun
<1>19. CASE Cancel
  BY <1>19 DEF Cancel, CancelledRow, Rows, Statuses, StepInv
<1>20. CASE Resume
  BY <1>20 DEF Resume, Rows, Statuses, StepInv
<1>21. CASE UNCHANGED vars
  BY <1>21 DEF vars, StepInv
<1>22. QED
  BY <1>1, <1>2, <1>3, <1>4, <1>5, <1>6, <1>7, <1>8, <1>9, <1>10, <1>12, <1>13,
     <1>15, <1>16, <1>17, <1>18, <1>19, <1>20, <1>21
  DEF Next, RunStep

(* The types of the row, of the checkpoints and of every execution hold    *)
(* for any number of executors, runs and steps.                            *)
THEOREM TypeCorrect == Spec => []TypeOK
<1>1. TypeInv => TypeOK
  BY DEF TypeInv
<1>2. QED BY InitTypeInv, NextTypeInv, <1>1, PTL DEF Spec

-----------------------------------------------------------------------------
(* What each action does to the run it is an action of.                    *)

(* The run keeps everything but its program counter.                       *)
Moves(new, me) ==
  /\ new.at = me.at /\ new.kind = me.kind /\ new.shadow = me.shadow
  /\ new.step = me.step /\ new.vals = me.vals /\ new.ret = me.ret

LEMMA BecomesIs ==
  ASSUME TypeInv, NEW r \in Runs, NEW new, Becomes(r, new)
  PROVE  run'[r] = new /\ Becomes(r, run'[r])
BY DEF TypeInv, TypeOK, Becomes

LEMMA PcOnly ==
  ASSUME NEW me \in RunStates, NEW pc
  PROVE  [me EXCEPT !.pc = pc].pc = pc /\ Moves([me EXCEPT !.pc = pc], me)
BY DEF RunStates, Moves

LEMMA MoveEffect ==
  ASSUME TypeInv, NEW r \in Runs, RecoverDirectly(r) \/ Fetch(r) \/ Acquire(r)
  PROVE  /\ Becomes(r, run'[r]) /\ Moves(run'[r], run[r])
         /\ RecoverDirectly(r) => run'[r].pc = "fetch"
         /\ Fetch(r) => run'[r].pc = "init"
         /\ Acquire(r) => run'[r].pc = IF run[r].at \in active THEN "await" ELSE "check"
<1>1. run[r] \in RunStates
  BY DEF TypeInv, TypeOK
<1>2. CASE RecoverDirectly(r) \/ Acquire(r)
  <2>1. PICK pc : /\ Becomes(r, [run[r] EXCEPT !.pc = pc])
                  /\ RecoverDirectly(r) => pc = "fetch"
                  /\ Acquire(r) => pc = IF run[r].at \in active THEN "await" ELSE "check"
                  /\ ~Fetch(r)
    BY <1>2 DEF RecoverDirectly, Acquire, Fetch, Taken
  <2>2. Moves([run[r] EXCEPT !.pc = pc], run[r]) /\ [run[r] EXCEPT !.pc = pc].pc = pc
    BY <1>1, PcOnly
  <2>3. run'[r] = [run[r] EXCEPT !.pc = pc] /\ Becomes(r, run'[r])
    BY <2>1, BecomesIs
  <2>4. QED BY <2>1, <2>2, <2>3
<1>3. CASE Fetch(r)
  <2> DEFINE new == [run[r] EXCEPT !.pc = "init", !.fromQueue = row.queued]
  <2>1. new.pc = "init" /\ Moves(new, run[r])
    BY <1>1 DEF RunStates, Moves
  <2>2. Becomes(r, new) /\ ~RecoverDirectly(r) /\ ~Acquire(r)
    BY <1>3 DEF Fetch, RecoverDirectly, Acquire
  <2> HIDE DEF new
  <2>3. QED BY <2>1, <2>2, BecomesIs
<1>4. QED BY <1>2, <1>3

(* What the upsert leaves of a run that goes on.                           *)
Continues(new, me) ==
  /\ new.at = me.at /\ new.kind = me.kind /\ new.step = me.step
  /\ new.vals = me.vals /\ new.ret = me.ret
  /\ \/ new.pc = "await" /\ new.shadow = me.shadow
     \/ new.pc = "ready" /\ new.shadow = me.shadow /\ me.kind \in Guarded
     \/ /\ new.pc = "check" /\ me.kind \notin Guarded
        /\ new.shadow # me.shadow => me.kind = "acall"

LEMMA InitEffect ==
  ASSUME TypeInv, NEW r \in Runs, InitWorkflow(r)
  PROVE  /\ Becomes(r, run'[r])
         /\ run' = run \/ run'[r] = DoneRun(NoValue) \/ Continues(run'[r], run[r])
<1>1. run \in [Runs -> RunStates] /\ run[r] \in RunStates
  BY DEF TypeInv, TypeOK
<1>2. CASE run' = run
  BY <1>1, <1>2 DEF Becomes
<1>3. CASE Becomes(r, AfterInit(r))
  <2>1. run'[r] = AfterInit(r) /\ Becomes(r, run'[r])
    BY <1>3, BecomesIs
  <2>2. ASSUME NEW pc
        PROVE  LET new == [run[r] EXCEPT !.pc = pc]
               IN  Moves(new, run[r]) /\ new.pc = pc
    BY <1>1, PcOnly
  <2>3. \A sh \in BOOLEAN :
          LET new == [run[r] EXCEPT !.pc = "check", !.shadow = sh]
          IN  run[r].kind = "acall" => Continues(new, run[r])
    BY <1>1 DEF RunStates, Continues, Guarded, Forced
  <2>4. run[r].kind \in Guarded => Continues([run[r] EXCEPT !.pc = "ready"], run[r])
    BY <2>2 DEF Continues, Moves
  <2>5. Continues([run[r] EXCEPT !.pc = "await"], run[r])
    BY <2>2 DEF Continues, Moves
  <2>6. run[r].kind = "call" => Continues([run[r] EXCEPT !.pc = "check"], run[r])
    BY <2>2 DEF Continues, Moves, Guarded, Forced
  <2>7. QED BY <1>1, <2>1, <2>3, <2>4, <2>5, <2>6, AfterInitCases
<1>4. QED BY <1>2, <1>3 DEF InitWorkflow, Acked, Unacked

LEMMA CheckEffect ==
  ASSUME TypeInv, NEW r \in Runs, CheckStep(r)
  PROVE  /\ Becomes(r, run'[r]) /\ run[r].step \in Steps
         /\ run'[r].at = run[r].at /\ run'[r].kind = run[r].kind
         /\ run'[r].shadow = run[r].shadow /\ run'[r].ret = run[r].ret
         /\ \/ /\ Moves(run'[r], run[r])
               /\ run'[r].pc = IF run[r].shadow THEN "await" ELSE "unwind"
            \/ /\ Moves(run'[r], run[r]) /\ run'[r].pc = "body"
               /\ log[run[r].step] = NoValue
            \/ /\ run'[r] = Advance(run[r], log[run[r].step])
               /\ log[run[r].step] # NoValue
<1>1. /\ run \in [Runs -> RunStates] /\ run[r] \in RunStates
      /\ run[r].step \in Steps /\ log[run[r].step] \in Values \cup {NoValue}
  BY DEF TypeInv, TypeOK, CheckStep, StepInv, AtStep, Logs
<1>2. \A pc : Moves([run[r] EXCEPT !.pc = pc], run[r])
  BY <1>1 DEF RunStates, Moves
<1>3. \A pc : [run[r] EXCEPT !.pc = pc].pc = pc
  BY <1>1 DEF RunStates
<1> DEFINE past == Advance(run[r], log[run[r].step])
<1>4. past.at = run[r].at /\ past.kind = run[r].kind /\ past.shadow = run[r].shadow /\ past.ret = run[r].ret
  BY <1>1, AdvanceFields, ZenonT(40)
<1> DEFINE new == IF row.status = "CANCELLED"
                  THEN [run[r] EXCEPT !.pc = IF run[r].shadow THEN "await" ELSE "unwind"]
                  ELSE IF log[run[r].step] = NoValue THEN [run[r] EXCEPT !.pc = "body"]
                  ELSE past
<1>5. Becomes(r, new)
  BY DEF CheckStep, Recorded
<1>6. run'[r] = new /\ Becomes(r, run'[r])
  BY <1>1, <1>5 DEF Becomes
<1> HIDE DEF past
<1>7. QED BY <1>1, <1>2, <1>3, <1>4, <1>6 DEF past, Moves

LEMMA BodyEffect ==
  ASSUME TypeInv, NEW r \in Runs, NEW v \in Values, StepBody(r, v)
  PROVE  /\ Becomes(r, run'[r]) /\ run[r].step \in Steps /\ run'[r].pc = "record"
         /\ run'[r].at = run[r].at /\ run'[r].kind = run[r].kind
         /\ run'[r].shadow = run[r].shadow /\ run'[r].ret = run[r].ret
         /\ run'[r].step = run[r].step
         /\ run'[r].vals = [run[r].vals EXCEPT ![run[r].step] = v]
BY DEF TypeInv, TypeOK, RunStates, StepBody, Becomes, StepInv, AtStep

LEMMA RecordEffect ==
  ASSUME TypeInv, NEW r \in Runs, RecordStep(r)
  PROVE  /\ Becomes(r, run'[r]) /\ run[r].step \in Steps
         /\ run' = run \/ run'[r] = Advance(run[r], run[r].vals[run[r].step])
         /\ row' = [row EXCEPT !.executor = run[r].at]
         /\ log' = [log EXCEPT ![run[r].step] = IF @ = NoValue THEN run[r].vals[run[r].step] ELSE @]
BY DEF TypeInv, TypeOK, RecordStep, Becomes, Acked, Unacked, InsertOutput, StepInv, AtStep

LEMMA OutcomeEffect ==
  ASSUME TypeInv, NEW r \in Runs, WriteOutcome(r)
  PROVE  /\ Becomes(r, run'[r])
         /\ run' = run \/ /\ run'[r].pc = "unwind" /\ run'[r].ret = run[r].vals
                          /\ run'[r].at = run[r].at /\ run'[r].kind = run[r].kind
                          /\ run'[r].shadow = run[r].shadow
                          /\ run'[r].step = run[r].step /\ run'[r].vals = run[r].vals
         /\ row'.status \in Completed /\ row'.outcome = run[r].vals
         /\ row'.owner = row.owner
<1>1. run \in [Runs -> RunStates] /\ run[r] \in RunStates /\ row \in Rows
  BY DEF TypeInv, TypeOK
<1>2. /\ row'.status \in Completed /\ row'.outcome = run[r].vals
      /\ row'.owner = row.owner
  BY <1>1 DEF WriteOutcome, Rows, Completed
<1> DEFINE new == [run[r] EXCEPT !.pc = "unwind", !.ret = run[r].vals]
<1>3. /\ new.pc = "unwind" /\ new.ret = run[r].vals
      /\ new.at = run[r].at /\ new.kind = run[r].kind /\ new.shadow = run[r].shadow
      /\ new.step = run[r].step /\ new.vals = run[r].vals
  BY <1>1 DEF RunStates
<1>4. Becomes(r, new) \/ run' = run
  BY DEF WriteOutcome, Acked, Unacked
<1> HIDE DEF new
<1>5. CASE Becomes(r, new)
  BY <1>2, <1>3, <1>5, BecomesIs
<1>6. CASE run' = run
  BY <1>1, <1>2, <1>6 DEF Becomes
<1>7. QED BY <1>4, <1>5, <1>6

LEMMA EndEffect ==
  ASSUME TypeInv, NEW r \in Runs, ClearQueueAssignment(r) \/ Release(r) \/ AwaitResult(r)
  PROVE  /\ Becomes(r, run'[r])
         /\ ClearQueueAssignment(r) => run'[r] = DoneRun(NoValue)
         /\ Release(r) => run'[r] = DoneRun(run[r].ret)
         /\ AwaitResult(r) =>
              run'[r] = DoneRun(IF row.status \in Completed THEN row.outcome ELSE NoValue)
BY DEF TypeInv, TypeOK, ClearQueueAssignment, Release, AwaitResult, Becomes

(* A new run, however it comes about.                                      *)
Created(new, e, kind, pc) ==
  /\ new.pc = pc /\ new.kind = kind /\ new.at = e /\ new.ret = NoValue
  /\ new.shadow = FALSE /\ new.step = 1 /\ new.vals = EmptyLog

LEMMA NewRunFields ==
  ASSUME NEW e, NEW kind, NEW pc
  PROVE  /\ Created(NewRun(e, kind, pc), e, kind, pc)
         /\ Created([NewRun(e, kind, pc) EXCEPT !.fromQueue = FALSE], e, kind, pc)
BY DEF Created, NewRun, IdleRun

LEMMA CreateEffect ==
  ASSUME TypeInv, NEW r \in Runs, NEW e, NEW kind
  PROVE  /\ Start(e, r, kind) => Becomes(r, run'[r]) /\ Created(run'[r], e, kind, "init")
         /\ Dequeue(e, r) => Becomes(r, run'[r]) /\ Created(run'[r], e, "dequeue", "fetch")
         /\ \A x : Listed(e, x, r) =>
              Becomes(r, run'[r]) /\ Created(run'[r], e, "recover", "listed")
<1>1. ASSUME Start(e, r, kind)
      PROVE  Becomes(r, run'[r]) /\ Created(run'[r], e, kind, "init")
  <2>1. run'[r] = [NewRun(e, kind, "init") EXCEPT !.fromQueue = FALSE] /\ Becomes(r, run'[r])
    BY <1>1, BecomesIs DEF Start
  <2>2. QED BY <2>1, NewRunFields
<1>2. ASSUME Dequeue(e, r)
      PROVE  Becomes(r, run'[r]) /\ Created(run'[r], e, "dequeue", "fetch")
  <2>1. run'[r] = NewRun(e, "dequeue", "fetch") /\ Becomes(r, run'[r])
    BY <1>2, BecomesIs DEF Dequeue
  <2>2. QED BY <2>1, NewRunFields
<1>3. ASSUME NEW x, Listed(e, x, r)
      PROVE  Becomes(r, run'[r]) /\ Created(run'[r], e, "recover", "listed")
  <2>1. run'[r] = NewRun(e, "recover", "listed") /\ Becomes(r, run'[r])
    BY <1>3, BecomesIs DEF Listed
  <2>2. QED BY <2>1, NewRunFields
<1>4. QED BY <1>1, <1>2, <1>3

-----------------------------------------------------------------------------
(* The row: queue membership and the recovery budget.                      *)

(* A forced run acts on a row that exists and that it does not own: it     *)
(* never escapes the recovery budget.                                      *)
ForcedRuns ==
  \A r \in Runs : run[r].kind \in Forced => Exists /\ row.owner # r

RowInv == QueuedRows /\ RecoveryBudget /\ ForcedRuns

(* The upsert keeps the row within its budget.                             *)
LEMMA UpsertKeepsRow ==
  ASSUME TypeInv, RowInv, NEW e \in Executors, NEW toQueue \in BOOLEAN, NEW force,
         NEW owner \in Runs \cup {NoRun}, force => Exists /\ row.owner # owner,
         InsertStatus(e, toQueue, force, owner)
  PROVE  /\ QueuedRows' /\ RecoveryBudget' /\ Exists'
         /\ Exists => row'.owner = row.owner
         /\ ~Exists => row'.owner = owner
<1> DEFINE dead == DeadLettered(force, owner)
           bury == dead /\ row.status = "PENDING"
<1>1. row \in Rows /\ row' \in Rows /\ MaxRecoveries \in Nat
  BY UpsertType DEF TypeInv, TypeOK
<1>2. CASE Exists
  <2>1. /\ row'.attempts = Attempts(force)
        /\ row'.status = IF bury THEN "MAX_RECOVERY_ATTEMPTS_EXCEEDED" ELSE row.status
        /\ row'.queued = (row.queued /\ ~bury)
        /\ row'.owner = row.owner
    BY <1>1, <1>2 DEF InsertStatus, Rows
  <2>2. Attempts(force) \in Nat /\ row.attempts \in Nat
    BY <1>1 DEF Attempts, Rows
  <2>3. row.status = "PENDING" /\ Attempts(force) > MaxRecoveries + 1 => bury
    BY <1>2, <2>2 DEF DeadLettered, Open, Completed, Mine, RowInv, RecoveryBudget, Attempts
  <2>4. row.status = "ENQUEUED" => Attempts(force) = row.attempts
    BY <2>2 DEF Attempts
  <2>5. QueuedRows'
    BY <1>1, <2>1 DEF QueuedRows, RowInv, Rows
  <2>6. RecoveryBudget'
    BY <1>1, <2>1, <2>2, <2>3, <2>4 DEF RecoveryBudget, RowInv
  <2>7. QED BY <1>2, <2>1, <2>5, <2>6 DEF Exists
<1>3. CASE ~Exists
  <2>1. row' = [status |-> IF toQueue THEN "ENQUEUED" ELSE "PENDING",
                executor |-> e, attempts |-> IF toQueue THEN 0 ELSE 1,
                owner |-> owner, queued |-> toQueue, outcome |-> NoValue]
    BY <1>3 DEF InsertStatus
  <2>2. QED BY <1>1, <1>3, <2>1 DEF QueuedRows, RecoveryBudget, Exists
<1>4. QED BY <1>2, <1>3

LEMMA InitRowInv == Init => RowInv
BY DEF Init, RowInv, QueuedRows, RecoveryBudget, ForcedRuns, NoRow, IdleRun, Forced, Exists

LEMMA NextRowInv == TypeInv /\ RowInv /\ [Next]_vars => RowInv'
<1> SUFFICES ASSUME TypeInv, RowInv, [Next]_vars PROVE RowInv'
  OBVIOUS
<1> USE DEF TypeInv, TypeOK
<1>0. MaxRecoveries \in Nat /\ row.attempts \in Nat
  BY DEF Rows
(* A run of the same kind, or one that is over, adds no forced run.        *)
<1>a. ASSUME NEW r \in Runs, Becomes(r, run'[r]), run'[r].kind \in {"start", run[r].kind},
             Exists => Exists', row'.owner = row.owner
      PROVE  ForcedRuns'
  BY <1>a DEF Becomes, ForcedRuns, RowInv, Forced
<1>b. ASSUME row' = row PROVE QueuedRows' /\ RecoveryBudget' /\ (Exists <=> Exists')
  BY <1>b DEF RowInv, QueuedRows, RecoveryBudget, Exists
<1>c. ASSUME NEW r \in Runs, Becomes(r, run'[r]), run'[r].kind \in {"start", run[r].kind},
             row' = row
      PROVE  RowInv'
  BY <1>a, <1>b, <1>c DEF RowInv
<1>1. ASSUME NEW r \in Runs, ClearQueueAssignment(r) PROVE RowInv'
  <2>1. row'.status = "ENQUEUED" /\ row'.queued = TRUE
    BY <1>1 DEF ClearQueueAssignment, Rows
  <2>2. row'.attempts = row.attempts /\ row'.owner = row.owner
    BY <1>1 DEF ClearQueueAssignment, Rows
  <2>3. Becomes(r, run'[r]) /\ run'[r] = DoneRun(NoValue)
    BY <1>1, EndEffect
  <2>4. run'[r].kind = "start"
    BY <2>3 DEF DoneRun, IdleRun
  <2>5. ForcedRuns'
    BY <1>a, <2>1, <2>2, <2>3, <2>4 DEF Exists
  <2>6. QED
    BY <1>1, <2>1, <2>2, <2>5 DEF ClearQueueAssignment, RowInv, QueuedRows, RecoveryBudget
<1>2. ASSUME NEW r \in Runs, RecoverDirectly(r) \/ Fetch(r) \/ Acquire(r) PROVE RowInv'
  BY <1>2, <1>c, MoveEffect DEF RecoverDirectly, Fetch, Acquire, Moves
<1>3. ASSUME NEW r \in Runs, InitWorkflow(r) PROVE RowInv'
  <2>1. /\ run[r].at \in Executors /\ run[r].fromQueue \in BOOLEAN
        /\ run[r].kind \in Forced => Exists /\ row.owner # r
    BY <1>3 DEF InitWorkflow, StepInv, AtStep, RunStates, RowInv, ForcedRuns
  <2>2. /\ QueuedRows' /\ RecoveryBudget' /\ Exists'
        /\ Exists => row'.owner = row.owner
        /\ ~Exists => row'.owner = r
    BY <1>3, <2>1, UpsertKeepsRow DEF InitWorkflow
  <2>3. Becomes(r, run'[r]) /\ run'[r].kind \in {"start", run[r].kind}
    <3>1. /\ Becomes(r, run'[r])
          /\ run' = run \/ run'[r] = DoneRun(NoValue) \/ Continues(run'[r], run[r])
      BY <1>3, InitEffect
    <3>2. QED BY <3>1 DEF Continues, DoneRun, IdleRun
  <2>4. ForcedRuns'
    BY <2>1, <2>2, <2>3 DEF Becomes, ForcedRuns, RowInv, Forced
  <2>5. QED BY <2>2, <2>4 DEF RowInv
<1>4. ASSUME NEW r \in Runs, CheckStep(r) PROVE RowInv'
  BY <1>4, <1>c, CheckEffect DEF CheckStep
<1>4a. ASSUME NEW r \in Runs, NEW v \in Values, StepBody(r, v) PROVE RowInv'
  BY <1>4a, <1>c, BodyEffect DEF StepBody
<1>5. ASSUME NEW r \in Runs, Release(r) \/ AwaitResult(r) PROVE RowInv'
  <2>1. Becomes(r, run'[r]) /\ row' = row
    BY <1>5, EndEffect DEF Release, AwaitResult
  <2>2. PICK result : run'[r] = DoneRun(result)
    BY <1>5, EndEffect
  <2>3. run'[r].kind = "start"
    BY <2>2 DEF DoneRun, IdleRun
  <2>4. QED BY <1>c, <2>1, <2>3
<1>6. ASSUME NEW r \in Runs, RecordStep(r) PROVE RowInv'
  <2>1. /\ row'.status = row.status /\ row'.queued = row.queued
        /\ row'.attempts = row.attempts /\ row'.owner = row.owner
    BY <1>6 DEF RecordStep, Rows
  <2>2. run[r] \in RunStates /\ run[r].step \in Steps /\ run[r].vals[run[r].step] \in Values \cup {NoValue}
    BY <1>6 DEF RecordStep, StepInv, AtStep, RunStates, Logs
  <2>3. Becomes(r, run'[r]) /\ run'[r].kind = run[r].kind
    <3>1. /\ Becomes(r, run'[r])
          /\ run' = run \/ run'[r] = Advance(run[r], run[r].vals[run[r].step])
      BY <1>6, RecordEffect
    <3>2. Advance(run[r], run[r].vals[run[r].step]).kind = run[r].kind
      BY <2>2, AdvanceFields
    <3>3. QED BY <3>1, <3>2
  <2>4. ForcedRuns'
    BY <1>a, <2>1, <2>3 DEF Exists
  <2>5. QED BY <2>1, <2>4 DEF RowInv, QueuedRows, RecoveryBudget
<1>7. ASSUME NEW r \in Runs, WriteOutcome(r) PROVE RowInv'
  <2>1. row'.status \in Completed /\ row'.owner = row.owner
    BY <1>7, OutcomeEffect
  <2>2. Becomes(r, run'[r]) /\ run'[r].kind = run[r].kind
    BY <1>7, OutcomeEffect
  <2>3. ForcedRuns'
    BY <1>a, <2>1, <2>2 DEF Exists, Completed
  <2>4. QED BY <2>1, <2>3 DEF RowInv, QueuedRows, RecoveryBudget, Completed
<1>8. ASSUME NEW e \in Executors, NEW r \in Runs, NEW kind \in {"start", "call", "acall"},
             Start(e, r, kind)
      PROVE  RowInv'
  <2>1. Becomes(r, run'[r]) /\ run'[r].kind = kind /\ row' = row
    BY <1>8, CreateEffect DEF Start, Created
  <2>2. ForcedRuns'
    BY <1>b, <2>1 DEF Becomes, ForcedRuns, RowInv, Forced
  <2>3. QED BY <1>b, <2>1, <2>2 DEF RowInv
<1>9. ASSUME NEW e \in Executors, NEW r \in Runs, Dequeue(e, r) PROVE RowInv'
  <2>1. /\ row'.status = "PENDING" /\ row'.attempts = row.attempts
        /\ row'.owner = row.owner /\ row.status = "ENQUEUED" /\ row.owner # r
    BY <1>9 DEF Dequeue, Rows, Free
  <2>2. ForcedRuns'
    BY <1>9, <2>1 DEF Dequeue, Becomes, ForcedRuns, RowInv, Exists
  <2>3. QED BY <2>1, <2>2 DEF RowInv, QueuedRows, RecoveryBudget
<1>10. ASSUME NEW e, NEW x, NEW r \in Runs, Listed(e, x, r), row' = row PROVE RowInv'
  <2>1. ForcedRuns'
    BY <1>10 DEF Listed, PendingOf, Free, Becomes, ForcedRuns, RowInv, Exists
  <2>2. QED BY <1>10, <1>b, <2>1 DEF RowInv
<1>11. ASSUME NEW e \in Executors, Enqueue(e) PROVE RowInv'
  <2>1. InsertStatus(e, TRUE, FALSE, NoRun) /\ run' = run
    BY <1>11 DEF Enqueue
  <2>2. /\ QueuedRows' /\ RecoveryBudget' /\ Exists'
        /\ Exists => row'.owner = row.owner
        /\ ~Exists => row'.owner = NoRun
    BY <2>1, UpsertKeepsRow
  <2>3. QED BY <2>1, <2>2 DEF ForcedRuns, RowInv
<1>12. ASSUME NEW e \in Executors, Launch(e) PROVE RowInv'
  <2>1. CASE run' = run
    BY <1>12, <1>b, <2>1 DEF Launch, ForcedRuns, RowInv
  <2>2. QED BY <1>10, <1>12, <2>1 DEF Launch
<1>13. ASSUME NEW e \in Executors, Crash(e) PROVE RowInv'
  <2>1. ForcedRuns'
    BY <1>13, <1>b DEF Crash, ForcedRuns, RowInv, IdleRun, Forced
  <2>2. QED BY <1>13, <1>b, <2>1 DEF Crash, RowInv
<1>14. CASE Cancel
  BY <1>14 DEF Cancel, CancelledRow, Open, Exists, Rows, ForcedRuns, RowInv, QueuedRows, RecoveryBudget
<1>15. CASE Resume
  BY <1>0, <1>15 DEF Resume, Open, Exists, Rows, ForcedRuns, RowInv, QueuedRows, RecoveryBudget
<1>16. CASE UNCHANGED vars
  BY <1>16, <1>b DEF vars, ForcedRuns, RowInv
<1>17. QED
  BY <1>1, <1>2, <1>3, <1>4, <1>4a, <1>5, <1>6, <1>7, <1>8, <1>9, <1>10, <1>11, <1>12,
     <1>13, <1>14, <1>15, <1>16
  DEF Next, RunStep, RecoverPending

(* The row invariant, with the types it rests on.                          *)
THEOREM RowCorrect == Spec => [](TypeInv /\ RowInv)
<1>1. Init => TypeInv /\ RowInv
  BY InitTypeInv, InitRowInv
<1>2. TypeInv /\ RowInv /\ [Next]_vars => (TypeInv /\ RowInv)'
  BY NextTypeInv, NextRowInv
<1>3. QED BY <1>1, <1>2, PTL DEF Spec

(* A row waiting to be dequeued is on a queue, a cancelled or dead-lettered *)
(* one is not, in every reachable state (QueuedRows).                       *)
THEOREM QueuedRowsCorrect == Spec => []QueuedRows
<1>1. TypeInv /\ RowInv => QueuedRows
  BY DEF RowInv
<1>2. QED BY RowCorrect, <1>1, PTL

(* However often the workflow is recovered, dequeued, started again or has *)
(* its upsert repeated, it is runnable only within its budget              *)
(* (RecoveryBudget).                                                       *)
THEOREM RecoveryBudgetCorrect == Spec => []RecoveryBudget
<1>1. TypeInv /\ RowInv => RecoveryBudget
  BY DEF RowInv
<1>2. QED BY RowCorrect, <1>1, PTL

-----------------------------------------------------------------------------
(* The active workflow set.                                                *)

(* A run that has not ended is on an executor that is up, only an          *)
(* asynchronous direct call shadows another run, and only the guarded      *)
(* kinds of run go through acquire.                                        *)
Alive == \A r \in Runs : run[r].pc \notin {"idle", "done"} => run[r].at \in up
Sorted == \A r \in Runs : /\ run[r].shadow => run[r].kind = "acall"
                          /\ run[r].pc = "ready" => run[r].kind \in Guarded

ActiveInv == Alive /\ Sorted /\ ActiveSetExact

(* Where the active set stays what it is, and a run goes on, owning it or  *)
(* not as before, or one that does not own it ends or begins, the set      *)
(* stays exact.                                                            *)
LEMMA ActiveKept ==
  ASSUME TypeInv, ActiveInv, NEW r \in Runs, Becomes(r, run'[r]), active' = active,
         up \subseteq up',
         Owns(run'[r]) <=> Owns(run[r]),
         Owns(run[r]) => run'[r].at = run[r].at,
         run'[r].pc \notin {"idle", "done"} => run'[r].at \in up',
         run'[r].shadow => run'[r].kind = "acall",
         run'[r].pc = "ready" => run'[r].kind \in Guarded
  PROVE  ActiveInv'
<1>1. \A q \in Runs : q # r => run'[q] = run[q]
  BY DEF Becomes, TypeInv, TypeOK
<1>2. Alive' /\ Sorted'
  BY <1>1 DEF ActiveInv, Alive, Sorted
<1>3. \A q \in Runs : /\ Owns(run'[q]) <=> Owns(run[q])
                      /\ Owns(run[q]) => run'[q].at = run[q].at
  BY <1>1
<1>4. ActiveSetExact'
  BY <1>3 DEF ActiveInv, ActiveSetExact
<1>5. QED BY <1>2, <1>4 DEF ActiveInv

LEMMA InitActiveInv == Init => ActiveInv
BY DEF Init, ActiveInv, Alive, Sorted, ActiveSetExact, Owns, IdleRun, Executing

LEMMA NextActiveInv == TypeInv /\ ActiveInv /\ [Next]_vars => ActiveInv'
<1> SUFFICES ASSUME TypeInv, ActiveInv, [Next]_vars PROVE ActiveInv'
  OBVIOUS
<1>0. \A r \in Runs : /\ run[r] \in RunStates
                      /\ run[r].pc \notin {"idle", "done"} => run[r].at \in up
                      /\ run[r].shadow => run[r].kind = "acall"
                      /\ run[r].pc = "ready" => run[r].kind \in Guarded
  BY DEF TypeInv, TypeOK, ActiveInv, Alive, Sorted
<1>1. ASSUME NEW r \in Runs, ClearQueueAssignment(r) \/ AwaitResult(r) PROVE ActiveInv'
  <2>1. Becomes(r, run'[r]) /\ (\E result : run'[r] = DoneRun(result))
    BY <1>1, EndEffect
  <2>2. run'[r].pc = "done" /\ run'[r].shadow = FALSE
    BY <2>1 DEF DoneRun, IdleRun
  <2>3. ~Owns(run'[r]) /\ ~Owns(run[r]) /\ active' = active /\ up' = up
    BY <1>1, <2>2 DEF Owns, Executing, ClearQueueAssignment, AwaitResult
  <2>4. QED BY <2>1, <2>2, <2>3, ActiveKept
<1>2. ASSUME NEW r \in Runs, RecoverDirectly(r) \/ Fetch(r) PROVE ActiveInv'
  <2>1. Becomes(r, run'[r]) /\ Moves(run'[r], run[r]) /\ run'[r].pc \in {"fetch", "init"}
    BY <1>2, MoveEffect
  <2>2. ~Owns(run'[r]) /\ ~Owns(run[r]) /\ active' = active /\ up' = up
    BY <1>2, <2>1 DEF Owns, Executing, RecoverDirectly, Fetch
  <2>3. run[r].pc \notin {"idle", "done"}
    BY <1>2 DEF RecoverDirectly, Fetch
  <2>4. QED BY <1>0, <2>1, <2>2, <2>3, ActiveKept DEF Moves
<1>3. ASSUME NEW r \in Runs, InitWorkflow(r) PROVE ActiveInv'
  <2>1. /\ Becomes(r, run'[r])
        /\ run' = run \/ run'[r] = DoneRun(NoValue) \/ Continues(run'[r], run[r])
    BY <1>3, InitEffect
  <2>2. run[r].pc = "init" /\ active' = active /\ up' = up
    BY <1>3 DEF InitWorkflow
  <2>3. CASE run' = run
    BY <1>0, <2>1, <2>2, <2>3, ActiveKept
  <2>4. CASE run'[r] = DoneRun(NoValue)
    <3>1. run'[r].pc = "done" /\ run'[r].shadow = FALSE
      BY <2>4 DEF DoneRun, IdleRun
    <3>2. ~Owns(run'[r]) /\ ~Owns(run[r])
      BY <2>2, <3>1 DEF Owns, Executing
    <3>3. QED BY <2>1, <2>2, <3>1, <3>2, ActiveKept
  <2>5. CASE Continues(run'[r], run[r])
    <3>1. ~Owns(run'[r]) /\ ~Owns(run[r])
      BY <2>2, <2>5 DEF Owns, Executing, Continues
    <3>2. run'[r].at = run[r].at /\ run'[r].at \in up'
      BY <1>0, <2>2, <2>5 DEF Continues
    <3>3. /\ run'[r].shadow => run'[r].kind = "acall"
          /\ run'[r].pc = "ready" => run'[r].kind \in Guarded
      BY <1>0, <2>5 DEF Continues
    <3>4. QED BY <2>1, <2>2, <3>1, <3>2, <3>3, ActiveKept
  <2>6. QED BY <2>1, <2>3, <2>4, <2>5
<1>4. ASSUME NEW r \in Runs, CheckStep(r) PROVE ActiveInv'
  <2> DEFINE v == log[run[r].step]
  <2>1. /\ Becomes(r, run'[r]) /\ run[r].step \in Steps
        /\ run'[r].at = run[r].at /\ run'[r].kind = run[r].kind
        /\ run'[r].shadow = run[r].shadow
        /\ \/ run'[r].pc = IF run[r].shadow THEN "await" ELSE "unwind"
           \/ run'[r].pc = "body"
           \/ run'[r] = Advance(run[r], v)
    BY <1>4, CheckEffect
  <2>2. v \in Values \cup {NoValue}
    BY <2>1 DEF TypeInv, TypeOK, Logs
  <2>3. /\ Advance(run[r], v).pc \in {"check", "outcome", "await"}
        /\ Advance(run[r], v).pc = "await" => run[r].shadow
    BY <1>0, <2>1, <2>2, AdvanceFields
  <2>4. /\ run'[r].pc \in Executing \cup {"await", "unwind"}
        /\ run'[r].pc = "await" => run[r].shadow
    BY <2>1, <2>3 DEF Executing
  <2>5. run[r].pc = "check" /\ active' = active /\ up' = up
    BY <1>4 DEF CheckStep
  <2>6. run'[r].pc = "await" => run[r].kind \notin Guarded
    BY <1>0, <2>4 DEF Guarded, Forced
  <2>7. Owns(run'[r]) <=> Owns(run[r])
    BY <2>1, <2>4, <2>5, <2>6 DEF Owns, Executing
  <2>8. QED BY <1>0, <2>1, <2>4, <2>5, <2>7, ActiveKept DEF Executing
<1>5. ASSUME NEW r \in Runs, NEW v \in Values, StepBody(r, v) PROVE ActiveInv'
  <2>1. /\ Becomes(r, run'[r]) /\ run'[r].pc = "record"
        /\ run'[r].at = run[r].at /\ run'[r].kind = run[r].kind
        /\ run'[r].shadow = run[r].shadow
    BY <1>5, BodyEffect
  <2>2. run[r].pc = "body" /\ active' = active /\ up' = up
    BY <1>5 DEF StepBody
  <2>3. Owns(run'[r]) <=> Owns(run[r])
    BY <2>1, <2>2 DEF Owns, Executing
  <2>4. QED BY <1>0, <2>1, <2>2, <2>3, ActiveKept
<1>6. ASSUME NEW r \in Runs, RecordStep(r) PROVE ActiveInv'
  <2> DEFINE v == run[r].vals[run[r].step]
             past == Advance(run[r], v)
  <2>1. /\ Becomes(r, run'[r]) /\ run[r].step \in Steps
        /\ run' = run \/ run'[r] = past
    BY <1>6, RecordEffect
  <2>2. v \in Values \cup {NoValue}
    BY <1>0, <2>1 DEF RunStates, Logs
  <2>3. /\ past.pc \in {"check", "outcome", "await"}
        /\ past.pc = "await" => run[r].shadow
        /\ past.at = run[r].at /\ past.kind = run[r].kind /\ past.shadow = run[r].shadow
    <3> HIDE DEF v
    <3> QED BY <1>0, <2>1, <2>2, AdvanceFields, ZenonT(40)
  <2>4. run[r].pc = "record" /\ active' = active /\ up' = up
    BY <1>6 DEF RecordStep
  <2> HIDE DEF past
  <2>5. /\ run'[r].pc \in {"record", "check", "outcome", "await"}
        /\ run'[r].pc = "await" => run[r].shadow
        /\ run'[r].at = run[r].at /\ run'[r].kind = run[r].kind
        /\ run'[r].shadow = run[r].shadow
    BY <2>1, <2>3, <2>4
  <2>6. run'[r].pc = "await" => run[r].kind \notin Guarded
    BY <1>0, <2>5 DEF Guarded, Forced
  <2>7. Owns(run'[r]) <=> Owns(run[r])
    BY <2>4, <2>5, <2>6 DEF Owns, Executing
  <2>8. QED BY <1>0, <2>1, <2>4, <2>5, <2>7, ActiveKept
<1>7. ASSUME NEW r \in Runs, WriteOutcome(r) PROVE ActiveInv'
  <2>1. /\ Becomes(r, run'[r])
        /\ run' = run \/ /\ run'[r].pc = "unwind" /\ run'[r].at = run[r].at
                         /\ run'[r].kind = run[r].kind /\ run'[r].shadow = run[r].shadow
    BY <1>7, OutcomeEffect
  <2>2. run[r].pc = "outcome" /\ active' = active /\ up' = up
    BY <1>7 DEF WriteOutcome
  <2>3. Owns(run'[r]) <=> Owns(run[r])
    BY <2>1, <2>2 DEF Owns, Executing
  <2>4. QED BY <1>0, <2>1, <2>2, <2>3, ActiveKept
<1>8. ASSUME NEW r \in Runs, Acquire(r) PROVE ActiveInv'
  <2>1. /\ Becomes(r, run'[r]) /\ Moves(run'[r], run[r])
        /\ run'[r].pc = IF run[r].at \in active THEN "await" ELSE "check"
    BY <1>8, MoveEffect
  <2>2. run[r].pc = "ready" /\ up' = up /\ run[r].kind \in Guarded
    BY <1>0, <1>8 DEF Acquire
  <2>3. CASE run[r].at \in active
    <3>1. active' = active /\ run'[r].pc = "await"
      BY <1>8, <2>1, <2>3 DEF Acquire, Taken
    <3>2. ~Owns(run'[r]) /\ ~Owns(run[r])
      BY <2>2, <3>1 DEF Owns, Executing
    <3>3. QED BY <1>0, <2>1, <2>2, <3>1, <3>2, ActiveKept DEF Moves
  <2>4. CASE run[r].at \notin active
    <3>1. active' = active \cup {run[r].at} /\ run'[r].pc = "check"
      BY <1>8, <2>1, <2>4 DEF Acquire, Taken
    <3>2. Owns(run'[r]) /\ ~Owns(run[r])
      BY <2>1, <2>2, <3>1 DEF Owns, Executing, Moves
    <3>3. \A q \in Runs : q # r => run'[q] = run[q]
      BY <2>1 DEF Becomes, TypeInv, TypeOK
    <3>4. run'[r].at = run[r].at /\ run'[r].kind = run[r].kind /\ run'[r].shadow = run[r].shadow
      BY <2>1 DEF Moves
    <3>5. Alive' /\ Sorted'
      BY <1>0, <2>2, <3>1, <3>3, <3>4 DEF Alive, Sorted
    <3>6. \A q \in Runs : Owns(run[q]) => run[q].at # run[r].at
      <4>1. run[r].at \in Executors
        BY <1>0, <2>2 DEF TypeInv, TypeOK
      <4>2. QED BY <2>4, <4>1 DEF ActiveInv, ActiveSetExact
    <3>7. \A q \in Runs : (Owns(run'[q]) <=> Owns(run[q]) \/ q = r) /\ run'[q].at = run[q].at
      BY <3>2, <3>3, <3>4
    <3>8. ActiveSetExact'
      BY <3>1, <3>6, <3>7 DEF ActiveInv, ActiveSetExact
    <3>9. QED BY <3>5, <3>8 DEF ActiveInv
  <2>5. QED BY <2>3, <2>4
<1>9. ASSUME NEW r \in Runs, Release(r) PROVE ActiveInv'
  <2>1. Becomes(r, run'[r]) /\ run'[r] = DoneRun(run[r].ret)
    BY <1>9, EndEffect
  <2>2. run'[r].pc = "done" /\ run'[r].shadow = FALSE
    BY <2>1 DEF DoneRun, IdleRun
  <2>3. ~Owns(run'[r]) /\ up' = up
    BY <1>9, <2>2 DEF Owns, Executing, Release
  <2>4. CASE Owns(run[r])
    <3>1. active' = active \ {run[r].at}
      BY <1>9, <2>4 DEF Release
    <3>2. \A q \in Runs : q # r => run'[q] = run[q]
      BY <2>1 DEF Becomes, TypeInv, TypeOK
    <3>3. \A q \in Runs : Owns(run[q]) /\ run[q].at = run[r].at => q = r
      BY <2>4 DEF ActiveInv, ActiveSetExact
    <3>4. Alive' /\ Sorted'
      BY <1>0, <2>2, <2>3, <3>2 DEF Alive, Sorted
    <3>5. \A q \in Runs : /\ Owns(run'[q]) <=> (Owns(run[q]) /\ q # r)
                          /\ q # r => run'[q].at = run[q].at
      BY <2>3, <3>2
    <3>6. ActiveSetExact'
      BY <3>1, <3>3, <3>5 DEF ActiveInv, ActiveSetExact
    <3>7. QED BY <3>4, <3>6 DEF ActiveInv
  <2>5. CASE ~Owns(run[r])
    <3>1. active' = active /\ ~Owns(run[r])
      BY <1>9, <2>5 DEF Release
    <3>2. QED BY <2>1, <2>2, <2>3, <3>1, ActiveKept
  <2>6. QED BY <2>4, <2>5
(* A run that begins on an executor that is up owns nothing yet.           *)
<1>10. ASSUME NEW r \in Runs, NEW e \in up', NEW kind, NEW pc \in {"listed", "fetch", "init"},
              Becomes(r, run'[r]), Created(run'[r], e, kind, pc), Free(r),
              active' = active, up \subseteq up'
       PROVE  ActiveInv'
  <2>1. /\ run'[r].pc = pc /\ run'[r].at = e /\ run'[r].shadow = FALSE
    BY <1>10 DEF Created
  <2>2. ~Owns(run'[r]) /\ ~Owns(run[r])
    BY <1>10, <2>1 DEF Owns, Executing, Free
  <2>3. QED BY <1>10, <2>1, <2>2, ActiveKept
<1>11. ASSUME NEW e \in Executors, NEW r \in Runs, NEW kind \in {"start", "call", "acall"},
              Start(e, r, kind)
       PROVE  ActiveInv'
  BY <1>10, <1>11, CreateEffect DEF Start
<1>12. ASSUME NEW e \in Executors, NEW r \in Runs, Dequeue(e, r) PROVE ActiveInv'
  BY <1>10, <1>12, CreateEffect DEF Dequeue
<1>13. ASSUME NEW e \in up', NEW x, NEW r \in Runs, Listed(e, x, r), active' = active,
              up \subseteq up'
       PROVE  ActiveInv'
  BY <1>10, <1>13, CreateEffect DEF Listed
<1>14. ASSUME run' = run, active' = active, up \subseteq up' PROVE ActiveInv'
  BY <1>14 DEF ActiveInv, Alive, Sorted, ActiveSetExact
<1>15. ASSUME NEW e \in Executors, Enqueue(e) PROVE ActiveInv'
  BY <1>14, <1>15 DEF Enqueue
<1>16. ASSUME NEW e \in Executors, Launch(e) PROVE ActiveInv'
  BY <1>13, <1>14, <1>16 DEF Launch
<1>17. ASSUME NEW e \in Executors, Crash(e) PROVE ActiveInv'
  <2>1. \A q \in Runs : run'[q] = IF run[q].at = e THEN IdleRun ELSE run[q]
    BY <1>17 DEF Crash
  <2>2. IdleRun.pc = "idle" /\ IdleRun.shadow = FALSE /\ ~Owns(IdleRun)
    BY DEF IdleRun, Owns, Executing
  <2>3. up' = up \ {e} /\ active' = active \ {e}
    BY <1>17 DEF Crash
  <2>4. Alive' /\ Sorted'
    BY <1>0, <2>1, <2>2, <2>3 DEF Alive, Sorted
  <2>5. \A q \in Runs : /\ Owns(run'[q]) <=> (Owns(run[q]) /\ run[q].at # e)
                        /\ run[q].at # e => run'[q].at = run[q].at
    BY <2>1, <2>2
  <2>6. ActiveSetExact'
    BY <2>3, <2>5 DEF ActiveInv, ActiveSetExact
  <2>7. QED BY <2>4, <2>6 DEF ActiveInv
<1>18. CASE Cancel \/ Resume
  BY <1>14, <1>18 DEF Cancel, Resume
<1>19. CASE UNCHANGED vars
  BY <1>14, <1>19 DEF vars
<1>20. ASSUME NEW e \in Executors, NEW x, NEW r \in Runs, RecoverPending(e, x, r)
       PROVE  ActiveInv'
  BY <1>13, <1>20 DEF RecoverPending
<1>21. QED
  BY <1>1, <1>2, <1>3, <1>4, <1>5, <1>6, <1>7, <1>8, <1>9, <1>11, <1>12, <1>15,
     <1>16, <1>17, <1>18, <1>19, <1>20
  DEF Next, RunStep

(* The active set of every executor is exact: its guarded runs exclude one *)
(* another, and a run that ends or dies never leaves the workflow behind   *)
(* in the set (ActiveSetExact).                                            *)
THEOREM ActiveSetCorrect == Spec => []ActiveSetExact
<1>1. Init => TypeInv /\ ActiveInv
  BY InitTypeInv, InitActiveInv
<1>2. TypeInv /\ ActiveInv /\ [Next]_vars => (TypeInv /\ ActiveInv)'
  BY NextTypeInv, NextActiveInv
<1>3. ActiveInv => ActiveSetExact
  BY DEF ActiveInv
<1>4. QED BY <1>1, <1>2, <1>3, PTL DEF Spec

-----------------------------------------------------------------------------
(* The checkpoints.                                                        *)

(* Steps behind the run are recorded, and it records only proper results.  *)
Behind(me, l) ==
  /\ me.pc \in Executing => \A i \in 1..(me.step - 1) : l[i] # NoValue
  /\ me.pc = "record" => me.vals[me.step] \in Values

LogInv ==
  /\ \A s \in Steps : log[s] # NoValue => \A i \in 1..s : log[i] # NoValue
  /\ \A r \in Runs : Behind(run[r], log)

LEMMA LogKept ==
  ASSUME TypeInv, LogInv, NEW r \in Runs, Becomes(r, run'[r]), log' = log,
         Behind(run'[r], log)
  PROVE  LogInv'
BY DEF LogInv, TypeInv, TypeOK, Becomes

LEMMA NotExecutingBehind ==
  ASSUME NEW me, me.pc \notin Executing
  PROVE  Behind(me, log)
BY DEF Behind, Executing

LEMMA FirstStepBehind ==
  ASSUME NEW me, me.pc \in PCs \ {"record"}, me.step = 1
  PROVE  Behind(me, log)
BY DEF Behind

LEMMA NextLogInv == TypeInv /\ LogInv /\ [Next]_vars => LogInv'
<1> SUFFICES ASSUME TypeInv, LogInv, [Next]_vars PROVE LogInv'
  OBVIOUS
<1>0. \A r \in Runs : run[r] \in RunStates /\ AtStep(run[r]) /\ Behind(run[r], log)
  BY DEF TypeInv, TypeOK, StepInv, LogInv
<1>1. ASSUME NEW r \in Runs, ClearQueueAssignment(r) \/ Release(r) \/ AwaitResult(r)
      PROVE  LogInv'
  <2>1. Becomes(r, run'[r]) /\ (\E result : run'[r] = DoneRun(result))
    BY <1>1, EndEffect
  <2>2. run'[r].pc = "done" /\ log' = log
    BY <1>1, <2>1 DEF DoneRun, IdleRun, ClearQueueAssignment, Release, AwaitResult
  <2>3. Behind(run'[r], log)
    BY <2>2, NotExecutingBehind DEF Executing
  <2>4. QED BY <2>1, <2>2, <2>3, LogKept
<1>2. ASSUME NEW r \in Runs, RecoverDirectly(r) \/ Fetch(r) \/ Acquire(r)
      PROVE  LogInv'
  <2>1. /\ Becomes(r, run'[r]) /\ Moves(run'[r], run[r])
        /\ run'[r].pc \in {"fetch", "init", "await", "check"}
    BY <1>2, MoveEffect
  <2>2. run[r].step = 1 /\ log' = log
    BY <1>0, <1>2 DEF RecoverDirectly, Fetch, Acquire, AtStep
  <2>3. Behind(run'[r], log)
    BY <2>1, <2>2, FirstStepBehind DEF Moves, PCs, Executing
  <2>4. QED BY <2>1, <2>2, <2>3, LogKept
<1>3. ASSUME NEW r \in Runs, InitWorkflow(r) PROVE LogInv'
  <2>1. /\ Becomes(r, run'[r])
        /\ run' = run \/ run'[r] = DoneRun(NoValue) \/ Continues(run'[r], run[r])
    BY <1>3, InitEffect
  <2>2. run[r].step = 1 /\ run[r].pc = "init" /\ log' = log
    BY <1>0, <1>3 DEF InitWorkflow, AtStep
  <2>3. run'[r].pc \in {"init", "done", "await", "ready", "check"} /\ run'[r].step = 1
    BY <2>1, <2>2 DEF Continues, DoneRun, IdleRun
  <2>4. Behind(run'[r], log)
    BY <2>3, FirstStepBehind DEF PCs, Executing
  <2>5. QED BY <2>1, <2>2, <2>4, LogKept
(* A run that passes a recorded step has the steps behind it recorded.     *)
<1>4. ASSUME NEW r \in Runs, run[r].pc \in Executing, run[r].step \in Steps,
             NEW v \in Values \cup {NoValue}, NEW l, l[run[r].step] # NoValue,
             \A i \in 1..(run[r].step - 1) : l[i] # NoValue
      PROVE  Behind(Advance(run[r], v), l)
  <2> DEFINE past == Advance(run[r], v)
  <2>1. past.step = run[r].step + 1 /\ past.pc # "record"
    BY <1>0, <1>4, AdvanceFields
  <2> HIDE DEF past
  <2>2. \A i \in 1..(past.step - 1) : l[i] # NoValue
    <3>1. run[r].step \in Nat
      BY <1>4 DEF Steps
    <3>2. \A i \in 1..(past.step - 1) : i \in 1..(run[r].step - 1) \/ i = run[r].step
      BY <2>1, <3>1
    <3>3. QED BY <1>4, <3>2
  <2>3. QED BY <2>1, <2>2 DEF Behind, past
<1>5. ASSUME NEW r \in Runs, CheckStep(r) PROVE LogInv'
  <2>1. /\ Becomes(r, run'[r]) /\ run[r].step \in Steps
        /\ \/ run'[r].pc \in {"await", "unwind"}
           \/ Moves(run'[r], run[r]) /\ run'[r].pc = "body"
           \/ /\ run'[r] = Advance(run[r], log[run[r].step])
              /\ log[run[r].step] # NoValue
    BY <1>5, CheckEffect
  <2>2. run[r].pc = "check" /\ log' = log
    BY <1>5 DEF CheckStep
  <2>3. \A i \in 1..(run[r].step - 1) : log[i] # NoValue
    BY <1>0, <2>2 DEF Behind, Executing
  <2>4. log[run[r].step] \in Values \cup {NoValue}
    BY <2>1 DEF TypeInv, TypeOK, Logs
  <2>5. Behind(run'[r], log)
    BY <1>4, <2>1, <2>2, <2>3, <2>4 DEF Behind, Executing, Moves
  <2>6. QED BY <2>1, <2>2, <2>5, LogKept
<1>6. ASSUME NEW r \in Runs, NEW v \in Values, StepBody(r, v) PROVE LogInv'
  <2>1. /\ Becomes(r, run'[r]) /\ run[r].step \in Steps
        /\ run'[r].pc = "record" /\ run'[r].step = run[r].step
        /\ run'[r].vals = [run[r].vals EXCEPT ![run[r].step] = v]
    BY <1>6, BodyEffect
  <2>2. run[r].pc = "body" /\ log' = log
    BY <1>6 DEF StepBody
  <2>3. run[r].vals \in Logs
    BY <1>0 DEF RunStates
  <2>4. run'[r].vals[run[r].step] = v
    BY <2>1, <2>3 DEF Logs
  <2>5. \A i \in 1..(run[r].step - 1) : log[i] # NoValue
    BY <1>0, <2>2 DEF Behind, Executing
  <2>6. Behind(run'[r], log)
    BY <2>1, <2>4, <2>5 DEF Behind
  <2>7. QED BY <2>1, <2>2, <2>6, LogKept
<1>7. ASSUME NEW r \in Runs, RecordStep(r) PROVE LogInv'
  <2> DEFINE s == run[r].step
             v == run[r].vals[s]
  <2>1. /\ Becomes(r, run'[r]) /\ s \in Steps
        /\ run' = run \/ run'[r] = Advance(run[r], v)
        /\ log' = [log EXCEPT ![s] = IF @ = NoValue THEN v ELSE @]
    BY <1>7, RecordEffect
  <2>2. run[r].pc = "record" /\ v \in Values
    BY <1>0, <1>7 DEF RecordStep, Behind
  <2>3. log \in Logs
    BY DEF TypeInv, TypeOK
  <2>4. \A i \in 1..(s - 1) : log[i] # NoValue
    BY <1>0, <2>2 DEF Behind, Executing
  <2>5. log'[s] # NoValue /\ (\A i \in Steps : log[i] # NoValue => log'[i] # NoValue)
    BY <2>1, <2>2, <2>3 DEF Logs
  <2>6. \A i \in Steps : i # s => log'[i] = log[i]
    BY <2>1, <2>3 DEF Logs
  <2>7. \A j \in Steps : 1..j \subseteq Steps
    BY DEF Steps
  <2>8. \A i \in 1..(s - 1) : i \in Steps /\ log'[i] # NoValue
    BY <2>1, <2>4, <2>5 DEF Steps
  <2>9. \A i \in 1..s : log'[i] # NoValue
    <3>1. \A i \in 1..s : i \in 1..(s - 1) \/ i = s
      BY <2>1 DEF Steps
    <3>2. QED BY <2>5, <2>8, <3>1
  <2>10. \A j \in Steps : log'[j] # NoValue => \A i \in 1..j : log'[i] # NoValue
    BY <2>5, <2>6, <2>7, <2>9 DEF LogInv
  <2>11. \A q \in Runs : q # r => Behind(run'[q], log')
    <3>1. ASSUME NEW q \in Runs, q # r PROVE Behind(run'[q], log')
      <4>1. run'[q] = run[q] /\ run[q].step \in 1..NumSteps + 1
        BY <1>0, <2>1, <3>1 DEF Becomes, TypeInv, TypeOK, RunStates
      <4>2. \A i \in 1..(run[q].step - 1) : i \in Steps
        BY <4>1 DEF Steps
      <4>3. QED BY <1>0, <2>5, <3>1, <4>1, <4>2 DEF Behind
    <3>2. QED BY <3>1
  <2>12. Behind(run'[r], log')
    <3>1. CASE run' = run
      <4>1. Behind(run[r], log')
        BY <2>2, <2>8 DEF Behind
      <4>2. QED BY <3>1, <4>1
    <3>2. CASE run'[r] = Advance(run[r], v)
      <4>1. /\ run[r].pc \in Executing /\ v \in Values \cup {NoValue}
            /\ log'[s] # NoValue /\ (\A i \in 1..(s - 1) : log'[i] # NoValue)
        BY <2>2, <2>5, <2>8 DEF Executing
      <4>2. Behind(Advance(run[r], v), log')
        <5> HIDE DEF v
        <5> QED BY <1>4, <2>1, <4>1, ZenonT(40)
      <4>3. QED BY <3>2, <4>2
    <3>3. QED BY <2>1, <3>1, <3>2
  <2>13. QED BY <2>10, <2>11, <2>12 DEF LogInv
<1>8. ASSUME NEW r \in Runs, WriteOutcome(r) PROVE LogInv'
  <2>1. Becomes(r, run'[r]) /\ (run' = run \/ run'[r].pc = "unwind")
    BY <1>8, OutcomeEffect
  <2>2. log' = log
    BY <1>8 DEF WriteOutcome
  <2>3. Behind(run'[r], log)
    BY <1>0, <2>1, NotExecutingBehind DEF Executing
  <2>4. QED BY <2>1, <2>2, <2>3, LogKept
<1>9. ASSUME NEW r \in Runs, NEW e, NEW kind, NEW pc \in {"listed", "fetch", "init"},
             Becomes(r, run'[r]), Created(run'[r], e, kind, pc), log' = log
      PROVE  LogInv'
  <2>1. Behind(run'[r], log)
    BY <1>9, NotExecutingBehind DEF Created, Executing
  <2>2. QED BY <1>9, <2>1, LogKept
<1>10. ASSUME NEW e, NEW r \in Runs, NEW kind, Start(e, r, kind) \/ Dequeue(e, r)
       PROVE  LogInv'
  BY <1>9, <1>10, CreateEffect DEF Start, Dequeue
<1>11. ASSUME NEW e, NEW x, NEW r \in Runs, Listed(e, x, r), log' = log PROVE LogInv'
  BY <1>9, <1>11, CreateEffect
<1>12. ASSUME run' = run, log' = log PROVE LogInv'
  BY <1>12 DEF LogInv
<1>13. ASSUME NEW e \in Executors, Enqueue(e) \/ Launch(e) PROVE LogInv'
  BY <1>11, <1>12, <1>13 DEF Enqueue, Launch
<1>14. ASSUME NEW e \in Executors, Crash(e) PROVE LogInv'
  <2>1. \A q \in Runs : run'[q] = IdleRun \/ run'[q] = run[q]
    BY <1>14 DEF Crash
  <2>2. log' = log /\ Behind(IdleRun, log)
    BY <1>14, NotExecutingBehind DEF Crash, IdleRun, Executing
  <2>3. QED BY <1>0, <2>1, <2>2 DEF LogInv
<1>15. CASE Cancel \/ Resume \/ UNCHANGED vars
  BY <1>12, <1>15 DEF Cancel, Resume, vars
<1>16. ASSUME NEW e, NEW x, NEW r \in Runs, RecoverPending(e, x, r) PROVE LogInv'
  BY <1>11, <1>16 DEF RecoverPending
<1>17. QED
  BY <1>1, <1>2, <1>3, <1>5, <1>6, <1>7, <1>8, <1>10, <1>13, <1>14, <1>15, <1>16
  DEF Next, RunStep

(* Checkpoints are recorded without gaps and every step a run has behind   *)
(* it has one, so recovery always resumes after a prefix (NoGaps).         *)
THEOREM NoGapsCorrect == Spec => []NoGaps
<1>1. Init => TypeInv /\ LogInv
  <2>1. Init => LogInv
    BY DEF Init, LogInv, Behind, EmptyLog, IdleRun, Executing
  <2>2. QED BY <2>1, InitTypeInv
<1>2. TypeInv /\ LogInv /\ [Next]_vars => (TypeInv /\ LogInv)'
  BY NextTypeInv, NextLogInv
<1>3. LogInv => NoGaps
  BY DEF LogInv, NoGaps, Behind
<1>4. QED BY <1>1, <1>2, <1>3, PTL DEF Spec

(* No run, however late, changes what a checkpoint says (CheckpointsFinal).*)
THEOREM CheckpointsFinalCorrect == Spec => CheckpointsFinal
<1> DEFINE Kept == \A s \in Steps : log[s] # NoValue => log'[s] = log[s]
<1>1. TypeInv /\ [Next]_vars => Kept
  <2> SUFFICES ASSUME TypeInv, [Next]_vars PROVE Kept
    OBVIOUS
  <2>1. ASSUME NEW r \in Runs, RecordStep(r) PROVE Kept
    <3>1. run[r].step \in Steps /\ log \in Logs
      BY <2>1, RecordEffect DEF TypeInv, TypeOK
    <3>2. log' = [log EXCEPT ![run[r].step] =
                    IF @ = NoValue THEN run[r].vals[run[r].step] ELSE @]
      BY <2>1, RecordEffect
    <3>3. QED BY <3>1, <3>2 DEF Logs
  <2>2. CASE log' = log
    BY <2>2
  <2>3. log' = log \/ \E r \in Runs : RecordStep(r)
    BY DEF Next, RunStep, vars, ClearQueueAssignment, RecoverDirectly, Fetch,
       InitWorkflow, Acquire, CheckStep, StepBody, WriteOutcome, Release, AwaitResult,
       Start, Dequeue, RecoverPending, Enqueue, Launch, Crash, Cancel, Resume
  <2>4. QED BY <2>1, <2>2, <2>3
<1>2. QED BY InitTypeInv, NextTypeInv, <1>1, PTL DEF Spec, CheckpointsFinal

(* Neither an upsert, a dequeue, a late record nor a cancellation reopens  *)
(* a completed workflow (CompletedFinal).                                  *)
THEOREM CompletedFinalCorrect == Spec => CompletedFinal
<1> DEFINE Stays == row.status \in Completed => row'.status \in Completed
<1>1. TypeInv /\ [Next]_vars => Stays
  <2> SUFFICES ASSUME TypeInv, [Next]_vars PROVE Stays
    OBVIOUS
  <2>0. row \in Rows
    BY DEF TypeInv, TypeOK
  <2>1. ASSUME NEW e, NEW toQueue, NEW force, NEW owner, InsertStatus(e, toQueue, force, owner)
        PROVE  Stays
    <3>1. CASE Exists
      <4>1. row.status = "PENDING" \/ row'.status = row.status
        BY <2>0, <2>1, <3>1 DEF InsertStatus, Rows
      <4>2. QED BY <4>1 DEF Completed
    <3>2. CASE ~Exists
      BY <3>2 DEF Exists, Completed
    <3>3. QED BY <3>1, <3>2
  <2>2. ASSUME NEW r \in Runs, RecordStep(r) PROVE Stays
    BY <2>0, <2>2 DEF RecordStep, Rows
  <2>3. ASSUME NEW r \in Runs, WriteOutcome(r) PROVE Stays
    BY <2>3, OutcomeEffect
  <2>4. ASSUME NEW r \in Runs, InitWorkflow(r) PROVE Stays
    BY <2>1, <2>4 DEF InitWorkflow
  <2>5. ASSUME NEW e \in Executors, Enqueue(e) PROVE Stays
    BY <2>1, <2>5 DEF Enqueue
  <2>6. ASSUME NEW e \in Executors, NEW r \in Runs, Dequeue(e, r) PROVE Stays
    BY <2>6 DEF Dequeue, Completed
  <2>7. ASSUME NEW r \in Runs, ClearQueueAssignment(r) PROVE Stays
    BY <2>7 DEF ClearQueueAssignment, Completed
  <2>8. CASE Cancel \/ Resume
    BY <2>8 DEF Cancel, Resume, Open
  <2>9. CASE row' = row
    BY <2>9
  <2>10. QED
    BY <2>2, <2>3, <2>4, <2>5, <2>6, <2>7, <2>8, <2>9
    DEF Next, RunStep, vars, RecoverDirectly, Fetch, Acquire, CheckStep, StepBody,
        Release, AwaitResult, Start, RecoverPending, Launch, Crash
<1>2. QED BY InitTypeInv, NextTypeInv, <1>1, PTL DEF Spec, CompletedFinal

-----------------------------------------------------------------------------
(* One executor executes the workflow and nobody calls it directly: its    *)
(* steps and its outcome then take effect exactly once, for any number of  *)
(* runs and steps, with duplicate starts, queues, cancellations, resumes,  *)
(* recoveries, crashes and lost acknowledgements.                          *)

(* Every run goes through the active workflow set of the one executor.     *)
Lone == /\ \A e, f \in Executors : e = f
        /\ "call" \notin Env /\ "acall" \notin Env

(* The checkpoints l decide the outcome.                                   *)
Over(l) == l[NumSteps] # NoValue \/ \E s \in Steps : l[s] \in Failures

(* Nothing is checkpointed after a failure.                                *)
Stops(l) ==
  \A s \in Steps : l[s] \in Failures =>
    \A i \in Steps : i > s => l[i] = NoValue

(* What a run has behind it are the checkpoints, none of them a failure,   *)
(* it has nothing before it, and the step it is at is not checkpointed, or *)
(* with the result it is about to record (its acknowledgement was lost).   *)
Follows(me, l) ==
  /\ me.pc \in {"listed", "fetch", "init", "ready"} => me.vals = EmptyLog
  /\ me.pc \in {"check", "body", "record"} =>
       /\ \A i \in Steps : i < me.step => me.vals[i] = l[i] /\ l[i] \notin Failures
       /\ \A i \in Steps : i > me.step => me.vals[i] = NoValue
  /\ me.pc \in {"check", "body"} => me.vals[me.step] = NoValue
  /\ me.pc = "body" => l[me.step] = NoValue
  /\ me.pc = "record" => l[me.step] \in {NoValue, me.vals[me.step]}
  /\ me.pc = "outcome" => me.vals = l /\ Over(l)

(* A result that was returned is the outcome in the row.                   *)
Answered(me, end) ==
  me.ret # NoValue => end.status \in Completed /\ me.ret = end.outcome

(* The outcome in the row is computed from checkpoints that decide it.     *)
Settled ==
  /\ row.outcome # NoValue => row.status \in Completed
  /\ row.status \in Completed => row.outcome = log /\ Over(log)

OneInv ==
  /\ \A r \in Runs : /\ run[r].kind \in Guarded
                     /\ Follows(run[r], log)
                     /\ Answered(run[r], row)
  /\ Stops(log)
  /\ Settled

AllInv == TypeInv /\ ActiveInv /\ LogInv /\ OneInv

-----------------------------------------------------------------------------
(* A run that passes a step with the result v that is checkpointed still   *)
(* follows the checkpoints.                                                *)
LEMMA AdvanceOutcome ==
  ASSUME NEW me \in RunStates, NEW v, Advance(me, v).pc = "outcome"
  PROVE  v \in Failures \/ ~(me.step < NumSteps)
<1> DEFINE vs == [me.vals EXCEPT ![me.step] = v]
           st == me.step + 1
           p == IF v \notin Failures /\ me.step < NumSteps THEN "check"
                ELSE IF me.shadow THEN "await" ELSE "outcome"
           new == [me EXCEPT !.vals = vs, !.step = st, !.pc = p]
<1>1. Advance(me, v) = new
  BY DEF Advance
<1>2. v \notin Failures /\ me.step < NumSteps => p = "check"
  OBVIOUS
<1> HIDE DEF vs, st, p
<1>3. new.pc = p
  BY DEF RunStates
<1> HIDE DEF new
<1>4. QED BY <1>1, <1>2, <1>3

LEMMA AdvanceFollows ==
  ASSUME NEW me \in RunStates, me.step \in Steps, NEW l \in Logs, Stops(l),
         NEW v \in Values, l[me.step] = v,
         \A i \in Steps : i < me.step => me.vals[i] = l[i] /\ l[i] \notin Failures,
         \A i \in Steps : i > me.step => me.vals[i] = NoValue
  PROVE  Follows(Advance(me, v), l)
<1> DEFINE past == Advance(me, v)
           s == me.step
<1>1. /\ past \in RunStates /\ past.pc \in {"check", "outcome", "await"}
      /\ past.pc = "check" => s < NumSteps /\ v \notin Failures
      /\ past.step = s + 1
      /\ past.vals = [me.vals EXCEPT ![s] = v]
      /\ past.pc = "outcome" => v \in Failures \/ ~(s < NumSteps)
  BY AdvanceFields, AdvanceOutcome
<1> HIDE DEF past
<1>2. me.vals \in Logs /\ past.vals \in Logs
  BY <1>1 DEF RunStates
<1>3. s \in Nat /\ NumSteps \in Nat /\ (\A i \in Steps : i \in Nat /\ i <= NumSteps)
  BY DEF Steps
<1>4. \A i \in Steps : IF i <= s THEN past.vals[i] = l[i] ELSE past.vals[i] = NoValue
  <2>1. past.vals[s] = v /\ (\A i \in Steps : i # s => past.vals[i] = me.vals[i])
    BY <1>1, <1>2 DEF Logs
  <2>2. QED BY <1>3, <2>1
<1>5. CASE past.pc = "check"
  <2>1. \A i \in Steps : i < past.step => past.vals[i] = l[i] /\ l[i] \notin Failures
    BY <1>1, <1>3, <1>4, <1>5
  <2>2. \A i \in Steps : i >= past.step => past.vals[i] = NoValue
    BY <1>1, <1>3, <1>4
  <2>3. past.step \in Steps
    BY <1>1, <1>3, <1>5 DEF Steps
  <2>4. past.vals[past.step] = NoValue
    BY <1>3, <2>2, <2>3
  <2>5. \A i \in Steps : i > past.step => past.vals[i] = NoValue
    BY <1>3, <2>2, <2>3
  <2>6. QED BY <1>5, <2>1, <2>4, <2>5 DEF Follows, past
<1>6. CASE past.pc = "outcome"
  <2>1. \A i \in Steps : i > s => l[i] = NoValue
    BY <1>1, <1>3, <1>6 DEF Stops
  <2>2. \A i \in Steps : past.vals[i] = l[i]
    BY <1>3, <1>4, <2>1
  <2>3. past.vals = l
    BY <1>2, <2>2 DEF Logs
  <2>4. Over(l)
    <3>1. CASE v \in Failures
      BY <3>1 DEF Over
    <3>2. CASE ~(s < NumSteps)
      BY <1>3, <3>2 DEF Over
    <3>3. QED BY <1>1, <1>6, <3>1, <3>2
  <2>5. QED BY <1>6, <2>3, <2>4 DEF Follows, past
<1>7. CASE past.pc = "await"
  BY <1>7 DEF Follows, past
<1>8. QED BY <1>1, <1>5, <1>6, <1>7

-----------------------------------------------------------------------------
(* Two runs are never inside the workflow function.                        *)
LEMMA LoneExecution ==
  ASSUME Lone, TypeInv, ActiveInv, OneInv
  PROVE  OneExecution
<1> SUFFICES ASSUME NEW r \in Runs, NEW q \in Runs,
                    run[r].pc \in Executing, run[q].pc \in Executing
             PROVE  r = q
  BY DEF OneExecution
<1>1. Owns(run[r]) /\ Owns(run[q])
  BY DEF OneInv, Owns
<1>2. run[r].at \in Executors /\ run[q].at \in Executors
  BY DEF TypeInv, StepInv, AtStep, Executing
<1>3. run[r].at = run[q].at
  BY <1>2 DEF Lone
<1>4. QED BY <1>1, <1>3 DEF ActiveInv, ActiveSetExact

(* Once the checkpoints decide the outcome, a run that would record a step *)
(* finds it recorded.                                                      *)
LEMMA OverRecorded ==
  ASSUME TypeInv, LogInv, OneInv, Over(log), NEW r \in Runs,
         run[r].pc \in {"check", "body", "record"}
  PROVE  log[run[r].step] # NoValue
<1> DEFINE s == run[r].step
<1>1. s \in Steps
  BY DEF TypeInv, StepInv, AtStep
<1>2. NumSteps \in Steps /\ (\A i \in Steps : i \in Nat /\ i \in 1..NumSteps)
  BY DEF Steps
<1>3. CASE log[NumSteps] # NoValue
  BY <1>1, <1>2, <1>3 DEF LogInv
<1>4. ASSUME NEW k \in Steps, log[k] \in Failures PROVE log[s] # NoValue
  <2>1. ~(k < s)
    BY <1>4 DEF OneInv, Follows
  <2>2. log[k] # NoValue
    BY <1>4
  <2>3. s \in 1..k
    BY <1>1, <1>4, <2>1 DEF Steps
  <2>4. QED BY <2>2, <2>3 DEF LogInv
<1>5. QED BY <1>3, <1>4 DEF Over

(* The end of the workflow stays what it is.                               *)
SameEnd == /\ row'.outcome = row.outcome
           /\ row'.status \in Completed <=> row.status \in Completed

LEMMA OneKept ==
  ASSUME TypeInv, OneInv, NEW r \in Runs, Becomes(r, run'[r]), log' = log, SameEnd,
         run'[r].kind \in Guarded, Follows(run'[r], log), Answered(run'[r], row)
  PROVE  OneInv'
<1>1. \A q \in Runs : q # r => run'[q] = run[q]
  BY DEF TypeInv, TypeOK, Becomes
<1>2. \A q \in Runs : /\ run'[q].kind \in Guarded /\ Follows(run'[q], log)
                      /\ Answered(run'[q], row)
  BY <1>1 DEF OneInv
<1>3. \A q \in Runs : Follows(run'[q], log') /\ Answered(run'[q], row')
  BY <1>2 DEF Answered, SameEnd
<1>4. Settled' /\ Stops(log')
  BY DEF OneInv, Settled, SameEnd
<1>5. QED BY <1>2, <1>3, <1>4 DEF OneInv

LEMMA UpsertSameEnd ==
  ASSUME TypeInv, OneInv, NEW e, NEW toQueue, NEW force, NEW owner,
         InsertStatus(e, toQueue, force, owner)
  PROVE  SameEnd
<1>1. row \in Rows
  BY DEF TypeInv, TypeOK
<1>2. CASE Exists
  <2>1. /\ row'.outcome = row.outcome
        /\ row'.status = row.status
           \/ /\ row.status = "PENDING"
              /\ row'.status = "MAX_RECOVERY_ATTEMPTS_EXCEEDED"
    BY <1>1, <1>2 DEF InsertStatus, Rows
  <2>2. QED BY <2>1 DEF SameEnd, Completed
<1>3. CASE ~Exists
  <2>1. row.status \notin Completed /\ row.outcome = NoValue
    BY <1>3 DEF Exists, Completed, OneInv, Settled
  <2>2. row'.outcome = NoValue /\ row'.status \in {"ENQUEUED", "PENDING"}
    BY <1>3 DEF InsertStatus
  <2>3. QED BY <2>1, <2>2 DEF SameEnd, Completed
<1>4. QED BY <1>2, <1>3

(* A run that is not inside the workflow function and has nothing behind   *)
(* it follows any checkpoints.                                             *)
LEMMA OutsideFollows ==
  ASSUME NEW me, me.pc \in {"listed", "fetch", "init", "ready", "await", "unwind", "done", "idle"},
         me.pc \in {"await", "unwind", "done", "idle"} \/ me.vals = EmptyLog, NEW l
  PROVE  Follows(me, l)
BY DEF Follows

(* So does one that begins.                                                *)
LEMMA BeginFollows ==
  ASSUME NEW me, me.pc = "check", me.step = 1, me.vals = EmptyLog, NEW l
  PROVE  Follows(me, l)
BY DEF Follows, EmptyLog, Steps

LEMMA SameRow == row' = row => SameEnd
BY DEF SameEnd

(* What every action of a run that leaves the log alone needs.             *)
LEMMA OneRuns ==
  ASSUME OneInv, TypeInv, NEW r \in Runs
  PROVE  /\ run[r] \in RunStates /\ AtStep(run[r]) /\ run[r].kind \in Guarded
         /\ Follows(run[r], log) /\ Answered(run[r], row)
         /\ log \in Logs /\ row \in Rows
BY DEF OneInv, TypeInv, TypeOK, StepInv

LEMMA MoveOneInv ==
  ASSUME TypeInv, OneInv, NEW r \in Runs, RecoverDirectly(r) \/ Fetch(r) \/ Acquire(r)
  PROVE  OneInv'
<1>1. /\ Becomes(r, run'[r]) /\ Moves(run'[r], run[r])
      /\ run'[r].pc \in {"fetch", "init", "await", "check"}
  BY MoveEffect
<1>2. run[r].pc \in {"listed", "fetch", "ready"} /\ log' = log /\ row' = row
  BY DEF RecoverDirectly, Fetch, Acquire
<1>3. run[r].step = 1 /\ run[r].vals = EmptyLog
  BY <1>2, OneRuns DEF AtStep, Follows
<1>4. Follows(run'[r], log)
  BY <1>1, <1>3, OutsideFollows, BeginFollows DEF Moves
<1>5. Answered(run'[r], row) /\ run'[r].kind \in Guarded
  BY <1>1, OneRuns DEF Moves, Answered
<1>6. QED BY <1>1, <1>2, <1>4, <1>5, SameRow, OneKept

LEMMA InitOneInv ==
  ASSUME TypeInv, OneInv, NEW r \in Runs, InitWorkflow(r)
  PROVE  OneInv'
<1>1. /\ Becomes(r, run'[r])
      /\ run' = run \/ run'[r] = DoneRun(NoValue) \/ Continues(run'[r], run[r])
  BY InitEffect
<1>2. log' = log /\ SameEnd /\ run[r].pc = "init"
  BY UpsertSameEnd DEF InitWorkflow
<1>3. run[r].vals = EmptyLog
  BY <1>2, OneRuns DEF Follows
<1>4. CASE run' = run
  BY <1>1, <1>2, <1>4, OneRuns, OneKept
<1>5. CASE run'[r] = DoneRun(NoValue)
  <2>1. run'[r].pc = "done" /\ run'[r].kind = "start" /\ run'[r].ret = NoValue
    BY <1>5 DEF DoneRun, IdleRun
  <2>2. Follows(run'[r], log) /\ Answered(run'[r], row) /\ run'[r].kind \in Guarded
    <3>1. Follows(run'[r], log)
      BY <2>1, OutsideFollows
    <3>2. QED BY <2>1, <3>1 DEF Answered, Guarded
  <2>3. QED BY <1>1, <1>2, <2>2, OneKept
<1>6. CASE Continues(run'[r], run[r])
  <2>1. run'[r].pc \in {"await", "ready"} /\ run'[r].vals = EmptyLog
    BY <1>3, <1>6, OneRuns DEF Continues
  <2>2. Follows(run'[r], log)
    BY <2>1, OutsideFollows
  <2>3. Answered(run'[r], row) /\ run'[r].kind \in Guarded
    BY <1>6, OneRuns DEF Continues, Answered
  <2>4. QED BY <1>1, <1>2, <2>2, <2>3, OneKept
<1>7. QED BY <1>1, <1>4, <1>5, <1>6

LEMMA EndOneInv ==
  ASSUME TypeInv, OneInv, NEW r \in Runs,
         ClearQueueAssignment(r) \/ Release(r) \/ AwaitResult(r)
  PROVE  OneInv'
<1>1. PICK result : run'[r] = DoneRun(result) /\ Becomes(r, run'[r])
                    /\ \/ result \in {NoValue, run[r].ret}
                       \/ result = row.outcome /\ row.status \in Completed
  BY EndEffect
<1>2. log' = log /\ SameEnd
  <2>1. CASE ClearQueueAssignment(r)
    BY <2>1, OneRuns DEF ClearQueueAssignment, SameEnd, Completed, Rows
  <2>2. CASE Release(r) \/ AwaitResult(r)
    BY <2>2, SameRow DEF Release, AwaitResult
  <2>3. QED BY <2>1, <2>2
<1>3. run'[r].pc = "done" /\ run'[r].kind = "start" /\ run'[r].ret = result
  BY <1>1 DEF DoneRun, IdleRun
<1>4. Answered(run'[r], row)
  BY <1>1, <1>3, OneRuns DEF Answered
<1>5. Follows(run'[r], log) /\ run'[r].kind \in Guarded
  <2>1. Follows(run'[r], log)
    BY <1>3, OutsideFollows
  <2>2. QED BY <1>3, <2>1 DEF Guarded
<1>6. QED BY <1>1, <1>2, <1>4, <1>5, OneKept

LEMMA CheckOneInv ==
  ASSUME TypeInv, ActiveInv, OneInv, NEW r \in Runs, CheckStep(r)
  PROVE  OneInv'
<1> DEFINE me == run[r]
           s == run[r].step
<1>1. /\ Becomes(r, run'[r]) /\ s \in Steps
      /\ run'[r].kind = me.kind /\ run'[r].ret = me.ret
      /\ \/ run'[r].pc \in {"await", "unwind"}
         \/ Moves(run'[r], me) /\ run'[r].pc = "body" /\ log[s] = NoValue
         \/ run'[r] = Advance(me, log[s]) /\ log[s] # NoValue
  BY CheckEffect
<1>2. me.pc = "check" /\ log' = log /\ row' = row
  BY DEF CheckStep
<1>3. /\ me \in RunStates /\ Follows(me, log) /\ Stops(log) /\ log \in Logs
      /\ me.kind \in Guarded /\ Answered(me, row)
  BY OneRuns DEF OneInv
<1>4. Follows(run'[r], log)
  <2>1. CASE run'[r].pc \in {"await", "unwind"}
    BY <2>1, OutsideFollows
  <2>2. CASE Moves(run'[r], me) /\ run'[r].pc = "body" /\ log[s] = NoValue
    BY <1>2, <1>3, <2>2 DEF Moves, Follows
  <2>3. CASE run'[r] = Advance(me, log[s]) /\ log[s] # NoValue
    <3>1. log[s] \in Values
      BY <1>1, <1>3, <2>3 DEF Logs
    <3>2. /\ \A i \in Steps : i < s => me.vals[i] = log[i] /\ log[i] \notin Failures
          /\ \A i \in Steps : i > s => me.vals[i] = NoValue
      BY <1>2, <1>3 DEF Follows
    <3>3. Follows(Advance(me, log[s]), log)
      BY <1>1, <1>3, <3>1, <3>2, AdvanceFollows
    <3>4. QED BY <2>3, <3>3
  <2>4. QED BY <1>1, <2>1, <2>2, <2>3
<1>5. Answered(run'[r], row) /\ run'[r].kind \in Guarded
  BY <1>1, <1>3 DEF Answered
<1>6. QED BY <1>1, <1>2, <1>4, <1>5, SameRow, OneKept

LEMMA BodyOneInv ==
  ASSUME TypeInv, OneInv, NEW r \in Runs, NEW v \in Values, StepBody(r, v)
  PROVE  OneInv'
<1> DEFINE me == run[r]
           s == run[r].step
           new == run'[r]
<1>1. /\ Becomes(r, new) /\ s \in Steps /\ new.pc = "record" /\ new.step = s
      /\ new.kind = me.kind /\ new.ret = me.ret
      /\ new.vals = [me.vals EXCEPT ![s] = v]
  BY BodyEffect
<1>2. me.pc = "body" /\ log' = log /\ row' = row
  BY DEF StepBody
<1>3. /\ me \in RunStates /\ Follows(me, log)
      /\ me.kind \in Guarded /\ Answered(me, row)
  BY OneRuns
<1>4. \A i \in Steps : i # s => new.vals[i] = me.vals[i]
  BY <1>1, <1>3 DEF RunStates, Logs
<1>5. /\ \A i \in Steps : i < s => me.vals[i] = log[i] /\ log[i] \notin Failures
      /\ \A i \in Steps : i > s => me.vals[i] = NoValue
      /\ log[s] = NoValue
  BY <1>2, <1>3 DEF Follows
<1>6. \A i \in Steps : (i < s => i # s) /\ (i > s => i # s)
  BY <1>1 DEF Steps
<1>7. Follows(new, log)
  BY <1>1, <1>4, <1>5, <1>6 DEF Follows
<1>8. Answered(new, row) /\ new.kind \in Guarded
  BY <1>1, <1>3 DEF Answered
<1>9. QED BY <1>1, <1>2, <1>7, <1>8, SameRow, OneKept

LEMMA OutcomeOneInv ==
  ASSUME TypeInv, OneInv, NEW r \in Runs, WriteOutcome(r)
  PROVE  /\ OneInv'
         /\ row'.outcome = log /\ log' = log /\ Over(log)
<1> DEFINE me == run[r]
<1>1. /\ Becomes(r, run'[r])
      /\ run' = run \/ /\ run'[r].pc = "unwind" /\ run'[r].ret = me.vals
                       /\ run'[r].kind = me.kind
      /\ row'.status \in Completed /\ row'.outcome = me.vals
  BY OutcomeEffect
<1>2. me.pc = "outcome" /\ log' = log
  BY DEF WriteOutcome
<1>3. me.vals = log /\ Over(log)
  BY <1>2, OneRuns DEF Follows
<1>4. Settled'
  BY <1>1, <1>2, <1>3 DEF Settled, Over
<1>5. \A q \in Runs : Answered(run[q], row')
  <2> SUFFICES ASSUME NEW q \in Runs, run[q].ret # NoValue
               PROVE  run[q].ret = row'.outcome
    BY <1>1 DEF Answered
  <2>1. row.status \in Completed /\ run[q].ret = row.outcome
    BY OneRuns DEF Answered
  <2>2. QED BY <1>1, <1>3, <2>1 DEF OneInv, Settled
<1>6. \A q \in Runs : q # r => run'[q] = run[q]
  BY <1>1 DEF TypeInv, TypeOK, Becomes
<1>7. /\ run'[r].kind \in Guarded /\ Answered(run'[r], row') /\ Follows(run'[r], log')
  <2>1. CASE run' = run
    BY <1>2, <1>5, <2>1, OneRuns
  <2>2. CASE run'[r].pc = "unwind" /\ run'[r].ret = me.vals /\ run'[r].kind = me.kind
    <3>1. Answered(run'[r], row') /\ run'[r].kind \in Guarded
      BY <1>1, <2>2, OneRuns DEF Answered
    <3>2. Follows(run'[r], log')
      BY <2>2, OutsideFollows
    <3>3. QED BY <3>1, <3>2
  <2>3. QED BY <1>1, <2>1, <2>2
<1>8. \A q \in Runs : /\ run'[q].kind \in Guarded
                      /\ Follows(run'[q], log') /\ Answered(run'[q], row')
  BY <1>2, <1>5, <1>6, <1>7, OneRuns
<1>9. QED BY <1>1, <1>2, <1>3, <1>4, <1>8 DEF OneInv

(* The step at which a run records is not checkpointed, or with what it    *)
(* records, and in the first case the workflow is not over.                *)
RecordsExactly(r, s, v) ==
  /\ s \in Steps /\ v \in Values
  /\ log' \in Logs /\ log'[s] = v
  /\ \A i \in Steps : i # s => log'[i] = log[i]
  /\ \A i \in Steps : i < s => /\ run[r].vals[i] = log[i]
                               /\ log[i] \notin Failures \cup {NoValue}
  /\ \A i \in Steps : i > s => run[r].vals[i] = NoValue
  /\ \/ log' = log
     \/ /\ log[s] = NoValue /\ log' = [log EXCEPT ![s] = v]
        /\ row.status \notin Completed
  /\ row'.outcome = row.outcome /\ row'.status = row.status

LEMMA RecordExact ==
  ASSUME TypeInv, LogInv, OneInv, NEW r \in Runs, RecordStep(r)
  PROVE  RecordsExactly(r, run[r].step, run[r].vals[run[r].step])
<1> DEFINE s == run[r].step
           v == run[r].vals[s]
<1>1. /\ s \in Steps
      /\ log' = [log EXCEPT ![s] = IF @ = NoValue THEN v ELSE @]
      /\ row' = [row EXCEPT !.executor = run[r].at]
  BY RecordEffect
<1>2. run[r].pc = "record"
  BY DEF RecordStep
<1>3. v \in Values
  BY <1>2 DEF LogInv, Behind
<1>4. /\ log \in Logs /\ row \in Rows /\ Follows(run[r], log)
  BY OneRuns
<1>5. log[s] \in {NoValue, v}
  BY <1>2, <1>4 DEF Follows
<1>6. log' = [log EXCEPT ![s] = v]
  BY <1>1, <1>5
<1>7. log' \in Logs /\ log'[s] = v /\ (\A i \in Steps : i # s => log'[i] = log[i])
  <2> HIDE DEF v, s
  <2> QED BY <1>1, <1>3, <1>4, <1>6 DEF Logs
<1>8. \A i \in Steps : i < s => run[r].vals[i] = log[i] /\ log[i] \notin Failures
  BY <1>2, <1>4 DEF Follows
<1>9. \A i \in Steps : i > s => run[r].vals[i] = NoValue
  BY <1>2, <1>4 DEF Follows
<1>10. \A i \in Steps : i < s => log[i] # NoValue
  <2>1. \A i \in 1..(s - 1) : log[i] # NoValue
    BY <1>2 DEF LogInv, Behind, Executing
  <2>2. QED BY <1>1, <2>1 DEF Steps
<1>11. log[s] # NoValue => log' = log
  <2> HIDE DEF v, s
  <2> QED BY <1>1, <1>4, <1>5, <1>6 DEF Logs
<1>12. row.status \in Completed => log[s] # NoValue
  BY <1>2, OverRecorded DEF OneInv, Settled
<1>13. row'.outcome = row.outcome /\ row'.status = row.status
  BY <1>1, <1>4 DEF Rows
<1> HIDE DEF v, s
<1>14. QED
  BY <1>1, <1>3, <1>6, <1>7, <1>8, <1>9, <1>10, <1>11, <1>12, <1>13
  DEF RecordsExactly, v, s

LEMMA RecordOneInv ==
  ASSUME Lone, TypeInv, ActiveInv, LogInv, OneInv, NEW r \in Runs, RecordStep(r)
  PROVE  OneInv'
<1> DEFINE s == run[r].step
           v == run[r].vals[s]
<1>1. RecordsExactly(r, s, v)
  BY RecordExact
<1>2. /\ Becomes(r, run'[r])
      /\ run' = run \/ run'[r] = Advance(run[r], v)
  BY RecordEffect
<1> HIDE DEF v, s
<1>3. /\ s \in Steps /\ v \in Values
      /\ log' \in Logs /\ log'[s] = v
      /\ \A i \in Steps : i # s => log'[i] = log[i]
      /\ \A i \in Steps : i < s => /\ run[r].vals[i] = log[i]
                                   /\ log[i] \notin Failures \cup {NoValue}
      /\ \A i \in Steps : i > s => run[r].vals[i] = NoValue
      /\ log' = log \/ (log[s] = NoValue /\ row.status \notin Completed)
      /\ row'.outcome = row.outcome /\ row'.status = row.status
  BY <1>1 DEF RecordsExactly
<1>4. /\ run[r] \in RunStates /\ run[r].kind \in Guarded /\ run[r].pc = "record"
      /\ Stops(log) /\ Settled
  BY OneRuns DEF RecordStep, OneInv
<1>5. Stops(log')
  <2>1. CASE log' = log
    BY <1>4, <2>1
  <2>2. CASE log[s] = NoValue
    <3>1. \A i \in Steps : i > s => log[i] = NoValue
      BY <1>3, <2>2 DEF LogInv, Steps
    <3>2. \A t \in Steps : log'[t] \in Failures => ~(t < s)
      BY <1>3 DEF Steps
    <3>3. \A t \in Steps, i \in Steps : ~(t < s) /\ i > t => i > s /\ i # s
      BY <1>3 DEF Steps
    <3>4. QED BY <1>3, <3>1, <3>2, <3>3 DEF Stops
  <2>3. QED BY <1>3, <2>1, <2>2
<1>6. Settled'
  BY <1>3, <1>4 DEF Settled, Over
<1>7. \A i \in Steps : (i < s => i # s /\ log'[i] = log[i]) /\ (i > s => i # s)
  BY <1>3 DEF Steps
<1>8. Follows(run'[r], log') /\ run'[r].kind \in Guarded /\ run'[r].ret = run[r].ret
  <2>1. CASE run' = run
    <3>1. run'[r] = run[r] /\ Follows(run[r], log)
      BY <2>1, OneRuns
    <3>2. \A i \in Steps : i < s => run[r].vals[i] = log'[i] /\ log'[i] \notin Failures
      BY <1>3, <1>7
    <3>3. log'[s] = run[r].vals[s]
      BY <1>3 DEF v
    <3>4. Follows(run[r], log')
      BY <1>3, <1>4, <3>2, <3>3 DEF Follows, s
    <3>5. QED BY <1>4, <3>1, <3>4
  <2>2. CASE run'[r] = Advance(run[r], v)
    <3>1. Follows(Advance(run[r], v), log')
      BY <1>3, <1>4, <1>5, <1>7, AdvanceFollows DEF s
    <3>2. Advance(run[r], v).kind = run[r].kind /\ Advance(run[r], v).ret = run[r].ret
      <4>1. run[r].step \in Steps /\ v \in Values \cup {NoValue}
        BY <1>3 DEF s
      <4>2. QED BY <1>4, <4>1, AdvanceFields
    <3>3. QED BY <1>4, <2>2, <3>1, <3>2
  <2>3. QED BY <1>2, <2>1, <2>2
<1>9. \A q \in Runs : q # r => run'[q] = run[q] /\ run[q].pc \notin Executing
  <2>1. OneExecution
    BY LoneExecution
  <2>2. QED BY <1>4, <1>2, <2>1 DEF OneExecution, Executing, TypeInv, TypeOK, Becomes
<1>10. \A q \in Runs : q # r => Follows(run'[q], log')
  BY <1>9, OneRuns DEF Follows, Executing
<1>11. \A q \in Runs : Answered(run'[q], row')
  BY <1>3, <1>8, <1>9, OneRuns DEF Answered
<1>12. \A q \in Runs : run'[q].kind \in Guarded
  BY <1>8, <1>9, OneRuns
<1>13. QED BY <1>5, <1>6, <1>8, <1>10, <1>11, <1>12 DEF OneInv

LEMMA CreateOneInv ==
  ASSUME TypeInv, OneInv, NEW r \in Runs, NEW e, NEW kind \in Guarded,
         NEW pc \in {"listed", "fetch", "init"},
         Becomes(r, run'[r]), Created(run'[r], e, kind, pc), log' = log, SameEnd
  PROVE  OneInv'
<1>1. Follows(run'[r], log)
  BY OutsideFollows DEF Created
<1>2. Answered(run'[r], row) /\ run'[r].kind \in Guarded
  BY DEF Answered, Created
<1>3. QED BY <1>1, <1>2, OneKept

LEMMA NobodyOneInv ==
  ASSUME TypeInv, OneInv, run' = run, log' = log, SameEnd
  PROVE  OneInv'
<1>1. \A r \in Runs : Answered(run[r], row')
  BY OneRuns DEF Answered, SameEnd
<1>2. Settled' /\ Stops(log')
  BY DEF OneInv, Settled, SameEnd
<1>3. QED BY <1>1, <1>2 DEF OneInv

LEMMA CrashOneInv ==
  ASSUME TypeInv, OneInv, NEW e, Crash(e)
  PROVE  OneInv'
<1>1. \A r \in Runs : run'[r] \in {IdleRun, run[r]}
  BY DEF Crash
<1>2. log' = log /\ row' = row
  BY DEF Crash
<1>3. /\ IdleRun.kind \in Guarded /\ Answered(IdleRun, row)
      /\ IdleRun.pc = "idle"
  BY DEF IdleRun, Guarded, Answered
<1>4. Follows(IdleRun, log)
  BY <1>3, OutsideFollows
<1>5. \A r \in Runs : /\ run'[r].kind \in Guarded
                      /\ Follows(run'[r], log) /\ Answered(run'[r], row)
  BY <1>1, <1>3, <1>4, OneRuns
<1>6. QED BY <1>2, <1>5 DEF OneInv, Settled

LEMMA NextOneInv ==
  ASSUME Lone, TypeInv, ActiveInv, LogInv, OneInv, [Next]_vars
  PROVE  OneInv'
<1>1. ASSUME NEW e, NEW x, NEW r \in Runs, Listed(e, x, r), log' = log, row' = row
      PROVE  OneInv'
  <2>1. Becomes(r, run'[r]) /\ Created(run'[r], e, "recover", "listed")
    BY <1>1, CreateEffect
  <2>2. "recover" \in Guarded
    BY DEF Guarded, Forced
  <2>3. QED BY <1>1, <2>1, <2>2, SameRow, CreateOneInv
<1>2. ASSUME NEW e, NEW r \in Runs, NEW kind, Start(e, r, kind),
             kind \in {"start", "call", "acall"}
      PROVE  OneInv'
  <2>1. Becomes(r, run'[r]) /\ Created(run'[r], e, kind, "init")
    BY <1>2, CreateEffect
  <2>2. kind \in Guarded /\ log' = log /\ row' = row
    BY <1>2 DEF Start, Lone, Guarded
  <2>3. QED BY <2>1, <2>2, SameRow, CreateOneInv
<1>3. ASSUME NEW e, NEW r \in Runs, Dequeue(e, r) PROVE OneInv'
  <2>1. Becomes(r, run'[r]) /\ Created(run'[r], e, "dequeue", "fetch")
    BY <1>3, CreateEffect
  <2>2. "dequeue" \in Guarded /\ log' = log
    BY <1>3 DEF Dequeue, Guarded, Forced
  <2>3. SameEnd
    BY <1>3, OneRuns DEF Dequeue, SameEnd, Completed, Rows
  <2>4. QED BY <2>1, <2>2, <2>3, CreateOneInv
<1>4. ASSUME NEW e, NEW x, NEW r \in Runs, RecoverPending(e, x, r) PROVE OneInv'
  BY <1>1, <1>4 DEF RecoverPending
<1>5. ASSUME NEW e, Enqueue(e) PROVE OneInv'
  BY <1>5, UpsertSameEnd, NobodyOneInv DEF Enqueue
<1>6. ASSUME NEW e, Launch(e) PROVE OneInv'
  BY <1>1, <1>6, SameRow, NobodyOneInv DEF Launch
<1>7. CASE Cancel \/ Resume
  <2>1. row \in Rows
    BY DEF TypeInv, TypeOK
  <2>2. SameEnd
    BY <1>7, <2>1 DEF Cancel, CancelledRow, Resume, Open, SameEnd, Completed, Rows
  <2>3. QED BY <1>7, <2>2, NobodyOneInv DEF Cancel, Resume
<1>8. CASE UNCHANGED vars
  BY <1>8, SameRow, NobodyOneInv DEF vars
<1>9. QED
  BY <1>2, <1>3, <1>4, <1>5, <1>6, <1>7, <1>8, MoveOneInv, InitOneInv, EndOneInv,
     CheckOneInv, BodyOneInv, RecordOneInv, OutcomeOneInv, CrashOneInv
  DEF Next, RunStep

-----------------------------------------------------------------------------
LEMMA LoneCorrect == ASSUME Lone PROVE Spec => []AllInv
<1>1. Init => AllInv
  <2> SUFFICES ASSUME Init PROVE OneInv /\ LogInv
    BY InitTypeInv, InitActiveInv DEF AllInv
  <2>1. LogInv
    BY DEF Init, LogInv, Behind, EmptyLog, IdleRun, Executing
  <2>2. Stops(log) /\ Settled
    BY DEF Init, EmptyLog, NoRow, Stops, Settled, Completed
  <2>3. \A r \in Runs : /\ run[r].kind \in Guarded
                        /\ Follows(run[r], log) /\ Answered(run[r], row)
    <3>1. \A r \in Runs : /\ run[r].pc = "idle" /\ run[r].kind = "start"
                          /\ run[r].ret = NoValue
      BY DEF Init, IdleRun
    <3>2. QED BY <3>1, OutsideFollows DEF Guarded, Answered
  <2>4. QED BY <2>1, <2>2, <2>3 DEF OneInv
<1>2. AllInv /\ [Next]_vars => AllInv'
  BY NextTypeInv, NextActiveInv, NextLogInv, NextOneInv DEF AllInv
<1>3. QED BY <1>1, <1>2, PTL DEF Spec

(* Duplicate starts, recoveries, dequeues and resumes never make two runs  *)
(* execute the workflow function at once (OneExecution), because each goes *)
(* through the active workflow set of the executor.                        *)
THEOREM OneExecutionCorrect == ASSUME Lone PROVE Spec => []OneExecution
<1>1. AllInv => OneExecution
  BY LoneExecution DEF AllInv
<1>2. QED BY <1>1, LoneCorrect, PTL

(* A run never computes with a result that operation_outputs does not      *)
(* have, whichever run recorded it (RunsFollowLog).                        *)
THEOREM RunsFollowLogCorrect == ASSUME Lone PROVE Spec => []RunsFollowLog
<1>1. AllInv => RunsFollowLog
  <2> SUFFICES ASSUME AllInv, NEW r \in Runs, run[r].pc \in Executing,
                      NEW i \in 1..(run[r].step - 1)
               PROVE  run[r].vals[i] = log[i]
    BY DEF RunsFollowLog
  <2>1. run[r] \in RunStates /\ Follows(run[r], log)
    BY OneRuns DEF AllInv
  <2>2. i \in Steps /\ i < run[r].step
    BY <2>1 DEF RunStates, Steps
  <2>3. QED BY <2>1, <2>2 DEF Follows, Executing
<1>2. QED BY <1>1, LoneCorrect, PTL

(* Every caller that gets a result gets the outcome in the row, also when  *)
(* its run was not the one that wrote it (ResultsAgree).                   *)
THEOREM ResultsAgreeCorrect == ASSUME Lone PROVE Spec => []ResultsAgree
<1>1. AllInv => ResultsAgree
  BY DEF AllInv, OneInv, Answered, ResultsAgree
<1>2. QED BY <1>1, LoneCorrect, PTL

-----------------------------------------------------------------------------
(* The refinement.                                                         *)
LEMMA OverEnded ==
  ASSUME LogInv, OneInv, Over(log)
  PROVE  Contract!Ended
<1>1. NumSteps \in Steps /\ (\A i \in Steps : i \in Nat /\ 1..i \subseteq Steps)
  BY DEF Steps
<1>2. CASE \E s \in Steps : log[s] \in Failures
  <2>1. PICK s \in Steps : log[s] \in Failures
    BY <1>2
  <2>2. \A i \in 1..(s - 1) : i \in Steps /\ i < s /\ i \in 1..s
    BY <2>1 DEF Steps
  <2>3. log[s] # NoValue
    BY <2>1
  <2>4. \A i \in 1..(s - 1) : log[i] \notin Failures \cup {NoValue}
    BY <2>1, <2>2, <2>3 DEF LogInv, OneInv, Stops
  <2>5. Contract!Passed(s - 1)
    BY <2>4 DEF Contract!Passed
  <2>6. QED BY <2>1, <2>5 DEF Contract!Ended, Contract!Steps, Steps
<1>3. CASE log[NumSteps] # NoValue /\ \A s \in Steps : log[s] \notin Failures
  <2>1. \A i \in 1..NumSteps : log[i] \notin Failures \cup {NoValue}
    BY <1>1, <1>3 DEF LogInv, Steps
  <2>2. QED BY <2>1 DEF Contract!Ended, Contract!Passed
<1>4. QED BY <1>2, <1>3 DEF Over

(* The steps and the outcome of the workflow take effect exactly once: the *)
(* executions of any number of runs, with crashes in between, implement    *)
(* ExactlyOnce (ImplementsExactlyOnce).                                    *)
THEOREM ExactlyOnceCorrect == ASSUME Lone PROVE Spec => ImplementsExactlyOnce
<1>1. Init => Contract!Init
  BY DEF Init, NoRow, EmptyLog, Contract!Init, Contract!EmptyLog, Contract!Steps, Steps
<1>2. ASSUME AllInv, [Next]_vars PROVE [Contract!Next]_(Contract!vars)
  <2>1. TypeInv /\ LogInv /\ OneInv
    BY <1>2 DEF AllInv
  <2>2. ASSUME NEW r \in Runs, RecordStep(r) PROVE [Contract!Next]_(Contract!vars)
    <3> DEFINE s == run[r].step
               v == run[r].vals[s]
    <3>1. RecordsExactly(r, s, v)
      BY <2>1, <2>2, RecordExact
    <3> HIDE DEF s, v
    <3>2. CASE log' = log
      BY <3>1, <3>2 DEF RecordsExactly, Contract!vars
    <3>3. CASE /\ log[s] = NoValue /\ log' = [log EXCEPT ![s] = v]
               /\ row.status \notin Completed
      <4>1. row.outcome = NoValue
        BY <2>1, <3>3 DEF OneInv, Settled
      <4>2. s \in Steps /\ v \in Values /\ row'.outcome = row.outcome
        BY <3>1 DEF RecordsExactly
      <4>3. \A i \in 1..(s - 1) : i \in Steps /\ i < s
        BY <4>2 DEF Steps
      <4>4. Contract!Passed(s - 1)
        BY <3>1, <4>3 DEF RecordsExactly, Contract!Passed
      <4>5. Contract!Checkpoint(s, v)
        BY <3>3, <4>1, <4>2, <4>4 DEF Contract!Checkpoint
      <4>6. QED BY <4>2, <4>5 DEF Contract!Next, Contract!Steps, Steps
    <3>4. QED BY <3>1, <3>2, <3>3 DEF RecordsExactly
  <2>3. ASSUME NEW r \in Runs, WriteOutcome(r) PROVE [Contract!Next]_(Contract!vars)
    <3>1. row'.outcome = log /\ log' = log /\ Over(log)
      BY <2>1, <2>3, OutcomeOneInv
    <3>2. CASE row.status \in Completed
      BY <2>1, <3>1, <3>2 DEF OneInv, Settled, Contract!vars
    <3>3. CASE row.status \notin Completed
      <4>1. row.outcome = NoValue
        BY <2>1, <3>3 DEF OneInv, Settled
      <4>2. Contract!Ended
        BY <2>1, <3>1, OverEnded
      <4>3. QED BY <3>1, <4>1, <4>2 DEF Contract!Next, Contract!Complete
    <3>4. QED BY <3>2, <3>3
  <2>4. CASE log' = log /\ row'.outcome = row.outcome
    BY <2>4 DEF Contract!vars
  <2>5. \/ log' = log /\ row'.outcome = row.outcome
        \/ \E r \in Runs : RecordStep(r) \/ WriteOutcome(r)
    <3>1. row \in Rows
      BY <2>1 DEF TypeInv, TypeOK
    <3>2. \A e, toQueue, force, owner :
            InsertStatus(e, toQueue, force, owner) => row'.outcome = row.outcome
      BY <2>1, UpsertSameEnd DEF SameEnd
    <3>3. QED
      BY <1>2, <3>1, <3>2
      DEF Next, RunStep, vars, ClearQueueAssignment, RecoverDirectly, Fetch,
          InitWorkflow, Acquire, CheckStep, StepBody, Release, AwaitResult,
          Start, Dequeue, RecoverPending, Enqueue, Launch, Crash, Cancel,
          CancelledRow, Resume, Rows
  <2>6. QED BY <2>2, <2>3, <2>4, <2>5
<1>3. QED BY <1>1, <1>2, LoneCorrect, PTL DEF Spec, Contract!Spec, ImplementsExactlyOnce
-----------------------------------------------------------------------------
(* Recovery, of a workflow that nobody starts again or resumes: it may be  *)
(* cancelled, any executor may crash at any point, any executor may be     *)
(* asked to recover any other, and any acknowledgement may be lost.        *)
Undisturbed == Env \cap {"duplicate", "resume"} = {}

Ended == Completed \cup {"CANCELLED"}

Works(me) == me.pc \in Executing \cup {"listed", "fetch", "init", "ready"}
InHand(me, e) == Works(me) /\ me.at = e

(* The executor that the row names is down or has a run working on the     *)
(* workflow itself: it would not do that another one has, since that run   *)
(* may end without another word of the row.                                *)
Handled ==
  row.status = "PENDING" /\ row.executor \in up =>
    \E r \in Runs : InHand(run[r], row.executor)

(* A run leaves the workflow, or only shadows it, when the workflow is     *)
(* over or cancelled; the run of a first start is the owner of the row, if there is     *)
(* one, and alone if there is none.                                        *)
Leaving(me) == me.pc = "unwind" \/ me.shadow
Starting(me) == me.pc = "init" /\ me.kind \notin Forced
Claimed(me) == me.pc \in {"listed", "fetch"} => me.kind \in Forced

OrphanInv ==
  /\ Handled
  /\ \A r \in Runs : /\ Leaving(run[r]) => row.status \in Ended
                     /\ Starting(run[r]) => ~Exists \/ row.owner = r
                     /\ Claimed(run[r])
  /\ ~Exists =>
       /\ \A r \in Runs : run[r].pc \in {"idle", "done"} \/ Starting(run[r])
       /\ \A r, q \in Runs : Starting(run[r]) /\ Starting(run[q]) => r = q

(* A run takes a step on a row that is there: the executor the row then    *)
(* names has this run to rely on, or it has the runs it relied on before.  *)
LEMMA OrphanKept ==
  ASSUME TypeInv, OrphanInv, Exists', Exists,
         row'.owner = row.owner, up' = up,
         row.status \in Ended => row'.status \in Ended,
         NEW r \in Runs, Becomes(r, run'[r]),
         Leaving(run'[r]) => row'.status \in Ended,
         Starting(run'[r]) => row.owner = r,
         Claimed(run'[r]),
         row'.status = "PENDING" /\ row'.executor \in up =>
           \/ InHand(run'[r], row'.executor)
           \/ /\ row.status = "PENDING" /\ row'.executor = row.executor
              /\ InHand(run[r], row.executor) =>
                   \E q \in Runs \ {r} : InHand(run[q], row.executor)
  PROVE  OrphanInv'
<1>1. \A q \in Runs : q # r => run'[q] = run[q]
  BY DEF Becomes, TypeInv, TypeOK
<1>2. Handled'
  <2> SUFFICES ASSUME row'.status = "PENDING", row'.executor \in up
               PROVE  \E q \in Runs : InHand(run'[q], row'.executor)
    BY DEF Handled
  <2>1. CASE InHand(run'[r], row'.executor)
    BY <2>1
  <2>2. CASE /\ row.status = "PENDING" /\ row'.executor = row.executor
             /\ InHand(run[r], row.executor) =>
                  \E q \in Runs \ {r} : InHand(run[q], row.executor)
    <3>1. PICK q \in Runs \ {r} : InHand(run[q], row.executor)
      BY <2>2 DEF OrphanInv, Handled
    <3>2. InHand(run'[q], row'.executor)
      BY <1>1, <2>2, <3>1 DEF InHand
    <3>3. QED BY <3>2
  <2>3. QED BY <2>1, <2>2
<1>3. \A q \in Runs : /\ Leaving(run'[q]) => row'.status \in Ended
                      /\ Starting(run'[q]) => row'.owner = q
                      /\ Claimed(run'[q])
  BY <1>1 DEF OrphanInv
<1>4. QED BY <1>2, <1>3 DEF OrphanInv

(* The same where the run leaves the row alone and keeps working, or ends  *)
(* without having worked.                                                  *)
LEMMA OrphanSameRow ==
  ASSUME TypeInv, OrphanInv, Exists, row' = row, up' = up,
         NEW r \in Runs, Becomes(r, run'[r]),
         Leaving(run'[r]) => row.status \in Ended,
         Starting(run'[r]) => row.owner = r,
         Claimed(run'[r]),
         row.status = "PENDING" /\ Works(run[r]) =>
           Works(run'[r]) /\ run'[r].at = run[r].at
  PROVE  OrphanInv'
<1>1. Exists'
  BY DEF Exists
<1>2. row.status = "PENDING" /\ row.executor \in up =>
        \/ InHand(run'[r], row.executor)
        \/ ~InHand(run[r], row.executor)
  BY DEF InHand
<1>3. QED BY <1>1, <1>2, OrphanKept

(* A run whose upsert goes through on a row that is not over and does not  *)
(* bury it executes the workflow, if it may: it is forced or owns the row. *)
LEMMA AfterInitWorks ==
  ASSUME TypeInv, NEW r \in Runs,
         ~Exists \/ run[r].kind \in Forced \/ row.owner = r
  PROVE  /\ AfterInit(r).pc \notin {"unwind", "init", "listed", "fetch"}
         /\ AfterInit(r).shadow => run[r].shadow \/ row.status \in Completed
         /\ row.status \notin Completed /\ ~DeadLettered(run[r].kind \in Forced, r) =>
              InHand(AfterInit(r), run[r].at)
<1> DEFINE runs == row.status \notin Completed
           a == [run[r] EXCEPT !.pc = "check", !.shadow = ~runs]
           new(pc) == [run[r] EXCEPT !.pc = pc]
<1>1. ~Exists \/ run[r].kind \in Forced \/ Mine(r)
  BY DEF Mine
<1>2. AfterInit(r) = CASE DeadLettered(run[r].kind \in Forced, r) -> DoneRun(NoValue)
                       [] run[r].kind = "acall" -> a
                       [] run[r].kind = "call" -> new(IF runs THEN "check" ELSE "await")
                       [] run[r].kind = "start" -> new(IF runs THEN "ready" ELSE "await")
                       [] OTHER -> IF runs THEN new("ready") ELSE DoneRun(NoValue)
  BY <1>1 DEF AfterInit
<1>3. run[r] \in RunStates
  BY DEF TypeInv, TypeOK
<1>4. DoneRun(NoValue).pc = "done" /\ DoneRun(NoValue).shadow = FALSE
  BY DEF DoneRun, IdleRun
<1>5. \A pc : new(pc).pc = pc /\ new(pc).shadow = run[r].shadow /\ new(pc).at = run[r].at
  BY <1>3 DEF RunStates
<1>6. a.pc = "check" /\ a.at = run[r].at /\ a.shadow = ~runs
  BY <1>3 DEF RunStates
<1> HIDE DEF new, a
<1>7. QED BY <1>2, <1>4, <1>5, <1>6 DEF InHand, Works, Executing

LEMMA InitOrphanInv ==
  ASSUME TypeInv, RowInv, OrphanInv, NEW r \in Runs, InitWorkflow(r)
  PROVE  OrphanInv'
<1> DEFINE force == run[r].kind \in Forced
           dead == DeadLettered(force, r)
           bury == dead /\ row.status = "PENDING"
<1>1. /\ run[r] \in RunStates /\ row \in Rows /\ run[r].pc = "init"
      /\ run[r].at \in Executors /\ run[r].fromQueue \in BOOLEAN
      /\ up' = up /\ InsertStatus(run[r].at, run[r].fromQueue, force, r)
  BY DEF TypeInv, TypeOK, InitWorkflow, StepInv, AtStep, RunStates
<1>2. run[r].kind \notin Forced => ~Exists \/ row.owner = r
  BY <1>1 DEF OrphanInv, Starting
<1>3. run[r].kind \in Forced => Exists /\ row.owner # r
  BY DEF RowInv, ForcedRuns
<1>4. /\ Becomes(r, run'[r])
      /\ run' = run \/ run'[r] = AfterInit(r)
  BY <1>1, BecomesIs DEF InitWorkflow, Acked, Unacked, Becomes, TypeInv, TypeOK
<1>5. /\ AfterInit(r).pc \notin {"unwind", "init", "listed", "fetch"}
      /\ AfterInit(r).shadow => run[r].shadow \/ row.status \in Completed
      /\ row.status \notin Completed /\ ~dead => InHand(AfterInit(r), run[r].at)
  BY <1>2, AfterInitWorks
<1>6. InHand(run[r], run[r].at)
  BY <1>1 DEF InHand, Works
<1>7. /\ row.status \notin Completed /\ ~dead => InHand(run'[r], run[r].at)
      /\ Leaving(run'[r]) => row.status \in Ended
      /\ Starting(run'[r]) => run' = run /\ run[r].kind \notin Forced
      /\ Claimed(run'[r])
  BY <1>1, <1>4, <1>5, <1>6 DEF Leaving, Starting, Claimed, OrphanInv, Ended
<1>8. CASE Exists
  <2>1. /\ row'.status = IF bury THEN "MAX_RECOVERY_ATTEMPTS_EXCEEDED" ELSE row.status
        /\ row'.executor = IF run[r].fromQueue THEN row.executor ELSE run[r].at
        /\ row'.owner = row.owner
    BY <1>1, <1>8 DEF InsertStatus, Rows
  <2>2. row.status \in Ended => row'.status = row.status
    BY <2>1 DEF Ended, Completed
  <2>3. Exists'
    BY <1>8, <2>1 DEF Exists
  <2>4. row'.status = "PENDING" =>
          row.status = "PENDING" /\ ~dead /\ InHand(run'[r], run[r].at)
    BY <1>7, <2>1 DEF Completed
  <2>5. row'.status = "PENDING" =>
          \/ InHand(run'[r], row'.executor)
          \/ row'.executor = row.executor /\ ~InHand(run[r], row.executor)
    BY <2>1, <2>4 DEF InHand
  <2>6. Starting(run'[r]) => row.owner = r
    BY <1>2, <1>7, <1>8
  <2> HIDE DEF dead
  <2>7. QED
    BY <1>1, <1>4, <1>7, <1>8, <2>1, <2>2, <2>3, <2>4, <2>5, <2>6, OrphanKept
<1>9. CASE ~Exists
  <2>1. /\ row'.status \in {"PENDING", "ENQUEUED"} /\ row'.executor = run[r].at
        /\ row'.owner = r
    BY <1>1, <1>9 DEF InsertStatus
  <2>2. row.status \notin Ended /\ row.status \notin Completed /\ ~dead /\ Exists'
    BY <1>9, <2>1 DEF Exists, Ended, Completed, DeadLettered, Open
  <2>3. Handled'
    BY <1>7, <2>1, <2>2 DEF Handled
  <2>4. \A q \in Runs : q # r => run'[q] = run[q] /\ run[q].pc \in {"idle", "done"}
    <3>1. Starting(run[r])
      BY <1>1, <1>3, <1>9 DEF Starting
    <3>2. QED BY <1>4, <1>9, <3>1 DEF OrphanInv, Becomes, TypeInv, TypeOK
  <2>5. \A q \in Runs : ~Leaving(run'[q]) /\ Claimed(run'[q])
    BY <1>7, <2>2, <2>4 DEF OrphanInv
  <2>6. \A q \in Runs : Starting(run'[q]) => q = r
    BY <2>4 DEF Starting
  <2>7. QED BY <2>1, <2>2, <2>3, <2>5, <2>6 DEF OrphanInv
<1>10. QED BY <1>8, <1>9

LEMMA CheckOrphanInv ==
  ASSUME TypeInv, OrphanInv, Exists, NEW r \in Runs,
         CheckStep(r) \/ \E v \in Values : StepBody(r, v)
  PROVE  OrphanInv'
<1>1. /\ Becomes(r, run'[r]) /\ run'[r].at = run[r].at /\ run'[r].shadow = run[r].shadow
      /\ row' = row /\ up' = up
  BY CheckEffect, BodyEffect DEF CheckStep, StepBody
<1>2. /\ run'[r].pc \in Executing \cup {"await", "unwind"}
      /\ run'[r].pc = "await" => run[r].shadow
      /\ run'[r].pc = "unwind" => row.status = "CANCELLED"
  <2>1. CASE CheckStep(r)
    <3> DEFINE v == log[run[r].step]
               new(pc) == [run[r] EXCEPT !.pc = pc]
    <3>1. run[r] \in RunStates /\ run[r].step \in Steps
      BY <2>1, CheckEffect DEF TypeInv, TypeOK
    <3>2. \/ /\ row.status = "CANCELLED"
             /\ run'[r] = new(IF run[r].shadow THEN "await" ELSE "unwind")
          \/ run'[r] = new("body")
          \/ run'[r] = Advance(run[r], v)
      BY <2>1, BecomesIs DEF CheckStep, Recorded
    <3>3. v \in Values \cup {NoValue}
      BY <3>1 DEF TypeInv, TypeOK, Logs
    <3>4. /\ Advance(run[r], v).pc \in {"check", "outcome", "await"}
          /\ Advance(run[r], v).pc = "await" => run[r].shadow
      BY <3>1, <3>3, AdvanceFields
    <3>5. \A pc : new(pc).pc = pc
      BY <3>1 DEF RunStates
    <3> HIDE DEF v, new
    <3>6. QED BY <3>2, <3>4, <3>5 DEF Executing
  <2>2. QED BY <2>1, BodyEffect DEF Executing
<1>3. run[r].shadow => row.status \in Ended
  BY DEF OrphanInv, Leaving
<1>4. /\ Leaving(run'[r]) => row.status \in Ended
      /\ ~Starting(run'[r]) /\ Claimed(run'[r])
  BY <1>1, <1>2, <1>3 DEF Leaving, Starting, Claimed, Executing, Ended
<1>5. row.status = "PENDING" => Works(run'[r])
  BY <1>2, <1>3 DEF Works, Ended, Completed
<1>6. QED BY <1>1, <1>4, <1>5, OrphanSameRow

(* The run that records a step is the one the row then names.              *)
LEMMA RecordOrphanInv ==
  ASSUME TypeInv, OrphanInv, Exists, NEW r \in Runs, RecordStep(r)
  PROVE  OrphanInv'
<1> DEFINE v == run[r].vals[run[r].step]
<1>1. /\ run[r] \in RunStates /\ row \in Rows /\ run[r].pc = "record" /\ up' = up
      /\ run[r].step \in Steps /\ v \in Values \cup {NoValue}
  BY RecordEffect DEF RecordStep, TypeInv, TypeOK, RunStates, Logs
<1>2. /\ Becomes(r, run'[r])
      /\ run' = run \/ run'[r] = Advance(run[r], v)
      /\ row'.executor = run[r].at /\ row'.status = row.status /\ row'.owner = row.owner
  BY <1>1, RecordEffect DEF Rows
<1>3. /\ Advance(run[r], v).pc \in {"check", "outcome", "await"}
      /\ Advance(run[r], v).at = run[r].at /\ Advance(run[r], v).shadow = run[r].shadow
      /\ Advance(run[r], v).pc = "await" => run[r].shadow
  <2> HIDE DEF v
  <2> QED BY <1>1, AdvanceFields
<1> HIDE DEF v
<1>4. /\ run'[r].at = run[r].at /\ run'[r].shadow = run[r].shadow
      /\ run'[r].pc \in Executing \cup {"await"}
      /\ run'[r].pc = "await" => run[r].shadow
  BY <1>1, <1>2, <1>3 DEF Executing
<1>5. run[r].shadow => row.status \in Ended
  BY DEF OrphanInv, Leaving
<1>6. run'[r].pc \notin {"unwind", "init", "listed", "fetch"}
  BY <1>4 DEF Executing
<1>7. row'.status = "PENDING" => InHand(run'[r], row'.executor)
  BY <1>2, <1>4, <1>5 DEF InHand, Works, Ended, Completed
<1>8. Exists'
  BY <1>2 DEF Exists
<1>9. QED
  BY <1>1, <1>2, <1>4, <1>5, <1>6, <1>7, <1>8, OrphanKept DEF Leaving, Starting, Claimed

(* A run that finds the workflow taken waits for another one, which is     *)
(* still executing it or has written its outcome.                          *)
LEMMA MoveOrphanInv ==
  ASSUME TypeInv, ActiveInv, OrphanInv, Exists, NEW r \in Runs,
         RecoverDirectly(r) \/ Fetch(r) \/ Acquire(r)
  PROVE  OrphanInv'
<1>1. /\ Becomes(r, run'[r]) /\ Moves(run'[r], run[r]) /\ row' = row /\ up' = up
      /\ RecoverDirectly(r) => run'[r].pc = "fetch"
      /\ Fetch(r) => run'[r].pc = "init"
      /\ Acquire(r) => run'[r].pc = IF run[r].at \in active THEN "await" ELSE "check"
  BY MoveEffect DEF RecoverDirectly, Fetch, Acquire
<1>2. /\ run[r].shadow => row.status \in Ended
      /\ run[r].pc \in {"listed", "fetch"} => run[r].kind \in Forced
  BY DEF OrphanInv, Leaving, Claimed
<1>3. /\ Leaving(run'[r]) => row.status \in Ended
      /\ ~Starting(run'[r]) /\ Claimed(run'[r])
  BY <1>1, <1>2 DEF Moves, Leaving, Starting, Claimed, RecoverDirectly, Fetch, Acquire
<1>4. CASE run'[r].pc # "await"
  <2>1. Works(run'[r])
    BY <1>1, <1>4 DEF Works, Executing
  <2>2. QED BY <1>1, <1>3, <2>1, OrphanSameRow DEF Moves
<1>5. CASE run'[r].pc = "await"
  <2>1. Acquire(r) /\ run[r].at \in active /\ run[r].pc = "ready" /\ run[r].at \in Executors
    BY <1>1, <1>5 DEF Acquire, TypeInv, StepInv, AtStep
  <2>2. PICK q \in Runs : run[q].at = run[r].at /\ Owns(run[q])
    BY <2>1 DEF ActiveInv, ActiveSetExact
  <2>3. q # r
    BY <2>1, <2>2 DEF Owns, Executing
  <2>4. row.status = "PENDING" => InHand(run[q], run[r].at)
    BY <2>2 DEF Owns, OrphanInv, Leaving, InHand, Works, Ended, Completed
  <2>5. Exists'
    BY <1>1 DEF Exists
  <2>6. row.status = "PENDING" /\ InHand(run[r], row.executor) =>
          \E p \in Runs \ {r} : InHand(run[p], row.executor)
    BY <2>3, <2>4 DEF InHand
  <2>7. QED BY <1>1, <1>3, <2>5, <2>6, OrphanKept
<1>6. QED BY <1>4, <1>5

LEMMA EndOrphanInv ==
  ASSUME TypeInv, OrphanInv, Exists, NEW r \in Runs,
         ClearQueueAssignment(r) \/ Release(r) \/ AwaitResult(r) \/ WriteOutcome(r)
  PROVE  OrphanInv'
<1>1. row \in Rows /\ (run[r].pc = "unwind" => row.status \in Ended)
  BY DEF TypeInv, TypeOK, OrphanInv, Leaving
<1>2. CASE WriteOutcome(r)
  <2>1. /\ Becomes(r, run'[r]) /\ up' = up /\ run[r].pc = "outcome"
        /\ run' = run \/ run'[r].pc = "unwind"
        /\ row'.status \in Completed /\ row'.owner = row.owner
    BY <1>2, OutcomeEffect DEF WriteOutcome
  <2>2. run'[r].pc \in {"outcome", "unwind"}
    BY <2>1
  <2>3. Exists' /\ row'.status \in Ended /\ row'.status # "PENDING"
    BY <2>1 DEF Exists, Ended, Completed
  <2>4. QED BY <2>1, <2>2, <2>3, OrphanKept DEF Starting, Claimed
<1>3. CASE ClearQueueAssignment(r) \/ Release(r) \/ AwaitResult(r)
  <2>1. PICK result : Becomes(r, run'[r]) /\ run'[r] = DoneRun(result)
    BY <1>3, EndEffect
  <2>2. ~Leaving(run'[r]) /\ ~Starting(run'[r]) /\ Claimed(run'[r])
    BY <2>1 DEF DoneRun, IdleRun, Leaving, Starting, Claimed
  <2>3. CASE Release(r) \/ AwaitResult(r)
    <3>1. row' = row /\ up' = up
      BY <2>3 DEF Release, AwaitResult
    <3>2. row.status = "PENDING" => ~Works(run[r])
      BY <1>1, <2>3 DEF Release, AwaitResult, Works, Executing, Ended, Completed
    <3>3. QED BY <2>1, <2>2, <3>1, <3>2, OrphanSameRow
  <2>4. CASE ClearQueueAssignment(r)
    <3>1. row'.status = "ENQUEUED" /\ row'.owner = row.owner /\ up' = up /\ row.status = "PENDING"
      BY <1>1, <2>4 DEF ClearQueueAssignment, Rows
    <3>2. QED BY <2>1, <2>2, <3>1, OrphanKept DEF Exists, Ended, Completed
  <2>5. QED BY <1>3, <2>3, <2>4
<1>4. QED BY <1>2, <1>3

(* Undisturbed, a workflow is started once, by one run that finds no other. *)
LEMMA StartOrphanInv ==
  ASSUME Undisturbed, TypeInv, OrphanInv, NEW e, NEW r \in Runs,
         NEW kind \in {"start", "call", "acall"}, Start(e, r, kind)
  PROVE  OrphanInv'
<1>1. /\ Becomes(r, run'[r]) /\ Created(run'[r], e, kind, "init") /\ row' = row
      /\ ~Exists /\ \A q \in Runs : run[q].pc # "init"
  BY CreateEffect DEF Start, MayStart, Undisturbed
<1>2. \A q \in Runs : q # r => run'[q] = run[q]
  BY <1>1 DEF Becomes, TypeInv, TypeOK
<1>3. Starting(run'[r]) /\ ~Leaving(run'[r]) /\ Claimed(run'[r])
  BY <1>1 DEF Created, Starting, Leaving, Claimed, Forced
<1>4. \A q \in Runs : q # r => ~Starting(run[q])
  BY <1>1 DEF Starting
<1>5. QED BY <1>1, <1>2, <1>3, <1>4 DEF OrphanInv, Handled, Exists

LEMMA DequeueOrphanInv ==
  ASSUME TypeInv, OrphanInv, NEW e, NEW r \in Runs, Dequeue(e, r)
  PROVE  OrphanInv'
<1>1. /\ Becomes(r, run'[r]) /\ Created(run'[r], e, "dequeue", "fetch") /\ up' = up
      /\ row.status = "ENQUEUED" /\ row \in Rows
  BY CreateEffect DEF Dequeue, TypeInv, TypeOK
<1>2. row'.status = "PENDING" /\ row'.executor = e /\ row'.owner = row.owner
  BY <1>1 DEF Dequeue, Rows
<1>3. /\ ~Starting(run'[r]) /\ ~Leaving(run'[r]) /\ Claimed(run'[r])
      /\ InHand(run'[r], e)
  BY <1>1 DEF Created, Starting, Leaving, Claimed, Forced, InHand, Works
<1>4. Exists /\ Exists' /\ row.status \notin Ended
  BY <1>1, <1>2 DEF Exists, Ended, Completed
<1>5. QED BY <1>1, <1>2, <1>3, <1>4, OrphanKept

(* An executor that comes up takes the workflow in hand if the row names   *)
(* it; one that was up already adds a run to those there are.              *)
LEMMA ListedOrphanInv ==
  ASSUME TypeInv, OrphanInv, NEW e, NEW x, NEW r \in Runs, Listed(e, x, r),
         row' = row, up' = up \/ (up' = up \cup {e} /\ x = e)
  PROVE  OrphanInv'
<1>1. /\ Becomes(r, run'[r]) /\ Created(run'[r], e, "recover", "listed")
      /\ row.status = "PENDING" /\ row.executor = x /\ run[r].pc \in {"idle", "done"}
  BY CreateEffect DEF Listed, PendingOf, Free
<1>2. \A q \in Runs : q # r => run'[q] = run[q]
  BY <1>1 DEF Becomes, TypeInv, TypeOK
<1>3. /\ ~Starting(run'[r]) /\ ~Leaving(run'[r]) /\ Claimed(run'[r])
      /\ InHand(run'[r], e)
  BY <1>1 DEF Created, Starting, Leaving, Claimed, Forced, InHand, Works
<1>4. ~InHand(run[r], x)
  BY <1>1 DEF InHand, Works, Executing
<1>5. Handled'
  <2>1. CASE x = e
    BY <1>1, <1>3, <2>1 DEF Handled
  <2>2. CASE up' = up
    BY <1>1, <1>2, <1>4, <2>2 DEF Handled, OrphanInv
  <2>3. QED BY <2>1, <2>2
<1>6. Exists /\ Exists'
  BY <1>1 DEF Exists
<1>7. QED BY <1>1, <1>2, <1>3, <1>5, <1>6 DEF OrphanInv

LEMMA CrashOrphanInv ==
  ASSUME TypeInv, OrphanInv, NEW e, Crash(e)
  PROVE  OrphanInv'
<1>1. /\ row' = row /\ up' = up \ {e}
      /\ \A r \in Runs : run'[r] = IF run[r].at = e THEN IdleRun ELSE run[r]
  BY DEF Crash
<1>2. /\ ~Starting(IdleRun) /\ ~Leaving(IdleRun) /\ Claimed(IdleRun)
      /\ IdleRun.pc = "idle"
  BY DEF IdleRun, Starting, Leaving, Claimed
<1>3. Handled'
  <2> SUFFICES ASSUME row.status = "PENDING", row.executor \in up, row.executor # e
               PROVE  \E r \in Runs : InHand(run'[r], row.executor)
    BY <1>1 DEF Handled
  <2>1. PICK r \in Runs : InHand(run[r], row.executor)
    BY DEF OrphanInv, Handled
  <2>2. run'[r] = run[r]
    BY <1>1, <2>1 DEF InHand
  <2>3. QED BY <2>1, <2>2
<1>4. \A r \in Runs : run'[r] = run[r] \/ run'[r] = IdleRun
  BY <1>1
<1>5. Exists' <=> Exists
  BY <1>1 DEF Exists
<1>6. \A r \in Runs : /\ Leaving(run'[r]) => row'.status \in Ended
                      /\ Starting(run'[r]) => ~Exists' \/ row'.owner = r
                      /\ Claimed(run'[r])
  BY <1>1, <1>2, <1>4, <1>5 DEF OrphanInv
<1>7. ~Exists' =>
        /\ \A r \in Runs : run'[r].pc \in {"idle", "done"} \/ Starting(run'[r])
        /\ \A r, q \in Runs : Starting(run'[r]) /\ Starting(run'[q]) => r = q
  <2>1. \A r \in Runs : Starting(run'[r]) => Starting(run[r])
    BY <1>2, <1>4
  <2>2. \A r \in Runs : ~Exists => run'[r].pc \in {"idle", "done"} \/ Starting(run'[r])
    BY <1>2, <1>4 DEF OrphanInv
  <2>3. QED BY <1>5, <2>1, <2>2 DEF OrphanInv
<1>8. QED BY <1>1, <1>3, <1>5, <1>6, <1>7 DEF OrphanInv

LEMMA NextOrphanInv ==
  ASSUME Undisturbed, TypeInv, RowInv, ActiveInv, OrphanInv, [Next]_vars
  PROVE  OrphanInv'
<1>1. ASSUME NEW r \in Runs, RunStep(r), ~InitWorkflow(r) PROVE OrphanInv'
  <2>1. Exists
    <3>1. run[r].pc \notin {"idle", "done", "init"}
      BY <1>1 DEF RunStep, ClearQueueAssignment, RecoverDirectly, Fetch, Acquire, CheckStep,
                  StepBody, RecordStep, WriteOutcome, Release, AwaitResult
    <3>2. QED BY <3>1 DEF OrphanInv, Starting
  <2>2. QED
    BY <1>1, <2>1, CheckOrphanInv, RecordOrphanInv, MoveOrphanInv, EndOrphanInv DEF RunStep
<1>2. ASSUME NEW e \in Executors, Enqueue(e) PROVE OrphanInv'
  <2>1. /\ ~Exists /\ (\A r \in Runs : run[r].pc # "init") /\ run' = run
        /\ InsertStatus(e, TRUE, FALSE, NoRun)
    BY <1>2 DEF Enqueue, MayStart, Undisturbed
  <2>2. row'.status = "ENQUEUED"
    BY <2>1 DEF InsertStatus
  <2>3. row.status \notin Ended
    BY <2>1 DEF Exists, Ended, Completed
  <2>4. Exists' /\ Handled'
    BY <2>2 DEF Exists, Handled
  <2>5. \A r \in Runs : ~Leaving(run[r]) /\ ~Starting(run[r]) /\ Claimed(run[r])
    BY <2>1, <2>3 DEF OrphanInv, Starting
  <2>6. QED BY <2>1, <2>2, <2>4, <2>5 DEF OrphanInv
<1>3. ASSUME NEW e \in Executors, Launch(e) PROVE OrphanInv'
  <2>1. CASE \E r \in Runs : Listed(e, e, r)
    BY <1>3, <2>1, ListedOrphanInv DEF Launch
  <2>2. CASE ~PendingOf(e) /\ run' = run
    <3>1. row' = row /\ up' = up \cup {e}
      BY <1>3 DEF Launch
    <3>2. Handled'
      BY <2>2, <3>1 DEF Handled, PendingOf, OrphanInv
    <3>3. QED BY <2>2, <3>1, <3>2 DEF OrphanInv, Exists
  <2>3. QED BY <1>3, <2>1, <2>2 DEF Launch
<1>4. ASSUME NEW e, NEW x, NEW r \in Runs, RecoverPending(e, x, r) PROVE OrphanInv'
  BY <1>4, ListedOrphanInv DEF RecoverPending
<1>5. ASSUME Cancel PROVE OrphanInv'
  <2>1. row'.status = "CANCELLED" /\ row'.owner = row.owner /\ run' = run /\ Exists
    BY <1>5 DEF Cancel, CancelledRow, Open, TypeInv, TypeOK, Rows
  <2>2. QED BY <2>1 DEF OrphanInv, Handled, Exists, Ended
<1>6. ~Resume
  BY DEF Undisturbed, Resume
<1>7. CASE UNCHANGED vars
  BY <1>7 DEF vars, OrphanInv, Handled, Exists
<1>8. QED
  BY <1>1, <1>2, <1>3, <1>4, <1>5, <1>6, <1>7, InitOrphanInv, StartOrphanInv, DequeueOrphanInv,
     CrashOrphanInv DEF Next

(* As long as nobody starts the workflow again or resumes it, a PENDING    *)
(* row is never left behind (NoOrphan): whatever cancellations, crashes,   *)
(* recoveries of executors that are up, dequeues and lost acknowledgements *)
(* there are, a run works on the workflow, or the executor its row names   *)
(* is down and lists it when it is launched (_recover_workflow, _launch).  *)
THEOREM NoOrphanCorrect == ASSUME Undisturbed PROVE Spec => []NoOrphan
<1>1. Init => OrphanInv
  BY DEF Init, OrphanInv, Handled, NoRow, Exists, IdleRun, Leaving, Starting, Claimed
<1>2. TypeInv /\ RowInv /\ ActiveInv /\ OrphanInv /\ [Next]_vars => OrphanInv'
  BY NextOrphanInv
<1>3. OrphanInv => NoOrphan
  BY DEF OrphanInv, Handled, NoOrphan, InHand, Works, Working
<1>4. QED
  BY <1>1, <1>2, <1>3, InitTypeInv, NextTypeInv, InitRowInv, NextRowInv, InitActiveInv,
     NextActiveInv, PTL DEF Spec
=============================================================================
