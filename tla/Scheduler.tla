------------------------------- MODULE Scheduler -------------------------------
(***************************************************************************)
(* One schedule of the table workflow_schedules, its polling by the        *)
(* dynamic scheduler loop of several processes, their threads that enqueue *)
(* the workflow of each time of the crontab under an ID made of the time,  *)
(* and backfills of a range of times.                                      *)
(*                                                                         *)
(* The times of the crontab are 1, 2, ... (Croniter is about which they    *)
(* are).  A schedule has a new schedule_id when it is created again, and   *)
(* so a new thread; the thread it had may still be enqueueing.  Left out:  *)
(* trigger_schedule, whose IDs are its own, and deletes of workflows.      *)
(***************************************************************************)
EXTENDS Naturals, FiniteSets

CONSTANTS Processes,
          LastTime,   \* bound: times of the crontab
          MaxVersions \* bound: schedules created

ASSUME LastTimeAssumption == LastTime \in Nat

Times == 1..LastTime
Versions == 1..MaxVersions

VARIABLES schedule, \* the row: version (0: none) and active
          versions, \* schedules created so far
          now,
          thread,   \* threads of each process, one per version it has seen
          backfill, \* the backfill under way
          timed,    \* workflow_status of the workflow of each time
          runs,     \* history: executions of each time
          failed    \* history: times a thread failed to enqueue

schedulerVars == <<schedule, versions, now, thread, backfill, timed, runs, failed>>

NoThread == [pc |-> "none", since |-> 0, at |-> 0]
NoBackfill == [pc |-> "idle", at |-> 0, until |-> 0]

SchedulerInit ==
  /\ schedule = [version |-> 0, active |-> FALSE] /\ versions = 0
  /\ now = 0
  /\ thread = [p \in Processes |-> [v \in Versions |-> NoThread]]
  /\ backfill = NoBackfill
  /\ timed = [t \in Times |-> "ABSENT"]
  /\ runs = [t \in Times |-> 0]
  /\ failed = {}

tables == <<schedule, versions>>
workflows == <<timed, runs, failed>>

-----------------------------------------------------------------------------
(* create_schedule fails if there is one of that name; apply_schedules     *)
(* replaces it, in one transaction.                                        *)
NewVersion ==
  /\ versions < MaxVersions
  /\ versions' = versions + 1
  /\ schedule' = [version |-> versions + 1, active |-> TRUE]
  /\ UNCHANGED <<now, thread, backfill, workflows>>

CreateSchedule == schedule.version = 0 /\ NewVersion
ApplySchedules == schedule.version # 0 /\ NewVersion

DeleteSchedule ==
  /\ schedule.version # 0
  /\ schedule' = [version |-> 0, active |-> FALSE]
  /\ UNCHANGED <<versions, now, thread, backfill, workflows>>

SetStatus(active) ==
  /\ schedule.version # 0
  /\ schedule' = [schedule EXCEPT !.active = active]
  /\ UNCHANGED <<versions, now, thread, backfill, workflows>>

PauseSchedule == schedule.active /\ SetStatus(FALSE)
ResumeSchedule == ~schedule.active /\ SetStatus(TRUE)

-----------------------------------------------------------------------------
(* dynamic_scheduler_loop: threads of schedules that are gone or paused    *)
(* are told to stop, which they see when they wait; a schedule without a   *)
(* thread gets one, whose times begin now.                                 *)
Stopped(th) ==
  CASE th.pc = "wait" -> NoThread
    [] th.pc = "enqueue" -> [th EXCEPT !.pc = "last"]
    [] OTHER -> th
NewThread == [pc |-> "wait", since |-> now, at |-> now + 1]

PollSchedules(p) ==
  /\ thread' = [thread EXCEPT ![p] = [v \in Versions |->
       IF v # schedule.version \/ ~schedule.active THEN Stopped(@[v])
       ELSE IF @[v].pc = "none" THEN NewThread ELSE @[v]]]
  /\ UNCHANGED <<tables, now, backfill, workflows>>

(* Shutdown of a process, or its death.                                    *)
ExitProcess(p) ==
  /\ thread' = [thread EXCEPT ![p] = [v \in Versions |-> NoThread]]
  /\ UNCHANGED <<tables, now, backfill, workflows>>

(* croniter goes on from the time before, not from the time it is.         *)
NextFromNow(t) == now + 1                                       \* faulty
NextTime(t) == t + 1

Enqueueing(th) == th.pc \in {"enqueue", "last"}
Advance(p, v) ==
  LET th == thread[p][v]
  IN thread' = [thread EXCEPT ![p][v] =
       IF th.pc = "last" THEN NoThread
       ELSE [th EXCEPT !.pc = "wait", !.at = NextTime(th.at)]]

(* The time has come, and some jitter has passed: get_workflow_status.     *)
Due(p, v) == thread[p][v].pc = "wait" /\ thread[p][v].at <= now

CheckTime(p, v) ==
  /\ Due(p, v) /\ thread[p][v].at \in Times
  /\ IF timed[thread[p][v].at] = "ABSENT"
     THEN thread' = [thread EXCEPT ![p][v].pc = "enqueue"]
     ELSE Advance(p, v)
  /\ UNCHANGED <<tables, now, backfill, workflows>>

(* The insert keeps the row another process has inserted meanwhile.        *)
UpsertTimeStatus(t) == [timed EXCEPT ![t] = "ENQUEUED"]           \* faulty
UpsertTime(t) == [timed EXCEPT ![t] = IF @ = "ABSENT" THEN "ENQUEUED" ELSE @]

EnqueueTime(p, v) ==
  /\ Enqueueing(thread[p][v])
  /\ timed' = UpsertTime(thread[p][v].at)
  /\ Advance(p, v)
  /\ UNCHANGED <<tables, now, backfill, runs, failed>>

(* An exception is logged, and the thread goes on with the next time.      *)
FailTime(p, v) ==
  /\ Enqueueing(thread[p][v])
  /\ failed' = failed \cup {thread[p][v].at}
  /\ Advance(p, v)
  /\ UNCHANGED <<tables, now, backfill, timed, runs>>

-----------------------------------------------------------------------------
(* backfill_schedule, of times between two given ones.                     *)
BeginBackfill(start, end) ==
  /\ backfill.pc = "idle" /\ schedule.version # 0 /\ start + 1 < end
  /\ backfill' = [pc |-> "check", at |-> start + 1, until |-> end]
  /\ UNCHANGED <<tables, now, thread, workflows>>

BackfillCheck ==
  /\ backfill.pc = "check"
  /\ backfill' =
       IF backfill.at >= backfill.until THEN NoBackfill
       ELSE IF timed[backfill.at] = "ABSENT" THEN [backfill EXCEPT !.pc = "enqueue"]
       ELSE [backfill EXCEPT !.at = @ + 1]
  /\ UNCHANGED <<tables, now, thread, workflows>>

BackfillEnqueue ==
  /\ backfill.pc = "enqueue"
  /\ timed' = UpsertTime(backfill.at)
  /\ backfill' = [backfill EXCEPT !.pc = "check", !.at = @ + 1]
  /\ UNCHANGED <<tables, now, thread, runs, failed>>

RunTime(t) ==
  /\ timed[t] = "ENQUEUED"
  /\ timed' = [timed EXCEPT ![t] = "SUCCESS"]
  /\ runs' = [runs EXCEPT ![t] = @ + 1]
  /\ UNCHANGED <<tables, now, thread, backfill, failed>>

PassTime ==
  /\ now < LastTime
  /\ now' = now + 1
  /\ UNCHANGED <<tables, thread, backfill, workflows>>

SchedulerNext ==
  \/ CreateSchedule \/ ApplySchedules \/ DeleteSchedule
  \/ PauseSchedule \/ ResumeSchedule
  \/ \E p \in Processes : PollSchedules(p) \/ ExitProcess(p)
  \/ \E p \in Processes, v \in Versions :
       CheckTime(p, v) \/ EnqueueTime(p, v) \/ FailTime(p, v)
  \/ \E start, end \in 0..(LastTime + 1) : BeginBackfill(start, end)
  \/ BackfillCheck \/ BackfillEnqueue
  \/ \E t \in Times : RunTime(t)
  \/ PassTime

SchedulerSpec == SchedulerInit /\ [][SchedulerNext]_schedulerVars

-----------------------------------------------------------------------------
(* The workflow of a time is executed once, however many processes,        *)
(* versions of the schedule and backfills enqueue it at whatever times,    *)
(* and a thread that has gone on to a time has enqueued all those before   *)
(* it, however late it was.                                                *)
TimesExact ==
  /\ \A t \in Times : runs[t] <= 1
  /\ \A p \in Processes, v \in Versions :
       LET th == thread[p][v]
       IN th.pc # "none" =>
            \A t \in (th.since + 1)..(th.at - 1) : timed[t] # "ABSENT" \/ t \in failed
=============================================================================
