------------------------------ MODULE MCServices ------------------------------
(* What stands around the executions: the management of workflows without  *)
(* the passing of time ("management") and without children but with it     *)
(* ("collection"), their copies ("copies"), the contexts that number their *)
(* operations and children ("context"), the debouncer ("debouncer"), the   *)
(* scheduler ("scheduler"), the crontab iterator ("cron") and the Kafka    *)
(* consumer ("kafka").  Each initial state picks one; the state of the     *)
(* others stays as it is.                                                  *)
EXTENDS WorkflowManagement, WorkflowCopies, Scheduler, Croniter, Debouncer,
        KafkaConsumer, Contexts, TLC

CONSTANTS a, b, m1, c1, c2, c3, p1, p2

VARIABLE part

allVars == <<part, managementVars, contextVars, copyVars, debounceVars,
             schedulerVars, cronVars, kafkaVars>>

-----------------------------------------------------------------------------
(* A workflow with a step, children by call, start and fork, with and      *)
(* without IDs and options of their own.                                   *)
Operation(kind, id, option) == [kind |-> kind, id |-> id, option |-> option]

NoTuple == <<>>
Uuid == <<"uuid">>
Operations ==
  <<Operation("step", NoTuple, NoOption),
    Operation("call", <<"x">>, "o1"),
    Operation("start", NoTuple, NoOption),
    Operation("fork", NoTuple, NoOption),
    Operation("start", <<"y">>, NoOption),
    Operation("call", NoTuple, "o1"),
    Operation("start", NoTuple, NoOption)>>

(* A workflow whose events and stream have entries on both sides of a step.*)
EventsAndStream == <<"event", "stream", "step", "event", "stream">>

(* The 31st, the last day, the 29th to the 31st, a leap day, weekdays, and *)
(* days of the month together with weekdays, as a union and where a star   *)
(* with a step makes a star of the full field beside it.                   *)
Span(lo, hi, step) == {[lo |-> lo, hi |-> hi, step |-> step, star |-> FALSE]}
Star(lo, hi, step) == {[lo |-> lo, hi |-> hi, step |-> step, star |-> TRUE]}
One(v) == Span(v, v, 1)
Crontab(minute, hour, day, month, dow) ==
  [minute |-> minute, hour |-> hour, day |-> day, month |-> month, dow |-> dow]

Crontabs ==
  {Crontab(One(0), One(0), One(31), {}, {}),
   Crontab(One(0), One(12), {LastDay}, {}, {}),
   Crontab(One(0), One(0), Span(29, 31, 1), {}, {}),
   Crontab(One(15) \cup One(45), One(23), One(29), One(2), {}),
   Crontab(One(30), Span(0, 23, 12), One(1) \cup One(15), One(2) \cup One(4), {}),
   Crontab(One(0), One(5), {}, One(2), Span(1, 7, 2)),
   Crontab(One(0), One(5), One(13), One(1), One(5)),
   Crontab(One(0), One(0), One(1) \cup One(31), One(1) \cup One(3), One(7)),
   Crontab(One(0), One(5), Star(1, 31, 10), One(2), One(1)),
   Crontab(One(0), One(5), Star(1, 31, 1), One(2), Span(0, 6, 1))}

ASSUME CrontabsSkipNone == \A c \in Crontabs : SkipsNone(c) /\ KeepsDays(c)

OnTheEve == {Date(2023, 1, 31, 0, 0), Date(2024, 2, 28, 12, 29)}

-----------------------------------------------------------------------------
SuiteInit ==
  /\ part \in {"management", "collection", "context", "copies", "debouncer",
               "scheduler", "cron", "kafka"}
  /\ Init /\ ContextInit /\ CopyInit /\ CronInit
  /\ DebouncerInit /\ SchedulerInit /\ KafkaInit
  /\ part # "cron" => /\ cron = Crontab(One(0), One(0), One(31), {}, {})
                      /\ cur.year = 2023

InManagement(A) ==
  /\ A
  /\ \/ part = "management" /\ clock' = 0
     \/ part = "collection" /\ starting' = {}
  /\ UNCHANGED <<part, contextVars, copyVars, debounceVars, schedulerVars, cronVars, kafkaVars>>
InContext(A) ==
  /\ part = "context" /\ A
  /\ UNCHANGED <<part, managementVars, copyVars, debounceVars, schedulerVars, cronVars, kafkaVars>>
InCopies(A) ==
  /\ part = "copies" /\ A
  /\ UNCHANGED <<part, managementVars, contextVars, debounceVars, schedulerVars, cronVars, kafkaVars>>
InDebouncer(A) ==
  /\ part = "debouncer" /\ A
  /\ UNCHANGED <<part, managementVars, contextVars, copyVars, schedulerVars, cronVars, kafkaVars>>
InScheduler(A) ==
  /\ part = "scheduler" /\ A
  /\ UNCHANGED <<part, managementVars, contextVars, copyVars, debounceVars, cronVars, kafkaVars>>
InCron(A) ==
  /\ part = "cron" /\ A
  /\ UNCHANGED <<part, managementVars, contextVars, copyVars, debounceVars, schedulerVars, kafkaVars>>
InKafka(A) ==
  /\ part = "kafka" /\ A
  /\ UNCHANGED <<part, managementVars, contextVars, copyVars, debounceVars, schedulerVars, cronVars>>

SuiteNext ==
  \/ InManagement(Next)
  \/ InContext(ContextNext)
  \/ InCopies(CopyNext)
  \/ InDebouncer(DebouncerNext)
  \/ InScheduler(SchedulerNext)
  \/ InCron(CronNext)
  \/ InKafka(KafkaNext)

SuiteSpec == SuiteInit /\ [][SuiteNext]_allVars

(* Nothing tells the workflows of the management from one another, nor the *)
(* processes of the scheduler.                                             *)
Symmetric == Permutations({a, b}) \cup Permutations({p1, p2})
=============================================================================
