------------------------------- MODULE Croniter -------------------------------
(***************************************************************************)
(* croniter.get_next as the scheduler calls it: the times of a crontab one *)
(* after the other, each found by moving a date forward until no field of  *)
(* the crontab changes it any more.                                        *)
(*                                                                         *)
(* A crontab has five fields.  A field is a set of items [lo, hi, step,    *)
(* star], empty if there is a plain star among them; an item has a star if *)
(* its text is a star with a step, and the last day of a month is the item *)
(* of the day L.  Left out: crontabs with seconds and years, the nth       *)
(* weekday of a month, hashed and random items, question marks, names of   *)
(* months and days, the search backwards, the limit of years a search may  *)
(* take, and changes of the UTC offset (the scheduler's dates are in UTC). *)
(***************************************************************************)
EXTENDS Naturals, FiniteSets, FiniteSetsExt

CONSTANTS Crons,   \* crontabs: records of minute, hour, day, month, dow
          Starts,  \* dates at which an iterator starts
          LastYear \* bound: no call after that year has ended

L == 60  \* the letter: no value of a field, sorted after every day

VARIABLES cron,   \* the crontab
          prev,   \* history: where the last call started
          cur,    \* self.cur
          dst,    \* the date that moves
          phase,  \* which days count: "day", "dow", or those of "both" fields
          first   \* the result of the first of two searches

cronVars == <<cron, prev, cur, dst, phase, first>>

-----------------------------------------------------------------------------
(* Calendar.                                                               *)
DAYS == <<31, 28, 31, 30, 31, 30, 31, 31, 30, 31, 30, 31>>
BEFORE == <<0, 31, 59, 90, 120, 151, 181, 212, 243, 273, 304, 334>>
is_leap(y) == y % 400 = 0 \/ (y % 4 = 0 /\ y % 100 # 0)
DaysIn(y, m) == DAYS[m] + (IF m = 2 /\ is_leap(y) THEN 1 ELSE 0)

DayOfYear(d) ==
  BEFORE[d.month] + d.day + (IF d.month > 2 /\ is_leap(d.year) THEN 1 ELSE 0)
(* date.toordinal(); isoweekday() % 7: Sunday is 0.                        *)
Ordinal(d) ==
  LET y == d.year - 1
  IN 365 * y + y \div 4 - y \div 100 + y \div 400 + DayOfYear(d)
Weekday(d) == Ordinal(d) % 7

Date(y, m, d, h, mi) == [year |-> y, month |-> m, day |-> d, hour |-> h, minute |-> mi]
CarryMonth(d) ==
  IF d.month > 12 THEN Date(d.year + 1, d.month - 12, d.day, d.hour, d.minute) ELSE d
CarryDay(d) ==
  LET days == DaysIn(d.year, d.month)
  IN IF d.day > days
     THEN CarryMonth(Date(d.year, d.month + 1, d.day - days, d.hour, d.minute))
     ELSE d

(* d += relativedelta(months=n, day=1, hour=0, minute=0), and so on.       *)
AddMonths(d, n) == CarryMonth(Date(d.year, d.month + n, 1, 0, 0))
AddDays(d, n) == CarryDay(CarryDay(Date(d.year, d.month, d.day + n, 0, 0)))
AddHours(d, n) ==
  IF d.hour + n < 24 THEN Date(d.year, d.month, d.day, d.hour + n, 0)
  ELSE [AddDays(d, 1) EXCEPT !.hour = d.hour + n - 24]
AddMinutes(d, n) ==
  IF d.minute + n < 60 THEN [d EXCEPT !.minute = @ + n]
  ELSE [AddHours(d, 1) EXCEPT !.minute = d.minute + n - 60]

ValidDate(d) ==
  /\ d \in [year : Nat \ {0}, month : 1..12, day : 1..31, hour : 0..23, minute : 0..59]
  /\ d.day <= DaysIn(d.year, d.month)
Stamp(d) == (((d.year * 12 + d.month) * 31 + d.day) * 24 + d.hour) * 60 + d.minute

-----------------------------------------------------------------------------
(* A field is written with items in its range, each with a value.          *)
RANGES ==
  [minute |-> 0..59, hour |-> 0..23, day |-> 1..31, month |-> 1..12, dow |-> 0..7]
ValidItem(i, field) ==
  /\ i.lo \in RANGES[field] /\ i.hi \in RANGES[field] /\ i.lo <= i.hi
  /\ i.step \in Nat \ {0} /\ i.star \in BOOLEAN
  /\ i.star => i.lo..i.hi = RANGES[field]
LastDay == [lo |-> L, hi |-> L, step |-> 1, star |-> FALSE]
ValidCron(c) ==
  \A field \in DOMAIN RANGES : \A i \in c[field] :
    ValidItem(i, field) \/ (field = "day" /\ i = LastDay)

ASSUME CronsAssumption == \A c \in Crons : ValidCron(c)
ASSUME StartsAssumption == \A d \in Starts : ValidDate(d)

(* expand: the values of a field, none if it is full, that is has them     *)
(* all.  A full field of days stays as it is beside another one without a  *)
(* star in its text.                                                       *)
Item(i) == {v \in i.lo..i.hi : (v - i.lo) % i.step = 0}
LOWMAP(field, v) == IF field = "dow" /\ v = 7 THEN 0 ELSE v
LEN_MEANS_ALL == [minute |-> 60, hour |-> 24, day |-> 31, month |-> 12, dow |-> 7]
Free(c, field) == c[field] = {}
Starred(c, field) == Free(c, field) \/ \E i \in c[field] : i.star
Values(c, field) == {LOWMAP(field, v) : v \in UNION {Item(i) : i \in c[field]}}
Full(c, field) == Cardinality(Values(c, field)) = LEN_MEANS_ALL[field]

expand(c, field) ==
  IF /\ Full(c, field)
     /\ field = "day" => Starred(c, "dow")
     /\ field = "dow" => Starred(c, "day")
  THEN {} ELSE Values(c, field)

(* The fields of a search: a star for the days that do not count.          *)
Field(field) ==
  IF phase \in {"day", "dow"} /\ field \in {"day", "dow"} /\ field # phase
  THEN {} ELSE expand(cron, field)

(* _get_next_nearest_diff: the last day comes after all others.            *)
Nearest(x, values, range) ==
  LET ahead == {v \in values \ {L} : v >= x}
  IN IF ahead # {} THEN Min(ahead) - x
     ELSE IF L \in values THEN range - x
     ELSE Min(values) - x + range

Diff(field, x, range) ==
  IF Field(field) = {} THEN 0 ELSE Nearest(x, Field(field), range)

month_diff == Diff("month", dst.month, 12)
day_diff ==
  LET days == DaysIn(dst.year, dst.month)
  IN IF L \in Field("day") /\ dst.day = days THEN 0
     ELSE Diff("day", dst.day, days)
dow_diff == Diff("dow", Weekday(dst), 7)
hour_diff == Diff("hour", dst.hour, 24)
minute_diff == Diff("minute", dst.minute, 60)

-----------------------------------------------------------------------------
CronInit ==
  /\ cron \in Crons
  /\ cur \in Starts
  /\ prev = cur /\ dst = cur /\ first = cur
  /\ phase = "idle"

(* A union of days of the month and weekdays is searched twice.            *)
GetNext ==
  /\ phase = "idle" /\ cur.year <= LastYear
  /\ phase' = IF expand(cron, "day") = {} \/ expand(cron, "dow") = {}
              THEN "both" ELSE "day"
  /\ prev' = cur
  /\ dst' = AddMinutes(cur, 1)
  /\ UNCHANGED <<cron, cur, first>>

Searching == phase # "idle"
Move(d) == dst' = d /\ UNCHANGED <<cron, prev, cur, phase, first>>

(* The procedures of _calc: the first one that changes the date starts     *)
(* the round again.                                                        *)
proc_month ==
  /\ Searching /\ month_diff # 0
  /\ Move(AddMonths(dst, month_diff))

proc_day_of_month ==
  /\ Searching /\ month_diff = 0
  /\ day_diff # 0
  /\ Move(AddDays(dst, day_diff))

proc_day_of_week ==
  /\ Searching /\ month_diff = 0 /\ day_diff = 0
  /\ dow_diff # 0
  /\ Move(AddDays(dst, dow_diff))

proc_hour ==
  /\ Searching /\ month_diff = 0 /\ day_diff = 0 /\ dow_diff = 0
  /\ hour_diff # 0
  /\ Move(AddHours(dst, hour_diff))

proc_minute ==
  /\ Searching /\ month_diff = 0 /\ day_diff = 0 /\ dow_diff = 0 /\ hour_diff = 0
  /\ minute_diff # 0
  /\ Move(AddMinutes(dst, minute_diff))

Settled ==
  Searching /\ \A d \in {month_diff, day_diff, dow_diff, hour_diff, minute_diff} : d = 0

SecondSearch ==
  /\ Settled /\ phase = "day"
  /\ phase' = "dow" /\ first' = dst /\ dst' = AddMinutes(cur, 1)
  /\ UNCHANGED <<cron, prev, cur>>

Later(a, b) == IF Stamp(a) < Stamp(b) THEN b ELSE a              \* faulty
Earlier(a, b) == IF Stamp(a) < Stamp(b) THEN a ELSE b

ReturnDate ==
  /\ Settled /\ phase # "day"
  /\ cur' = IF phase = "dow" THEN Earlier(first, dst) ELSE dst
  /\ dst' = cur' /\ first' = cur'
  /\ phase' = "idle"
  /\ UNCHANGED <<cron, prev>>

CronNext ==
  \/ GetNext \/ proc_month \/ proc_day_of_month \/ proc_day_of_week
  \/ proc_hour \/ proc_minute \/ SecondSearch \/ ReturnDate

CronSpec == CronInit /\ [][CronNext]_cronVars

-----------------------------------------------------------------------------
(* What a crontab means, from its text.                                    *)
Allows(c, field, v) == \E i \in c[field] : v \in Item(i)
AllowsDay(c, d) ==
  Allows(c, "day", d.day) \/ (Allows(c, "day", L) /\ d.day = DaysIn(d.year, d.month))
AllowsDow(c, d) ==
  Allows(c, "dow", Weekday(d)) \/ (Allows(c, "dow", 7) /\ Weekday(d) = 0)

MatchesDay(c, d) ==
  /\ Free(c, "month") \/ Allows(c, "month", d.month)
  /\ IF Free(c, "day") THEN Free(c, "dow") \/ AllowsDow(c, d)
     ELSE AllowsDay(c, d) \/ (~Free(c, "dow") /\ AllowsDow(c, d))
MatchesTime(c, d) ==
  /\ Free(c, "hour") \/ Allows(c, "hour", d.hour)
  /\ Free(c, "minute") \/ Allows(c, "minute", d.minute)

Days ==
  UNION {{Date(y, m, day, 0, 0) : day \in 1..DaysIn(y, m)} :
           y \in prev.year..cur.year, m \in 1..12}
Between(d) == Stamp(prev) < Stamp(d) /\ Stamp(d) < Stamp(cur)

(* Each call returns a later date, which the crontab allows, and none that *)
(* it allows lies between the two, over the ends of months of all lengths  *)
(* and of leap years: a scheduled workflow misses none of its times.       *)
NextIsFirst ==
  phase = "idle" /\ prev # cur =>
    /\ Stamp(prev) < Stamp(cur)
    /\ MatchesDay(cron, cur) /\ MatchesTime(cron, cur)
    /\ \A d \in Days : MatchesDay(cron, d) =>
         \A h \in 0..23, mi \in 0..59 :
           LET t == [d EXCEPT !.hour = h, !.minute = mi]
           IN Between(t) => ~MatchesTime(cron, t)

(* Crontabs of which this is so.  When the first value beyond the last     *)
(* day of a month is the nearest, the search goes on as many days past the *)
(* end of the month: no day it passes over may be allowed, neither the     *)
(* last one of the month nor the first ones of the next.  And "l" counts   *)
(* as a value when the values are counted, also beside 31.                 *)
AllowsMonth(c, m) == Free(c, "month") \/ Allows(c, "month", m)
Lengths(m) == {DAYS[m]} \cup (IF m = 2 THEN {29} ELSE {})
PassesNone(c, m, n) ==
  LET days == Values(c, "day")
      beyond == {v \in days \ {L} : v > n}
  IN \/ beyond = {} \/ n \in days
     \/ /\ L \notin days
        /\ AllowsMonth(c, (m % 12) + 1) => \A v \in days : v >= Min(beyond) - n
SkipsNone(c) ==
  /\ {31, L} \subseteq Values(c, "day") => Cardinality(Values(c, "day")) # 31
  /\ \A m \in 1..12 : \A n \in Lengths(m) : AllowsMonth(c, m) => PassesNone(c, m, n)

(* And: a full field of days beside a field that has a star with a step is *)
(* taken for a star, so that only the days of the other field count.  They *)
(* must be all days too.                                                   *)
KeepsDays(c) ==
  \A f, g \in {"day", "dow"} :
    f # g /\ ~Free(c, f) /\ Full(c, f) /\ ~Free(c, g) /\ Starred(c, g) => Full(c, g)
=============================================================================
