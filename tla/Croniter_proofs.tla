--------------------------- MODULE Croniter_proofs ---------------------------
(***************************************************************************)
(* Proofs about Croniter for any crontabs whose search skips no day and    *)
(* whose expansion drops none, and any dates to start from.                *)
(***************************************************************************)
EXTENDS Croniter, FiniteSetTheorems, WellFoundedInduction, TLAPS

-----------------------------------------------------------------------------
(* The least element of a set of numbers; the induction is that "less      *)
(* than" is well-founded on the naturals.                                  *)
LEMMA LeastExists ==
  ASSUME NEW S \in SUBSET Nat, S # {}
  PROVE  \E x \in S : \A y \in S : x <= y
<1> DEFINE R == OpToRel(<, Nat)
<1>1. ASSUME NEW x \in Nat, NEW y \in Nat, y < x PROVE <<y, x>> \in R
  BY <1>1 DEF OpToRel
<1> HIDE DEF R
<1>2. IsWellFoundedOn(R, Nat)
  BY NatLessThanWellFounded, Zenon DEF R
<1>3. PICK x \in S : \A y \in S : ~ (<<y, x>> \in R)
  BY <1>2, WFMin
<1>4. ASSUME NEW y \in S PROVE x <= y
  <2>1. x \in Nat /\ y \in Nat
    OBVIOUS
  <2>2. ~(y < x)
    BY <1>1, <1>3, <2>1
  <2>3. QED BY <2>1, <2>2
<1>5. QED BY <1>4

LEMMA MinIsLeast ==
  ASSUME NEW S \in SUBSET Nat, S # {}
  PROVE  Min(S) \in S /\ \A y \in S : Min(S) <= y
BY LeastExists DEF Min

-----------------------------------------------------------------------------
(* The calendar.                                                           *)
LEMMA DaysTable ==
  \A m \in 1..12 : DAYS[m] \in {28, 30, 31} /\ (m = 2 <=> DAYS[m] = 28)
BY DEF DAYS

LEMMA MonthLength ==
  ASSUME NEW y \in Nat \ {0}, NEW m \in 1..12
  PROVE  DaysIn(y, m) \in 28..31 /\ DaysIn(y, m) \in Lengths(m)
<1>1. DAYS[m] \in {28, 30, 31} /\ (m = 2 <=> DAYS[m] = 28)
  BY DaysTable
<1>2. CASE m = 2 /\ is_leap(y)
  BY <1>1, <1>2 DEF DaysIn, Lengths
<1>3. CASE ~(m = 2 /\ is_leap(y))
  BY <1>1, <1>3 DEF DaysIn, Lengths
<1>4. QED BY <1>2, <1>3

(* Months are numbered through the years.                                  *)
MonthNo(d) == 12 * d.year + d.month
Time(d) == 60 * d.hour + d.minute
Length(d) == DaysIn(d.year, d.month)

LEMMA PlaceOfMonths ==
  \A y, z \in Nat, m, k \in 1..12 : 12 * y + m = 12 * z + k => y = z /\ m = k
OBVIOUS

LEMMA StampNumbers ==
  ASSUME NEW y \in Nat, NEW m \in Nat, NEW d \in Nat, NEW h \in Nat, NEW mi \in Nat
  PROVE  /\ 12 * y + m \in Nat /\ 60 * h + mi \in Nat
         /\ (((y * 12 + m) * 31 + d) * 24 + h) * 60 + mi \in Nat
OBVIOUS

LEMMA DateFields ==
  ASSUME NEW d, ValidDate(d)
  PROVE  /\ d.year \in Nat \ {0} /\ d.month \in 1..12 /\ d.day \in 1..31
         /\ d.hour \in 0..23 /\ d.minute \in 0..59
         /\ Length(d) \in 28..31 /\ Length(d) \in Lengths(d.month) /\ d.day <= Length(d)
         /\ MonthNo(d) \in Nat /\ Time(d) \in Nat /\ Stamp(d) \in Nat
<1>1. /\ d.year \in Nat \ {0} /\ d.month \in 1..12 /\ d.day \in 1..31
      /\ d.hour \in 0..23 /\ d.minute \in 0..59 /\ d.day <= Length(d)
  BY DEF ValidDate, Length
<1>2. Length(d) \in 28..31 /\ Length(d) \in Lengths(d.month)
  BY <1>1, MonthLength DEF Length
<1>3. /\ d.year \in Nat /\ d.month \in Nat /\ d.day \in Nat
      /\ d.hour \in Nat /\ d.minute \in Nat
  BY <1>1
<1>4. MonthNo(d) \in Nat /\ Time(d) \in Nat /\ Stamp(d) \in Nat
  BY <1>3, StampNumbers DEF MonthNo, Time, Stamp
<1>5. QED BY <1>1, <1>2, <1>4

LEMMA SameMonth ==
  ASSUME NEW d, NEW t, ValidDate(d), ValidDate(t), MonthNo(d) = MonthNo(t)
  PROVE  d.year = t.year /\ d.month = t.month /\ Length(d) = Length(t)
<1>1. d.year \in Nat /\ t.year \in Nat /\ d.month \in 1..12 /\ t.month \in 1..12
  BY DateFields
<1>2. d.year = t.year /\ d.month = t.month
  BY <1>1, PlaceOfMonths DEF MonthNo
<1>3. QED BY <1>2 DEF Length

(* A stamp counts minutes, with months of 31 days: it orders dates by      *)
(* month, day and time.                                                    *)
LEMMA StampOfDate ==
  ASSUME NEW d, ValidDate(d)
  PROVE  /\ Stamp(d) = 1440 * (31 * MonthNo(d) + d.day) + Time(d)
         /\ Time(d) \in 0..1439 /\ 31 * MonthNo(d) + d.day \in Nat
<1>1. /\ d.year \in Nat /\ d.month \in Nat /\ d.day \in Nat
      /\ d.hour \in 0..23 /\ d.minute \in 0..59
  BY DateFields
<1>2. Time(d) \in 0..1439
  BY <1>1 DEF Time
<1>3. d.hour \in Nat /\ d.minute \in Nat
  BY <1>1
<1>4. Stamp(d) = 1440 * (31 * MonthNo(d) + d.day) + Time(d)
  <2>1. /\ d.year \in Nat /\ d.month \in Nat /\ d.day \in Nat
        /\ d.hour \in Nat /\ d.minute \in Nat
    BY <1>1, <1>3
  <2>2. QED BY <2>1 DEF Stamp, MonthNo, Time
<1>5. 31 * MonthNo(d) + d.day \in Nat
  <2>1. MonthNo(d) \in Nat
    BY DateFields
  <2>2. QED BY <1>1, <2>1
<1>6. QED BY <1>2, <1>4, <1>5

LEMMA StampOrder ==
  ASSUME NEW d, NEW t, ValidDate(d), ValidDate(t)
  PROVE  Stamp(d) < Stamp(t) <=>
           \/ MonthNo(d) < MonthNo(t)
           \/ MonthNo(d) = MonthNo(t) /\ d.day < t.day
           \/ MonthNo(d) = MonthNo(t) /\ d.day = t.day /\ Time(d) < Time(t)
<1> DEFINE ddays == 31 * MonthNo(d) + d.day
           tdays == 31 * MonthNo(t) + t.day
           dtime == Time(d)
           ttime == Time(t)
<1>1. d.day \in 1..31 /\ MonthNo(d) \in Nat /\ t.day \in 1..31 /\ MonthNo(t) \in Nat
  BY DateFields
<1>2. ddays < tdays <=> MonthNo(d) < MonthNo(t) \/ (MonthNo(d) = MonthNo(t) /\ d.day < t.day)
  BY <1>1
<1>3. ddays = tdays <=> MonthNo(d) = MonthNo(t) /\ d.day = t.day
  BY <1>1
<1>4. /\ ddays \in Nat /\ tdays \in Nat /\ dtime \in 0..1439 /\ ttime \in 0..1439
      /\ Stamp(d) = 1440 * ddays + dtime /\ Stamp(t) = 1440 * tdays + ttime
  BY StampOfDate
<1> HIDE DEF ddays, tdays, dtime, ttime
<1>5. Stamp(d) < Stamp(t) <=> ddays < tdays \/ (ddays = tdays /\ dtime < ttime)
  BY <1>4
<1>6. QED BY <1>2, <1>3, <1>5 DEF dtime, ttime

LEMMA TimeOrder ==
  ASSUME NEW d, NEW t, ValidDate(d), ValidDate(t)
  PROVE  /\ Time(d) < Time(t) <=> d.hour < t.hour \/ (d.hour = t.hour /\ d.minute < t.minute)
         /\ Time(d) <= Time(t) <=> d.hour < t.hour \/ (d.hour = t.hour /\ d.minute <= t.minute)
<1> DEFINE h == d.hour
           mi == d.minute
           g == t.hour
           k == t.minute
<1>1. h \in 0..23 /\ mi \in 0..59 /\ g \in 0..23 /\ k \in 0..59
  BY DateFields
<1>2. Time(d) = 60 * h + mi /\ Time(t) = 60 * g + k
  BY DEF Time
<1> HIDE DEF h, mi, g, k
<1>3. /\ 60 * h + mi < 60 * g + k <=> h < g \/ (h = g /\ mi < k)
      /\ 60 * h + mi <= 60 * g + k <=> h < g \/ (h = g /\ mi <= k)
  BY <1>1
<1>4. QED BY <1>2, <1>3 DEF h, mi, g, k

(* A date that lies from d on and before e is on one of d's days to e's.   *)
LEMMA DaysBetween ==
  ASSUME NEW d, NEW t, NEW e, ValidDate(d), ValidDate(t), ValidDate(e),
         Stamp(d) <= Stamp(t), Stamp(t) < Stamp(e), Time(e) = 0
  PROVE  /\ MonthNo(d) < MonthNo(t) \/ (MonthNo(d) = MonthNo(t) /\ d.day <= t.day)
         /\ MonthNo(t) < MonthNo(e) \/ (MonthNo(t) = MonthNo(e) /\ t.day < e.day)
<1>1. /\ d.day \in Nat /\ MonthNo(d) \in Nat /\ t.day \in Nat /\ MonthNo(t) \in Nat
      /\ e.day \in Nat /\ MonthNo(e) \in Nat /\ Time(t) \in Nat
      /\ Stamp(d) \in Nat /\ Stamp(t) \in Nat
  BY DateFields
<1>2. ~(Stamp(t) < Stamp(d))
  BY <1>1
<1>3. MonthNo(d) < MonthNo(t) \/ (MonthNo(d) = MonthNo(t) /\ d.day <= t.day)
  BY <1>1, <1>2, StampOrder
<1>4. ~(Time(t) < Time(e))
  BY <1>1
<1>5. MonthNo(t) < MonthNo(e) \/ (MonthNo(t) = MonthNo(e) /\ t.day < e.day)
  BY <1>1, <1>4, StampOrder
<1>6. QED BY <1>3, <1>5

-----------------------------------------------------------------------------
(* How far a field is from its next value, and what lies on the way.       *)
LEMMA NearestPasses ==
  ASSUME NEW range \in Nat, NEW V \in SUBSET Nat, V # {}, L \notin V, NEW x \in Nat,
         \A v, w \in V \cup {x} : v < w + range
  PROVE  LET n == Nearest(x, V, range)
         IN /\ n \in Nat /\ n < range
            /\ n = 0 <=> x \in V
            /\ \A v \in V : ~(x <= v /\ v < x + n) /\ ~(v + range < x + n)
<1> DEFINE ahead == {v \in V \ {L} : v >= x}
           n == Nearest(x, V, range)
<1>1. ASSUME ahead # {}
      PROVE  Min(ahead) \in V /\ x <= Min(ahead) /\ \A v \in V : v >= x => Min(ahead) <= v
  <2>1. ahead \in SUBSET Nat
    OBVIOUS
  <2>2. Min(ahead) \in ahead /\ \A v \in ahead : Min(ahead) <= v
    <3> HIDE DEF ahead
    <3>1. QED BY <1>1, <2>1, MinIsLeast
  <2>3. \A v \in V : v >= x <=> v \in ahead
    OBVIOUS
  <2>4. Min(ahead) \in V /\ Min(ahead) >= x
    BY <2>2
  <2>5. Min(ahead) \in Nat
    BY <2>4
  <2> HIDE DEF ahead
  <2>6. QED BY <2>2, <2>3, <2>4, <2>5
<1>2. Min(V) \in V /\ \A v \in V : Min(V) <= v
  BY MinIsLeast
<1>3. n = IF ahead # {} THEN Min(ahead) - x ELSE Min(V) - x + range
  BY DEF Nearest
<1>4. CASE ahead # {}
  <2> DEFINE a == Min(ahead)
  <2>1. a \in Nat /\ x <= a /\ n = a - x /\ a \in V
    BY <1>1, <1>3, <1>4
  <2>2. \A v \in V : v >= x => a <= v
    BY <1>1, <1>4
  <2>3. a < x + range /\ \A v \in V : a < v + range
    BY <2>1
  <2> HIDE DEF a, n, ahead
  <2>4. n \in Nat /\ n < range /\ x + n = a
    BY <2>1, <2>3
  <2>5. n = 0 <=> x \in V
    BY <2>1, <2>2, <2>4
  <2>6. \A v \in V : ~(x <= v /\ v < x + n) /\ ~(v + range < x + n)
    BY <2>1, <2>2, <2>3, <2>4
  <2>7. QED BY <2>4, <2>5, <2>6 DEF n
<1>5. CASE ahead = {}
  <2> DEFINE a == Min(V)
  <2>1. \A v \in V : ~(v >= x)
    BY <1>5
  <2>2. a \in Nat /\ n = a - x + range /\ a \in V
    BY <1>2, <1>3, <1>5
  <2>3. x < a + range /\ a < x /\ \A v \in V : a <= v
    <3>1. a \in V /\ a \in Nat /\ \A v \in V : a <= v
      BY <1>2
    <3> HIDE DEF a
    <3>2. x < a + range
      BY <3>1
    <3>3. a < x
      BY <2>1, <3>1
    <3>4. QED BY <3>1, <3>2, <3>3
  <2> HIDE DEF a, n, ahead
  <2>4. n \in Nat /\ n < range /\ x + n = a + range /\ n # 0
    <3>1. x < a + range /\ a < x /\ a \in Nat
      BY <2>2, <2>3
    <3>2. QED BY <2>2, <3>1
  <2>5. x \notin V
    BY <2>1
  <2>6. \A v \in V : ~(x <= v /\ v < x + n) /\ ~(v + range < x + n)
    BY <2>1, <2>2, <2>3, <2>4
  <2>7. QED BY <2>4, <2>5, <2>6 DEF n
<1>6. QED BY <1>4, <1>5

-----------------------------------------------------------------------------
(* Moving a date.                                                          *)
LEMMA DateParts ==
  ASSUME NEW y, NEW m, NEW d, NEW h, NEW mi
  PROVE  /\ Date(y, m, d, h, mi).year = y /\ Date(y, m, d, h, mi).month = m
         /\ Date(y, m, d, h, mi).day = d
         /\ Date(y, m, d, h, mi).hour = h /\ Date(y, m, d, h, mi).minute = mi
BY DEF Date

LEMMA CarryMonthShape ==
  ASSUME NEW y \in Nat \ {0}, NEW m \in 1..24, NEW d, NEW h, NEW mi
  PROVE  LET x == Date(y, m, d, h, mi)
             e == CarryMonth(x)
         IN /\ e.year \in Nat \ {0} /\ e.month \in 1..12 /\ MonthNo(e) = MonthNo(x)
            /\ e = Date(e.year, e.month, d, h, mi)
<1> DEFINE x == Date(y, m, d, h, mi)
<1>1. CASE m > 12
  <2>1. CarryMonth(x)
          = [year |-> y + 1, month |-> m - 12, day |-> d, hour |-> h, minute |-> mi]
    BY <1>1 DEF CarryMonth, Date
  <2>2. 12 * (y + 1) + (m - 12) = 12 * y + m
    OBVIOUS
  <2>3. QED BY <1>1, <2>1, <2>2 DEF MonthNo, Date
<1>2. CASE ~(m > 12)
  BY <1>2 DEF CarryMonth, MonthNo, Date
<1>3. QED BY <1>1, <1>2

(* A date whose day may lie past the end of its month.                     *)
LooseDates ==
  [year : Nat \ {0}, month : 1..12, day : Nat \ {0}, hour : 0..23, minute : 0..59]

LEMMA LooseFields ==
  ASSUME NEW x \in LooseDates
  PROVE  /\ x.year \in Nat \ {0} /\ x.month \in 1..12 /\ x.day \in Nat \ {0}
         /\ x.hour \in 0..23 /\ x.minute \in 0..59
         /\ x = Date(x.year, x.month, x.day, x.hour, x.minute)
         /\ Length(x) \in 28..31 /\ MonthNo(x) \in Nat
<1>1. /\ x.year \in Nat \ {0} /\ x.month \in 1..12 /\ x.day \in Nat \ {0}
      /\ x.hour \in 0..23 /\ x.minute \in 0..59
      /\ x = Date(x.year, x.month, x.day, x.hour, x.minute)
  BY DEF LooseDates, Date
<1>2. Length(x) \in 28..31
  BY <1>1, MonthLength DEF Length
<1>3. MonthNo(x) \in Nat
  <2>1. x.year \in Nat /\ x.month \in Nat
    BY <1>1
  <2>2. QED BY <2>1 DEF MonthNo
<1>4. QED BY <1>1, <1>2, <1>3

LEMMA ValidIsLoose ==
  \A x : ValidDate(x) <=> x \in LooseDates /\ x.day <= Length(x)
<1> SUFFICES ASSUME NEW x PROVE ValidDate(x) <=> x \in LooseDates /\ x.day <= Length(x)
  OBVIOUS
<1>1. ASSUME ValidDate(x) PROVE x \in LooseDates /\ x.day <= Length(x)
  BY <1>1 DEF ValidDate, LooseDates, Length
<1>2. ASSUME x \in LooseDates, x.day <= Length(x) PROVE ValidDate(x)
  <2>1. x.day \in 1..31
    BY <1>2, LooseFields
  <2>2. QED BY <1>2, <2>1 DEF ValidDate, LooseDates, Length
<1>3. QED BY <1>1, <1>2

LEMMA CarryDayShape ==
  ASSUME NEW x \in LooseDates, NEW e, e = CarryDay(x)
  PROVE  /\ e \in LooseDates /\ e.hour = x.hour /\ e.minute = x.minute
         /\ x.day <= Length(x) => e = x
         /\ x.day > Length(x) =>
              /\ MonthNo(e) = MonthNo(x) + 1 /\ e.day = x.day - Length(x)
<1>1. /\ x.year \in Nat \ {0} /\ x.month \in 1..12 /\ x.day \in Nat \ {0}
      /\ x.hour \in 0..23 /\ x.minute \in 0..59
      /\ Length(x) \in 28..31 /\ MonthNo(x) \in Nat
  BY LooseFields
<1>2. CASE x.day <= Length(x)
  <2>1. ~(x.day > Length(x))
    BY <1>1, <1>2
  <2>2. e = x
    BY <2>1 DEF CarryDay, Length
  <2>3. QED BY <1>2, <2>1, <2>2
<1>3. CASE x.day > Length(x)
  <2> DEFINE day == x.day - Length(x)
             z == Date(x.year, x.month + 1, day, x.hour, x.minute)
  <2>1. day \in Nat \ {0} /\ x.month + 1 \in 1..24
    BY <1>1, <1>3
  <2>2. e = CarryMonth(z)
    BY <1>3 DEF CarryDay, Length
  <2> HIDE DEF day
  <2>3. /\ e.year \in Nat \ {0} /\ e.month \in 1..12 /\ MonthNo(e) = MonthNo(z)
        /\ e = Date(e.year, e.month, day, x.hour, x.minute)
    BY <1>1, <2>1, <2>2, CarryMonthShape
  <2>4. MonthNo(z) = MonthNo(x) + 1
    BY <1>1 DEF MonthNo, Date
  <2> HIDE DEF z
  <2>5. e \in LooseDates /\ e.day = day /\ e.hour = x.hour /\ e.minute = x.minute
    BY <1>1, <2>1, <2>3 DEF LooseDates, Date
  <2>6. ~(x.day <= Length(x))
    BY <1>1, <1>3
  <2>7. QED BY <2>3, <2>4, <2>5, <2>6 DEF day
<1>4. QED BY <1>1, <1>2, <1>3

LEMMA AddMonthsShape ==
  ASSUME NEW d, ValidDate(d), NEW n \in 1..12, NEW e, e = AddMonths(d, n)
  PROVE  ValidDate(e) /\ MonthNo(e) = MonthNo(d) + n /\ e.day = 1 /\ Time(e) = 0
<1> DEFINE z == Date(d.year, d.month + n, 1, 0, 0)
<1>1. d.year \in Nat \ {0} /\ d.month \in 1..12 /\ d.month + n \in 1..24
  BY DateFields
<1>2. e = CarryMonth(z)
  BY DEF AddMonths
<1>3. /\ e.year \in Nat \ {0} /\ e.month \in 1..12 /\ MonthNo(e) = MonthNo(z)
      /\ e = Date(e.year, e.month, 1, 0, 0)
  <2> DEFINE y == d.year
             m == d.month + n
             f == CarryMonth(Date(y, m, 1, 0, 0))
  <2>1. y \in Nat \ {0} /\ m \in 1..24
    BY <1>1
  <2> HIDE DEF y, m
  <2>2. /\ f.year \in Nat \ {0} /\ f.month \in 1..12 /\ MonthNo(f) = MonthNo(Date(y, m, 1, 0, 0))
        /\ f = Date(f.year, f.month, 1, 0, 0)
    BY <2>1, CarryMonthShape
  <2> HIDE DEF f
  <2>3. QED BY <1>2, <2>2 DEF y, m, f
<1>4. MonthNo(z) = MonthNo(d) + n
  BY <1>1 DEF MonthNo, Date
<1> HIDE DEF z
<1>5. e \in LooseDates /\ e.day = 1 /\ e.hour = 0 /\ e.minute = 0
  BY <1>3 DEF LooseDates, Date
<1>6. Length(e) \in 28..31
  BY <1>5, LooseFields
<1>7. ValidDate(e)
  BY <1>5, <1>6, ValidIsLoose
<1>8. QED BY <1>3, <1>4, <1>5, <1>7 DEF Time

LEMMA SameLength ==
  ASSUME NEW x \in LooseDates, NEW t \in LooseDates, MonthNo(x) = MonthNo(t)
  PROVE  x.month = t.month /\ Length(x) = Length(t)
<1>1. x.year \in Nat /\ t.year \in Nat /\ x.month \in 1..12 /\ t.month \in 1..12
  BY LooseFields
<1>2. x.year = t.year /\ x.month = t.month
  BY <1>1, PlaceOfMonths DEF MonthNo
<1>3. QED BY <1>2 DEF Length

(* Days added to a date reach into the same month, the next one or, past   *)
(* the whole of that, into the third.                                      *)
LEMMA AddDaysShape ==
  ASSUME NEW d, ValidDate(d), NEW n \in Nat \ {0}, d.day + n <= 62,
         NEW e, e = AddDays(d, n)
  PROVE  LET k == d.day + n - Length(d)
         IN /\ ValidDate(e) /\ Time(e) = 0
            /\ d.day + n <= Length(d) => MonthNo(e) = MonthNo(d) /\ e.day = d.day + n
            /\ d.day + n > Length(d) =>
                 \/ MonthNo(e) = MonthNo(d) + 1 /\ e.day = k
                 \/ /\ MonthNo(e) = MonthNo(d) + 2 /\ e.day < k /\ k > 28
                    /\ \A t : ValidDate(t) /\ MonthNo(t) = MonthNo(d) + 1 => Length(t) < k
<1> DEFINE x == Date(d.year, d.month, d.day + n, 0, 0)
           f == CarryDay(x)
           k == d.day + n - Length(d)
<1>1. /\ d.year \in Nat \ {0} /\ d.month \in 1..12 /\ d.day \in 1..31
      /\ Length(d) \in 28..31 /\ MonthNo(d) \in Nat
  BY DateFields
<1>2. x \in LooseDates /\ x.day = d.day + n /\ x.hour = 0 /\ x.minute = 0
  <2>1. d.day + n \in Nat \ {0}
    BY <1>1
  <2>2. QED BY <1>1, <2>1 DEF LooseDates, Date
<1>3. Length(x) = Length(d) /\ MonthNo(x) = MonthNo(d)
  BY DEF Length, MonthNo, Date
<1>4. e = CarryDay(f) /\ f = CarryDay(x)
  BY DEF AddDays
<1> HIDE DEF x, f
<1>5. /\ f \in LooseDates /\ f.hour = 0 /\ f.minute = 0
      /\ d.day + n <= Length(d) => f = x
      /\ d.day + n > Length(d) =>
           /\ MonthNo(f) = MonthNo(d) + 1 /\ f.day = k
  <2>1. /\ f \in LooseDates /\ f.hour = x.hour /\ f.minute = x.minute
        /\ x.day <= Length(x) => f = x
        /\ x.day > Length(x) =>
             /\ MonthNo(f) = MonthNo(x) + 1 /\ f.day = x.day - Length(x)
    BY <1>2, <1>4, CarryDayShape
  <2>2. k = x.day - Length(x)
    BY <1>1, <1>2, <1>3
  <2> HIDE DEF k
  <2>3. QED BY <1>2, <1>3, <2>1, <2>2
<1>6. /\ e \in LooseDates /\ e.hour = 0 /\ e.minute = 0
      /\ f.day <= Length(f) => e = f
      /\ f.day > Length(f) =>
           /\ MonthNo(e) = MonthNo(f) + 1 /\ e.day = f.day - Length(f)
  BY <1>4, <1>5, CarryDayShape
<1>7. /\ Time(e) = 0 /\ Length(e) \in 28..31 /\ Length(f) \in 28..31
      /\ f.day \in Nat \ {0}
  <2>1. Time(e) = 0
    BY <1>6 DEF Time
  <2>2. QED BY <1>5, <1>6, <2>1, LooseFields
<1>8. CASE d.day + n <= Length(d)
  <2>1. e = x
    BY <1>2, <1>3, <1>5, <1>6, <1>8
  <2>2. ValidDate(e)
    BY <1>2, <1>3, <1>8, <2>1, ValidIsLoose
  <2>3. ~(d.day + n > Length(d))
    BY <1>1, <1>8
  <2>4. QED BY <1>2, <1>3, <1>7, <2>1, <2>2, <2>3, SMTT(30)
<1>9. CASE d.day + n > Length(d)
  <2>1. MonthNo(f) = MonthNo(d) + 1 /\ f.day = k
    BY <1>5, <1>9
  <2>2. k \in 1..34 /\ ~(d.day + n <= Length(d))
    BY <1>1, <1>9, SMTT(30)
  <2> HIDE DEF k
  <2>3. CASE f.day <= Length(f)
    <3>1. e = f
      BY <1>6, <2>3
    <3>2. ValidDate(e)
      BY <1>6, <2>3, <3>1, ValidIsLoose
    <3>3. QED BY <1>7, <2>1, <2>2, <3>1, <3>2 DEF k
  <2>4. CASE f.day > Length(f)
    <3>1. MonthNo(e) = MonthNo(d) + 2 /\ e.day = k - Length(f)
      BY <1>1, <1>6, <2>1, <2>4
    <3>2. e.day <= Length(e) /\ e.day < k /\ k > 28
      BY <1>7, <2>1, <2>2, <2>4, <3>1
    <3>3. ValidDate(e)
      BY <1>6, <3>2, ValidIsLoose
    <3>4. ASSUME NEW t, ValidDate(t), MonthNo(t) = MonthNo(d) + 1
          PROVE  Length(t) < k
      <4>1. Length(f) = Length(t)
        BY <1>5, <2>1, <3>4, SameLength, ValidIsLoose
      <4>2. QED BY <2>1, <2>4, <4>1, <1>7
    <3>5. QED BY <1>7, <2>2, <3>1, <3>2, <3>3, <3>4 DEF k
  <2>5. QED BY <1>7, <2>1, <2>2, <2>3, <2>4
<1>10. QED BY <1>1, <1>8, <1>9

(* The ordinal of a date, from that of another of its month or the month   *)
(* before.                                                                 *)
LEMMA OrdinalOfMonth ==
  ASSUME NEW d, NEW t, ValidDate(d), ValidDate(t), MonthNo(t) = MonthNo(d)
  PROVE  Ordinal(d) \in Int /\ Ordinal(t) = Ordinal(d) + t.day - d.day
<1>1. d.month = t.month /\ d.year = t.year
  BY SameMonth
<1>2. /\ d.year \in Nat \ {0} /\ d.day \in Nat /\ t.day \in Nat
      /\ BEFORE[d.month] \in Nat
  <2>1. \A m \in 1..12 : BEFORE[m] \in Nat
    BY DEF BEFORE
  <2>2. QED BY <2>1, DateFields
<1>3. QED BY <1>1, <1>2 DEF Ordinal, DayOfYear

LEMMA LeapDays ==
  ASSUME NEW y \in Nat \ {0}
  PROVE  365 * y + y \div 4 - y \div 100 + y \div 400
           = 365 * (y - 1) + (y - 1) \div 4 - (y - 1) \div 100 + (y - 1) \div 400
               + (IF is_leap(y) THEN 366 ELSE 365)
BY DEF is_leap

LEMMA OrdinalOfNextMonth ==
  ASSUME NEW d, NEW t, ValidDate(d), ValidDate(t), MonthNo(t) = MonthNo(d) + 1
  PROVE  Ordinal(d) \in Int /\ Ordinal(t) = Ordinal(d) + Length(d) - d.day + t.day
<1>1. /\ d.year \in Nat \ {0} /\ d.month \in 1..12 /\ d.day \in Nat
      /\ t.year \in Nat \ {0} /\ t.month \in 1..12 /\ t.day \in Nat
  BY DateFields
<1>2. Ordinal(d) \in Int
  BY OrdinalOfMonth
<1>3. CASE d.month < 12
  <2>1. t.month = d.month + 1 /\ t.year = d.year
    <3>1. 12 * t.year + t.month = 12 * d.year + (d.month + 1) /\ d.month + 1 \in 1..12
      BY <1>1, <1>3 DEF MonthNo
    <3>2. QED BY <1>1, <3>1, PlaceOfMonths
  <2>2. \A m \in 1..11 : BEFORE[m + 1] = BEFORE[m] + DAYS[m] /\ BEFORE[m] \in Nat /\ DAYS[m] \in Nat
    BY DEF BEFORE, DAYS
  <2>3. d.month \in 1..11
    BY <1>1, <1>3
  <2> DEFINE l == is_leap(d.year)
             m == d.month
             b == BEFORE[m]
             g == DAYS[m]
             y == d.year - 1
             o == 365 * y + y \div 4 - y \div 100 + y \div 400
  <2>4. /\ Ordinal(d) = o + (b + d.day + (IF m > 2 /\ l THEN 1 ELSE 0))
        /\ Ordinal(t) = o + (b + g + t.day + (IF m + 1 > 2 /\ l THEN 1 ELSE 0))
        /\ Length(d) = g + (IF m = 2 /\ l THEN 1 ELSE 0)
    BY <2>1, <2>2, <2>3 DEF Ordinal, DayOfYear, Length, DaysIn
  <2>5. b \in Nat /\ g \in Nat /\ o \in Int /\ m \in 1..11
    BY <1>1, <2>2, <2>3
  <2> HIDE DEF l, m, b, g, o
  <2>6. QED BY <1>1, <1>2, <2>4, <2>5
<1>4. CASE d.month = 12
  <2>1. t.month = 1 /\ t.year = d.year + 1
    <3>1. 12 * t.year + t.month = 12 * (d.year + 1) + 1 /\ d.year + 1 \in Nat
      BY <1>1, <1>4 DEF MonthNo
    <3>2. QED BY <1>1, <3>1, PlaceOfMonths
  <2>2. BEFORE[12] = 334 /\ BEFORE[1] = 0 /\ DAYS[12] = 31
    BY DEF BEFORE, DAYS
  <2> DEFINE z == d.year
             l == is_leap(z)
             o == 365 * (z - 1) + (z - 1) \div 4 - (z - 1) \div 100 + (z - 1) \div 400
             p == 365 * z + z \div 4 - z \div 100 + z \div 400
  <2>3. /\ Ordinal(d) = o + (334 + d.day + (IF l THEN 1 ELSE 0))
        /\ Length(d) = 31
    BY <1>4, <2>2 DEF Ordinal, DayOfYear, Length, DaysIn
  <2>4. Ordinal(t) = p + t.day
    <3>1. t.year - 1 = z
      BY <1>1, <2>1
    <3>2. QED BY <1>1, <2>1, <2>2, <3>1 DEF Ordinal, DayOfYear
  <2>5. p = o + (IF l THEN 366 ELSE 365)
    <3>1. z \in Nat \ {0}
      BY <1>1
    <3> HIDE DEF z
    <3>2. QED BY <3>1, LeapDays, ZenonT(60)
  <2>6. o \in Int
    BY <1>1
  <2> HIDE DEF l, o, p
  <2>7. QED BY <1>1, <1>2, <2>3, <2>4, <2>5, <2>6
<1>5. QED BY <1>1, <1>3, <1>4

(* A date between two of the same day.                                     *)
LEMMA SameDay ==
  ASSUME NEW d, NEW t, NEW e, ValidDate(d), ValidDate(t), ValidDate(e),
         MonthNo(d) = MonthNo(e), d.day = e.day,
         Stamp(d) <= Stamp(t), Stamp(t) < Stamp(e)
  PROVE  MonthNo(t) = MonthNo(d) /\ t.day = d.day /\ Time(d) <= Time(t) /\ Time(t) < Time(e)
<1>1. /\ d.day \in Nat /\ MonthNo(d) \in Nat /\ t.day \in Nat /\ MonthNo(t) \in Nat
      /\ Time(t) \in Nat /\ Time(d) \in Nat /\ Time(e) \in Nat
      /\ Stamp(d) \in Nat /\ Stamp(t) \in Nat
  BY DateFields
<1>2. ~(Stamp(t) < Stamp(d))
  BY <1>1
<1>3. /\ ~(MonthNo(t) < MonthNo(d))
      /\ ~(MonthNo(t) = MonthNo(d) /\ t.day < d.day)
      /\ ~(MonthNo(t) = MonthNo(d) /\ t.day = d.day /\ Time(t) < Time(d))
  BY <1>2, StampOrder
<1>4. \/ MonthNo(t) < MonthNo(d)
      \/ MonthNo(t) = MonthNo(d) /\ t.day < d.day
      \/ MonthNo(t) = MonthNo(d) /\ t.day = d.day /\ Time(t) < Time(e)
  BY StampOrder
<1>5. QED BY <1>1, <1>3, <1>4

(* Setting the minute of a date.                                           *)
LEMMA MinuteSet ==
  ASSUME NEW x, ValidDate(x), NEW mi \in 0..59, NEW e, e = [x EXCEPT !.minute = mi]
  PROVE  /\ ValidDate(e) /\ MonthNo(e) = MonthNo(x) /\ e.day = x.day
         /\ e.hour = x.hour /\ e.minute = mi
<1>1. x \in LooseDates /\ x.day <= Length(x)
  BY ValidIsLoose
<1>2. /\ e \in LooseDates /\ e.year = x.year /\ e.month = x.month /\ e.day = x.day
      /\ e.hour = x.hour /\ e.minute = mi
  BY <1>1 DEF LooseDates
<1>3. ValidDate(e)
  BY <1>1, <1>2, ValidIsLoose DEF Length
<1>4. QED BY <1>2, <1>3 DEF MonthNo

(* The next midnight.                                                      *)
LEMMA NextDay ==
  ASSUME NEW d, ValidDate(d), NEW x, x = AddDays(d, 1)
  PROVE  /\ ValidDate(x) /\ Time(x) = 0 /\ Stamp(d) < Stamp(x)
         /\ \A t : ValidDate(t) /\ Stamp(d) <= Stamp(t) /\ Stamp(t) < Stamp(x) =>
               MonthNo(t) = MonthNo(d) /\ t.day = d.day /\ Time(d) <= Time(t)
<1>1. /\ d.day \in 1..31 /\ Length(d) \in 28..31 /\ d.day <= Length(d)
      /\ MonthNo(d) \in Nat /\ Time(d) \in Nat /\ Stamp(d) \in Nat
  BY DateFields
<1>2. 1 \in Nat \ {0} /\ d.day + 1 <= 62
  BY <1>1
<1> DEFINE k == d.day + 1 - Length(d)
<1>3. /\ ValidDate(x) /\ Time(x) = 0
      /\ d.day + 1 <= Length(d) => MonthNo(x) = MonthNo(d) /\ x.day = d.day + 1
      /\ d.day + 1 > Length(d) =>
           \/ MonthNo(x) = MonthNo(d) + 1 /\ x.day = k
           \/ k > 28
  BY <1>2, AddDaysShape
<1>4. k <= 1
  BY <1>1
<1> HIDE DEF k
<1>5. \/ MonthNo(x) = MonthNo(d) /\ x.day = d.day + 1
      \/ MonthNo(x) = MonthNo(d) + 1 /\ x.day <= 1 /\ d.day = Length(d)
  <2>1. k \in Int
    BY <1>1 DEF k
  <2>2. ~(k > 28)
    BY <1>4, <2>1
  <2>3. d.day + 1 > Length(d) => d.day = Length(d)
    BY <1>1
  <2>4. d.day + 1 <= Length(d) \/ d.day + 1 > Length(d)
    BY <1>1
  <2>5. QED BY <1>3, <1>4, <2>2, <2>3, <2>4
<1>6. Stamp(d) < Stamp(x)
  <2>1. MonthNo(d) < MonthNo(x) \/ (MonthNo(d) = MonthNo(x) /\ d.day < x.day)
    BY <1>1, <1>5
  <2>2. QED BY <1>3, <2>1, StampOrder
<1>7. ASSUME NEW t, ValidDate(t), Stamp(d) <= Stamp(t), Stamp(t) < Stamp(x)
      PROVE  MonthNo(t) = MonthNo(d) /\ t.day = d.day /\ Time(d) <= Time(t)
  <2>1. /\ t.day \in 1..31 /\ MonthNo(t) \in Nat /\ t.day <= Length(t)
        /\ Time(t) \in Nat /\ Stamp(t) \in Nat /\ Length(t) \in 28..31
        /\ x.day \in Nat /\ MonthNo(x) \in Nat
    BY <1>3, <1>7, DateFields
  <2>2. /\ MonthNo(d) < MonthNo(t) \/ (MonthNo(d) = MonthNo(t) /\ d.day <= t.day)
        /\ MonthNo(t) < MonthNo(x) \/ (MonthNo(t) = MonthNo(x) /\ t.day < x.day)
    BY <1>3, <1>7, DaysBetween
  <2>3. MonthNo(t) = MonthNo(d)
    BY <1>1, <1>5, <2>1, <2>2
  <2>4. Length(t) = Length(d)
    BY <1>7, <2>3, SameMonth
  <2>5. t.day = d.day
    BY <1>1, <1>5, <2>1, <2>2, <2>3, <2>4
  <2>6. ~(Stamp(t) < Stamp(d))
    BY <1>1, <1>7, <2>1
  <2>7. ~(Time(t) < Time(d))
    BY <1>7, <2>3, <2>5, <2>6, StampOrder
  <2>8. QED BY <1>1, <2>1, <2>3, <2>5, <2>7
<1>8. QED BY <1>3, <1>6, <1>7

(* The dates up to n hours ahead have these hours.                         *)
LEMMA HoursBetween ==
  ASSUME NEW d, ValidDate(d), NEW n \in 1..24, NEW e, e = AddHours(d, n)
  PROVE  /\ ValidDate(e) /\ e.minute = 0 /\ Stamp(d) < Stamp(e)
         /\ \A t : ValidDate(t) /\ Stamp(d) <= Stamp(t) /\ Stamp(t) < Stamp(e) =>
              \/ /\ MonthNo(t) = MonthNo(d) /\ t.day = d.day /\ Time(d) <= Time(t)
                 /\ d.hour <= t.hour /\ t.hour < d.hour + n
              \/ t.hour + 24 < d.hour + n
<1>1. /\ d.year \in Nat \ {0} /\ d.month \in 1..12 /\ d.day \in 1..31 /\ d.day <= Length(d)
      /\ d.hour \in 0..23 /\ d.minute \in 0..59
      /\ MonthNo(d) \in Nat /\ Time(d) \in Nat /\ Stamp(d) \in Nat
  BY DateFields
<1>3. CASE d.hour + n < 24
  <2>1. e = Date(d.year, d.month, d.day, d.hour + n, 0) /\ d.hour + n \in 0..23
    BY <1>1, <1>3 DEF AddHours
  <2>2. /\ e \in LooseDates /\ e.year = d.year /\ e.month = d.month /\ e.day = d.day
        /\ e.hour = d.hour + n /\ e.minute = 0
    BY <1>1, <2>1 DEF LooseDates, Date
  <2>3. ValidDate(e) /\ MonthNo(e) = MonthNo(d)
    BY <1>1, <2>2, ValidIsLoose DEF Length, MonthNo
  <2>4. d.hour < e.hour
    BY <1>1, <2>2
  <2>5. Time(d) < Time(e)
    BY <2>3, <2>4, TimeOrder
  <2>6. Stamp(d) < Stamp(e)
    BY <2>2, <2>3, <2>5, StampOrder
  <2>7. ASSUME NEW t, ValidDate(t), Stamp(d) <= Stamp(t), Stamp(t) < Stamp(e)
        PROVE  /\ MonthNo(t) = MonthNo(d) /\ t.day = d.day /\ Time(d) <= Time(t)
               /\ d.hour <= t.hour /\ t.hour < d.hour + n
    <3>1. /\ MonthNo(t) = MonthNo(d) /\ t.day = d.day
          /\ Time(d) <= Time(t) /\ Time(t) < Time(e)
      BY <2>2, <2>3, <2>7, SameDay
    <3>2. t.hour \in 0..23 /\ t.minute \in 0..59
      BY <2>7, DateFields
    <3>3. /\ d.hour < t.hour \/ (d.hour = t.hour /\ d.minute <= t.minute)
          /\ t.hour < e.hour \/ (t.hour = e.hour /\ t.minute < e.minute)
      BY <2>3, <2>7, <3>1, TimeOrder
    <3>4. d.hour <= t.hour /\ t.hour < d.hour + n
      BY <1>1, <2>2, <3>2, <3>3
    <3>5. QED BY <3>1, <3>4
  <2>8. QED BY <2>2, <2>3, <2>6, <2>7
<1>4. CASE ~(d.hour + n < 24)
  <2> DEFINE x == AddDays(d, 1)
             h == d.hour + n - 24
  <2>1. e = [x EXCEPT !.hour = h]
    BY <1>4 DEF AddHours
  <2>2. x = AddDays(d, 1) /\ h \in 0..23
    BY <1>1, <1>4
  <2> HIDE DEF x
  <2>3. /\ ValidDate(x) /\ Time(x) = 0 /\ Stamp(d) < Stamp(x)
        /\ \A t : ValidDate(t) /\ Stamp(d) <= Stamp(t) /\ Stamp(t) < Stamp(x) =>
              MonthNo(t) = MonthNo(d) /\ t.day = d.day /\ Time(d) <= Time(t)
    BY <2>2, NextDay
  <2> HIDE DEF h
  <2>4. /\ ValidDate(e) /\ MonthNo(e) = MonthNo(x) /\ e.day = x.day
        /\ e.hour = h /\ e.minute = 0
    <3>1. x \in LooseDates /\ x.day <= Length(x)
      BY <2>3, ValidIsLoose
    <3>2. x.minute = 0
      <4>1. x.hour \in 0..23 /\ x.minute \in 0..59
        BY <3>1, LooseFields
      <4>2. QED BY <2>3, <4>1 DEF Time
    <3>3. /\ e \in LooseDates /\ e.year = x.year /\ e.month = x.month /\ e.day = x.day
          /\ e.hour = h /\ e.minute = x.minute
      BY <2>1, <2>2, <3>1 DEF LooseDates
    <3>4. ValidDate(e)
      BY <3>1, <3>3, ValidIsLoose DEF Length
    <3>5. QED BY <3>2, <3>3, <3>4 DEF MonthNo
  <2>5. Stamp(x) \in Nat /\ Stamp(e) \in Nat
    BY <2>3, <2>4, DateFields
  <2>6. Stamp(d) < Stamp(e)
    <3>1. ~(Time(e) < Time(x))
      <4>1. Time(e) \in Nat
        BY <2>4, DateFields
      <4>2. QED BY <2>3, <4>1
    <3>2. ~(Stamp(e) < Stamp(x))
      <4>1. MonthNo(x) \in Nat /\ x.day \in Nat
        BY <2>3, DateFields
      <4>2. QED BY <2>3, <2>4, <3>1, <4>1, StampOrder
    <3>3. QED BY <1>1, <2>3, <2>5, <3>2
  <2>7. ASSUME NEW t, ValidDate(t), Stamp(d) <= Stamp(t), Stamp(t) < Stamp(e)
        PROVE  \/ /\ MonthNo(t) = MonthNo(d) /\ t.day = d.day /\ Time(d) <= Time(t)
                  /\ d.hour <= t.hour /\ t.hour < d.hour + n
               \/ t.hour + 24 < d.hour + n
    <3>1. t.hour \in 0..23 /\ t.minute \in 0..59 /\ Stamp(t) \in Nat
      BY <2>7, DateFields
    <3>2. CASE Stamp(t) < Stamp(x)
      <4>1. MonthNo(t) = MonthNo(d) /\ t.day = d.day /\ Time(d) <= Time(t)
        BY <2>3, <2>7, <3>2
      <4>2. d.hour < t.hour \/ (d.hour = t.hour /\ d.minute <= t.minute)
        BY <2>7, <4>1, TimeOrder
      <4>3. d.hour <= t.hour /\ t.hour < d.hour + n
        BY <1>1, <1>4, <3>1, <4>2
      <4>4. QED BY <4>1, <4>3
    <3>3. CASE ~(Stamp(t) < Stamp(x))
      <4>1. Stamp(x) <= Stamp(t)
        BY <2>5, <3>1, <3>3
      <4>2. Time(t) < Time(e)
        BY <2>3, <2>4, <2>7, <4>1, SameDay
      <4>3. t.hour < h
        <5>1. t.hour < e.hour \/ (t.hour = e.hour /\ t.minute < e.minute)
          BY <2>4, <2>7, <4>2, TimeOrder
        <5>2. QED BY <2>2, <2>4, <3>1, <5>1
      <4>4. t.hour + 24 < d.hour + n
        BY <1>1, <3>1, <4>3 DEF h
      <4>5. QED BY <4>4
    <3>4. QED BY <3>2, <3>3
  <2>8. QED BY <2>4, <2>6, <2>7
<1>5. QED BY <1>3, <1>4

(* The dates up to n minutes ahead have these minutes.                     *)
LEMMA MinutesBetween ==
  ASSUME NEW d, ValidDate(d), NEW n \in 1..60, NEW e, e = AddMinutes(d, n)
  PROVE  /\ ValidDate(e) /\ Stamp(d) < Stamp(e)
         /\ \A t : ValidDate(t) /\ Stamp(d) <= Stamp(t) /\ Stamp(t) < Stamp(e) =>
              \/ /\ MonthNo(t) = MonthNo(d) /\ t.day = d.day /\ t.hour = d.hour
                 /\ d.minute <= t.minute /\ t.minute < d.minute + n
              \/ t.minute + 60 < d.minute + n
<1>1. /\ d.day \in 1..31 /\ d.hour \in 0..23 /\ d.minute \in 0..59
      /\ MonthNo(d) \in Nat /\ Time(d) \in Nat /\ Stamp(d) \in Nat
  BY DateFields
<1>3. CASE d.minute + n < 60
  <2>1. e = [d EXCEPT !.minute = d.minute + n] /\ d.minute + n \in 0..59
    BY <1>1, <1>3 DEF AddMinutes
  <2>2. /\ ValidDate(e) /\ MonthNo(e) = MonthNo(d) /\ e.day = d.day
        /\ e.hour = d.hour /\ e.minute = d.minute + n
    BY <2>1, MinuteSet
  <2>3. Time(d) < Time(e)
    <3>1. d.minute < e.minute
      BY <1>1, <2>2
    <3>2. QED BY <2>2, <3>1, TimeOrder
  <2>4. Stamp(d) < Stamp(e)
    BY <2>2, <2>3, StampOrder
  <2>5. ASSUME NEW t, ValidDate(t), Stamp(d) <= Stamp(t), Stamp(t) < Stamp(e)
        PROVE  /\ MonthNo(t) = MonthNo(d) /\ t.day = d.day /\ t.hour = d.hour
               /\ d.minute <= t.minute /\ t.minute < d.minute + n
    <3>1. /\ MonthNo(t) = MonthNo(d) /\ t.day = d.day
          /\ Time(d) <= Time(t) /\ Time(t) < Time(e)
      BY <2>2, <2>5, SameDay
    <3>2. t.hour \in 0..23 /\ t.minute \in 0..59
      BY <2>5, DateFields
    <3>3. /\ d.hour < t.hour \/ (d.hour = t.hour /\ d.minute <= t.minute)
          /\ t.hour < e.hour \/ (t.hour = e.hour /\ t.minute < e.minute)
      BY <2>2, <2>5, <3>1, TimeOrder
    <3>4. t.hour = d.hour /\ d.minute <= t.minute /\ t.minute < d.minute + n
      BY <1>1, <2>2, <3>2, <3>3
    <3>5. QED BY <3>1, <3>4
  <2>6. QED BY <2>2, <2>4, <2>5
<1>4. CASE ~(d.minute + n < 60)
  <2> DEFINE x == AddHours(d, 1)
             mi == d.minute + n - 60
  <2>1. e = [x EXCEPT !.minute = mi]
    BY <1>4 DEF AddMinutes
  <2>2. x = AddHours(d, 1) /\ mi \in 0..59 /\ 1 \in 1..24
    BY <1>1, <1>4
  <2> HIDE DEF x
  <2>3. /\ ValidDate(x) /\ x.minute = 0 /\ Stamp(d) < Stamp(x)
        /\ \A t : ValidDate(t) /\ Stamp(d) <= Stamp(t) /\ Stamp(t) < Stamp(x) =>
              \/ /\ MonthNo(t) = MonthNo(d) /\ t.day = d.day /\ Time(d) <= Time(t)
                 /\ d.hour <= t.hour /\ t.hour < d.hour + 1
              \/ t.hour + 24 < d.hour + 1
    BY <2>2, HoursBetween
  <2> HIDE DEF mi
  <2>4. /\ ValidDate(e) /\ MonthNo(e) = MonthNo(x) /\ e.day = x.day
        /\ e.hour = x.hour /\ e.minute = mi
    BY <2>1, <2>2, <2>3, MinuteSet
  <2>5. /\ Stamp(x) \in Nat /\ Stamp(e) \in Nat /\ x.hour \in 0..23
        /\ MonthNo(x) \in Nat /\ x.day \in Nat
    BY <2>3, <2>4, DateFields
  <2>6. Stamp(d) < Stamp(e)
    <3>1. ~(Time(e) < Time(x))
      <4>1. ~(e.hour < x.hour) /\ ~(e.minute < x.minute)
        BY <2>2, <2>3, <2>4, <2>5
      <4>2. QED BY <2>3, <2>4, <4>1, TimeOrder
    <3>2. ~(Stamp(e) < Stamp(x))
      BY <2>3, <2>4, <2>5, <3>1, StampOrder
    <3>3. QED BY <1>1, <2>3, <2>5, <3>2
  <2>7. ASSUME NEW t, ValidDate(t), Stamp(d) <= Stamp(t), Stamp(t) < Stamp(e)
        PROVE  \/ /\ MonthNo(t) = MonthNo(d) /\ t.day = d.day /\ t.hour = d.hour
                  /\ d.minute <= t.minute /\ t.minute < d.minute + n
               \/ t.minute + 60 < d.minute + n
    <3>1. t.hour \in 0..23 /\ t.minute \in 0..59 /\ Stamp(t) \in Nat
      BY <2>7, DateFields
    <3>2. CASE Stamp(t) < Stamp(x)
      <4>1. \/ /\ MonthNo(t) = MonthNo(d) /\ t.day = d.day /\ Time(d) <= Time(t)
               /\ d.hour <= t.hour /\ t.hour < d.hour + 1
            \/ t.hour + 24 < d.hour + 1
        BY <2>3, <2>7, <3>2
      <4>2. /\ MonthNo(t) = MonthNo(d) /\ t.day = d.day /\ t.hour = d.hour
            /\ Time(d) <= Time(t)
        BY <1>1, <3>1, <4>1
      <4>3. d.hour < t.hour \/ (d.hour = t.hour /\ d.minute <= t.minute)
        BY <2>7, <4>2, TimeOrder
      <4>4. d.minute <= t.minute /\ t.minute < d.minute + n
        <5>1. ~ (d.hour < t.hour)
          BY <1>1, <4>2
        <5>2. d.minute <= t.minute
          BY <4>3, <5>1
        <5>3. t.minute < 60 /\ 60 <= d.minute + n
          BY <1>1, <1>4, <3>1
        <5>4. t.minute \in Nat /\ d.minute + n \in Nat
          BY <1>1, <3>1
        <5> DEFINE s == d.minute + n
        <5> HIDE DEF s
        <5>5. QED BY <3>1, <5>2, <5>3, <5>4 DEF s
      <4>5. QED BY <4>2, <4>4
    <3>3. CASE ~(Stamp(t) < Stamp(x))
      <4>1. Stamp(x) <= Stamp(t)
        BY <2>5, <3>1, <3>3
      <4>2. Time(x) <= Time(t) /\ Time(t) < Time(e)
        BY <2>3, <2>4, <2>7, <4>1, SameDay
      <4>3. t.minute < mi
        <5>1. /\ x.hour < t.hour \/ (x.hour = t.hour /\ x.minute <= t.minute)
              /\ t.hour < e.hour \/ (t.hour = e.hour /\ t.minute < e.minute)
          BY <2>3, <2>4, <2>7, <4>2, TimeOrder
        <5>2. QED BY <2>2, <2>4, <2>5, <3>1, <5>1
      <4>4. t.minute + 60 < d.minute + n
        <5> DEFINE q == d.minute + n
        <5>1. t.minute \in Nat /\ q \in Nat
          BY <1>1, <3>1
        <5>2. t.minute < q - 60
          BY <1>1, <3>1, <4>3 DEF mi
        <5> HIDE DEF q
        <5>3. t.minute + 60 < q
          BY <5>1, <5>2
        <5>4. QED BY <5>3 DEF q
      <4>5. QED BY <4>4
    <3>4. QED BY <3>2, <3>3
  <2>8. QED BY <2>4, <2>6, <2>7
<1>5. QED BY <1>3, <1>4

-----------------------------------------------------------------------------
(* The moves of a search: no date they pass over has an allowed value.     *)
LEMMA MonthMove ==
  ASSUME NEW d, ValidDate(d), NEW V \in SUBSET (1..12), V # {},
         NEW n, n = Nearest(d.month, V, 12), n # 0, NEW e, e = AddMonths(d, n)
  PROVE  /\ ValidDate(e) /\ Stamp(d) < Stamp(e)
         /\ \A t : ValidDate(t) /\ Stamp(d) <= Stamp(t) /\ Stamp(t) < Stamp(e) =>
              t.month \notin V
<1>1. /\ d.month \in 1..12 /\ d.year \in Nat /\ d.day \in Nat /\ MonthNo(d) \in Nat
  BY DateFields
<1>2. n \in 1..11 /\ \A v \in V : ~(d.month <= v /\ v < d.month + n) /\ ~(v + 12 < d.month + n)
  <2>1. /\ V \in SUBSET Nat /\ L \notin V /\ d.month \in Nat
        /\ \A v, w \in V \cup {d.month} : v < w + 12
    BY <1>1 DEF L
  <2>2. /\ n \in Nat /\ n < 12
        /\ \A v \in V : ~(d.month <= v /\ v < d.month + n) /\ ~(v + 12 < d.month + n)
    BY <2>1, NearestPasses
  <2>3. QED BY <2>2
<1>3. ValidDate(e) /\ MonthNo(e) = MonthNo(d) + n /\ e.day = 1 /\ Time(e) = 0
  <2>1. n \in 1..12
    BY <1>2
  <2>2. QED BY <2>1, AddMonthsShape
<1>4. Stamp(d) < Stamp(e)
  <2>1. MonthNo(d) < MonthNo(e)
    BY <1>1, <1>2, <1>3
  <2>2. QED BY <1>3, <2>1, StampOrder
<1>5. ASSUME NEW t, ValidDate(t), Stamp(d) <= Stamp(t), Stamp(t) < Stamp(e), t.month \in V
      PROVE  FALSE
  <2>1. t.month \in 1..12 /\ t.year \in Nat /\ t.day \in Nat \ {0} /\ MonthNo(t) \in Nat
    BY <1>5, DateFields
  <2>2. /\ MonthNo(d) < MonthNo(t) \/ MonthNo(d) = MonthNo(t)
        /\ MonthNo(t) < MonthNo(e) \/ (MonthNo(t) = MonthNo(e) /\ t.day < e.day)
    BY <1>3, <1>5, DaysBetween
  <2>3. MonthNo(d) <= MonthNo(t) /\ MonthNo(t) < MonthNo(d) + n
    BY <1>1, <1>2, <1>3, <2>1, <2>2
  <2>4. /\ 12 * d.year + d.month <= 12 * t.year + t.month
        /\ 12 * t.year + t.month < 12 * d.year + d.month + n
    BY <2>3 DEF MonthNo
  <2>5. \/ d.month <= t.month /\ t.month < d.month + n
        \/ t.month + 12 < d.month + n
    <3> DEFINE y == d.year
               z == t.year
               m == d.month
               k == t.month
    <3>1. y \in Nat /\ z \in Nat /\ m \in 1..12 /\ k \in 1..12 /\ n \in 1..11
      BY <1>1, <1>2, <2>1
    <3>2. 12 * y + m <= 12 * z + k /\ 12 * z + k < 12 * y + m + n
      BY <2>4
    <3> HIDE DEF y, z, m, k
    <3>3. y = z \/ z = y + 1
      BY <3>1, <3>2
    <3>4. (m <= k /\ k < m + n) \/ k + 12 < m + n
      BY <3>1, <3>2, <3>3
    <3>5. QED BY <3>4 DEF m, k
  <2>6. QED BY <1>2, <1>5, <2>5
<1>6. QED BY <1>3, <1>4, <1>5

LEMMA HourMove ==
  ASSUME NEW d, ValidDate(d), NEW V \in SUBSET (0..23), V # {},
         NEW n, n = Nearest(d.hour, V, 24), n # 0, NEW e, e = AddHours(d, n)
  PROVE  /\ ValidDate(e) /\ Stamp(d) < Stamp(e)
         /\ \A t : ValidDate(t) /\ Stamp(d) <= Stamp(t) /\ Stamp(t) < Stamp(e) =>
              t.hour \notin V
<1>1. d.hour \in 0..23
  BY DateFields
<1>2. n \in 1..24 /\ \A v \in V : ~(d.hour <= v /\ v < d.hour + n) /\ ~(v + 24 < d.hour + n)
  <2>1. /\ V \in SUBSET Nat /\ L \notin V /\ d.hour \in Nat
        /\ \A v, w \in V \cup {d.hour} : v < w + 24
    BY <1>1 DEF L
  <2>2. /\ n \in Nat /\ n < 24
        /\ \A v \in V : ~(d.hour <= v /\ v < d.hour + n) /\ ~(v + 24 < d.hour + n)
    BY <2>1, NearestPasses
  <2>3. QED BY <2>2
<1>3. /\ ValidDate(e) /\ Stamp(d) < Stamp(e)
      /\ \A t : ValidDate(t) /\ Stamp(d) <= Stamp(t) /\ Stamp(t) < Stamp(e) =>
              \/ /\ MonthNo(t) = MonthNo(d) /\ t.day = d.day /\ Time(d) <= Time(t)
                 /\ d.hour <= t.hour /\ t.hour < d.hour + n
              \/ t.hour + 24 < d.hour + n
  BY <1>2, HoursBetween
<1>4. QED BY <1>2, <1>3

LEMMA MinuteMove ==
  ASSUME NEW d, ValidDate(d), NEW V \in SUBSET (0..59), V # {},
         NEW n, n = Nearest(d.minute, V, 60), n # 0, NEW e, e = AddMinutes(d, n)
  PROVE  /\ ValidDate(e) /\ Stamp(d) < Stamp(e)
         /\ \A t : ValidDate(t) /\ Stamp(d) <= Stamp(t) /\ Stamp(t) < Stamp(e) =>
              t.minute \notin V
<1>1. d.minute \in 0..59
  BY DateFields
<1>2. /\ n \in 1..60
      /\ \A v \in V : ~(d.minute <= v /\ v < d.minute + n) /\ ~(v + 60 < d.minute + n)
  <2>1. /\ V \in SUBSET Nat /\ L \notin V /\ d.minute \in Nat
        /\ \A v, w \in V \cup {d.minute} : v < w + 60
    BY <1>1 DEF L
  <2>2. /\ n \in Nat /\ n < 60
        /\ \A v \in V : ~(d.minute <= v /\ v < d.minute + n) /\ ~(v + 60 < d.minute + n)
    BY <2>1, NearestPasses
  <2>3. QED BY <2>2
<1>3. /\ ValidDate(e) /\ Stamp(d) < Stamp(e)
      /\ \A t : ValidDate(t) /\ Stamp(d) <= Stamp(t) /\ Stamp(t) < Stamp(e) =>
              \/ /\ MonthNo(t) = MonthNo(d) /\ t.day = d.day /\ t.hour = d.hour
                 /\ d.minute <= t.minute /\ t.minute < d.minute + n
              \/ t.minute + 60 < d.minute + n
  BY <1>2, MinutesBetween
<1>4. QED BY <1>2, <1>3

LEMMA WeekdayMove ==
  ASSUME NEW d, ValidDate(d), NEW V \in SUBSET (0..6), V # {},
         NEW n, n = Nearest(Weekday(d), V, 7), n # 0, NEW e, e = AddDays(d, n)
  PROVE  /\ ValidDate(e) /\ Stamp(d) < Stamp(e)
         /\ \A t : ValidDate(t) /\ Stamp(d) <= Stamp(t) /\ Stamp(t) < Stamp(e) =>
              Weekday(t) \notin V
<1> DEFINE x == Weekday(d)
<1>1. /\ d.day \in 1..31 /\ Length(d) \in 28..31 /\ d.day <= Length(d)
      /\ MonthNo(d) \in Nat /\ Ordinal(d) \in Int
  BY DateFields, OrdinalOfMonth
<1>2. x \in 0..6
  BY <1>1 DEF Weekday
<1>3. n \in 1..6 /\ \A v \in V : ~(x <= v /\ v < x + n) /\ ~(v + 7 < x + n)
  <2> HIDE DEF x
  <2>1. /\ V \in SUBSET Nat /\ L \notin V /\ x \in Nat
        /\ \A v, w \in V \cup {x} : v < w + 7
    BY <1>2 DEF L
  <2>2. n = Nearest(x, V, 7)
    BY DEF x
  <2>3. /\ n \in Nat /\ n < 7
        /\ \A v \in V : ~(x <= v /\ v < x + n) /\ ~(v + 7 < x + n)
    BY <2>1, <2>2, NearestPasses
  <2>4. QED BY <2>3
<1> HIDE DEF x
<1>4. n \in Nat \ {0} /\ d.day + n <= 62
  BY <1>1, <1>3
<1> DEFINE k == d.day + n - Length(d)
<1>5. /\ ValidDate(e) /\ Time(e) = 0
      /\ d.day + n <= Length(d) => MonthNo(e) = MonthNo(d) /\ e.day = d.day + n
      /\ d.day + n > Length(d) => (MonthNo(e) = MonthNo(d) + 1 /\ e.day = k) \/ k > 28
  BY <1>4, AddDaysShape
<1>6. \/ MonthNo(e) = MonthNo(d) /\ e.day = d.day + n
      \/ MonthNo(e) = MonthNo(d) + 1 /\ e.day = k
  <2>1. ~(k > 28)
    BY <1>1, <1>3
  <2>2. d.day + n <= Length(d) \/ d.day + n > Length(d)
    BY <1>1, <1>3
  <2> HIDE DEF k
  <2>3. QED BY <1>5, <2>1, <2>2
<1>7. Stamp(d) < Stamp(e)
  <2>1. MonthNo(d) < MonthNo(e) \/ (MonthNo(d) = MonthNo(e) /\ d.day < e.day)
    BY <1>1, <1>3, <1>6
  <2>2. QED BY <1>5, <2>1, StampOrder
<1>8. ASSUME NEW t, ValidDate(t), Stamp(d) <= Stamp(t), Stamp(t) < Stamp(e)
      PROVE  Weekday(t) \notin V
  <2>1. /\ t.day \in 1..31 /\ MonthNo(t) \in Nat /\ t.day <= Length(t) /\ e.day \in 1..31
        /\ Length(t) \in 28..31
    BY <1>5, <1>8, DateFields
  <2>2. /\ MonthNo(d) < MonthNo(t) \/ (MonthNo(d) = MonthNo(t) /\ d.day <= t.day)
        /\ MonthNo(t) < MonthNo(e) \/ (MonthNo(t) = MonthNo(e) /\ t.day < e.day)
    BY <1>5, <1>8, DaysBetween
  <2> DEFINE i == Ordinal(t) - Ordinal(d)
  <2>3. Ordinal(t) \in Int /\ i \in 0..(n - 1)
    <3>1. CASE MonthNo(t) = MonthNo(d)
      <4>1. Ordinal(t) = Ordinal(d) + t.day - d.day
        BY <1>8, <3>1, OrdinalOfMonth
      <4>2. d.day <= t.day /\ t.day < d.day + n
        <5>1. Length(t) = Length(d)
          BY <1>8, <3>1, SameMonth
        <5>2. MonthNo(d) \in Nat /\ d.day <= t.day
          BY <1>1, <2>2, <3>1
        <5>3. CASE MonthNo(e) = MonthNo(d) /\ e.day = d.day + n
          BY <2>2, <3>1, <5>2, <5>3
        <5>4. CASE MonthNo(e) = MonthNo(d) + 1 /\ e.day = k
          <6>1. d.day + n >= Length(d) + 1
            <7>1. k >= 1
              BY <2>1, <5>4
            <7>2. QED BY <1>1, <1>4, <7>1
          <6>2. t.day <= Length(d) /\ t.day \in Nat /\ Length(d) \in Nat /\ d.day + n \in Nat
            BY <1>1, <1>4, <2>1, <5>1
          <6>3. t.day < d.day + n
            BY <6>1, <6>2
          <6>4. QED BY <5>2, <6>3
        <5>5. QED BY <1>6, <5>3, <5>4
      <4> DEFINE o == Ordinal(d)
                 p == Ordinal(t)
                 g == t.day
                 f == d.day
      <4>3. o \in Int /\ p = o + g - f /\ g \in Nat /\ f \in Nat /\ f <= g /\ g < f + n
        BY <1>1, <2>1, <4>1, <4>2
      <4> HIDE DEF o, p, g, f
      <4>4. p \in Int /\ p - o \in 0..(n - 1)
        BY <1>4, <4>3
      <4>5. QED BY <4>4 DEF o, p
    <3>2. CASE MonthNo(t) # MonthNo(d)
      <4>1. MonthNo(t) = MonthNo(d) + 1 /\ t.day < k
        BY <1>1, <1>6, <2>1, <2>2, <3>2
      <4>2. Ordinal(t) = Ordinal(d) + Length(d) - d.day + t.day
        BY <1>8, <4>1, OrdinalOfNextMonth
      <4> DEFINE o == Ordinal(d)
                 p == Ordinal(t)
      <4>3. o \in Int /\ p = o + Length(d) - d.day + t.day
        BY <1>1, <4>2
      <4> HIDE DEF o, p
      <4>4. p \in Int /\ p - o \in 0..(n - 1)
        BY <1>1, <1>3, <2>1, <4>1, <4>3, SMTT(30)
      <4>5. QED BY <4>4 DEF o, p
    <3>3. QED BY <3>1, <3>2
  <2>4. Weekday(t) \in {x + i, x + i - 7} /\ Weekday(t) \in 0..6
    <3> DEFINE o == Ordinal(d)
               p == Ordinal(t)
    <3>1. o \in Int /\ p \in Int /\ p - o \in 0..5 /\ x = o % 7
      BY <1>1, <1>3, <2>3 DEF x, Weekday
    <3> HIDE DEF o, p
    <3>2. p % 7 \in {(o % 7) + (p - o), (o % 7) + (p - o) - 7} /\ p % 7 \in 0..6
      BY <3>1
    <3>3. QED BY <3>1, <3>2 DEF o, p, Weekday
  <2> HIDE DEF i
  <2>5. QED BY <1>2, <1>3, <2>3, <2>4
<1>9. QED BY <1>5, <1>7, <1>8

LEMMA NextMonth ==
  ASSUME NEW d, NEW t, ValidDate(d), ValidDate(t), MonthNo(t) = MonthNo(d) + 1
  PROVE  t.month = (d.month % 12) + 1
<1>1. /\ d.year \in Nat /\ d.month \in 1..12 /\ t.year \in Nat /\ t.month \in 1..12
  BY DateFields
<1>2. CASE d.month = 12
  <2>1. 12 * t.year + t.month = 12 * (d.year + 1) + 1 /\ d.year + 1 \in Nat
    BY <1>1, <1>2 DEF MonthNo
  <2>2. t.month = 1
    BY <1>1, <2>1, PlaceOfMonths
  <2>3. QED BY <1>2, <2>2
<1>3. CASE d.month # 12
  <2>1. 12 * t.year + t.month = 12 * d.year + (d.month + 1) /\ d.month + 1 \in 1..12
    BY <1>1, <1>3 DEF MonthNo
  <2>2. t.month = d.month + 1
    BY <1>1, <2>1, PlaceOfMonths
  <2>3. d.month \in 1..11
    BY <1>1, <1>3
  <2>4. QED BY <2>2, <2>3
<1>4. QED BY <1>2, <1>3

(* Days of the month: L stands for the last one.                           *)
HasDay(V, t) == t.day \in V \/ (L \in V /\ t.day = Length(t))

LEMMA DayMove ==
  ASSUME NEW c, NEW d, ValidDate(d), Values(c, "day") \in SUBSET ((1..31) \cup {L}),
         Values(c, "day") # {}, PassesNone(c, d.month, Length(d)),
         ~ HasDay(Values(c, "day"), d),
         NEW n, n = Nearest(d.day, Values(c, "day"), Length(d)), n # 0,
         NEW e, e = AddDays(d, n)
  PROVE  /\ ValidDate(e) /\ Stamp(d) < Stamp(e)
         /\ \A t : ValidDate(t) /\ Stamp(d) <= Stamp(t) /\ Stamp(t) < Stamp(e) =>
              (AllowsMonth(c, t.month) => ~ HasDay(Values(c, "day"), t))
<1> DEFINE V == Values(c, "day")
           A == V \ {L}
           x == d.day
           len == Length(d)
           ahead == {v \in A : v >= x}
<1>1. /\ x \in 1..31 /\ len \in 28..31 /\ x <= len /\ MonthNo(d) \in Nat
  BY DateFields
<1>2. A \in SUBSET (1..31) /\ A \in SUBSET Nat /\ V \in SUBSET Nat /\ L \notin 1..31
  BY DEF L
<1>3. x \notin A
  BY DEF HasDay
<1>4. n = IF ahead # {} THEN Min(ahead) - x
          ELSE IF L \in V THEN len - x ELSE Min(V) - x + len
  BY DEF Nearest
<1>5. ASSUME ahead # {}
      PROVE  Min(ahead) \in A /\ x < Min(ahead) /\ \A v \in A : v >= x => Min(ahead) <= v
  <2>1. ahead \in SUBSET Nat
    BY <1>2
  <2>2. Min(ahead) \in ahead /\ \A v \in ahead : Min(ahead) <= v
    <3> HIDE DEF ahead
    <3>1. QED BY <1>5, <2>1, MinIsLeast
  <2>3. \A v \in A : v >= x <=> v \in ahead
    OBVIOUS
  <2>4. Min(ahead) \in A /\ Min(ahead) >= x
    BY <2>2
  <2>5. Min(ahead) \in Nat
    BY <1>2, <2>4
  <2> HIDE DEF ahead, A
  <2>6. QED BY <1>1, <1>3, <2>2, <2>3, <2>4, <2>5
(* The dates passed over, month by month.                                  *)
<1> DEFINE Passed(t) == ValidDate(t) /\ Stamp(d) <= Stamp(t) /\ Stamp(t) < Stamp(e)
<1>6. ASSUME ValidDate(e), Time(e) = 0, NEW t, Passed(t)
      PROVE  /\ t.day \in 1..31 /\ Length(t) \in 28..31 /\ t.day <= Length(t)
             /\ MonthNo(t) \in Nat /\ e.day \in 1..31 /\ MonthNo(e) \in Nat
             /\ MonthNo(d) < MonthNo(t) \/ (MonthNo(d) = MonthNo(t) /\ x <= t.day)
             /\ MonthNo(t) < MonthNo(e) \/ (MonthNo(t) = MonthNo(e) /\ t.day < e.day)
             /\ MonthNo(t) = MonthNo(d) => Length(t) = len
  <2>1. /\ MonthNo(d) < MonthNo(t) \/ (MonthNo(d) = MonthNo(t) /\ d.day <= t.day)
        /\ MonthNo(t) < MonthNo(e) \/ (MonthNo(t) = MonthNo(e) /\ t.day < e.day)
    BY <1>6, DaysBetween
  <2>2. MonthNo(t) = MonthNo(d) => Length(t) = len
    BY <1>6, SameMonth
  <2>3. QED BY <1>6, <2>1, <2>2, DateFields
<1>7. ASSUME n \in Nat \ {0}, x + n <= 62
      PROVE  /\ ValidDate(e) /\ Time(e) = 0
             /\ x + n <= len => MonthNo(e) = MonthNo(d) /\ e.day = x + n
             /\ x + n > len =>
                  \/ MonthNo(e) = MonthNo(d) + 1 /\ e.day = x + n - len
                  \/ /\ MonthNo(e) = MonthNo(d) + 2 /\ e.day < x + n - len /\ x + n - len > 28
                     /\ \A t : ValidDate(t) /\ MonthNo(t) = MonthNo(d) + 1 => Length(t) < x + n - len
  BY <1>7, AddDaysShape
<1> HIDE DEF V, A, x, len, ahead
<1>8. ASSUME ValidDate(e), Time(e) = 0, MonthNo(e) \in Nat, e.day \in Nat,
             MonthNo(d) < MonthNo(e) \/ (MonthNo(d) = MonthNo(e) /\ x < e.day)
      PROVE  Stamp(d) < Stamp(e)
  BY <1>8, StampOrder DEF x
<1>9. ASSUME NEW t, Passed(t), ValidDate(e), Time(e) = 0, t.day \notin A,
             L \in V => t.day # Length(t)
      PROVE  ~ HasDay(V, t)
  BY <1>2, <1>6, <1>9 DEF HasDay, A
<1> DEFINE Goal == /\ ValidDate(e) /\ Stamp(d) < Stamp(e)
                   /\ \A t : Passed(t) => (AllowsMonth(c, t.month) => ~ HasDay(V, t))
<1>10. ASSUME ahead # {} PROVE Goal
  <2> DEFINE a == Min(ahead)
  <2>1. /\ a \in A /\ a \in 1..31 /\ x < a /\ n = a - x
        /\ \A v \in A : v >= x => a <= v
    BY <1>2, <1>4, <1>5, <1>10
  <2> HIDE DEF a
  <2>2. n \in Nat \ {0} /\ x + n = a /\ x + n <= 62
    BY <1>1, <2>1
  <2>3. \A v \in A : ~(x <= v /\ v < a)
    BY <1>2, <2>1
  <2>4. ASSUME a <= len PROVE Goal
    <3>1. ValidDate(e) /\ Time(e) = 0 /\ MonthNo(e) = MonthNo(d) /\ e.day = a
      BY <1>7, <2>2, <2>4
    <3>2. Stamp(d) < Stamp(e)
      BY <1>1, <1>8, <2>1, <3>1
    <3>3. ASSUME NEW t, Passed(t)
          PROVE  ~ HasDay(V, t)
      <4>1. /\ t.day \in 1..31 /\ MonthNo(t) \in Nat
            /\ MonthNo(d) < MonthNo(t) \/ (MonthNo(d) = MonthNo(t) /\ x <= t.day)
            /\ MonthNo(t) < MonthNo(e) \/ (MonthNo(t) = MonthNo(e) /\ t.day < e.day)
            /\ MonthNo(t) = MonthNo(d) => Length(t) = len
        BY <1>6, <3>1, <3>3
      <4>2. x <= t.day /\ t.day < a /\ Length(t) = len
        BY <1>1, <3>1, <4>1
      <4>3. t.day \notin A /\ t.day # Length(t)
        BY <1>1, <2>1, <2>3, <2>4, <4>1, <4>2
      <4>4. QED BY <1>9, <3>1, <3>3, <4>3
    <3>4. QED BY <3>1, <3>2, <3>3
  <2>5. ASSUME ~(a <= len) PROVE Goal
    <3> DEFINE beyond == {v \in A : v > len}
               b == Min(beyond)
    <3>1. beyond \in SUBSET Nat /\ beyond # {}
      <4>1. a \in beyond
        BY <1>1, <2>1, <2>5
      <4>2. QED BY <1>2, <4>1
    <3>2. b \in beyond
      <4> HIDE DEF beyond
      <4>1. QED BY <3>1, MinIsLeast
    <3>3. b \in A /\ b > len /\ b \in Nat
      BY <1>2, <3>2
    <3>4. a <= b
      <4> HIDE DEF b
      <4>1. b >= x
        BY <1>1, <3>3
      <4>2. QED BY <2>1, <3>3, <4>1
    <3>5. len \notin V
      <4>1. x <= len /\ len < a
        BY <1>1, <2>1, <2>5
      <4>2. len \notin A
        BY <2>3, <4>1
      <4>3. len # L
        BY <1>1, <1>2
      <4>4. QED BY <4>2, <4>3 DEF A
    <3>6. /\ L \notin V
          /\ AllowsMonth(c, (d.month % 12) + 1) => \A v \in V : v >= b - len
      BY <3>1, <3>5 DEF PassesNone, V, A, len
    <3> HIDE DEF beyond, b
    <3>7. /\ ValidDate(e) /\ Time(e) = 0 /\ MonthNo(e) = MonthNo(d) + 1
          /\ e.day = a - len
      <4>1. x + n > len /\ ~(x + n - len > 28)
        BY <1>1, <2>1, <2>2, <2>5
      <4>2. QED BY <1>1, <1>7, <2>2, <4>1
    <3>8. Stamp(d) < Stamp(e)
      <4>1. e.day \in Nat /\ MonthNo(e) \in Nat /\ MonthNo(d) < MonthNo(e)
        BY <1>1, <3>7, DateFields
      <4>2. QED BY <1>8, <3>7, <4>1
    <3>9. ASSUME NEW t, Passed(t), AllowsMonth(c, t.month)
          PROVE  ~ HasDay(V, t)
      <4>1. /\ t.day \in 1..31 /\ MonthNo(t) \in Nat /\ t.day <= Length(t)
            /\ MonthNo(d) < MonthNo(t) \/ (MonthNo(d) = MonthNo(t) /\ x <= t.day)
            /\ MonthNo(t) < MonthNo(e) \/ (MonthNo(t) = MonthNo(e) /\ t.day < e.day)
            /\ MonthNo(t) = MonthNo(d) => Length(t) = len
        BY <1>6, <3>7, <3>9
      <4>2. CASE MonthNo(t) = MonthNo(d)
        <5>1. x <= t.day /\ t.day < a
          BY <1>1, <2>1, <2>5, <4>1, <4>2
        <5>2. t.day \notin A
          BY <2>3, <5>1
        <5>3. QED BY <1>9, <3>6, <3>7, <3>9, <5>2
      <4>3. CASE MonthNo(t) # MonthNo(d)
        <5>1. MonthNo(t) = MonthNo(d) + 1 /\ t.day < a - len
          BY <1>1, <3>7, <4>1, <4>3
        <5>2. t.month = (d.month % 12) + 1
          BY <3>9, <5>1, NextMonth
        <5>3. \A v \in V : v >= b - len
          BY <3>6, <3>9, <5>2
        <5>4. t.day \notin A
          <6>1. ~(t.day >= b - len)
            BY <1>1, <2>1, <3>3, <3>4, <4>1, <5>1
          <6>2. QED BY <5>3, <6>1 DEF A
        <5>5. QED BY <1>9, <3>6, <3>7, <3>9, <5>4
      <4>4. QED BY <4>2, <4>3
    <3>10. QED BY <3>7, <3>8, <3>9
  <2>6. QED BY <2>4, <2>5
<1>11. ASSUME ahead = {} /\ L \in V PROVE Goal
  <2>1. n = len - x
    BY <1>4, <1>11
  <2>2. n \in Nat \ {0} /\ x + n = len /\ x + n <= 62 /\ x < len
    BY <1>1, <2>1
  <2>3. ValidDate(e) /\ Time(e) = 0 /\ MonthNo(e) = MonthNo(d) /\ e.day = len
    <3>1. x + n <= len
      BY <1>1, <2>2
    <3>2. QED BY <1>7, <2>2, <3>1
  <2>4. Stamp(d) < Stamp(e)
    BY <1>1, <1>8, <2>2, <2>3
  <2>5. ASSUME NEW t, Passed(t)
        PROVE  ~ HasDay(V, t)
    <3>1. /\ t.day \in 1..31 /\ MonthNo(t) \in Nat
          /\ MonthNo(d) < MonthNo(t) \/ (MonthNo(d) = MonthNo(t) /\ x <= t.day)
          /\ MonthNo(t) < MonthNo(e) \/ (MonthNo(t) = MonthNo(e) /\ t.day < e.day)
          /\ MonthNo(t) = MonthNo(d) => Length(t) = len
      BY <1>6, <2>3, <2>5
    <3>2. x <= t.day /\ t.day < len /\ Length(t) = len
      BY <1>1, <2>3, <3>1
    <3>3. t.day \notin A
      BY <1>1, <1>11, <3>1, <3>2 DEF ahead
    <3>4. t.day # Length(t)
      BY <1>1, <3>1, <3>2
    <3>5. QED BY <1>9, <2>3, <2>5, <3>3, <3>4
  <2>6. QED BY <2>3, <2>4, <2>5
<1>12. ASSUME ahead = {} /\ L \notin V PROVE Goal
  <2> DEFINE a == Min(V)
  <2>1. a \in V /\ \A v \in V : a <= v
    BY <1>2, MinIsLeast DEF V
  <2>2. A = V
    BY <1>12 DEF A
  <2>3. a \in 1..31 /\ n = a - x + len
    BY <1>2, <1>4, <1>12, <2>1, <2>2
  <2>4. \A v \in A : ~(x <= v)
    BY <1>1, <1>2, <1>12 DEF ahead
  <2> HIDE DEF a
  <2>5. n \in Nat \ {0} /\ x + n = a + len /\ x + n <= 62 /\ x + n > len /\ x + n - len = a
    BY <1>1, <2>3
  <2>6. /\ ValidDate(e) /\ Time(e) = 0
        /\ \/ MonthNo(e) = MonthNo(d) + 1 /\ e.day = a
           \/ /\ MonthNo(e) = MonthNo(d) + 2 /\ e.day < a
              /\ \A t : ValidDate(t) /\ MonthNo(t) = MonthNo(d) + 1 => Length(t) < a
    BY <1>7, <2>5
  <2>7. Stamp(d) < Stamp(e)
    <3>1. e.day \in Nat /\ MonthNo(e) \in Nat
      BY <2>6, DateFields
    <3>2. MonthNo(d) < MonthNo(e)
      BY <1>1, <2>6
    <3>3. QED BY <1>8, <2>6, <3>1, <3>2
  <2>8. ASSUME NEW t, Passed(t)
        PROVE  ~ HasDay(V, t)
    <3>1. /\ t.day \in 1..31 /\ MonthNo(t) \in Nat /\ t.day <= Length(t) /\ e.day \in 1..31
          /\ Length(t) \in 28..31
          /\ MonthNo(d) < MonthNo(t) \/ (MonthNo(d) = MonthNo(t) /\ x <= t.day)
          /\ MonthNo(t) < MonthNo(e) \/ (MonthNo(t) = MonthNo(e) /\ t.day < e.day)
      BY <1>6, <2>6, <2>8
    <3>2. t.day \notin A
      <4>1. CASE MonthNo(t) = MonthNo(d)
        <5>1. x <= t.day
          BY <1>1, <3>1, <4>1
        <5>2. QED BY <2>4, <5>1
      <4>2. CASE MonthNo(t) # MonthNo(d)
        <5>1. t.day < a
          <6>1. CASE MonthNo(e) = MonthNo(d) + 1 /\ e.day = a
            BY <1>1, <3>1, <4>2, <6>1
          <6>2. CASE /\ MonthNo(e) = MonthNo(d) + 2 /\ e.day < a
                     /\ \A r : ValidDate(r) /\ MonthNo(r) = MonthNo(d) + 1 => Length(r) < a
            <7>1. MonthNo(t) = MonthNo(d) + 1 \/ t.day < e.day
              BY <1>1, <3>1, <4>2, <6>2
            <7>2. MonthNo(t) = MonthNo(d) + 1 => Length(t) < a
              BY <2>8, <6>2
            <7>3. QED BY <2>3, <3>1, <6>2, <7>1, <7>2
          <6>3. QED BY <2>6, <6>1, <6>2
        <5>2. ~(a <= t.day)
          BY <2>3, <3>1, <5>1
        <5>3. QED BY <2>1, <2>2, <5>2
      <4>3. QED BY <4>1, <4>2
    <3>3. QED BY <1>9, <1>12, <2>6, <2>8, <3>2
  <2>9. QED BY <2>6, <2>7, <2>8
<1>13. Goal
  BY <1>10, <1>11, <1>12
<1>14. QED BY <1>13 DEF V

-----------------------------------------------------------------------------
(* The values of a field are what its items allow.                         *)
LEMMA ValuesMean ==
  ASSUME NEW c, NEW f, NEW v
  PROVE  v \in Values(c, f) <=> \E u : Allows(c, f, u) /\ v = LOWMAP(f, u)
BY DEF Values, Allows

LEMMA ItemRange ==
  ASSUME NEW c, ValidCron(c), NEW f \in {"minute", "hour", "day", "month", "dow"},
         NEW u, Allows(c, f, u)
  PROVE  u \in RANGES[f] \/ (f = "day" /\ u = L)
<1>1. PICK i \in c[f] : u \in i.lo..i.hi
  BY DEF Allows, Item
<1>2. ValidItem(i, f) \/ (f = "day" /\ i = LastDay)
  BY <1>1 DEF ValidCron, RANGES
<1>3. CASE f = "day" /\ i = LastDay
  <2>1. u \in L..L
    BY <1>1, <1>3 DEF LastDay
  <2>2. QED BY <1>3, <2>1 DEF L
<1>4. CASE ValidItem(i, f)
  <2>1. i.lo \in RANGES[f] /\ i.hi \in RANGES[f]
    BY <1>4 DEF ValidItem
  <2>2. PICK p \in Nat, q \in Nat : RANGES[f] = p..q
    <3>1. RANGES[f] \in {0..59, 0..23, 1..31, 1..12, 0..7}
      BY DEF RANGES
    <3>2. 0 \in Nat /\ 1 \in Nat /\ 59 \in Nat /\ 23 \in Nat /\ 31 \in Nat /\ 12 \in Nat /\ 7 \in Nat
      OBVIOUS
    <3>3. QED BY <3>1, <3>2, Zenon
  <2>3. i.lo \in p..q /\ i.hi \in p..q
    BY <2>1, <2>2
  <2>4. u \in p..q
    BY <1>1, <2>3
  <2>5. QED BY <2>2, <2>4
<1>5. QED BY <1>2, <1>3, <1>4

(* A field with an item has a value: the first one of the item.            *)
LEMMA FirstOfItem ==
  ASSUME NEW c, ValidCron(c), NEW f \in {"minute", "hour", "day", "month", "dow"},
         ~ Free(c, f)
  PROVE  Values(c, f) # {}
<1>1. PICK i \in c[f] : TRUE
  BY DEF Free
<1>2. ValidItem(i, f) \/ (f = "day" /\ i = LastDay)
  BY DEF ValidCron, RANGES
<1>3. i.lo \in Nat /\ i.hi \in Nat /\ i.lo <= i.hi /\ i.step \in Nat \ {0}
  <2>1. CASE ValidItem(i, f)
    <3>1. RANGES[f] \in SUBSET Nat
      BY DEF RANGES
    <3>2. QED BY <2>1, <3>1 DEF ValidItem
  <2>2. CASE i = LastDay
    BY <2>2 DEF LastDay, L
  <2>3. QED BY <1>2, <2>1, <2>2
<1>4. i.lo \in Item(i)
  <2>1. i.lo \in i.lo..i.hi
    BY <1>3
  <2>2. (i.lo - i.lo) % i.step = 0
    BY <1>3
  <2>3. QED BY <2>1, <2>2 DEF Item
<1>5. Allows(c, f, i.lo)
  BY <1>4 DEF Allows
<1>6. LOWMAP(f, i.lo) \in Values(c, f)
  BY <1>5, ValuesMean
<1>7. QED BY <1>6

LEMMA FreeHasNone ==
  ASSUME NEW c, NEW f, Free(c, f)
  PROVE  Values(c, f) = {} /\ \A u : ~ Allows(c, f, u)
<1>1. \A u : ~ Allows(c, f, u)
  BY DEF Free, Allows
<1>2. \A v : v \notin Values(c, f)
  BY <1>1, ValuesMean
<1>3. QED BY <1>1, <1>2

LEMMA ValuesTyped ==
  ASSUME NEW c, ValidCron(c)
  PROVE  /\ Values(c, "minute") \in SUBSET (0..59) /\ Values(c, "hour") \in SUBSET (0..23)
         /\ Values(c, "day") \in SUBSET ((1..31) \cup {L})
         /\ Values(c, "month") \in SUBSET (1..12) /\ Values(c, "dow") \in SUBSET (0..6)
<1>1. ASSUME NEW f \in {"minute", "hour", "day", "month"}, NEW v \in Values(c, f)
      PROVE  v \in RANGES[f] \/ (f = "day" /\ v = L)
  <2>1. PICK u : Allows(c, f, u) /\ v = LOWMAP(f, u)
    BY <1>1, ValuesMean
  <2>2. u = v
    BY <2>1 DEF LOWMAP
  <2>3. QED BY <2>1, <2>2, ItemRange
<1>2. ASSUME NEW v \in Values(c, "dow")
      PROVE  v \in 0..6
  <2>1. PICK u : Allows(c, "dow", u) /\ v = LOWMAP("dow", u)
    BY ValuesMean
  <2>2. u \in RANGES["dow"]
    BY <2>1, ItemRange
  <2>3. QED BY <2>1, <2>2 DEF LOWMAP, RANGES
<1>3. /\ RANGES["minute"] = 0..59 /\ RANGES["hour"] = 0..23
      /\ RANGES["day"] = 1..31 /\ RANGES["month"] = 1..12
  BY DEF RANGES
<1>4. QED BY <1>1, <1>2, <1>3

(* As many values as the field has: all of them.                           *)
LEMMA AllValues ==
  /\ \A V \in SUBSET (0..59) : Cardinality(V) = 60 => V = 0..59
  /\ \A V \in SUBSET (0..23) : Cardinality(V) = 24 => V = 0..23
  /\ \A V \in SUBSET (1..12) : Cardinality(V) = 12 => V = 1..12
  /\ \A V \in SUBSET (0..6) : Cardinality(V) = 7 => V = 0..6
  /\ \A V \in SUBSET (1..31) : Cardinality(V) = 31 => V = 1..31
<1>1. ASSUME NEW S, IsFiniteSet(S), NEW V \in SUBSET S, Cardinality(V) = Cardinality(S)
      PROVE  V = S
  BY <1>1, FS_Subset
<1>2. IsFiniteSet(0..59) /\ Cardinality(0..59) = 60
  <2>1. 0 \in Int /\ 59 \in Int
    OBVIOUS
  <2>2. /\ IsFiniteSet(0..59)
        /\ Cardinality(0..59) = IF 0 > 59 THEN 0 ELSE 59 - 0 + 1
    BY <2>1, FS_Interval, Zenon
  <2>3. QED BY <2>2
<1>3. IsFiniteSet(0..23) /\ Cardinality(0..23) = 24
  <2>1. 0 \in Int /\ 23 \in Int
    OBVIOUS
  <2>2. /\ IsFiniteSet(0..23)
        /\ Cardinality(0..23) = IF 0 > 23 THEN 0 ELSE 23 - 0 + 1
    BY <2>1, FS_Interval, Zenon
  <2>3. QED BY <2>2
<1>4. IsFiniteSet(1..12) /\ Cardinality(1..12) = 12
  <2>1. 1 \in Int /\ 12 \in Int
    OBVIOUS
  <2>2. /\ IsFiniteSet(1..12)
        /\ Cardinality(1..12) = IF 1 > 12 THEN 0 ELSE 12 - 1 + 1
    BY <2>1, FS_Interval, Zenon
  <2>3. QED BY <2>2
<1>5. IsFiniteSet(0..6) /\ Cardinality(0..6) = 7
  <2>1. 0 \in Int /\ 6 \in Int
    OBVIOUS
  <2>2. /\ IsFiniteSet(0..6)
        /\ Cardinality(0..6) = IF 0 > 6 THEN 0 ELSE 6 - 0 + 1
    BY <2>1, FS_Interval, Zenon
  <2>3. QED BY <2>2
<1>6. IsFiniteSet(1..31) /\ Cardinality(1..31) = 31
  <2>1. 1 \in Int /\ 31 \in Int
    OBVIOUS
  <2>2. /\ IsFiniteSet(1..31)
        /\ Cardinality(1..31) = IF 1 > 31 THEN 0 ELSE 31 - 1 + 1
    BY <2>1, FS_Interval, Zenon
  <2>3. QED BY <2>2
<1>7. QED BY <1>1, <1>2, <1>3, <1>4, <1>5, <1>6

LEMMA TimeField ==
  ASSUME NEW c, ValidCron(c), NEW f \in {"minute", "hour", "month"}, NEW v \in RANGES[f]
  PROVE  (expand(c, f) = {} \/ v \in expand(c, f)) <=> (Free(c, f) \/ Allows(c, f, v))
<1> DEFINE V == Values(c, f)
<1>1. v \in V <=> Allows(c, f, v)
  BY ValuesMean DEF LOWMAP
<1>2. Free(c, f) <=> V = {}
  BY FirstOfItem, FreeHasNone
<1>3. expand(c, f) = IF Cardinality(V) = LEN_MEANS_ALL[f] THEN {} ELSE V
  BY DEF expand, Full
<1>4. Cardinality(V) = LEN_MEANS_ALL[f] => v \in V
  <2>1. CASE f = "minute"
    <3>1. Cardinality(V) = 60 => V = 0..59
      BY <2>1, ValuesTyped, AllValues
    <3>2. QED BY <2>1, <3>1 DEF LEN_MEANS_ALL, RANGES
  <2>2. CASE f = "hour"
    <3>1. Cardinality(V) = 24 => V = 0..23
      BY <2>2, ValuesTyped, AllValues
    <3>2. QED BY <2>2, <3>1 DEF LEN_MEANS_ALL, RANGES
  <2>3. CASE f = "month"
    <3>1. Cardinality(V) = 12 => V = 1..12
      BY <2>3, ValuesTyped, AllValues
    <3>2. QED BY <2>3, <3>1 DEF LEN_MEANS_ALL, RANGES
  <2>4. QED BY <2>1, <2>2, <2>3
<1> HIDE DEF V
<1>5. QED BY <1>1, <1>2, <1>3, <1>4

LEMMA DowField ==
  ASSUME NEW c, ValidCron(c), NEW t, ValidDate(t)
  PROVE  /\ (expand(c, "dow") = {} \/ Weekday(t) \in expand(c, "dow"))
              <=> (Free(c, "dow") \/ AllowsDow(c, t))
         /\ Full(c, "dow") => AllowsDow(c, t)
<1> DEFINE V == Values(c, "dow")
           w == Weekday(t)
<1>1. w \in 0..6
  BY OrdinalOfMonth DEF Weekday
<1> HIDE DEF w
<1>2. w \in V <=> Allows(c, "dow", w) \/ (Allows(c, "dow", 7) /\ w = 0)
  <2>1. w \in V <=> \E u : Allows(c, "dow", u) /\ w = LOWMAP("dow", u)
    BY ValuesMean
  <2>2. \A u : LOWMAP("dow", u) = IF u = 7 THEN 0 ELSE u
    BY DEF LOWMAP
  <2>3. w # 7
    BY <1>1
  <2> HIDE DEF V
  <2>4. QED BY <2>1, <2>2, <2>3
<1>3. Free(c, "dow") <=> V = {}
  BY FirstOfItem, FreeHasNone
<1>4. expand(c, "dow") = V \/ (expand(c, "dow") = {} /\ Cardinality(V) = 7)
  BY DEF expand, Full, LEN_MEANS_ALL
<1>5. Cardinality(V) = 7 => w \in V
  BY <1>1, ValuesTyped, AllValues
<1>6. Full(c, "dow") <=> Cardinality(V) = 7
  BY DEF Full, LEN_MEANS_ALL
<1> HIDE DEF V
<1>7. QED BY <1>2, <1>3, <1>4, <1>5, <1>6 DEF AllowsDow, w

(* 31 values are all days, or all but the last one and the letter for it.  *)
LEMMA DayField ==
  ASSUME NEW c, ValidCron(c), NEW t, ValidDate(t),
         {31, L} \subseteq Values(c, "day") => Cardinality(Values(c, "day")) # 31
  PROVE  /\ HasDay(Values(c, "day"), t) <=> AllowsDay(c, t)
         /\ (expand(c, "day") = {} \/ HasDay(expand(c, "day"), t))
              <=> (Free(c, "day") \/ AllowsDay(c, t))
         /\ Full(c, "day") => AllowsDay(c, t)
<1> DEFINE V == Values(c, "day")
<1>1. \A v : v \in V <=> Allows(c, "day", v)
  BY ValuesMean DEF LOWMAP
<1>2. HasDay(V, t) <=> AllowsDay(c, t)
  BY <1>1 DEF HasDay, AllowsDay, Length
<1>3. Free(c, "day") <=> V = {}
  BY FirstOfItem, FreeHasNone
<1>4. expand(c, "day") = V \/ (expand(c, "day") = {} /\ Cardinality(V) = 31)
  BY DEF expand, Full, LEN_MEANS_ALL
<1>5. ASSUME Cardinality(V) = 31
      PROVE  HasDay(V, t)
  <2>1. t.day \in 1..31 /\ Length(t) \in 28..31 /\ t.day <= Length(t)
    BY DateFields
  <2>2. CASE L \notin V
    <3>1. V \in SUBSET (1..31)
      BY <2>2, ValuesTyped
    <3>2. V = 1..31
      BY <1>5, <3>1, AllValues
    <3>3. QED BY <2>1, <3>2 DEF HasDay
  <2>3. CASE L \in V
    <3> DEFINE S == (1..30) \cup {L}
    <3>1. 31 \notin V
      BY <1>5, <2>3
    <3>2. V \in SUBSET S
      <4>1. \A v \in 1..31 : v = 31 \/ v \in 1..30
        OBVIOUS
      <4>2. QED BY <3>1, <4>1, ValuesTyped
    <3>3. IsFiniteSet(S) /\ Cardinality(S) = 31
      <4>1. IsFiniteSet(1..30) /\ Cardinality(1..30) = 30
        <5>1. 1 \in Int /\ 30 \in Int
          OBVIOUS
        <5>2. IsFiniteSet(1..30) /\ Cardinality(1..30) = IF 1 > 30 THEN 0 ELSE 30 - 1 + 1
          BY <5>1, FS_Interval, Zenon
        <5>3. QED BY <5>2
      <4>2. L \notin 1..30
        BY DEF L
      <4> DEFINE U == 1..30
      <4> HIDE DEF U
      <4>3. IsFiniteSet(U \cup {L}) /\ Cardinality(U \cup {L}) = Cardinality(U) + 1
        BY <4>1, <4>2, FS_AddElement DEF U
      <4>4. Cardinality(U) = 30
        BY <4>1 DEF U
      <4>5. QED BY <4>3, <4>4 DEF U
    <3>4. V = S
      <4> HIDE DEF S, V
      <4>1. QED BY <1>5, <3>2, <3>3, FS_Subset
    <3>5. t.day \in 1..30 \/ t.day = Length(t)
      BY <2>1
    <3>6. QED BY <2>3, <3>4, <3>5 DEF HasDay
  <2>4. QED BY <2>2, <2>3
<1>6. Full(c, "day") <=> Cardinality(V) = 31
  BY DEF Full, LEN_MEANS_ALL
<1> HIDE DEF V
<1>7. QED BY <1>2, <1>3, <1>4, <1>5, <1>6 DEF V

LEMMA NearestDay ==
  ASSUME NEW V \in SUBSET ((1..31) \cup {L}), V # {},
         NEW x \in 1..31, NEW len \in 28..31, x <= len
  PROVE  /\ x \in V => Nearest(x, V, len) = 0
         /\ Nearest(x, V, len) = 0 => x \in V \/ (L \in V /\ x = len)
<1> DEFINE ahead == {v \in V \ {L} : v >= x}
           n == Nearest(x, V, len)
<1>1. n = IF ahead # {} THEN Min(ahead) - x
          ELSE IF L \in V THEN len - x ELSE Min(V) - x + len
  BY DEF Nearest
<1>2. ahead \in SUBSET Nat /\ V \in SUBSET Nat
  <2>1. V \in SUBSET Nat
    <3>1. \A v \in (1..31) \cup {L} : v \in Nat
      BY DEF L
    <3>2. QED BY <3>1
  <2>2. QED BY <2>1
<1>3. ahead # {} => Min(ahead) \in ahead /\ \A v \in ahead : Min(ahead) <= v
  <2> HIDE DEF ahead
  <2>1. QED BY <1>2, MinIsLeast
<1>4. ASSUME x \in V PROVE n = 0
  <2>1. x # L
    BY DEF L
  <2>2. x \in ahead
    BY <1>4, <2>1
  <2>3. Min(ahead) <= x /\ Min(ahead) >= x /\ Min(ahead) \in Nat
    BY <1>2, <1>3, <2>2
  <2>4. n = Min(ahead) - x
    BY <1>1, <2>2
  <2> HIDE DEF n, ahead
  <2>5. QED BY <2>3, <2>4
<1>5. ASSUME n = 0, ~(L \in V /\ x = len) PROVE x \in V
  <2>1. CASE ahead # {}
    <3>1. Min(ahead) \in V /\ Min(ahead) \in Nat /\ n = Min(ahead) - x
      BY <1>1, <1>2, <1>3, <2>1
    <3> HIDE DEF n, ahead
    <3>2. Min(ahead) = x
      BY <1>5, <3>1
    <3>3. QED BY <3>1, <3>2
  <2>2. CASE ahead = {} /\ L \in V
    <3>1. n = len - x
      BY <1>1, <2>2
    <3> HIDE DEF n
    <3>2. x = len
      BY <1>5, <3>1
    <3>3. QED BY <1>5, <2>2, <3>2
  <2>3. CASE ahead = {} /\ L \notin V
    <3>1. n = Min(V) - x + len
      BY <1>1, <2>3
    <3>2. Min(V) \in V
      BY <1>2, MinIsLeast
    <3>3. Min(V) \in 1..31
      BY <2>3, <3>2
    <3> HIDE DEF n
    <3>4. QED BY <1>5, <3>1, <3>3
  <2>4. QED BY <2>1, <2>2, <2>3
<1>6. QED BY <1>4, <1>5

-----------------------------------------------------------------------------
(* What a search looks for: the days of one of two fields, if both count.  *)
Part(c, ph, field) ==
  IF ph \in {"day", "dow"} /\ field \in {"day", "dow"} /\ field # ph
  THEN {} ELSE expand(c, field)
In(V, v) == V = {} \/ v \in V
Accepts(c, ph, t) ==
  /\ In(Part(c, ph, "month"), t.month)
  /\ Part(c, ph, "day") = {} \/ HasDay(Part(c, ph, "day"), t)
  /\ In(Part(c, ph, "dow"), Weekday(t))
  /\ In(Part(c, ph, "hour"), t.hour)
  /\ In(Part(c, ph, "minute"), t.minute)
NoneFrom(c, ph, d, e) ==
  \A t : ValidDate(t) /\ Stamp(d) <= Stamp(t) /\ Stamp(t) < Stamp(e) => ~ Accepts(c, ph, t)
Passes(c, ph, d, e) == ValidDate(e) /\ Stamp(d) < Stamp(e) /\ NoneFrom(c, ph, d, e)
Gap(V, x, range) == IF V = {} THEN 0 ELSE Nearest(x, V, range)
Matches(c, t) == MatchesDay(c, t) /\ MatchesTime(c, t)

LEMMA FieldIsPart ==
  \A f : Field(f) = Part(cron, phase, f)
BY DEF Field, Part

LEMMA PartOfDate ==
  ASSUME NEW c, NEW ph \in {"both", "day", "dow"}
  PROVE  /\ \A f \in {"month", "hour", "minute"} : Part(c, ph, f) = expand(c, f)
         /\ Part(c, ph, "day") = IF ph = "dow" THEN {} ELSE expand(c, "day")
         /\ Part(c, ph, "dow") = IF ph = "day" THEN {} ELSE expand(c, "dow")
BY DEF Part

LEMMA PartTyped ==
  ASSUME NEW c, ValidCron(c), NEW ph
  PROVE  /\ Part(c, ph, "minute") \in SUBSET (0..59) /\ Part(c, ph, "hour") \in SUBSET (0..23)
         /\ Part(c, ph, "day") \in SUBSET ((1..31) \cup {L})
         /\ Part(c, ph, "month") \in SUBSET (1..12) /\ Part(c, ph, "dow") \in SUBSET (0..6)
<1>1. \A f : Part(c, ph, f) = {} \/ Part(c, ph, f) = Values(c, f)
  BY DEF Part, expand
<1>2. QED BY <1>1, ValuesTyped

LEMMA TimeParts ==
  ASSUME NEW c, ValidCron(c), NEW t, ValidDate(t)
  PROVE  /\ In(expand(c, "month"), t.month) <=> AllowsMonth(c, t.month)
         /\ MatchesTime(c, t) <=>
              In(expand(c, "hour"), t.hour) /\ In(expand(c, "minute"), t.minute)
<1>1. /\ t.month \in RANGES["month"] /\ t.hour \in RANGES["hour"]
      /\ t.minute \in RANGES["minute"]
  BY DateFields DEF RANGES
<1>2. QED BY <1>1, TimeField DEF In, AllowsMonth, MatchesTime

(* With a star for the days or the weekdays one search finds what the      *)
(* crontab means, otherwise one of two does.  A star stands for a full     *)
(* field if the other one is a star too or is full.                        *)
LEMMA BothAccepts ==
  ASSUME NEW c, ValidCron(c), SkipsNone(c), KeepsDays(c), NEW t, ValidDate(t),
         expand(c, "day") = {} \/ expand(c, "dow") = {}
  PROVE  Accepts(c, "both", t) <=> Matches(c, t)
<1> DEFINE D == Values(c, "day")
           W == Values(c, "dow")
           day == AllowsDay(c, t)
           dow == AllowsDow(c, t)
           freeDay == Free(c, "day")
           freeDow == Free(c, "dow")
<1>1. (expand(c, "day") = {} \/ HasDay(expand(c, "day"), t)) <=> (freeDay \/ day)
  BY DayField DEF SkipsNone
<1>2. In(expand(c, "dow"), Weekday(t)) <=> (freeDow \/ dow)
  BY DowField DEF In
<1>3. freeDay \/ freeDow \/ (day /\ dow)
  <2>1. (freeDay <=> D = {}) /\ (freeDow <=> W = {})
    BY FirstOfItem, FreeHasNone
  <2>2. (Full(c, "day") => day) /\ (Full(c, "dow") => dow)
    BY DayField, DowField DEF SkipsNone
  <2>3. expand(c, "day") = {} => D = {} \/ (Full(c, "day") /\ Starred(c, "dow"))
    BY DEF expand
  <2>4. expand(c, "dow") = {} => W = {} \/ (Full(c, "dow") /\ Starred(c, "day"))
    BY DEF expand
  <2>5. /\ Full(c, "day") /\ Starred(c, "dow") /\ ~ freeDay /\ ~ freeDow => Full(c, "dow")
        /\ Full(c, "dow") /\ Starred(c, "day") /\ ~ freeDay /\ ~ freeDow => Full(c, "day")
    BY DEF KeepsDays
  <2> HIDE DEF freeDay, freeDow, day, dow, D, W
  <2>6. QED BY <2>1, <2>2, <2>3, <2>4, <2>5
<1>4. MatchesDay(c, t) <=>
        /\ AllowsMonth(c, t.month)
        /\ IF freeDay THEN freeDow \/ dow ELSE day \/ (~ freeDow /\ dow)
  BY DEF MatchesDay, AllowsMonth
<1>5. Accepts(c, "both", t) <=>
        /\ In(expand(c, "month"), t.month)
        /\ expand(c, "day") = {} \/ HasDay(expand(c, "day"), t)
        /\ In(expand(c, "dow"), Weekday(t))
        /\ In(expand(c, "hour"), t.hour) /\ In(expand(c, "minute"), t.minute)
  BY PartOfDate DEF Accepts
<1>6. freeDow => ~ dow
  BY FreeHasNone DEF AllowsDow
<1> HIDE DEF day, dow, freeDay, freeDow
<1>7. QED BY <1>1, <1>2, <1>3, <1>4, <1>5, <1>6, TimeParts DEF Matches

LEMMA SplitAccepts ==
  ASSUME NEW c, ValidCron(c), SkipsNone(c), NEW t, ValidDate(t),
         expand(c, "day") # {}, expand(c, "dow") # {}
  PROVE  Matches(c, t) <=> Accepts(c, "day", t) \/ Accepts(c, "dow", t)
<1> DEFINE day == AllowsDay(c, t)
           dow == AllowsDow(c, t)
           freeDay == Free(c, "day")
           freeDow == Free(c, "dow")
<1>1. HasDay(expand(c, "day"), t) <=> (freeDay \/ day)
  BY DayField DEF SkipsNone
<1>2. In(expand(c, "dow"), Weekday(t)) <=> (freeDow \/ dow)
  BY DowField DEF In
<1>3. ~ freeDay /\ ~ freeDow
  BY FreeHasNone DEF expand
<1>4. MatchesDay(c, t) <=>
        /\ AllowsMonth(c, t.month)
        /\ IF freeDay THEN freeDow \/ dow ELSE day \/ (~ freeDow /\ dow)
  BY DEF MatchesDay, AllowsMonth
<1>5. Accepts(c, "day", t) <=>
        /\ In(expand(c, "month"), t.month)
        /\ HasDay(expand(c, "day"), t)
        /\ In(expand(c, "hour"), t.hour) /\ In(expand(c, "minute"), t.minute)
  BY PartOfDate DEF Accepts, In
<1>6. Accepts(c, "dow", t) <=>
        /\ In(expand(c, "month"), t.month)
        /\ In(expand(c, "dow"), Weekday(t))
        /\ In(expand(c, "hour"), t.hour) /\ In(expand(c, "minute"), t.minute)
  BY PartOfDate DEF Accepts, In
<1> HIDE DEF day, dow, freeDay, freeDow
<1>7. QED BY <1>1, <1>2, <1>3, <1>4, <1>5, <1>6, TimeParts DEF Matches

-----------------------------------------------------------------------------
(* Each procedure moves the date past none that the search accepts.        *)
Search ==
  /\ cron \in Crons /\ ValidCron(cron) /\ SkipsNone(cron)
  /\ phase \in {"both", "day", "dow"}
  /\ ValidDate(dst)

LEMMA GapIsDiff ==
  \A f, x, range : Diff(f, x, range) = Gap(Part(cron, phase, f), x, range)
BY FieldIsPart DEF Diff, Gap

LEMMA GapZero ==
  ASSUME NEW range \in Nat, NEW V \in SUBSET Nat, L \notin V, NEW x \in Nat,
         \A v, w \in V \cup {x} : v < w + range
  PROVE  Gap(V, x, range) = 0 <=> In(V, x)
BY NearestPasses DEF Gap, In

LEMMA MonthGap ==
  ASSUME Search
  PROVE  month_diff = 0 <=> In(Part(cron, phase, "month"), dst.month)
<1> DEFINE V == Part(cron, phase, "month")
           x == dst.month
<1>1. V \in SUBSET (1..12) /\ x \in 1..12
  BY PartTyped, DateFields DEF Search
<1>2. month_diff = Gap(V, x, 12)
  BY GapIsDiff DEF month_diff
<1> HIDE DEF V, x
<1>3. V \in SUBSET Nat /\ L \notin V /\ x \in Nat /\ \A v, w \in V \cup {x} : v < w + 12
  BY <1>1 DEF L
<1>4. Gap(V, x, 12) = 0 <=> In(V, x)
  BY <1>3, GapZero
<1>5. QED BY <1>2, <1>4 DEF V, x

LEMMA DowGap ==
  ASSUME Search
  PROVE  dow_diff = 0 <=> In(Part(cron, phase, "dow"), Weekday(dst))
<1> DEFINE V == Part(cron, phase, "dow")
           x == Weekday(dst)
<1>1. V \in SUBSET (0..6)
  BY PartTyped DEF Search
<1>2. x \in 0..6
  BY OrdinalOfMonth DEF Weekday, Search
<1>3. dow_diff = Gap(V, x, 7)
  BY GapIsDiff DEF dow_diff
<1> HIDE DEF V, x
<1>4. V \in SUBSET Nat /\ L \notin V /\ x \in Nat /\ \A v, w \in V \cup {x} : v < w + 7
  BY <1>1, <1>2 DEF L
<1>5. Gap(V, x, 7) = 0 <=> In(V, x)
  BY <1>4, GapZero
<1>6. QED BY <1>3, <1>5 DEF V, x

LEMMA HourGap ==
  ASSUME Search
  PROVE  hour_diff = 0 <=> In(Part(cron, phase, "hour"), dst.hour)
<1> DEFINE V == Part(cron, phase, "hour")
           x == dst.hour
<1>1. V \in SUBSET (0..23) /\ x \in 0..23
  BY PartTyped, DateFields DEF Search
<1>2. hour_diff = Gap(V, x, 24)
  BY GapIsDiff DEF hour_diff
<1> HIDE DEF V, x
<1>3. V \in SUBSET Nat /\ L \notin V /\ x \in Nat /\ \A v, w \in V \cup {x} : v < w + 24
  BY <1>1 DEF L
<1>4. Gap(V, x, 24) = 0 <=> In(V, x)
  BY <1>3, GapZero
<1>5. QED BY <1>2, <1>4 DEF V, x

LEMMA MinuteGap ==
  ASSUME Search
  PROVE  minute_diff = 0 <=> In(Part(cron, phase, "minute"), dst.minute)
<1> DEFINE V == Part(cron, phase, "minute")
           x == dst.minute
<1>1. V \in SUBSET (0..59) /\ x \in 0..59
  BY PartTyped, DateFields DEF Search
<1>2. minute_diff = Gap(V, x, 60)
  BY GapIsDiff DEF minute_diff
<1> HIDE DEF V, x
<1>3. V \in SUBSET Nat /\ x \in Nat
  BY <1>1
<1>4. L \notin V
  BY <1>1 DEF L
<1>5. \A v, w \in V \cup {x} : v < w + 60
  BY <1>1
<1>6. Gap(V, x, 60) = 0 <=> In(V, x)
  BY <1>3, <1>4, <1>5, GapZero
<1>7. QED BY <1>2, <1>6 DEF V, x

LEMMA DayGap ==
  ASSUME Search
  PROVE  day_diff = 0 <=>
           Part(cron, phase, "day") = {} \/ HasDay(Part(cron, phase, "day"), dst)
<1> DEFINE V == Part(cron, phase, "day")
           x == dst.day
           len == Length(dst)
<1>1. V \in SUBSET ((1..31) \cup {L}) /\ x \in 1..31 /\ len \in 28..31 /\ x <= len
  BY PartTyped, DateFields DEF Search
<1>2. day_diff = IF L \in V /\ x = len THEN 0 ELSE Gap(V, x, len)
  BY FieldIsPart, GapIsDiff DEF day_diff, Length
<1>3. HasDay(V, dst) <=> x \in V \/ (L \in V /\ x = len)
  BY DEF HasDay
<1> HIDE DEF V, x, len
<1>4. V # {} => /\ x \in V => Nearest(x, V, len) = 0
                /\ Nearest(x, V, len) = 0 => x \in V \/ (L \in V /\ x = len)
  BY <1>1, NearestDay
<1>5. day_diff = 0 <=> V = {} \/ HasDay(V, dst)
  BY <1>2, <1>3, <1>4 DEF Gap
<1>6. QED BY <1>5 DEF V

LEMMA SettledAccepts ==
  ASSUME Search, Settled
  PROVE  Accepts(cron, phase, dst)
<1>1. month_diff = 0 /\ day_diff = 0 /\ dow_diff = 0 /\ hour_diff = 0 /\ minute_diff = 0
  BY DEF Settled
<1>2. QED BY <1>1, MonthGap, DayGap, DowGap, HourGap, MinuteGap DEF Accepts

LEMMA MonthStep ==
  ASSUME Search, proc_month
  PROVE  Passes(cron, phase, dst, dst')
<1> DEFINE V == Part(cron, phase, "month")
           n == month_diff
           e == AddMonths(dst, n)
<1>1. n # 0 /\ dst' = e
  BY DEF proc_month, Move
<1>2. n = Gap(V, dst.month, 12) /\ V \in SUBSET (1..12)
  BY GapIsDiff, PartTyped DEF month_diff, Search
<1>3. V # {} /\ n = Nearest(dst.month, V, 12)
  BY <1>1, <1>2 DEF Gap
<1>4. \A t : Accepts(cron, phase, t) => t.month \in V
  BY <1>3 DEF Accepts, In
<1> HIDE DEF V, n, e
<1>5. /\ ValidDate(e) /\ Stamp(dst) < Stamp(e)
      /\ \A t : ValidDate(t) /\ Stamp(dst) <= Stamp(t) /\ Stamp(t) < Stamp(e) =>
           t.month \notin V
  BY <1>1, <1>2, <1>3, MonthMove DEF Search, e
<1>6. QED BY <1>1, <1>4, <1>5 DEF Passes, NoneFrom

LEMMA DowStep ==
  ASSUME Search, proc_day_of_week
  PROVE  Passes(cron, phase, dst, dst')
<1> DEFINE V == Part(cron, phase, "dow")
           n == dow_diff
           e == AddDays(dst, n)
<1>1. n # 0 /\ dst' = e
  BY DEF proc_day_of_week, Move
<1>2. n = Gap(V, Weekday(dst), 7) /\ V \in SUBSET (0..6)
  BY GapIsDiff, PartTyped DEF dow_diff, Search
<1>3. V # {} /\ n = Nearest(Weekday(dst), V, 7)
  BY <1>1, <1>2 DEF Gap
<1>4. \A t : Accepts(cron, phase, t) => Weekday(t) \in V
  BY <1>3 DEF Accepts, In
<1> HIDE DEF V, n, e
<1>5. /\ ValidDate(e) /\ Stamp(dst) < Stamp(e)
      /\ \A t : ValidDate(t) /\ Stamp(dst) <= Stamp(t) /\ Stamp(t) < Stamp(e) =>
           Weekday(t) \notin V
  BY <1>1, <1>2, <1>3, WeekdayMove DEF Search, e
<1>6. QED BY <1>1, <1>4, <1>5 DEF Passes, NoneFrom

LEMMA HourStep ==
  ASSUME Search, proc_hour
  PROVE  Passes(cron, phase, dst, dst')
<1> DEFINE V == Part(cron, phase, "hour")
           n == hour_diff
           e == AddHours(dst, n)
<1>1. n # 0 /\ dst' = e
  BY DEF proc_hour, Move
<1>2. n = Gap(V, dst.hour, 24) /\ V \in SUBSET (0..23)
  BY GapIsDiff, PartTyped DEF hour_diff, Search
<1>3. V # {} /\ n = Nearest(dst.hour, V, 24)
  BY <1>1, <1>2 DEF Gap
<1>4. \A t : Accepts(cron, phase, t) => t.hour \in V
  BY <1>3 DEF Accepts, In
<1> HIDE DEF V, n, e
<1>5. /\ ValidDate(e) /\ Stamp(dst) < Stamp(e)
      /\ \A t : ValidDate(t) /\ Stamp(dst) <= Stamp(t) /\ Stamp(t) < Stamp(e) =>
           t.hour \notin V
  BY <1>1, <1>2, <1>3, HourMove DEF Search, e
<1>6. QED BY <1>1, <1>4, <1>5 DEF Passes, NoneFrom

LEMMA MinuteStep ==
  ASSUME Search, proc_minute
  PROVE  Passes(cron, phase, dst, dst')
<1> DEFINE V == Part(cron, phase, "minute")
           n == minute_diff
           e == AddMinutes(dst, n)
<1>1. n # 0 /\ dst' = e
  BY DEF proc_minute, Move
<1>2. n = Gap(V, dst.minute, 60) /\ V \in SUBSET (0..59)
  BY GapIsDiff, PartTyped DEF minute_diff, Search
<1>3. V # {} /\ n = Nearest(dst.minute, V, 60)
  BY <1>1, <1>2 DEF Gap
<1>4. \A t : Accepts(cron, phase, t) => t.minute \in V
  BY <1>3 DEF Accepts, In
<1> HIDE DEF V, n, e
<1>5. /\ ValidDate(e) /\ Stamp(dst) < Stamp(e)
      /\ \A t : ValidDate(t) /\ Stamp(dst) <= Stamp(t) /\ Stamp(t) < Stamp(e) =>
           t.minute \notin V
  BY <1>1, <1>2, <1>3, MinuteMove DEF Search, e
<1>6. QED BY <1>1, <1>4, <1>5 DEF Passes, NoneFrom

(* Days are added in a month the crontab allows: the days passed over in   *)
(* the next month are those of which SkipsNone speaks.                     *)
LEMMA DayStep ==
  ASSUME Search, proc_day_of_month
  PROVE  Passes(cron, phase, dst, dst')
<1> DEFINE V == Part(cron, phase, "day")
           n == day_diff
           e == AddDays(dst, n)
           len == Length(dst)
<1>1. month_diff = 0 /\ n # 0 /\ dst' = e
  BY DEF proc_day_of_month, Move
<1>2. /\ n = (IF L \in V /\ dst.day = len THEN 0 ELSE Gap(V, dst.day, len))
      /\ V \in SUBSET ((1..31) \cup {L})
  BY FieldIsPart, GapIsDiff, PartTyped DEF day_diff, Search, Length
<1>3. V # {} /\ n = Nearest(dst.day, V, len) /\ ~ HasDay(V, dst)
  <2>1. ~ (V = {} \/ HasDay(V, dst))
    BY <1>1, DayGap
  <2>2. QED BY <1>1, <1>2, <2>1 DEF Gap
<1>4. V = Values(cron, "day")
  BY <1>3 DEF Part, expand
<1>5. AllowsMonth(cron, dst.month)
  <2>1. In(Part(cron, phase, "month"), dst.month)
    BY <1>1, MonthGap
  <2>2. Part(cron, phase, "month") = expand(cron, "month")
    BY PartOfDate DEF Search
  <2>3. QED BY <2>1, <2>2, TimeParts DEF Search
<1>6. PassesNone(cron, dst.month, len)
  <2>1. dst.month \in 1..12 /\ len \in Lengths(dst.month)
    BY DateFields DEF Search
  <2>2. QED BY <1>5, <2>1 DEF Search, SkipsNone
<1>7. \A t : ValidDate(t) /\ Accepts(cron, phase, t) => AllowsMonth(cron, t.month) /\ HasDay(V, t)
  <2> SUFFICES ASSUME NEW t, ValidDate(t), Accepts(cron, phase, t)
               PROVE  AllowsMonth(cron, t.month) /\ HasDay(V, t)
    OBVIOUS
  <2>1. Part(cron, phase, "month") = expand(cron, "month")
    BY PartOfDate DEF Search
  <2>2. AllowsMonth(cron, t.month)
    BY <2>1, TimeParts DEF Accepts, Search
  <2>3. QED BY <1>3, <2>2 DEF Accepts
<1>8. /\ ValidDate(e) /\ Stamp(dst) < Stamp(e)
      /\ \A t : ValidDate(t) /\ Stamp(dst) <= Stamp(t) /\ Stamp(t) < Stamp(e) =>
           (AllowsMonth(cron, t.month) => ~ HasDay(V, t))
  <2>1. n = Nearest(dst.day, Values(cron, "day"), Length(dst)) /\ n # 0 /\ e = AddDays(dst, n)
    BY <1>1, <1>3, <1>4
  <2> HIDE DEF n, e, V, len
  <2>2. QED BY <1>2, <1>3, <1>4, <1>6, <2>1, DayMove DEF Search, len
<1> HIDE DEF V, n, e
<1>9. QED BY <1>1, <1>7, <1>8 DEF Passes, NoneFrom

-----------------------------------------------------------------------------
(* The inductive invariant: behind the date that moves lies no date that   *)
(* the search accepts, back to where the call started.                     *)
NoneBetween(c, ph, d, e) ==
  \A t : ValidDate(t) /\ Stamp(d) < Stamp(t) /\ Stamp(t) < Stamp(e) => ~ Accepts(c, ph, t)
CronTypeOK ==
  /\ cron \in Crons
  /\ phase \in {"idle", "both", "day", "dow"}
  /\ ValidDate(prev) /\ ValidDate(cur) /\ ValidDate(dst) /\ ValidDate(first)
DaysOfPhase ==
  /\ phase = "both" => expand(cron, "day") = {} \/ expand(cron, "dow") = {}
  /\ phase \in {"day", "dow"} => expand(cron, "day") # {} /\ expand(cron, "dow") # {}
SearchSkipsNone ==
  phase # "idle" =>
    prev = cur /\ Stamp(cur) < Stamp(dst) /\ NoneBetween(cron, phase, cur, dst)
FirstFound ==
  phase = "dow" =>
    /\ Stamp(cur) < Stamp(first)
    /\ Accepts(cron, "day", first) /\ NoneBetween(cron, "day", cur, first)
Returned ==
  phase = "idle" /\ prev # cur =>
    /\ Stamp(prev) < Stamp(cur) /\ Matches(cron, cur)
    /\ \A t : ValidDate(t) /\ Stamp(prev) < Stamp(t) /\ Stamp(t) < Stamp(cur) => ~ Matches(cron, t)
CronInv == CronTypeOK /\ DaysOfPhase /\ SearchSkipsNone /\ FirstFound /\ Returned

LEMMA FirstMinute ==
  ASSUME NEW c, NEW ph, NEW d, ValidDate(d), NEW e, e = AddMinutes(d, 1)
  PROVE  ValidDate(e) /\ Stamp(d) < Stamp(e) /\ NoneBetween(c, ph, d, e)
<1>1. /\ ValidDate(e) /\ Stamp(d) < Stamp(e)
      /\ \A t : ValidDate(t) /\ Stamp(d) <= Stamp(t) /\ Stamp(t) < Stamp(e) =>
           \/ /\ MonthNo(t) = MonthNo(d) /\ t.day = d.day /\ t.hour = d.hour
              /\ d.minute <= t.minute /\ t.minute < d.minute + 1
           \/ t.minute + 60 < d.minute + 1
  <2>1. 1 \in 1..60
    OBVIOUS
  <2>2. QED BY <2>1, MinutesBetween
<1>2. ASSUME NEW t, ValidDate(t), Stamp(d) < Stamp(t), Stamp(t) < Stamp(e)
      PROVE  FALSE
  <2>1. /\ Stamp(d) \in Nat /\ Stamp(t) \in Nat /\ d.minute \in 0..59 /\ t.minute \in 0..59
        /\ MonthNo(d) \in Nat /\ MonthNo(t) \in Nat
    BY <1>2, DateFields
  <2>2. Stamp(d) <= Stamp(t)
    BY <1>2, <2>1
  <2>3. /\ MonthNo(t) = MonthNo(d) /\ t.day = d.day /\ t.hour = d.hour
        /\ t.minute = d.minute
    <3>1. \/ /\ MonthNo(t) = MonthNo(d) /\ t.day = d.day /\ t.hour = d.hour
             /\ d.minute <= t.minute /\ t.minute < d.minute + 1
          \/ t.minute + 60 < d.minute + 1
      BY <1>1, <1>2, <2>2
    <3>2. QED BY <2>1, <3>1
  <2>4. Time(t) = Time(d)
    BY <2>3 DEF Time
  <2>5. Stamp(t) = Stamp(d)
    BY <1>2, <2>3, <2>4, StampOfDate
  <2>6. QED BY <1>2, <2>1, <2>5
<1>3. QED BY <1>1, <1>2 DEF NoneBetween

LEMMA PassesOn ==
  ASSUME NEW c, NEW ph, NEW d, NEW x, NEW e, ValidDate(d), ValidDate(x),
         Stamp(d) < Stamp(x), NoneBetween(c, ph, d, x), Passes(c, ph, x, e)
  PROVE  ValidDate(e) /\ Stamp(d) < Stamp(e) /\ NoneBetween(c, ph, d, e)
<1>1. ValidDate(e) /\ Stamp(x) < Stamp(e) /\ NoneFrom(c, ph, x, e)
  BY DEF Passes
<1>2. Stamp(d) \in Nat /\ Stamp(x) \in Nat /\ Stamp(e) \in Nat
  BY <1>1, DateFields
<1>3. Stamp(d) < Stamp(e)
  BY <1>1, <1>2
<1>4. ASSUME NEW t, ValidDate(t), Stamp(d) < Stamp(t), Stamp(t) < Stamp(e)
      PROVE  ~ Accepts(c, ph, t)
  <2>1. Stamp(t) \in Nat
    BY <1>4, DateFields
  <2>2. Stamp(t) < Stamp(x) \/ Stamp(x) <= Stamp(t)
    BY <1>2, <2>1
  <2>3. QED BY <1>1, <1>4, <2>2 DEF NoneBetween, NoneFrom
<1>5. QED BY <1>1, <1>3, <1>4 DEF NoneBetween

LEMMA ProceduresMove ==
  ASSUME CronInv, SkipsNone(cron),
         proc_month \/ proc_day_of_month \/ proc_day_of_week \/ proc_hour \/ proc_minute
  PROVE  CronInv'
<1>1. phase # "idle" /\ UNCHANGED <<cron, prev, cur, phase, first>>
  BY DEF proc_month, proc_day_of_month, proc_day_of_week, proc_hour, proc_minute,
         Move, Searching
<1>2. Search
  BY <1>1, CronsAssumption DEF CronInv, CronTypeOK, Search
<1>3. Passes(cron, phase, dst, dst')
  BY <1>2, MonthStep, DayStep, DowStep, HourStep, MinuteStep
<1>4. ValidDate(dst') /\ Stamp(cur) < Stamp(dst') /\ NoneBetween(cron, phase, cur, dst')
  BY <1>1, <1>3, PassesOn DEF CronInv, CronTypeOK, SearchSkipsNone
<1>5. CronTypeOK'
  BY <1>1, <1>4 DEF CronInv, CronTypeOK
<1>6. DaysOfPhase'
  BY <1>1 DEF CronInv, DaysOfPhase
<1>7. SearchSkipsNone'
  BY <1>1, <1>4 DEF CronInv, SearchSkipsNone
<1>8. FirstFound'
  BY <1>1 DEF CronInv, FirstFound
<1>9. Returned'
  BY <1>1 DEF Returned
<1>10. QED BY <1>5, <1>6, <1>7, <1>8, <1>9 DEF CronInv

LEMMA GetNextStarts ==
  ASSUME CronInv, GetNext
  PROVE  CronInv'
<1>1. /\ phase' = IF expand(cron, "day") = {} \/ expand(cron, "dow") = {} THEN "both" ELSE "day"
      /\ prev' = cur /\ dst' = AddMinutes(cur, 1) /\ cron' = cron /\ cur' = cur /\ first' = first
  BY DEF GetNext
<1>2. ValidDate(dst') /\ Stamp(cur) < Stamp(dst') /\ NoneBetween(cron, phase', cur, dst')
  <2> DEFINE e == AddMinutes(cur, 1)
             ph == phase'
  <2>1. ValidDate(cur)
    BY DEF CronInv, CronTypeOK
  <2> HIDE DEF ph, e
  <2>2. ValidDate(e) /\ Stamp(cur) < Stamp(e) /\ NoneBetween(cron, ph, cur, e)
    BY <2>1, FirstMinute DEF e
  <2>3. QED BY <1>1, <2>2 DEF e, ph
<1>3. phase' \in {"both", "day"}
  BY <1>1
<1>4. CronTypeOK'
  BY <1>1, <1>2, <1>3 DEF CronInv, CronTypeOK
<1>5. DaysOfPhase'
  BY <1>1 DEF DaysOfPhase
<1>6. SearchSkipsNone'
  BY <1>1, <1>2 DEF SearchSkipsNone
<1>7. FirstFound' /\ Returned'
  BY <1>3 DEF FirstFound, Returned
<1>8. QED BY <1>4, <1>5, <1>6, <1>7 DEF CronInv

LEMMA SecondSearchStarts ==
  ASSUME CronInv, SkipsNone(cron), SecondSearch
  PROVE  CronInv'
<1>1. /\ Settled /\ phase = "day" /\ phase' = "dow"
      /\ first' = dst /\ dst' = AddMinutes(cur, 1) /\ cron' = cron /\ prev' = prev /\ cur' = cur
  BY DEF SecondSearch
<1>2. Search
  BY <1>1, CronsAssumption DEF CronInv, CronTypeOK, Search
<1>3. Accepts(cron, "day", dst)
  BY <1>1, <1>2, SettledAccepts
<1>4. ValidDate(dst') /\ Stamp(cur) < Stamp(dst') /\ NoneBetween(cron, "dow", cur, dst')
  <2> DEFINE e == AddMinutes(cur, 1)
  <2>1. ValidDate(cur)
    BY DEF CronInv, CronTypeOK
  <2> HIDE DEF e
  <2>2. ValidDate(e) /\ Stamp(cur) < Stamp(e) /\ NoneBetween(cron, "dow", cur, e)
    BY <2>1, FirstMinute DEF e
  <2>3. QED BY <1>1, <2>2 DEF e
<1>5. CronTypeOK'
  BY <1>1, <1>4 DEF CronInv, CronTypeOK
<1>6. DaysOfPhase'
  BY <1>1 DEF CronInv, DaysOfPhase
<1>7. SearchSkipsNone'
  BY <1>1, <1>4 DEF CronInv, SearchSkipsNone
<1>8. FirstFound'
  BY <1>1, <1>3 DEF CronInv, SearchSkipsNone, FirstFound
<1>9. Returned'
  BY <1>1 DEF Returned
<1>10. QED BY <1>5, <1>6, <1>7, <1>8, <1>9 DEF CronInv

(* Of two searches the earlier result is the first date either accepts.    *)
LEMMA DateReturned ==
  ASSUME CronInv, SkipsNone(cron), KeepsDays(cron), ReturnDate
  PROVE  CronInv'
<1>1. /\ Settled /\ phase # "day" /\ phase' = "idle"
      /\ cur' = IF phase = "dow" THEN Earlier(first, dst) ELSE dst
      /\ dst' = cur' /\ first' = cur' /\ cron' = cron /\ prev' = prev
  BY DEF ReturnDate
<1>2. Search
  BY <1>1, CronsAssumption DEF CronInv, CronTypeOK, Search, Settled, Searching
<1>3. Accepts(cron, phase, dst) /\ NoneBetween(cron, phase, cur, dst) /\ prev = cur
  BY <1>1, <1>2, SettledAccepts DEF CronInv, SearchSkipsNone, Search
<1>4. /\ ValidDate(cur') /\ Stamp(cur) < Stamp(cur') /\ Matches(cron, cur')
      /\ \A t : ValidDate(t) /\ Stamp(cur) < Stamp(t) /\ Stamp(t) < Stamp(cur') => ~ Matches(cron, t)
  <2>1. CASE phase = "both"
    <3>1. cur' = dst
      BY <1>1, <2>1
    <3>2. \A t : ValidDate(t) => (Accepts(cron, "both", t) <=> Matches(cron, t))
      BY <1>2, <2>1, BothAccepts DEF CronInv, DaysOfPhase, Search
    <3>3. ValidDate(dst)
      BY DEF CronInv, CronTypeOK
    <3>4. Stamp(cur) < Stamp(dst)
      BY <2>1 DEF CronInv, SearchSkipsNone
    <3>5. QED BY <1>3, <2>1, <3>1, <3>2, <3>3, <3>4 DEF NoneBetween
  <2>2. CASE phase = "dow"
    <3>1. cur' = Earlier(first, dst)
      BY <1>1, <2>2
    <3>2. \A t : ValidDate(t) =>
            (Matches(cron, t) <=> Accepts(cron, "day", t) \/ Accepts(cron, "dow", t))
      BY <1>2, <2>2, SplitAccepts DEF CronInv, DaysOfPhase, Search
    <3>3. /\ ValidDate(dst) /\ ValidDate(first)
          /\ Accepts(cron, "day", first) /\ NoneBetween(cron, "day", cur, first)
      BY <2>2 DEF CronInv, CronTypeOK, FirstFound
    <3>4. Stamp(dst) \in Nat /\ Stamp(first) \in Nat
      BY <3>3, DateFields
    <3>5. /\ cur' = first \/ cur' = dst
          /\ Stamp(cur') <= Stamp(first) /\ Stamp(cur') <= Stamp(dst)
      BY <3>1, <3>4 DEF Earlier
    <3>6. ASSUME NEW t, ValidDate(t), Stamp(cur) < Stamp(t), Stamp(t) < Stamp(cur')
          PROVE  ~ Matches(cron, t)
      <4>1. Stamp(t) \in Nat /\ Stamp(cur') \in Nat
        BY <3>3, <3>5, <3>6, DateFields
      <4>2. Stamp(t) < Stamp(first) /\ Stamp(t) < Stamp(dst)
        BY <3>4, <3>5, <3>6, <4>1
      <4>3. ~ Accepts(cron, "day", t) /\ ~ Accepts(cron, "dow", t)
        BY <1>3, <2>2, <3>3, <3>6, <4>2 DEF NoneBetween
      <4>4. QED BY <3>2, <3>6, <4>3
    <3>7. ValidDate(cur') /\ Matches(cron, cur')
      BY <1>3, <2>2, <3>2, <3>3, <3>5
    <3>8. Stamp(cur) < Stamp(first) /\ Stamp(cur) < Stamp(dst)
      BY <2>2 DEF CronInv, SearchSkipsNone, FirstFound
    <3>9. QED BY <3>5, <3>6, <3>7, <3>8
  <2>3. QED BY <1>1, <1>2, <2>1, <2>2 DEF Search
<1>5. CronTypeOK'
  BY <1>1, <1>4 DEF CronInv, CronTypeOK
<1>6. DaysOfPhase' /\ SearchSkipsNone' /\ FirstFound'
  BY <1>1 DEF DaysOfPhase, SearchSkipsNone, FirstFound
<1>7. Returned'
  BY <1>1, <1>3, <1>4 DEF Returned
<1>8. QED BY <1>5, <1>6, <1>7 DEF CronInv

(* A time of a day the model looks at is a date, and the day of a date     *)
(* does not depend on its time.                                            *)
LEMMA DaysAreDates ==
  ASSUME ValidDate(prev), ValidDate(cur), NEW d \in Days
  PROVE  \E y \in Nat \ {0}, m \in 1..12, day \in 1..31 :
           day <= DaysIn(y, m) /\ d = Date(y, m, day, 0, 0)
<1>1. PICK y \in prev.year..cur.year, m \in 1..12 : \E day \in 1..DaysIn(y, m) : d = Date(y, m, day, 0, 0)
  BY DEF Days
<1>2. PICK day \in 1..DaysIn(y, m) : d = Date(y, m, day, 0, 0)
  BY <1>1
<1>3. y \in Nat \ {0}
  <2>1. prev.year \in Nat \ {0} /\ cur.year \in Nat \ {0}
    BY DateFields
  <2>2. QED BY <1>1, <2>1
<1>4. DaysIn(y, m) \in 28..31
  BY <1>3, MonthLength
<1>5. day \in 1..31 /\ day <= DaysIn(y, m)
  BY <1>4
<1>6. QED BY <1>2, <1>3, <1>5

LEMMA TimeOfDay ==
  ASSUME NEW y \in Nat \ {0}, NEW m \in 1..12, NEW day \in 1..31, day <= DaysIn(y, m),
         NEW h \in 0..23, NEW mi \in 0..59, NEW c
  PROVE  LET t == Date(y, m, day, h, mi)
         IN ValidDate(t) /\ (MatchesDay(c, Date(y, m, day, 0, 0)) <=> MatchesDay(c, t))
<1> DEFINE t == Date(y, m, day, h, mi)
           d == Date(y, m, day, 0, 0)
<1>1. t = [year |-> y, month |-> m, day |-> day, hour |-> h, minute |-> mi]
  BY DEF Date
<1>2. t \in [year : Nat \ {0}, month : 1..12, day : 1..31, hour : 0..23, minute : 0..59]
  BY <1>1
<1>3. t.year = y /\ t.month = m /\ t.day = day
  BY <1>1
<1>4. ValidDate(t)
  BY <1>2, <1>3 DEF ValidDate
<1>5. t.year = d.year /\ t.month = d.month /\ t.day = d.day
  BY <1>3 DEF Date
<1>6. Weekday(t) = Weekday(d)
  BY <1>5 DEF Weekday, Ordinal, DayOfYear
<1>7. QED BY <1>4, <1>5, <1>6 DEF MatchesDay, AllowsDay, AllowsDow

(* Every call of get_next returns the first date after the one before that *)
(* the crontab allows, for every crontab whose search skips no day and     *)
(* whose expansion drops none: at any date, over the ends of months and of *)
(* leap years, with one search or two (croniter._calc and its procedures). *)
THEOREM NextIsFirstCorrect ==
  ASSUME \A c \in Crons : SkipsNone(c) /\ KeepsDays(c)
  PROVE  CronSpec => []NextIsFirst
<1>1. CronInit => CronInv
  <2> SUFFICES ASSUME CronInit PROVE CronInv
    OBVIOUS
  <2>1. CronTypeOK
    BY StartsAssumption DEF CronInit, CronTypeOK
  <2>2. DaysOfPhase /\ SearchSkipsNone /\ FirstFound /\ Returned
    BY DEF CronInit, DaysOfPhase, SearchSkipsNone, FirstFound, Returned
  <2>3. QED BY <2>1, <2>2 DEF CronInv
<1>2. CronInv /\ [CronNext]_cronVars => CronInv'
  <2> SUFFICES ASSUME CronInv, [CronNext]_cronVars PROVE CronInv'
    OBVIOUS
  <2>1. SkipsNone(cron) /\ KeepsDays(cron)
    BY DEF CronInv, CronTypeOK
  <2>2. CASE GetNext
    BY <2>2, GetNextStarts
  <2>3. CASE proc_month \/ proc_day_of_month \/ proc_day_of_week \/ proc_hour \/ proc_minute
    BY <2>1, <2>3, ProceduresMove
  <2>4. CASE SecondSearch
    BY <2>1, <2>4, SecondSearchStarts
  <2>5. CASE ReturnDate
    BY <2>1, <2>5, DateReturned
  <2>6. CASE UNCHANGED cronVars
    <3>1. UNCHANGED <<cron, prev, cur, dst, phase, first>>
      BY <2>6 DEF cronVars
    <3>2. QED BY <3>1 DEF CronInv, CronTypeOK, DaysOfPhase, SearchSkipsNone, FirstFound, Returned
  <2>7. QED BY <2>2, <2>3, <2>4, <2>5, <2>6 DEF CronNext
<1>3. CronInv => NextIsFirst
  <2> SUFFICES ASSUME CronInv, phase = "idle", prev # cur
               PROVE  /\ Stamp(prev) < Stamp(cur)
                      /\ MatchesDay(cron, cur) /\ MatchesTime(cron, cur)
                      /\ \A d \in Days : MatchesDay(cron, d) =>
                           \A h \in 0..23, mi \in 0..59 :
                             LET t == [d EXCEPT !.hour = h, !.minute = mi]
                             IN Between(t) => ~ MatchesTime(cron, t)
    BY DEF NextIsFirst
  <2>1. /\ Stamp(prev) < Stamp(cur) /\ Matches(cron, cur)
        /\ \A t : ValidDate(t) /\ Stamp(prev) < Stamp(t) /\ Stamp(t) < Stamp(cur)
             => ~ Matches(cron, t)
    BY DEF CronInv, Returned
  <2>2. ASSUME NEW d \in Days, MatchesDay(cron, d), NEW h \in 0..23, NEW mi \in 0..59,
               NEW t, t = [d EXCEPT !.hour = h, !.minute = mi], Between(t)
        PROVE  ~ MatchesTime(cron, t)
    <3>1. ValidDate(prev) /\ ValidDate(cur)
      BY DEF CronInv, CronTypeOK
    <3>2. PICK y \in Nat \ {0}, m \in 1..12, day \in 1..31 :
            day <= DaysIn(y, m) /\ d = Date(y, m, day, 0, 0)
      BY <3>1, DaysAreDates
    <3>3. t = Date(y, m, day, h, mi)
      BY <2>2, <3>2 DEF Date
    <3>4. ValidDate(t) /\ (MatchesDay(cron, d) <=> MatchesDay(cron, t))
      <4>1. /\ ValidDate(Date(y, m, day, h, mi))
            /\ MatchesDay(cron, Date(y, m, day, 0, 0)) <=> MatchesDay(cron, Date(y, m, day, h, mi))
        BY <3>2, TimeOfDay
      <4>2. QED BY <3>2, <3>3, <4>1
    <3>5. QED BY <2>1, <2>2, <3>4 DEF Between, Matches
  <2>3. QED BY <2>1, <2>2 DEF Matches
<1>4. QED BY <1>1, <1>2, <1>3, PTL DEF CronSpec
=============================================================================
