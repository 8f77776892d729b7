------------------------------ MODULE Calendar ------------------------------
(***************************************************************************)
(* internal/schedule/schedule.go: an expression is parsed into sets of     *)
(* minutes, hours, days, months and weekdays, and NextAfter scans the      *)
(* clock minute by minute for the first one they allow.  Dates are those   *)
(* of the Gregorian calendar; days and hours are shortened by the          *)
(* constants, and the local clock is moved twice.  A moment is a number of *)
(* half minutes since the first of January of BaseYear.                    *)
(***************************************************************************)
EXTENDS Integers, Sequences, FiniteSets, FiniteSetsExt

CONSTANTS
  Hours, Minutes,       \* hours of a day, minutes of an hour: 24, 60
  BaseYear, LastYear,   \* the years the model knows
  BaseWeekday,          \* of the first of January of BaseYear, 0 is Sunday
  Window,               \* days that NextAfter scans: 4*366
  Forward, Back,        \* when the local clock gains an hour, and loses it again
  Word,                 \* a Duration is in -Word .. Word-1: 2^63 nanoseconds
  Expressions,          \* what operators type
  Starts,               \* moments at which a schedule is planned
  MaxFirings            \* bound

ASSUME CalendarAssumption ==
  /\ {Hours, Minutes, Window, Word} \subseteq Nat \ {0}
  /\ BaseYear \in Nat /\ LastYear \in Nat /\ BaseYear <= LastYear
  /\ BaseWeekday \in 0..6
  /\ Starts \subseteq Nat /\ Forward \in Nat /\ Back \in Nat /\ MaxFirings \in Nat

VARIABLES
  expr,       \* what was typed
  spec,       \* what Parse made of it, or Unread
  last, now,  \* the last firing, and the one before it or the start
  firings

vars == <<expr, spec, last, now, firings>>

Never    == -1
Unread   == [kind |-> "unread"]
Rejected == [kind |-> "rejected"]

-----------------------------------------------------------------------------
(* The calendar and the local clock of package time. *)

Minute == 2
Hour   == Minutes * Minute
Day    == Hours * Hour

Leap(y) == y % 4 = 0 /\ (y % 100 # 0 \/ y % 400 = 0)
Length(y, m) ==
  IF m = 2 THEN (IF Leap(y) THEN 29 ELSE 28) ELSE IF m \in {4, 6, 9, 11} THEN 30 ELSE 31

YearStart(y) == 365 * (y - BaseYear) + Cardinality({x \in BaseYear..(y - 1) : Leap(x)})
MonthStart(y, m) ==
  YearStart(y) + <<0, 31, 59, 90, 120, 151, 181, 212, 243, 273, 304, 334>>[m]
               + (IF m > 2 /\ Leap(y) THEN 1 ELSE 0)

Date == [n \in 0..(YearStart(LastYear + 1) - 1) |->
  LET y == CHOOSE x \in BaseYear..LastYear : YearStart(x) <= n /\ n < YearStart(x + 1)
      m == CHOOSE x \in 1..12 : n - MonthStart(y, x) \in 0..(Length(y, x) - 1)
  IN  [month |-> m, day |-> n - MonthStart(y, m) + 1, weekday |-> (BaseWeekday + n) % 7]]

Local(t) == IF Forward <= t /\ t < Back THEN t + Hour ELSE t
DateOf(t)   == Date[Local(t) \div Day]
LeapDay(n)  == Date[n].month = 2 /\ Date[n].day = 29
HourOf(t)   == (Local(t) % Day) \div Hour
MinuteOf(t) == (Local(t) % Hour) \div Minute

-----------------------------------------------------------------------------
(* Expressions.  A field is a list of items: "*", a value or a range, each with *)
(* or without a step.  Names of months and weekdays are their numbers.           *)

Item(star, a, b, step) == [star |-> star, a |-> a, b |-> b, step |-> step]
Star == <<Item(TRUE, 0, 0, <<>>)>>
One(v) == <<Item(FALSE, v, v, <<>>)>>

Cron(minute, hour, day, month, weekday) ==
  [kind |-> "cron", minute |-> minute, hour |-> hour, day |-> day, month |-> month,
   weekday |-> weekday]
Every(n, unit) == [kind |-> "every", n |-> n, unit |-> unit]
Named(name)    == [kind |-> "named", name |-> name]

Shorthands ==
  [yearly  |-> Cron(One(0), One(0), One(1), One(1), Star),
   monthly |-> Cron(One(0), One(0), One(1), Star, Star),
   weekly  |-> Cron(One(0), One(0), Star, Star, One(0)),
   daily   |-> Cron(One(0), One(0), Star, Star, Star),
   hourly  |-> Cron(One(0), Star, Star, Star, Star)]

\* everyUnit.
Units == [m |-> Minute, h |-> Hour, d |-> Day, w |-> 7 * Day, mo |-> 30 * Day, y |-> 365 * Day]

\* What Parse may be given.
Items == [star : BOOLEAN, a : Int, b : Int, step : Seq(Int)]
ASSUME ExpressionsAssumption == \A e \in Expressions :
  \/ e.kind = "named" /\ e.name \in DOMAIN Shorthands
  \/ e.kind = "every" /\ e.n \in Nat /\ e.unit \in DOMAIN Units
  \/ e.kind = "cron" /\ {e.minute, e.hour, e.day, e.month, e.weekday} \subseteq Seq(Items)

Written == IF expr.kind = "named" THEN Shorthands[expr.name] ELSE expr

\* A product of two Durations.
Wrapped(n) == ((n + Word) % (2 * Word)) - Word

\* fieldBounds.
Bounds(i, lo, hi) == IF i.star THEN <<lo, hi>> ELSE <<i.a, i.b>>
StepOf(i) == IF i.step = <<>> THEN 1 ELSE i.step[1]

Readable(field, lo, hi) ==
  /\ field # <<>>
  /\ \A k \in DOMAIN field :
       LET b == Bounds(field[k], lo, hi)
       IN  StepOf(field[k]) >= 1 /\ {b[1], b[2]} \subseteq lo..hi /\ b[1] <= b[2]

ParseField(field, lo, hi) ==
  UNION {LET b == Bounds(field[k], lo, hi) IN
         {b[1] + n * StepOf(field[k]) : n \in 0..((b[2] - b[1]) \div StepOf(field[k]))}
         : k \in DOMAIN field}

Parse(e) ==
  IF e.kind = "every"
  THEN LET every == Wrapped(e.n * Units[e.unit])
       IN  IF e.n < 1 \/ every < Minute THEN Rejected
                                        ELSE [kind |-> "interval", every |-> every]
  ELSE IF \/ ~Readable(e.minute, 0, Minutes - 1) \/ ~Readable(e.hour, 0, Hours - 1)
          \/ ~Readable(e.day, 1, 31) \/ ~Readable(e.month, 1, 12) \/ ~Readable(e.weekday, 0, 7)
  THEN Rejected
  ELSE LET weekdays == ParseField(e.weekday, 0, 7) IN
       [kind |-> "clock",
        minutes  |-> ParseField(e.minute, 0, Minutes - 1),
        hours    |-> ParseField(e.hour, 0, Hours - 1),
        days     |-> ParseField(e.day, 1, 31),
        months   |-> ParseField(e.month, 1, 12),
        weekdays |-> (weekdays \cup (IF 7 \in weekdays THEN {0} ELSE {})) \ {7},
        daysFree |-> e.day = Star, weekFree |-> e.weekday = Star]

-----------------------------------------------------------------------------
(* Match and NextAfter. *)

DayMatches(s, date) ==
  LET domOK == date.day \in s.days
      dowOK == date.weekday \in s.weekdays
  IN  CASE s.daysFree /\ s.weekFree -> TRUE
        [] s.daysFree /\ ~s.weekFree -> dowOK
        [] ~s.daysFree /\ s.weekFree -> domOK
        [] OTHER -> domOK \/ dowOK

Match(s, t) ==
  /\ DateOf(t).month \in s.months /\ HourOf(t) \in s.hours /\ MinuteOf(t) \in s.minutes
  /\ DayMatches(s, DateOf(t))

Truncated(t) == t - (t % Minute)

\* The minutes that NextAfter looks at.
ScanLength == Window * Hours * Minutes

\* The model knows the years that are scanned.
ASSUME YearsAssumption == \A t \in Starts :
  t + MaxFirings * (ScanLength * Minute) + Hour < YearStart(LastYear + 1) * Day

\* All dates but one come at least twice in a window, so that no move of the clock
\* hides both; and it is not moved forward on the one that may come once.
ASSUME WindowAssumption == Window > 3 * 366
ASSUME LocalClockAssumption ==
  \A l \in Forward..(Forward + Hour - 1) : l \div Day \in DOMAIN Date => ~LeapDay(l \div Day)

\* The first of the n minutes after t that match.
Scan(s, t, n) ==
  LET found == {i \in 1..n : Match(s, Truncated(t) + i * Minute)}
  IN  IF found = {} THEN Never ELSE Truncated(t) + Min(found) * Minute

\* Mutant of NextAfter: the window of an earlier version.
NextAfter_TwoYears(s, t) ==
  IF s.kind = "interval" THEN t + s.every ELSE Scan(s, t, ScanLength \div 2)

NextAfter(s, t) ==
  IF s.kind = "interval" THEN t + s.every ELSE Scan(s, t, ScanLength)

-----------------------------------------------------------------------------
Read ==
  /\ spec = Unread
  /\ spec' = Parse(Written)
  /\ UNCHANGED <<expr, last, now, firings>>

\* Planning: from the start, then from each firing.
Fire ==
  /\ spec.kind \in {"interval", "clock"} /\ now # Never /\ firings < MaxFirings
  /\ last' = now /\ now' = NextAfter(spec, now)
  /\ firings' = firings + 1
  /\ UNCHANGED <<expr, spec>>

Init ==
  /\ expr \in Expressions /\ now \in Starts
  /\ spec = Unread /\ last = Never /\ firings = 0

Next == Read \/ Fire
Spec == Init /\ [][Next]_vars

-----------------------------------------------------------------------------
(* What an expression means, from the way it is written. *)

\* The item allows v, counted from its lower end.
Allows(i, lo, hi, v) ==
  LET b == Bounds(i, lo, hi) IN v \in b[1]..b[2] /\ (v - b[1]) % StepOf(i) = 0
Says(field, lo, hi, v) == \E k \in DOMAIN field : Allows(field[k], lo, hi, v)

\* crontab's rule: with a day and a weekday both asked for, either will do.
Date_Means(e, date) ==
  LET day     == Says(e.day, 1, 31, date.day)
      weekday == \E w \in 0..7 : w % 7 = date.weekday /\ Says(e.weekday, 0, 7, w)
  IN  /\ Says(e.month, 1, 12, date.month)
      /\ IF Star \in {e.day, e.weekday} THEN day /\ weekday ELSE day \/ weekday

Means(e, t) ==
  /\ Date_Means(e, DateOf(t))
  /\ Says(e.hour, 0, Hours - 1, HourOf(t))
  /\ Says(e.minute, 0, Minutes - 1, MinuteOf(t))

\* Some year has a day for the expression.
Possible(e) ==
  \E m \in 1..12 : \E d \in 1..Length(4, m) : \E w \in 0..6 :
    Date_Means(e, [month |-> m, day |-> d, weekday |-> w])

\* No 29 February on the days that the window of NextAfter holds as a whole, whether
\* or not the clock is moved in it: 2100 is not a leap year.
LeapGap(t) ==
  \A n \in (Local(t) \div Day + 1)..(Local(t) \div Day + Window - 2) : ~LeapDay(n)

\* The last minute that NextAfter looked at in vain.
LastScanned == IF now = Never THEN last \div Minute + ScanLength ELSE now \div Minute - 1

\* A firing is a minute the expression means, and none is left out; an interval is
\* the one typed while it is less than the width of a Duration.
FiringsAreMeant ==
  firings > 0 =>
    LET e == Written IN
    IF e.kind = "every"
    THEN e.n * Units[e.unit] < Word => now = last + e.n * Units[e.unit]
    ELSE /\ now # Never => now > last /\ (now % Minute) = 0 /\ Means(e, now)
         /\ \A n \in (last \div Minute + 1)..LastScanned : ~Means(e, n * Minute)

NeverIsMeant ==
  firings > 0 /\ now = Never => ~Possible(Written) \/ LeapGap(last)

\* The firings of an expression are the minutes its writing means, in order and with
\* none left out, across leap years, on the days the clock is moved and for a start
\* within a minute; and "never" is only said of one that no year has a day for, or
\* of the 29 February with 2100 ahead.
FiringsAreTheCalendars == FiringsAreMeant /\ NeverIsMeant
=============================================================================
