--------------------------- MODULE CalendarProofs ---------------------------
(***************************************************************************)
(* Theorems about Calendar: for any length of the day, any years and any   *)
(* expression, a schedule fires at the minutes its writing means, and      *)
(* never is said only of what no year has a day for.                       *)
(*                                                                         *)
(* Three facts meet in the first: a field is parsed into the values it     *)
(* says, a moment within the years the model knows has a date, and         *)
(* NextAfter returns the first minute that matches.  For the second, every *)
(* date but the leap day comes twice in a window, and the local clock      *)
(* skips one of them at most.                                              *)
(***************************************************************************)
EXTENDS Calendar, ListProofs, FiniteSetTheorems

-----------------------------------------------------------------------------
(* Fields *)

\* What an item says, and what parseField makes of it.
Said(i, lo, hi) == {v \in Int : Allows(i, lo, hi, v)}
Parsed(i, lo, hi) ==
  LET b == Bounds(i, lo, hi) IN {b[1] + n * StepOf(i) : n \in 0..((b[2] - b[1]) \div StepOf(i))}

\* Counting in steps from the lower end meets the values at a multiple of the step.
LEMMA StepsAreMultiples ==
  ASSUME NEW a \in Int, NEW b \in Int, a <= b, NEW step \in Nat \ {0}, NEW v \in Int
  PROVE  (\E n \in 0..((b - a) \div step) : v = a + n * step)
           <=> v \in a..b /\ (v - a) % step = 0
<1> DEFINE m == b - a
           x == v - a
<1>1. m \in Nat /\ x \in Int /\ v = a + x
  OBVIOUS
<1>2. ASSUME NEW n \in 0..(m \div step), v = a + n * step
      PROVE  v \in a..b /\ (v - a) % step = 0
  <2>1. n \in Nat
    BY <1>1
  <2>2. n * step <= m /\ n * step \in Nat
    BY <1>1, <2>1
  <2>3. (n * step) % step = 0
    BY <2>1
  <2>4. v - a = n * step
    BY <1>2, <2>2
  <2> QED
    BY <1>2, <2>2, <2>3, <2>4
<1>3. ASSUME v \in a..b, (v - a) % step = 0
      PROVE  \E n \in 0..(m \div step) : v = a + n * step
  <2>1. x \in Nat /\ x <= m /\ x % step = 0
    BY <1>3
  <2> HIDE DEF x, m
  <2>2. PICK n \in Nat : x = n * step
    BY <2>1
  <2>3. n \in 0..(m \div step)
    BY <1>1, <2>1, <2>2
  <2> QED
    BY <1>1, <2>2, <2>3
<1> QED
  BY <1>2, <1>3

LEMMA ItemsAreParsed ==
  ASSUME NEW i \in Items, NEW lo \in Int, NEW hi \in Int, StepOf(i) >= 1,
         LET b == Bounds(i, lo, hi) IN {b[1], b[2]} \subseteq lo..hi /\ b[1] <= b[2]
  PROVE  Parsed(i, lo, hi) = Said(i, lo, hi)
<1> DEFINE b == Bounds(i, lo, hi)
<1>1. b[1] \in Int /\ b[2] \in Int /\ b[1] <= b[2]
  BY DEF Bounds, Items
<1>2. StepOf(i) \in Nat \ {0}
  <2>1. StepOf(i) \in Int
    <3>1. i.step \in Seq(Int)
      BY DEF Items
    <3>2. CASE i.step = <<>>
      BY <3>2 DEF StepOf
    <3>3. CASE i.step # <<>>
      <4>1. i.step[1] \in Int
        BY <3>1, <3>3
      <4> QED
        BY <3>3, <4>1 DEF StepOf
    <3> QED
      BY <3>2, <3>3
  <2> QED
    BY <2>1
<1>3. \A v \in Int : (\E n \in 0..((b[2] - b[1]) \div StepOf(i)) : v = b[1] + n * StepOf(i))
                       <=> v \in b[1]..b[2] /\ (v - b[1]) % StepOf(i) = 0
  BY <1>1, <1>2, StepsAreMultiples, ZenonT(40)
<1>4. \A n \in 0..((b[2] - b[1]) \div StepOf(i)) : b[1] + n * StepOf(i) \in Int
  BY <1>1, <1>2
<1>5. Said(i, lo, hi) = {v \in Int : v \in b[1]..b[2] /\ (v - b[1]) % StepOf(i) = 0}
  BY DEF Said, Allows
<1>6. Parsed(i, lo, hi) = {b[1] + n * StepOf(i) : n \in 0..((b[2] - b[1]) \div StepOf(i))}
  BY DEF Parsed
<1> HIDE DEF b
<1> QED
  BY <1>3, <1>4, <1>5, <1>6

\* A field without an error is parsed into what it says.
LEMMA FieldsAreParsed ==
  ASSUME NEW f \in Seq(Items), NEW lo \in Int, NEW hi \in Int, Readable(f, lo, hi),
         NEW v \in Int
  PROVE  v \in ParseField(f, lo, hi) <=> Says(f, lo, hi, v)
<1>1. ParseField(f, lo, hi) = UNION {Parsed(f[k], lo, hi) : k \in DOMAIN f}
  BY DEF ParseField, Parsed
<1>2. \A k \in DOMAIN f : Parsed(f[k], lo, hi) = Said(f[k], lo, hi)
  <2> SUFFICES ASSUME NEW k \in DOMAIN f PROVE Parsed(f[k], lo, hi) = Said(f[k], lo, hi)
    OBVIOUS
  <2>1. f[k] \in Items
    OBVIOUS
  <2>2. /\ StepOf(f[k]) >= 1
        /\ LET b == Bounds(f[k], lo, hi) IN {b[1], b[2]} \subseteq lo..hi /\ b[1] <= b[2]
    BY DEF Readable
  <2> QED
    BY <2>1, <2>2, ItemsAreParsed
<1>3. v \in ParseField(f, lo, hi) <=> \E k \in DOMAIN f : v \in Said(f[k], lo, hi)
  BY <1>1, <1>2
<1> QED
  BY <1>3 DEF Says, Said

\* A star allows everything.
LEMMA StarSaysAll ==
  ASSUME NEW lo \in Int, NEW hi \in Int, NEW v \in lo..hi
  PROVE  Says(Star, lo, hi, v)
<1>1. 1 \in DOMAIN Star /\ Star[1].star /\ Star[1].step = <<>>
  BY DEF Star, Item
<1>2. (v - lo) % 1 = 0
  OBVIOUS
<1> QED
  BY <1>1, <1>2 DEF Says, Allows, Bounds, StepOf

-----------------------------------------------------------------------------
(* Dates *)

Dates == [month : 1..12, day : 1..31, weekday : 0..6]

\* A moment the calendar of the model can tell.
Told(t) == DateOf(t) \in Dates /\ HourOf(t) \in 0..(Hours - 1) /\ MinuteOf(t) \in 0..(Minutes - 1)

LEMMA YearsAreCounted ==
  ASSUME NEW y \in Nat, BaseYear <= y
  PROVE  /\ YearStart(BaseYear) = 0 /\ YearStart(y) \in Nat
         /\ YearStart(y + 1) = YearStart(y) + (IF Leap(y) THEN 366 ELSE 365)
<1> DEFINE leaps(z) == {x \in BaseYear..(z - 1) : Leap(x)}
<1>1. BaseYear \in Nat
  BY CalendarAssumption
<1>2. leaps(BaseYear) = {}
  BY <1>1
<1>3. \A z \in Nat : IsFiniteSet(leaps(z)) /\ Cardinality(leaps(z)) \in Nat
  <2> SUFFICES ASSUME NEW z \in Nat PROVE IsFiniteSet(leaps(z))
    BY FS_CardinalityType
  <2>1. IsFiniteSet(BaseYear..(z - 1))
    BY <1>1, FS_Interval
  <2>2. leaps(z) \in SUBSET (BaseYear..(z - 1))
    OBVIOUS
  <2> QED
    BY <2>1, <2>2, FS_Subset
<1>4. leaps(y + 1) = (IF Leap(y) THEN leaps(y) \cup {y} ELSE leaps(y)) /\ y \notin leaps(y)
  BY <1>1
<1>5. \A z \in Nat : YearStart(z) = 365 * (z - BaseYear) + Cardinality(leaps(z))
  BY DEF YearStart
<1> HIDE DEF leaps
<1>6. Cardinality(leaps(y + 1)) = Cardinality(leaps(y)) + (IF Leap(y) THEN 1 ELSE 0)
  BY <1>3, <1>4, FS_AddElement
<1>7. YearStart(BaseYear) = 0
  <2>1. Cardinality(leaps(BaseYear)) = 0
    BY <1>2, FS_EmptySet
  <2>2. YearStart(BaseYear) = 365 * (BaseYear - BaseYear) + Cardinality(leaps(BaseYear))
    BY <1>1, <1>5
  <2> QED
    BY <1>1, <2>1, <2>2
<1>8. YearStart(y) \in Nat
  BY <1>1, <1>3, <1>5
<1>9. YearStart(y + 1) = YearStart(y) + (IF Leap(y) THEN 366 ELSE 365)
  <2>1. YearStart(y + 1) = 365 * ((y + 1) - BaseYear) + Cardinality(leaps(y + 1))
    BY <1>5
  <2>2. YearStart(y) = 365 * (y - BaseYear) + Cardinality(leaps(y)) /\ Cardinality(leaps(y)) \in Nat
    BY <1>3, <1>5
  <2> QED
    BY <1>1, <1>6, <2>1, <2>2
<1> QED
  BY <1>7, <1>8, <1>9

\* Every day up to the end of the last year is in one of the years.
LEMMA YearsCover ==
  ASSUME NEW n \in Nat, n < YearStart(LastYear + 1)
  PROVE  \E y \in BaseYear..LastYear : YearStart(y) <= n /\ n < YearStart(y + 1)
<1> DEFINE T == {y \in Nat : BaseYear <= y /\ n < YearStart(y + 1)}
<1>1. BaseYear \in Nat /\ LastYear \in Nat /\ LastYear \in T
  BY CalendarAssumption
<1>2. PICK y \in T : \A x \in T : y <= x
  <2>1. T \in SUBSET Nat /\ T # {}
    BY <1>1
  <2> HIDE DEF T
  <2> QED
    BY <2>1, LeastElement
<1>3. y \in BaseYear..LastYear /\ n < YearStart(y + 1)
  BY <1>1, <1>2
<1>4. YearStart(y) <= n
  <2>1. CASE y = BaseYear
    BY <2>1, YearsAreCounted, <1>1
  <2>2. CASE y # BaseYear
    <3>1. y - 1 \in Nat /\ BaseYear <= y - 1 /\ (y - 1) + 1 = y /\ y \in Nat
      BY <1>1, <1>3, <2>2
    <3>2. y - 1 \notin T
      BY <1>2, <3>1
    <3>3. ~(n < YearStart(y))
      BY <3>1, <3>2
    <3>4. YearStart(y) \in Nat
      BY <3>1, <1>3, YearsAreCounted
    <3> QED
      BY <3>3, <3>4
  <2> QED
    BY <2>1, <2>2
<1> QED
  BY <1>3, <1>4

\* The months of a year follow each other without a gap.
LEMMA MonthsCover ==
  ASSUME NEW y \in Nat, NEW start \in Nat, start = YearStart(y), NEW n \in Nat,
         start <= n, n < start + (IF Leap(y) THEN 366 ELSE 365)
  PROVE  \E m \in 1..12 : n - MonthStart(y, m) \in 0..(Length(y, m) - 1)
<1> DEFINE k == n - start
           L == IF Leap(y) THEN 1 ELSE 0
<1>1. k \in 0..(364 + L) /\ L \in {0, 1}
  OBVIOUS
<1> DEFINE In(m) == n - MonthStart(y, m) \in 0..(Length(y, m) - 1)
<1>2. \A m \in 1..12 : \A from, days \in Nat :
        MonthStart(y, m) = start + from /\ Length(y, m) = days /\ k >= from /\ k < from + days
          => In(m)
  OBVIOUS
<1>3. /\ MonthStart(y, 1) = start /\ MonthStart(y, 2) = start + 31
      /\ MonthStart(y, 3) = start + (59 + L) /\ MonthStart(y, 4) = start + (90 + L)
      /\ MonthStart(y, 5) = start + (120 + L) /\ MonthStart(y, 6) = start + (151 + L)
      /\ MonthStart(y, 7) = start + (181 + L) /\ MonthStart(y, 8) = start + (212 + L)
      /\ MonthStart(y, 9) = start + (243 + L) /\ MonthStart(y, 10) = start + (273 + L)
      /\ MonthStart(y, 11) = start + (304 + L) /\ MonthStart(y, 12) = start + (334 + L)
  BY DEF MonthStart
<1>4. /\ Length(y, 1) = 31 /\ Length(y, 2) = 28 + L /\ Length(y, 3) = 31 /\ Length(y, 4) = 30
      /\ Length(y, 5) = 31 /\ Length(y, 6) = 30 /\ Length(y, 7) = 31 /\ Length(y, 8) = 31
      /\ Length(y, 9) = 30 /\ Length(y, 10) = 31 /\ Length(y, 11) = 30 /\ Length(y, 12) = 31
  BY DEF Length
<1>5. k \in Nat
  OBVIOUS
<1> HIDE DEF k, L, In
<1>6. k >= 0 /\ k < 31 => In(1)
  BY <1>1, <1>2, <1>3, <1>4, <1>5
<1>7. k >= 31 /\ k < 59 + L => In(2)
  BY <1>1, <1>2, <1>3, <1>4, <1>5
<1>8. k >= 59 + L /\ k < 90 + L => In(3)
  BY <1>1, <1>2, <1>3, <1>4, <1>5
<1>9. k >= 90 + L /\ k < 120 + L => In(4)
  BY <1>1, <1>2, <1>3, <1>4, <1>5
<1>10. k >= 120 + L /\ k < 151 + L => In(5)
  BY <1>1, <1>2, <1>3, <1>4, <1>5
<1>11. k >= 151 + L /\ k < 181 + L => In(6)
  BY <1>1, <1>2, <1>3, <1>4, <1>5
<1>12. k >= 181 + L /\ k < 212 + L => In(7)
  BY <1>1, <1>2, <1>3, <1>4, <1>5
<1>13. k >= 212 + L /\ k < 243 + L => In(8)
  BY <1>1, <1>2, <1>3, <1>4, <1>5
<1>14. k >= 243 + L /\ k < 273 + L => In(9)
  BY <1>1, <1>2, <1>3, <1>4, <1>5
<1>15. k >= 273 + L /\ k < 304 + L => In(10)
  BY <1>1, <1>2, <1>3, <1>4, <1>5
<1>16. k >= 304 + L /\ k < 334 + L => In(11)
  BY <1>1, <1>2, <1>3, <1>4, <1>5
<1>17. k >= 334 + L /\ k < 365 + L => In(12)
  BY <1>1, <1>2, <1>3, <1>4, <1>5
<1>18. \E m \in 1..12 : In(m)
  BY <1>1, <1>6, <1>7, <1>8, <1>9, <1>10, <1>11, <1>12, <1>13, <1>14, <1>15, <1>16, <1>17
<1> QED
  BY <1>18 DEF In

LEMMA DaysAreDates ==
  ASSUME NEW n \in Nat, n < YearStart(LastYear + 1)
  PROVE  Date[n] \in Dates
<1> DEFINE y == CHOOSE x \in BaseYear..LastYear : YearStart(x) <= n /\ n < YearStart(x + 1)
           m == CHOOSE x \in 1..12 : n - MonthStart(y, x) \in 0..(Length(y, x) - 1)
<1>0. BaseYear \in Nat /\ LastYear \in Nat /\ BaseWeekday \in 0..6 /\ BaseYear <= LastYear
  BY CalendarAssumption
<1>1. n \in 0..(YearStart(LastYear + 1) - 1)
  <2>1. LastYear + 1 \in Nat /\ BaseYear <= LastYear + 1
    BY <1>0
  <2>2. YearStart(LastYear + 1) \in Nat
    BY <2>1, YearsAreCounted
  <2> QED
    BY <2>2
<1>2. Date[n] = [month |-> m, day |-> n - MonthStart(y, m) + 1, weekday |-> (BaseWeekday + n) % 7]
  BY <1>1 DEF Date
<1>3. y \in BaseYear..LastYear /\ YearStart(y) <= n /\ n < YearStart(y + 1)
  BY YearsCover
<1> HIDE DEF y
<1>4. y \in Nat /\ BaseYear <= y
  BY <1>0, <1>3
<1>5. \E x \in 1..12 : n - MonthStart(y, x) \in 0..(Length(y, x) - 1)
  BY <1>3, <1>4, YearsAreCounted, MonthsCover
<1>6. m \in 1..12 /\ n - MonthStart(y, m) \in 0..(Length(y, m) - 1)
  BY <1>5
<1> HIDE DEF m
<1>7. Length(y, m) \in {28, 29, 30, 31}
  BY DEF Length
<1>8. n - MonthStart(y, m) + 1 \in 1..31
  <2> DEFINE d == n - MonthStart(y, m)
  <2>1. d \in 0..(Length(y, m) - 1)
    BY <1>6
  <2> HIDE DEF d
  <2>2. d + 1 \in 1..31
    BY <1>7, <2>1
  <2> QED
    BY <2>2 DEF d
<1>9. (BaseWeekday + n) % 7 \in 0..6
  BY <1>0
<1> QED
  BY <1>2, <1>6, <1>8, <1>9 DEF Dates

\* A day has Hours hours and an hour Minutes minutes.
LEMMA MomentsAreTold ==
  ASSUME NEW t \in Nat, t + Hour < YearStart(LastYear + 1) * Day
  PROVE  Told(t)
<1> DEFINE l == Local(t)
           years == YearStart(LastYear + 1)
<1>1. /\ Hours \in Nat \ {0} /\ Minutes \in Nat \ {0} /\ Forward \in Nat /\ Back \in Nat
      /\ years \in Nat
  <2>1. LastYear + 1 \in Nat /\ BaseYear <= LastYear + 1
    BY CalendarAssumption
  <2> QED
    BY <2>1, CalendarAssumption, YearsAreCounted
<1>2. Hour = Minutes * 2 /\ Day = Hours * Hour /\ Hour \in Nat \ {0}
  BY <1>1 DEF Hour, Day, Minute
<1>3. Day \in Nat \ {0}
  BY <1>1, <1>2
<1>4. l \in Nat /\ l < years * Day
  <2>1. years * Day \in Nat
    BY <1>1, <1>3
  <2> QED
    BY <1>2, <2>1 DEF Local
<1> HIDE DEF l, years
<1>5. l \div Day \in 0..(years - 1)
  BY <1>1, <1>3, <1>4
<1>6. DateOf(t) \in Dates
  <2>1. DateOf(t) = Date[l \div Day]
    BY DEF DateOf, l
  <2>2. l \div Day \in Nat /\ l \div Day < YearStart(LastYear + 1)
    BY <1>1, <1>5 DEF years
  <2> QED
    BY <2>1, <2>2, DaysAreDates
<1>7. HourOf(t) \in 0..(Hours - 1)
  <2> DEFINE r == l % Day
  <2>1. r \in Nat /\ r < Hours * Hour
    BY <1>2, <1>3, <1>4
  <2> HIDE DEF r
  <2>2. r \div Hour \in 0..(Hours - 1)
    BY <1>1, <1>2, <2>1
  <2> QED
    BY <2>2 DEF HourOf, r, l
<1>8. MinuteOf(t) \in 0..(Minutes - 1)
  <2> DEFINE r == l % Hour
  <2>1. r \in Nat /\ r < Minutes * 2
    BY <1>2, <1>4
  <2> HIDE DEF r
  <2>2. r \div 2 \in 0..(Minutes - 1)
    BY <1>1, <2>1
  <2> QED
    BY <2>2 DEF MinuteOf, Minute, r, l
<1> QED
  BY <1>6, <1>7, <1>8 DEF Told

-----------------------------------------------------------------------------
(* Matching *)

Fields(e) == {e.minute, e.hour, e.day, e.month, e.weekday}

\* At a moment that can be told, what was parsed matches where the writing says so.
LEMMA MatchIsMeans ==
  ASSUME NEW e, e.kind = "cron", Fields(e) \subseteq Seq(Items), Parse(e).kind = "clock",
         NEW t, Told(t)
  PROVE  Match(Parse(e), t) <=> Means(e, t)
<1> DEFINE s    == Parse(e)
           date == DateOf(t)
           week == ParseField(e.weekday, 0, 7)
<1>0. Hours \in Nat \ {0} /\ Minutes \in Nat \ {0}
  BY CalendarAssumption, SMTT(30)
<1>1. PICK d \in 1..31, mo \in 1..12, wd \in 0..6 :
        /\ date.day = d /\ date.month = mo /\ date.weekday = wd
        /\ HourOf(t) \in Int /\ MinuteOf(t) \in Int
  <2>1. date.month \in 1..12 /\ date.day \in 1..31 /\ date.weekday \in 0..6
    BY DEF Told, Dates
  <2>2. HourOf(t) \in Int /\ MinuteOf(t) \in Int
    BY <1>0 DEF Told
  <2> HIDE DEF date
  <2> QED
    BY <2>1, <2>2
<1>2. /\ Readable(e.minute, 0, Minutes - 1) /\ Readable(e.hour, 0, Hours - 1)
      /\ Readable(e.day, 1, 31) /\ Readable(e.month, 1, 12) /\ Readable(e.weekday, 0, 7)
  BY DEF Parse, Rejected
<1>3. s = [kind |-> "clock",
           minutes  |-> ParseField(e.minute, 0, Minutes - 1),
           hours    |-> ParseField(e.hour, 0, Hours - 1),
           days     |-> ParseField(e.day, 1, 31),
           months   |-> ParseField(e.month, 1, 12),
           weekdays |-> (week \cup (IF 7 \in week THEN {0} ELSE {})) \ {7},
           daysFree |-> e.day = Star, weekFree |-> e.weekday = Star]
  BY <1>2 DEF Parse, Rejected
<1> HIDE DEF s, date
<1>4. /\ e.minute \in Seq(Items) /\ e.hour \in Seq(Items) /\ e.day \in Seq(Items)
      /\ e.month \in Seq(Items) /\ e.weekday \in Seq(Items)
  BY DEF Fields
<1>5. MinuteOf(t) \in s.minutes <=> Says(e.minute, 0, Minutes - 1, MinuteOf(t))
  BY <1>0, <1>1, <1>2, <1>3, <1>4, FieldsAreParsed, SMTT(30)
<1>6. HourOf(t) \in s.hours <=> Says(e.hour, 0, Hours - 1, HourOf(t))
  BY <1>0, <1>1, <1>2, <1>3, <1>4, FieldsAreParsed, SMTT(30)
<1>7. mo \in s.months <=> Says(e.month, 1, 12, mo)
  BY <1>1, <1>2, <1>3, <1>4, FieldsAreParsed, SMTT(30)
<1>8. d \in s.days <=> Says(e.day, 1, 31, d)
  BY <1>1, <1>2, <1>3, <1>4, FieldsAreParsed, SMTT(30)
<1>9. wd \in s.weekdays
        <=> \E w \in 0..7 : w % 7 = wd /\ Says(e.weekday, 0, 7, w)
  <2>1. \A w \in 0..7 : w \in week <=> Says(e.weekday, 0, 7, w)
    BY <1>2, <1>4, FieldsAreParsed
  <2> HIDE DEF week
  <2>2. \A w \in 0..7 : w % 7 = IF w = 7 THEN 0 ELSE w
    OBVIOUS
  <2>3. s.weekdays = (week \cup (IF 7 \in week THEN {0} ELSE {})) \ {7}
    BY <1>3
  <2>4. wd \in s.weekdays <=> wd \in week \/ (wd = 0 /\ 7 \in week)
    BY <1>1, <2>3
  <2>5. ASSUME wd \in s.weekdays
        PROVE  \E w \in 0..7 : w % 7 = wd /\ Says(e.weekday, 0, 7, w)
    BY <1>1, <2>1, <2>2, <2>4, <2>5
  <2>6. ASSUME NEW w \in 0..7, w % 7 = wd, Says(e.weekday, 0, 7, w)
        PROVE  wd \in s.weekdays
    BY <1>1, <2>1, <2>2, <2>4, <2>6
  <2> QED
    BY <2>5, <2>6
<1>10. e.day = Star => Says(e.day, 1, 31, d)
  BY StarSaysAll
<1>11. e.weekday = Star => \E w \in 0..7 : w % 7 = wd /\ Says(e.weekday, 0, 7, w)
  <2>1. wd \in 0..7 /\ wd % 7 = wd
    BY <1>1
  <2> QED
    BY <2>1, StarSaysAll
<1>12. s.daysFree = (e.day = Star) /\ s.weekFree = (e.weekday = Star)
  BY <1>3
<1>13. DayMatches(s, date) /\ mo \in s.months <=> Date_Means(e, date)
  <2> DEFINE onDay  == Says(e.day, 1, 31, d)
             onWeek == \E w \in 0..7 : w % 7 = wd /\ Says(e.weekday, 0, 7, w)
  <2>1. DayMatches(s, date) <=>
          CASE e.day = Star /\ e.weekday = Star -> TRUE
            [] e.day = Star /\ e.weekday # Star -> onWeek
            [] e.day # Star /\ e.weekday = Star -> onDay
            [] OTHER -> onDay \/ onWeek
    <3>1. CASE e.day = Star /\ e.weekday = Star
      BY <1>12, <1>1, <3>1 DEF DayMatches
    <3>2. CASE e.day = Star /\ e.weekday # Star
      BY <1>9, <1>12, <1>1, <3>2 DEF DayMatches
    <3>3. CASE e.day # Star /\ e.weekday = Star
      BY <1>8, <1>12, <1>1, <3>3 DEF DayMatches
    <3>4. CASE e.day # Star /\ e.weekday # Star
      BY <1>8, <1>9, <1>12, <1>1, <3>4 DEF DayMatches
    <3> QED
      BY <3>1, <3>2, <3>3, <3>4
  <2>2. Date_Means(e, date) <=>
          /\ Says(e.month, 1, 12, mo)
          /\ IF e.day = Star \/ e.weekday = Star THEN onDay /\ onWeek ELSE onDay \/ onWeek
    BY <1>1 DEF Date_Means
  <2>3. (e.day = Star => onDay) /\ (e.weekday = Star => onWeek)
    BY <1>10, <1>11
  <2> HIDE DEF onDay, onWeek
  <2> QED
    BY <1>7, <2>1, <2>2, <2>3
<1>14. Match(s, t) <=> /\ DayMatches(s, date) /\ mo \in s.months
                      /\ HourOf(t) \in s.hours /\ MinuteOf(t) \in s.minutes
  BY <1>1 DEF Match, date
<1>15. Means(e, t) <=> /\ Date_Means(e, date)
                      /\ Says(e.hour, 0, Hours - 1, HourOf(t))
                      /\ Says(e.minute, 0, Minutes - 1, MinuteOf(t))
  BY DEF Means, date
<1> QED
  BY <1>5, <1>6, <1>13, <1>14, <1>15 DEF s

\* Scan returns the first minute after t that matches, of the n that follow.
LEMMA ScanIsFirst ==
  ASSUME NEW s, NEW t \in Nat, NEW n \in Nat
  PROVE  LET base  == t \div Minute
             found == Scan(s, t, n)
         IN  \/ /\ found = Never
                /\ \A i \in (base + 1)..(base + n) : ~Match(s, i * Minute)
             \/ \E k \in (base + 1)..(base + n) :
                  /\ found = k * Minute /\ Match(s, found) /\ found \in Nat /\ found > t
                  /\ \A i \in (base + 1)..(k - 1) : ~Match(s, i * Minute)
<1> DEFINE base  == t \div 2
           found == {i \in 1..n : Match(s, Truncated(t) + i * 2)}
<1>1. base \in Nat /\ Truncated(t) = base * 2 /\ t < base * 2 + 2
  BY DEF Truncated, Minute
<1>2. Minute = 2 /\ Scan(s, t, n) = IF found = {} THEN Never ELSE Truncated(t) + Min(found) * 2
  BY DEF Scan, Minute
<1>3. \A i \in 1..n : i \in found <=> Match(s, (base + i) * 2)
  <2>1. \A i \in 1..n : base * 2 + i * 2 = (base + i) * 2
    BY <1>1
  <2> QED
    BY <1>1, <2>1
<1>4. found \in SUBSET Nat /\ found \subseteq 1..n
  OBVIOUS
<1> HIDE DEF base, found
<1>5. \A i \in (base + 1)..(base + n) : /\ i - base \in 1..n /\ base + (i - base) = i
                                         /\ i \in Nat
  BY <1>1
<1>6. CASE found = {}
  <2>1. \A i \in (base + 1)..(base + n) : ~Match(s, i * 2)
    BY <1>3, <1>5, <1>6
  <2> QED
    BY <1>2, <1>6, <2>1 DEF base
<1>7. CASE found # {}
  <2>1. \E x \in found : \A y \in found : x <= y
    BY <1>4, <1>7, LeastElement
  <2>2. PICK m \in found : m = Min(found) /\ \A y \in found : m <= y
    BY <2>1 DEF Min
  <2>3. m \in 1..n
    BY <1>4
  <2> DEFINE k == base + m
  <2>4. k \in (base + 1)..(base + n) /\ k \in Nat /\ k * 2 \in Nat /\ k * 2 > t
    BY <1>1, <2>3
  <2>5. Scan(s, t, n) = k * 2
    BY <1>1, <1>2, <1>7, <2>2, <2>3
  <2>6. Match(s, k * 2)
    BY <1>3, <2>2, <2>3
  <2>7. \A i \in (base + 1)..(k - 1) : ~Match(s, i * 2)
    <3> SUFFICES ASSUME NEW i \in (base + 1)..(k - 1) PROVE ~Match(s, i * 2)
      OBVIOUS
    <3>1. i \in (base + 1)..(base + n) /\ i - base < m
      BY <1>1, <2>3
    <3>2. i - base \notin found
      BY <1>4, <1>5, <2>2, <2>3, <3>1
    <3> QED
      BY <1>3, <1>5, <3>1, <3>2
  <2> HIDE DEF k
  <2> QED
    BY <1>2, <2>4, <2>5, <2>6, <2>7 DEF base
<1> QED
  BY <1>6, <1>7

-----------------------------------------------------------------------------
(* The invariant *)

\* A clock schedule stays within the years the model knows.
CalendarInv ==
  /\ expr \in Expressions /\ spec \in {Unread, Parse(Written)}
  /\ firings \in 0..MaxFirings /\ now \in Nat \cup {Never}
  /\ spec = Unread => now \in Starts /\ firings = 0
  /\ spec.kind = "clock" /\ now # Never =>
       \E t \in Starts : now <= t + firings * (ScanLength * Minute)
  /\ FiringsAreMeant

\* What is read is a cron expression or an interval.
LEMMA WrittenKinds ==
  ASSUME expr \in Expressions
  PROVE  \/ Written.kind = "cron" /\ Fields(Written) \subseteq Seq(Items)
         \/ Written.kind = "every" /\ Written.n \in Nat /\ Written.unit \in DOMAIN Units
<1>1. CASE expr.kind = "named" /\ expr.name \in DOMAIN Shorthands
  <2>1. Written = Shorthands[expr.name]
    BY <1>1 DEF Written
  <2>2. \A v \in Int : One(v) \in Seq(Items) /\ Star \in Seq(Items)
    BY DEF One, Star, Item, Items
  <2>3. One(0) \in Seq(Items) /\ One(1) \in Seq(Items) /\ Star \in Seq(Items)
    BY <2>2
  <2>4. \E a, b, c, d, f \in Seq(Items) : Shorthands[expr.name] = Cron(a, b, c, d, f)
    BY <1>1, <2>3 DEF Shorthands
  <2> QED
    BY <2>1, <2>4 DEF Cron, Fields
<1>2. CASE expr.kind \in {"every", "cron"}
  BY <1>2, ExpressionsAssumption DEF Written, Fields
<1> QED
  BY <1>1, <1>2, ExpressionsAssumption

LEMMA ParsedKinds ==
  ASSUME NEW e
  PROVE  /\ e.kind = "every" =>
              \/ Parse(e) = Rejected
              \/ /\ Parse(e) = [kind |-> "interval", every |-> Wrapped(e.n * Units[e.unit])]
                 /\ ~(e.n < 1 \/ Wrapped(e.n * Units[e.unit]) < Minute)
         /\ e.kind # "every" => Parse(e).kind \in {"rejected", "clock"}
         /\ Unread.kind = "unread" /\ Rejected.kind = "rejected"
<1>1. Unread.kind = "unread" /\ Rejected.kind = "rejected"
  BY DEF Unread, Rejected
<1>2. CASE e.kind = "every"
  <2>1. Parse(e) = LET every == Wrapped(e.n * Units[e.unit])
                   IN  IF e.n < 1 \/ every < Minute THEN Rejected
                       ELSE [kind |-> "interval", every |-> every]
    BY <1>2 DEF Parse
  <2> QED
    BY <1>1, <1>2, <2>1
<1>3. CASE e.kind # "every"
  BY <1>1, <1>3 DEF Parse
<1> QED
  BY <1>1, <1>2, <1>3

LEMMA CalendarInit == Init => CalendarInv
<1> SUFFICES ASSUME Init PROVE CalendarInv
  OBVIOUS
<1>1. spec.kind = "unread" /\ MaxFirings \in Nat /\ Starts \subseteq Nat
  BY CalendarAssumption DEF Init, Unread
<1> QED
  BY <1>1 DEF Init, CalendarInv, FiringsAreMeant

\* An interval of less than half the width is not changed by the width.
LEMMA ShortIntervals ==
  ASSUME NEW n \in Nat, NEW unit \in DOMAIN Units
  PROVE  /\ Wrapped(n * Units[unit]) \in Int
         /\ n * Units[unit] < Word => Wrapped(n * Units[unit]) = n * Units[unit]
<1>1. Hour \in Nat /\ Day \in Nat /\ Minute \in Nat /\ Word \in Nat \ {0}
  BY CalendarAssumption DEF Hour, Day, Minute
<1>2. Units[unit] \in Nat
  BY <1>1 DEF Units
<1> DEFINE p == n * Units[unit]
<1>3. p \in Nat
  BY <1>2
<1> HIDE DEF p
<1>4. Wrapped(p) \in Int /\ (p < Word => Wrapped(p) = p)
  BY <1>1, <1>3 DEF Wrapped
<1> QED
  BY <1>4 DEF p

\* A scan moves on by ScanLength minutes at most, and the years reach that far.
LEMMA RoomForScan ==
  ASSUME CalendarInv, spec.kind = "clock", now # Never, firings < MaxFirings,
         NEW k \in Nat, k <= now \div Minute + ScanLength
  PROVE  /\ Told(k * Minute)
         /\ \E t \in Starts : k * Minute <= t + (firings + 1) * (ScanLength * Minute)
         /\ now + ScanLength * Minute + Hour < YearStart(LastYear + 1) * Day
<1> DEFINE scan == ScanLength * Minute
<1>1. /\ ScanLength \in Nat /\ scan \in Nat /\ Minute = 2 /\ scan = ScanLength * 2
      /\ Hour \in Nat /\ now \in Nat /\ firings \in Nat /\ MaxFirings \in Nat
      /\ firings + 1 <= MaxFirings
  <2>1. ScanLength \in Nat /\ Hour \in Nat
    BY CalendarAssumption DEF ScanLength, Hour, Minute
  <2> QED
    BY <2>1, CalendarAssumption DEF CalendarInv, Minute
<1>2. PICK t \in Starts : now <= t + firings * scan
  BY DEF CalendarInv
<1>3. t \in Nat
  BY CalendarAssumption
<1>4. k * 2 <= now + scan
  BY <1>1
<1> DEFINE years == YearStart(LastYear + 1) * Day
<1>5. t + MaxFirings * scan + Hour < years
  BY YearsAssumption
<1>6. years \in Nat
  <2>1. LastYear + 1 \in Nat /\ BaseYear <= LastYear + 1
    BY CalendarAssumption
  <2>2. YearStart(LastYear + 1) \in Nat
    BY <2>1, YearsAreCounted
  <2>3. Day \in Nat
    BY CalendarAssumption DEF Day, Hour, Minute
  <2> QED
    BY <2>2, <2>3
<1> HIDE DEF scan, years
<1>8. firings * scan + scan = (firings + 1) * scan /\ (firings + 1) * scan <= MaxFirings * scan
  BY <1>1
<1>9. firings * scan \in Nat /\ MaxFirings * scan \in Nat /\ (firings + 1) * scan \in Nat
  BY <1>1
<1>10. k * 2 <= t + (firings + 1) * scan
  BY <1>1, <1>2, <1>3, <1>4, <1>8, <1>9
<1>11. k * 2 + Hour < years
  BY <1>1, <1>3, <1>5, <1>6, <1>8, <1>9, <1>10
<1>12. Told(k * 2)
  BY <1>11, MomentsAreTold DEF years
<1>13. now + scan + Hour < years
  BY <1>1, <1>2, <1>3, <1>5, <1>6, <1>8, <1>9
<1> QED
  BY <1>1, <1>10, <1>12, <1>13 DEF scan, years

LEMMA CalendarStep == CalendarInv /\ [Next]_vars => CalendarInv'
<1> SUFFICES ASSUME CalendarInv, [Next]_vars PROVE CalendarInv'
  OBVIOUS
<1> DEFINE e == Written
<1>0. /\ expr \in Expressions /\ spec \in {Unread, Parse(e)} /\ MaxFirings \in Nat
      /\ firings \in 0..MaxFirings /\ Starts \subseteq Nat
  BY CalendarAssumption DEF CalendarInv
<1>1. CASE Read
  <2>1. /\ spec = Unread /\ spec' = Parse(e) /\ e' = e
        /\ expr' = expr /\ now' = now /\ firings' = firings /\ now \in Starts /\ firings = 0
    BY <1>1 DEF Read, CalendarInv, Written
  <2>2. Parse(e) # Unread
    BY WrittenKinds, ParsedKinds, <1>0
  <2>3. now <= now + 0 * (ScanLength * Minute)
    <3>1. ScanLength * Minute \in Nat /\ now \in Nat
      <4>1. ScanLength \in Nat
        BY CalendarAssumption DEF ScanLength
      <4> QED
        BY <1>0, <2>1, <4>1 DEF Minute
    <3> QED
      BY <3>1
  <2>4. FiringsAreMeant'
    BY <2>1 DEF FiringsAreMeant
  <2>5. Parse(e)' = Parse(e)
    BY <2>1
  <2> HIDE DEF e
  <2> QED
    BY <1>0, <2>1, <2>2, <2>3, <2>4, <2>5 DEF CalendarInv, e
<1>2. CASE Fire
  <2>1. /\ spec.kind \in {"interval", "clock"} /\ now # Never /\ firings < MaxFirings
        /\ last' = now /\ now' = NextAfter(spec, now) /\ firings' = firings + 1
        /\ expr' = expr /\ spec' = spec /\ e' = e /\ now \in Nat
    BY <1>2 DEF Fire, CalendarInv, Written
  <2>2. spec = Parse(e)
    BY <1>0, <2>1, ParsedKinds
  <2>3. firings' \in 0..MaxFirings /\ firings' > 0 /\ spec' # Unread
    BY <1>0, <2>1, ParsedKinds
  <2>4. CASE e.kind = "every"
    <3>1. /\ spec = [kind |-> "interval", every |-> Wrapped(e.n * Units[e.unit])]
          /\ ~(Wrapped(e.n * Units[e.unit]) < Minute)
          /\ e.n \in Nat /\ e.unit \in DOMAIN Units
      BY <1>0, <2>1, <2>2, <2>4, ParsedKinds, WrittenKinds
    <3>2. now' = now + Wrapped(e.n * Units[e.unit]) /\ spec.kind = "interval"
      BY <2>1, <3>1 DEF NextAfter
    <3>3. /\ Wrapped(e.n * Units[e.unit]) \in Nat
          /\ e.n * Units[e.unit] < Word => Wrapped(e.n * Units[e.unit]) = e.n * Units[e.unit]
      BY <3>1, ShortIntervals DEF Minute
    <3>4. FiringsAreMeant'
      BY <2>1, <2>4, <3>2, <3>3 DEF FiringsAreMeant
    <3>5. now' \in Nat
      BY <2>1, <3>2, <3>3
    <3> QED
      BY <1>0, <2>1, <2>2, <2>3, <3>2, <3>4, <3>5 DEF CalendarInv
  <2>5. CASE e.kind # "every"
    <3>1. spec.kind = "clock" /\ e.kind = "cron" /\ Fields(e) \subseteq Seq(Items)
      BY <1>0, <2>1, <2>2, <2>5, ParsedKinds, WrittenKinds
    <3>2. now' = Scan(spec, now, ScanLength) /\ ScanLength \in Nat /\ Minute = 2
      BY <2>1, <3>1, CalendarAssumption DEF NextAfter, ScanLength, Minute
    <3> DEFINE base == now \div Minute
    <3>3. base \in Nat
      BY <2>1, <3>2
    <3>4. ASSUME NEW i \in (base + 1)..(base + ScanLength)
          PROVE  Match(spec, i * Minute) <=> Means(e, i * Minute)
      <4>1. i \in Nat /\ i <= now \div Minute + ScanLength
        BY <3>2, <3>3
      <4>2. Told(i * Minute)
        BY <2>1, <3>1, <4>1, RoomForScan
      <4> HIDE DEF e, base
      <4> QED
        BY <2>2, <3>1, <4>2, MatchIsMeans
    <3>5. CASE /\ now' = Never
               /\ \A i \in (base + 1)..(base + ScanLength) : ~Match(spec, i * Minute)
      <4>1. LastScanned' = base + ScanLength
        BY <2>1, <3>5 DEF LastScanned
      <4>2. FiringsAreMeant'
        BY <2>1, <2>5, <3>4, <3>5, <4>1 DEF FiringsAreMeant
      <4> QED
        BY <1>0, <2>1, <2>2, <2>3, <3>5, <4>2 DEF CalendarInv
    <3>6. ASSUME NEW k \in (base + 1)..(base + ScanLength), now' = k * Minute,
                 Match(spec, now'), now' \in Nat, now' > now,
                 \A i \in (base + 1)..(k - 1) : ~Match(spec, i * Minute)
          PROVE  CalendarInv'
      <4>1. k \in Nat /\ k <= base + ScanLength /\ now' # Never
        BY <3>2, <3>3, <3>6 DEF Never
      <4>2. LastScanned' = k - 1 /\ now' % Minute = 0
        BY <3>2, <3>6, <4>1 DEF LastScanned
      <4>3. Means(e, now')
        BY <3>4, <3>6
      <4>4. \A i \in (base + 1)..(k - 1) : ~Means(e, i * Minute)
        <5>1. \A i \in (base + 1)..(k - 1) : i \in (base + 1)..(base + ScanLength)
          BY <3>2, <3>3, <4>1
        <5> QED
          BY <3>4, <3>6, <5>1
      <4>5. FiringsAreMeant'
        BY <2>1, <2>5, <3>6, <4>2, <4>3, <4>4 DEF FiringsAreMeant
      <4>6. \E t \in Starts : now' <= t + (firings + 1) * (ScanLength * Minute)
        BY <2>1, <3>1, <3>6, <4>1, RoomForScan
      <4> QED
        BY <1>0, <2>1, <2>2, <2>3, <3>6, <4>5, <4>6 DEF CalendarInv
    <3>7. \/ /\ now' = Never
             /\ \A i \in (base + 1)..(base + ScanLength) : ~Match(spec, i * Minute)
          \/ \E k \in (base + 1)..(base + ScanLength) :
               /\ now' = k * Minute /\ Match(spec, now') /\ now' \in Nat /\ now' > now
               /\ \A i \in (base + 1)..(k - 1) : ~Match(spec, i * Minute)
      BY <2>1, <3>2, ScanIsFirst
    <3> HIDE DEF base, e
    <3> QED
      BY <3>5, <3>6, <3>7
  <2> QED
    BY <2>4, <2>5
<1>3. CASE UNCHANGED vars
  BY <1>3 DEF vars, CalendarInv, FiringsAreMeant, LastScanned, Written
<1> QED
  BY <1>1, <1>2, <1>3 DEF Next

\* A schedule fires at the minutes its expression means, in order and with none left
\* out, for any length of the window; an interval that fits a Duration is kept.
THEOREM FiringsMean == Spec => []FiringsAreMeant
<1>1. CalendarInv => FiringsAreMeant
  BY DEF CalendarInv
<1> QED
  BY <1>1, CalendarInit, CalendarStep, PTL DEF Spec

-----------------------------------------------------------------------------
(* The window of NextAfter *)

\* Quotient and remainder.
LEMMA Divided ==
  ASSUME NEW q \in Nat \ {0}, NEW n \in Nat, NEW r \in 0..(q - 1)
  PROVE  (n * q + r) \div q = n /\ (n * q + r) % q = r
<1> DEFINE x == n * q + r
<1>1. x \in Nat /\ x = n * q + r
  OBVIOUS
<1>2. n * q + q = (n + 1) * q
  OBVIOUS
<1>3. x \div q = n
  BY <1>1, <1>2
<1>4. x % q = x - q * (x \div q)
  BY <1>1
<1> QED
  BY <1>1, <1>3, <1>4

LEMMA YearsGrow ==
  ASSUME NEW y \in Nat, NEW z \in Nat, BaseYear <= y, y <= z
  PROVE  YearStart(y) <= YearStart(z)
<1> DEFINE leaps(x) == {v \in BaseYear..(x - 1) : Leap(v)}
<1>1. BaseYear \in Nat
  BY CalendarAssumption
<1>2. IsFiniteSet(leaps(z))
  <2>1. IsFiniteSet(BaseYear..(z - 1))
    BY <1>1, FS_Interval
  <2>2. leaps(z) \in SUBSET (BaseYear..(z - 1))
    OBVIOUS
  <2> QED
    BY <2>1, <2>2, FS_Subset
<1>3. leaps(y) \in SUBSET leaps(z)
  BY <1>1
<1>4. /\ YearStart(y) = 365 * (y - BaseYear) + Cardinality(leaps(y))
      /\ YearStart(z) = 365 * (z - BaseYear) + Cardinality(leaps(z))
  BY DEF YearStart
<1> HIDE DEF leaps
<1>5. Cardinality(leaps(y)) <= Cardinality(leaps(z)) /\ IsFiniteSet(leaps(y))
  BY <1>2, <1>3, FS_Subset
<1>6. Cardinality(leaps(y)) \in Nat /\ Cardinality(leaps(z)) \in Nat
  BY <1>2, <1>5, FS_CardinalityType
<1> QED
  BY <1>1, <1>4, <1>5, <1>6

\* No day is in two months.
LEMMA MonthsApart ==
  ASSUME NEW y \in Nat, NEW start \in Nat, start = YearStart(y), NEW n \in Nat,
         NEW a \in 1..12, NEW b \in 1..12,
         n - MonthStart(y, a) \in 0..(Length(y, a) - 1),
         n - MonthStart(y, b) \in 0..(Length(y, b) - 1)
  PROVE  a = b /\ start <= n /\ n < start + (IF Leap(y) THEN 366 ELSE 365)
<1> DEFINE L == IF Leap(y) THEN 1 ELSE 0
           From == <<0, 31, 59 + L, 90 + L, 120 + L, 151 + L, 181 + L, 212 + L, 243 + L,
                     273 + L, 304 + L, 334 + L, 365 + L>>
<1>1. L \in {0, 1}
  OBVIOUS
<1>2. \A m \in 1..12 : MonthStart(y, m) = start + From[m] /\ Length(y, m) = From[m + 1] - From[m]
  BY DEF MonthStart, Length
<1>3. \A m \in 1..13 : From[m] \in Nat
  OBVIOUS
<1>4. \A m, k \in 1..13 : m < k => From[m] < From[k]
  OBVIOUS
<1>5. From[1] = 0 /\ From[13] = (IF Leap(y) THEN 366 ELSE 365)
  OBVIOUS
<1> HIDE DEF L, From
<1>6. start + From[a] <= n /\ n < start + From[a + 1]
  BY <1>2, <1>3
<1>7. start + From[b] <= n /\ n < start + From[b + 1]
  BY <1>2, <1>3
<1>8. ~(a < b)
  <2>1. a < b => a + 1 \in 1..12 /\ From[a + 1] <= From[b]
    BY <1>3, <1>4
  <2> QED
    BY <1>3, <1>6, <1>7, <2>1
<1>9. ~(b < a)
  <2>1. b < a => b + 1 \in 1..12 /\ From[b + 1] <= From[a]
    BY <1>3, <1>4
  <2> QED
    BY <1>3, <1>6, <1>7, <2>1
<1>10. From[1] <= From[a] /\ From[a + 1] <= From[13]
  BY <1>3, <1>4
<1> QED
  BY <1>3, <1>5, <1>6, <1>8, <1>9, <1>10

\* The date of the d-th day of month m of year y.
LEMMA DateIs ==
  ASSUME NEW y \in BaseYear..LastYear, NEW m \in 1..12, NEW d \in 1..Length(y, m),
         NEW n, n = MonthStart(y, m) + (d - 1)
  PROVE  /\ n \in Nat /\ YearStart(y) <= n /\ n < YearStart(y + 1)
         /\ Date[n] = [month |-> m, day |-> d, weekday |-> (BaseWeekday + n) % 7]
<1>0. /\ BaseYear \in Nat /\ LastYear \in Nat /\ BaseYear <= LastYear
      /\ y \in Nat /\ BaseYear <= y /\ y <= LastYear
  BY CalendarAssumption
<1>1. Length(y, m) \in 28..31 /\ d \in Nat
  BY DEF Length
<1>2. YearStart(y) \in Nat /\ YearStart(y + 1) = YearStart(y) + (IF Leap(y) THEN 366 ELSE 365)
  BY <1>0, YearsAreCounted
<1>3. MonthStart(y, m) \in Nat
  BY <1>2 DEF MonthStart
<1>4. n \in Nat /\ n - MonthStart(y, m) = d - 1 /\ d - 1 \in 0..(Length(y, m) - 1)
  BY <1>1, <1>3
<1>5. YearStart(y) <= n /\ n < YearStart(y + 1)
  BY <1>0, <1>2, <1>4, MonthsApart
<1>6. \A x \in BaseYear..LastYear : YearStart(x) <= n /\ n < YearStart(x + 1) => x = y
  <2> SUFFICES ASSUME NEW x \in BaseYear..LastYear, YearStart(x) <= n, n < YearStart(x + 1)
               PROVE  ~(x < y) /\ ~(y < x)
    BY <1>0
  <2>1. x \in Nat /\ BaseYear <= x /\ YearStart(x) \in Nat /\ YearStart(x + 1) \in Nat
    <3>1. x \in Nat /\ BaseYear <= x /\ x + 1 \in Nat /\ BaseYear <= x + 1
      BY <1>0
    <3> QED
      BY <3>1, YearsAreCounted
  <2>2. x < y => YearStart(x + 1) <= YearStart(y)
    BY <1>0, <2>1, YearsGrow
  <2>3. y < x => YearStart(y + 1) <= YearStart(x)
    BY <1>0, <2>1, YearsGrow
  <2> QED
    BY <1>2, <1>4, <1>5, <2>1, <2>2, <2>3
<1>7. n < YearStart(LastYear + 1) /\ YearStart(LastYear + 1) \in Nat
  <2>1. YearStart(y + 1) <= YearStart(LastYear + 1)
    BY <1>0, YearsGrow
  <2>2. YearStart(LastYear + 1) \in Nat
    BY <1>0, YearsAreCounted
  <2> QED
    BY <1>2, <1>4, <1>5, <2>1, <2>2
<1> DEFINE year  == CHOOSE x \in BaseYear..LastYear : YearStart(x) <= n /\ n < YearStart(x + 1)
           month == CHOOSE x \in 1..12 : n - MonthStart(year, x) \in 0..(Length(year, x) - 1)
<1>8. year = y
  BY <1>5, <1>6
<1>9. month = m
  <2>1. \A x \in 1..12 : n - MonthStart(y, x) \in 0..(Length(y, x) - 1) => x = m
    BY <1>0, <1>2, <1>4, MonthsApart, SMTT(30)
  <2> HIDE DEF year
  <2> QED
    BY <1>4, <1>8, <2>1
<1>10. Date[n] = [month |-> month, day |-> n - MonthStart(year, month) + 1,
                  weekday |-> (BaseWeekday + n) % 7]
  <2>1. n \in 0..(YearStart(LastYear + 1) - 1)
    BY <1>4, <1>7
  <2> QED
    BY <2>1 DEF Date
<1> HIDE DEF year, month
<1>11. n - MonthStart(y, m) + 1 = d
  BY <1>1, <1>3
<1> QED
  BY <1>4, <1>5, <1>8, <1>9, <1>10, <1>11

\* Two whole years lie within the days of a window.
LEMMA TwoYearsAhead ==
  ASSUME NEW D \in Nat, D + Window < YearStart(LastYear + 1)
  PROVE  \E y \in BaseYear..LastYear :
           /\ y + 1 \in BaseYear..LastYear
           /\ D < YearStart(y) /\ YearStart(y + 2) <= D + Window - 1
<1>0. /\ BaseYear \in Nat /\ LastYear \in Nat /\ BaseYear <= LastYear
      /\ Window \in Nat /\ Window > 1098
  BY CalendarAssumption, WindowAssumption
<1>1. YearStart(LastYear + 1) \in Nat
  BY <1>0, YearsAreCounted
<1>2. PICK x \in BaseYear..LastYear : YearStart(x) <= D /\ D < YearStart(x + 1)
  BY <1>0, <1>1, YearsCover
<1>3. x \in Nat /\ BaseYear <= x
  BY <1>0
<1>4. /\ YearStart(x) \in Nat /\ YearStart(x + 1) \in Nat
      /\ YearStart(x + 2) \in Nat /\ YearStart(x + 3) \in Nat
      /\ YearStart(x + 1) <= YearStart(x) + 366
      /\ YearStart(x + 2) <= YearStart(x + 1) + 366
      /\ YearStart(x + 3) <= YearStart(x + 2) + 366
  <2>1. ASSUME NEW z \in Nat, BaseYear <= z
        PROVE  YearStart(z) \in Nat /\ YearStart(z + 1) <= YearStart(z) + 366
    BY <2>1, YearsAreCounted
  <2>2. /\ x + 1 \in Nat /\ x + 2 \in Nat /\ x + 3 \in Nat
        /\ BaseYear <= x + 1 /\ BaseYear <= x + 2 /\ BaseYear <= x + 3
        /\ (x + 1) + 1 = x + 2 /\ (x + 2) + 1 = x + 3
    BY <1>0, <1>3
  <2>3. /\ YearStart((x + 1) + 1) <= YearStart(x + 1) + 366
        /\ YearStart((x + 2) + 1) <= YearStart(x + 2) + 366
    BY <2>1, <2>2
  <2> QED
    BY <1>3, <2>1, <2>2, <2>3
<1>5. x + 2 <= LastYear
  <2>1. LastYear + 1 <= x + 2 => YearStart(LastYear + 1) <= YearStart(x + 2)
    BY <1>0, <1>3, YearsGrow
  <2> QED
    BY <1>0, <1>1, <1>2, <1>3, <1>4, <2>1
<1>6. x + 1 \in BaseYear..LastYear /\ (x + 1) + 1 \in BaseYear..LastYear /\ (x + 1) + 2 = x + 3
  BY <1>0, <1>3, <1>5
<1> QED
  BY <1>0, <1>2, <1>4, <1>6

\* What an expression says of a date it says of its day in any week, or of its
\* weekday on any day of the month.
LEMMA DayOrWeekday ==
  ASSUME NEW e, NEW m \in 1..12, NEW d \in 1..31, NEW w \in 0..6,
         Date_Means(e, [month |-> m, day |-> d, weekday |-> w])
  PROVE  \/ \A v \in 0..6 : Date_Means(e, [month |-> m, day |-> d, weekday |-> v])
         \/ \A c \in 1..31 : Date_Means(e, [month |-> m, day |-> c, weekday |-> w])
<1> DEFINE onDay(c)  == Says(e.day, 1, 31, c)
           onWeek(v) == \E x \in 0..7 : x % 7 = v /\ Says(e.weekday, 0, 7, x)
           either    == ~(e.day = Star \/ e.weekday = Star)
<1>1. \A c \in 1..31, v \in 0..6 :
        Date_Means(e, [month |-> m, day |-> c, weekday |-> v]) <=>
          /\ Says(e.month, 1, 12, m)
          /\ IF either THEN onDay(c) \/ onWeek(v) ELSE onDay(c) /\ onWeek(v)
  BY DEF Date_Means
<1>2. e.day = Star => \A c \in 1..31 : onDay(c)
  BY StarSaysAll
<1>3. e.weekday = Star => \A v \in 0..6 : onWeek(v)
  <2>1. \A v \in 0..6 : v \in 0..7 /\ v % 7 = v
    OBVIOUS
  <2> QED
    BY <2>1, StarSaysAll
<1>4. either \/ e.day = Star \/ e.weekday = Star
  OBVIOUS
<1> HIDE DEF onDay, onWeek, either
<1> QED
  BY <1>1, <1>2, <1>3, <1>4

\* Seven days in a row have every weekday.
LEMMA WeekdaysRecur ==
  ASSUME NEW from \in Nat, NEW w \in 0..6
  PROVE  \E c \in 1..7 : (from + (c - 1)) % 7 = w
<1> DEFINE r == from % 7
           c == IF r <= w THEN w - r + 1 ELSE w - r + 8
<1>1. r \in 0..6 /\ c \in 1..7
  OBVIOUS
<1>2. (from + (c - 1)) % 7 = w
  OBVIOUS
<1> QED
  BY <1>1, <1>2

\* A month of a year the model knows has a date the expression means, unless what it
\* means is the leap day.
LEMMA DatesRecur ==
  ASSUME NEW e, NEW m \in 1..12, NEW d \in 1..Length(4, m), NEW w \in 0..6,
         Date_Means(e, [month |-> m, day |-> d, weekday |-> w]),
         NEW y \in BaseYear..LastYear
  PROVE  \/ \E n \in Nat : /\ YearStart(y) <= n /\ n < YearStart(y + 1)
                           /\ Date_Means(e, Date[n])
         \/ /\ m = 2 /\ d = 29
            /\ \A v \in 0..6 : Date_Means(e, [month |-> 2, day |-> 29, weekday |-> v])
<1>0. d \in 1..31 /\ BaseWeekday \in Nat
  BY CalendarAssumption DEF Length
<1>1. CASE \A v \in 0..6 : Date_Means(e, [month |-> m, day |-> d, weekday |-> v])
  <2>1. CASE m = 2 /\ d = 29
    BY <1>1, <2>1
  <2>2. CASE ~(m = 2 /\ d = 29)
    <3>1. d \in 1..Length(y, m)
      BY <2>2 DEF Length, Leap
    <3> DEFINE n == MonthStart(y, m) + (d - 1)
    <3>2. /\ n \in Nat /\ YearStart(y) <= n /\ n < YearStart(y + 1)
          /\ Date[n] = [month |-> m, day |-> d, weekday |-> (BaseWeekday + n) % 7]
      BY <3>1, DateIs
    <3>3. (BaseWeekday + n) % 7 \in 0..6
      BY <1>0, <3>2
    <3> QED
      BY <1>1, <3>2, <3>3
  <2> QED
    BY <2>1, <2>2
<1>2. CASE \A c \in 1..31 : Date_Means(e, [month |-> m, day |-> c, weekday |-> w])
  <2> DEFINE first == MonthStart(y, m) + (1 - 1)
  <2>1. 1..7 \subseteq 1..Length(y, m) /\ 1 \in 1..Length(y, m)
    BY DEF Length
  <2>2. first \in Nat /\ first = MonthStart(y, m)
    <3>1. first \in Nat
      BY <2>1, DateIs
    <3>2. MonthStart(y, m) \in Int
      <4>1. y \in Nat /\ BaseYear <= y
        BY CalendarAssumption
      <4>2. YearStart(y) \in Nat
        BY <4>1, YearsAreCounted
      <4> QED
        BY <4>2 DEF MonthStart
    <3> QED
      BY <3>1, <3>2
  <2>3. PICK c \in 1..7 : ((BaseWeekday + first) + (c - 1)) % 7 = w
    BY <1>0, <2>2, WeekdaysRecur
  <2> DEFINE n == MonthStart(y, m) + (c - 1)
  <2>4. /\ n \in Nat /\ YearStart(y) <= n /\ n < YearStart(y + 1)
        /\ Date[n] = [month |-> m, day |-> c, weekday |-> (BaseWeekday + n) % 7]
    BY <2>1, <2>3, DateIs
  <2>5. (BaseWeekday + n) % 7 = w
    <3>1. BaseWeekday + n = (BaseWeekday + first) + (c - 1)
      BY <1>0, <2>2
    <3> QED
      BY <2>3, <3>1
  <2> QED
    BY <1>2, <2>4, <2>5
<1>3. \/ \A v \in 0..6 : Date_Means(e, [month |-> m, day |-> d, weekday |-> v])
      \/ \A c \in 1..31 : Date_Means(e, [month |-> m, day |-> c, weekday |-> w])
  BY <1>0, DayOrWeekday, Zenon
<1> QED
  BY <1>1, <1>2, <1>3

\* The window has two days that the expression means, or all
\* that it means is the leap day.
LEMMA DaysAhead ==
  ASSUME NEW e, Possible(e), NEW D \in Nat, D + Window < YearStart(LastYear + 1)
  PROVE  \/ \E n1, n2 \in (D + 1)..(D + Window - 2) :
              n1 < n2 /\ Date_Means(e, Date[n1]) /\ Date_Means(e, Date[n2])
         \/ \A v \in 0..6 : Date_Means(e, [month |-> 2, day |-> 29, weekday |-> v])
<1>1. PICK m \in 1..12 : \E d \in 1..Length(4, m) : \E w \in 0..6 :
        Date_Means(e, [month |-> m, day |-> d, weekday |-> w])
  BY DEF Possible
<1>2. PICK d \in 1..Length(4, m), w \in 0..6 :
        Date_Means(e, [month |-> m, day |-> d, weekday |-> w])
  BY <1>1
<1>3. PICK y \in BaseYear..LastYear :
        /\ y + 1 \in BaseYear..LastYear
        /\ D < YearStart(y) /\ YearStart(y + 2) <= D + Window - 1
  BY TwoYearsAhead
<1> SUFFICES ASSUME ~\A v \in 0..6 : Date_Means(e, [month |-> 2, day |-> 29, weekday |-> v])
             PROVE  \E n1, n2 \in (D + 1)..(D + Window - 2) :
                      n1 < n2 /\ Date_Means(e, Date[n1]) /\ Date_Means(e, Date[n2])
  OBVIOUS
<1>4. PICK n1 \in Nat : /\ YearStart(y) <= n1 /\ n1 < YearStart(y + 1)
                        /\ Date_Means(e, Date[n1])
  BY <1>2, DatesRecur
<1>5. PICK n2 \in Nat : /\ YearStart(y + 1) <= n2 /\ n2 < YearStart((y + 1) + 1)
                        /\ Date_Means(e, Date[n2])
  BY <1>2, <1>3, DatesRecur
<1>6. /\ YearStart(y) \in Nat /\ YearStart(y + 1) \in Nat /\ YearStart(y + 2) \in Nat
      /\ YearStart(y) <= YearStart(y + 1) /\ (y + 1) + 1 = y + 2 /\ Window \in Nat
  <2>1. /\ y \in Nat /\ y + 1 \in Nat /\ y + 2 \in Nat
        /\ BaseYear <= y /\ BaseYear <= y + 1 /\ BaseYear <= y + 2 /\ y <= y + 1
    BY CalendarAssumption
  <2>2. YearStart(y) <= YearStart(y + 1)
    BY <2>1, YearsGrow
  <2> QED
    BY <2>1, <2>2, YearsAreCounted, CalendarAssumption
<1>7. n2 < YearStart(y + 2)
  BY <1>5, <1>6
<1>8. n1 \in (D + 1)..(D + Window - 2) /\ n2 \in (D + 1)..(D + Window - 2) /\ n1 < n2
  BY <1>3, <1>4, <1>5, <1>6, <1>7
<1> QED
  BY <1>4, <1>5, <1>8

\* A field without an error says at least one value.
LEMMA FieldsSaySomething ==
  ASSUME NEW f \in Seq(Items), NEW lo \in Int, NEW hi \in Int, Readable(f, lo, hi)
  PROVE  \E v \in lo..hi : Says(f, lo, hi, v)
<1>1. 1 \in DOMAIN f /\ f[1] \in Items
  BY DEF Readable
<1> DEFINE b == Bounds(f[1], lo, hi)
<1>2. StepOf(f[1]) >= 1 /\ {b[1], b[2]} \subseteq lo..hi /\ b[1] <= b[2]
  BY <1>1 DEF Readable
<1>3. StepOf(f[1]) \in Nat \ {0}
  <2>1. f[1].step \in Seq(Int)
    BY <1>1 DEF Items
  <2>2. StepOf(f[1]) \in Int
    <3>1. f[1].step # <<>> => f[1].step[1] \in Int
      BY <2>1
    <3> QED
      BY <3>1 DEF StepOf
  <2> QED
    BY <1>2, <2>2
<1>4. b[1] \in lo..hi /\ b[1] \in b[1]..b[2] /\ (b[1] - b[1]) % StepOf(f[1]) = 0
  <2>1. b[1] \in lo..hi /\ b[2] \in lo..hi
    BY <1>2
  <2>2. b[1] - b[1] = 0 /\ b[1] \in b[1]..b[2]
    BY <1>2, <2>1
  <2>3. 0 % StepOf(f[1]) = 0
    BY <1>3
  <2> QED
    BY <2>1, <2>2, <2>3
<1>5. Says(f, lo, hi, b[1])
  BY <1>1, <1>4 DEF Says, Allows
<1> QED
  BY <1>4, <1>5

-----------------------------------------------------------------------------
(* The local clock *)

\* The moment of the local clock at minute mi of hour h of day n.
Clock(n, h, mi) == n * Day + (h * Hour + mi * Minute)

\* The units of the calendar are multiples of each other.
LEMMA UnitsFit ==
  /\ Minute = 2 /\ Hour = Minutes * 2 /\ Day = Hours * Hour
  /\ Hours \in Nat \ {0} /\ Minutes \in Nat \ {0} /\ Hour \in Nat \ {0} /\ Day \in Nat \ {0}
  /\ Hour <= Day /\ Window \in Nat \ {0} /\ Forward \in Nat /\ Back \in Nat
  /\ ScanLength \in Nat /\ Window * Day = ScanLength * 2
<1>1. /\ Hours \in Nat \ {0} /\ Minutes \in Nat \ {0} /\ Window \in Nat \ {0}
      /\ Forward \in Nat /\ Back \in Nat
  BY CalendarAssumption
<1>2. Minute = 2 /\ Hour = Minutes * 2 /\ Day = Hours * Hour
  BY DEF Minute, Hour, Day
<1>3. Hour \in Nat \ {0}
  BY <1>1, <1>2
<1>4. Day \in Nat \ {0} /\ Hour <= Day
  BY <1>1, <1>2, <1>3
<1>5. ScanLength = Window * Hours * Minutes
  BY DEF ScanLength
<1>6. Window * (Hours * (Minutes * 2)) = (Window * Hours * Minutes) * 2
  BY <1>1
<1> QED
  BY <1>1, <1>2, <1>3, <1>4, <1>5, <1>6

LEMMA ClockIsWithinDay ==
  ASSUME NEW n \in Nat, NEW h \in 0..(Hours - 1), NEW mi \in 0..(Minutes - 1)
  PROVE  /\ h * Hour + mi * Minute \in 0..(Day - 1) /\ mi * Minute \in 0..(Hour - 1)
         /\ Clock(n, h, mi) \in Nat
         /\ n * Day <= Clock(n, h, mi) /\ Clock(n, h, mi) < (n + 1) * Day
         /\ \E l \in Nat : Clock(n, h, mi) = l * 2
<1>1. h \in Nat /\ mi \in Nat /\ h <= Hours - 1 /\ mi <= Minutes - 1
  BY UnitsFit
<1>2. mi * 2 \in 0..(Hour - 1)
  BY <1>1, UnitsFit
<1>3. h * Hour + Hour <= Hours * Hour /\ h * Hour \in Nat
  <2>1. h * Hour + Hour = (h + 1) * Hour /\ h + 1 <= Hours
    BY <1>1, UnitsFit
  <2>2. (h + 1) * Hour <= Hours * Hour
    BY <1>1, <2>1, UnitsFit
  <2> QED
    BY <1>1, <2>1, <2>2, UnitsFit
<1>4. h * Hour + mi * 2 \in 0..(Day - 1)
  BY <1>2, <1>3, UnitsFit
<1>5. n * Day \in Nat /\ (n + 1) * Day = n * Day + Day
  BY UnitsFit
<1>6. n * Day + (h * Hour + mi * 2) = (n * (Hours * Minutes) + (h * Minutes + mi)) * 2
  <2>1. n * (Hours * (Minutes * 2)) = (n * (Hours * Minutes)) * 2
    BY UnitsFit
  <2>2. h * (Minutes * 2) = (h * Minutes) * 2
    BY <1>1, UnitsFit
  <2>3. n * (Hours * Minutes) \in Nat /\ h * Minutes \in Nat
    BY <1>1, UnitsFit
  <2> QED
    BY <1>1, <2>1, <2>2, <2>3, UnitsFit
<1>7. n * (Hours * Minutes) + (h * Minutes + mi) \in Nat
  BY <1>1, UnitsFit
<1> QED
  BY <1>2, <1>4, <1>5, <1>6, <1>7, UnitsFit DEF Clock

\* What is told at such a moment.
LEMMA ClockTells ==
  ASSUME NEW n \in Nat, NEW h \in 0..(Hours - 1), NEW mi \in 0..(Minutes - 1),
         NEW t, Local(t) = Clock(n, h, mi)
  PROVE  DateOf(t) = Date[n] /\ HourOf(t) = h /\ MinuteOf(t) = mi
<1> DEFINE r == h * Hour + mi * Minute
<1>1. r \in 0..(Day - 1) /\ mi * Minute \in 0..(Hour - 1) /\ h \in Nat /\ mi \in Nat
  BY ClockIsWithinDay, UnitsFit
<1>2. Local(t) \div Day = n /\ Local(t) % Day = r
  <2>1. Local(t) = n * Day + r
    BY DEF Clock
  <2> HIDE DEF r
  <2> QED
    BY <1>1, <2>1, UnitsFit, Divided
<1>3. r \div Hour = h
  BY <1>1, UnitsFit, Divided, SMTT(30)
<1>4. Local(t) % Hour = mi * Minute
  <2>1. Local(t) = (n * Hours + h) * Hour + mi * Minute
    <3>1. n * (Hours * Hour) + h * Hour = (n * Hours + h) * Hour
      BY <1>1, UnitsFit
    <3> QED
      BY <1>1, <3>1, UnitsFit DEF Clock
  <2> DEFINE q  == n * Hours + h
             mm == mi * Minute
  <2>2. q \in Nat /\ mm \in 0..(Hour - 1) /\ Local(t) = q * Hour + mm
    BY <1>1, <2>1, UnitsFit
  <2> HIDE DEF q, mm
  <2>3. Local(t) % Hour = mm
    BY <2>2, UnitsFit, Divided
  <2> QED
    BY <2>3 DEF mm
<1>5. (mi * Minute) \div Minute = mi
  BY <1>1, UnitsFit
<1> HIDE DEF r
<1> QED
  BY <1>2, <1>3, <1>4, <1>5 DEF DateOf, HourOf, MinuteOf, r

\* A moment of the local clock that is not skipped is among the minutes scanned, when
\* its day is one of the window's.
LEMMA ClockIsScanned ==
  ASSUME NEW t \in Nat,
         NEW n \in (Local(t) \div Day + 1)..(Local(t) \div Day + Window - 2),
         NEW h \in 0..(Hours - 1), NEW mi \in 0..(Minutes - 1),
         Clock(n, h, mi) \notin Forward..(Forward + Hour - 1)
  PROVE  \E k \in (t \div Minute + 1)..(t \div Minute + ScanLength) :
           Local(k * Minute) = Clock(n, h, mi)
<1> DEFINE L    == Clock(n, h, mi)
           D    == Local(t) \div Day
           scan == ScanLength * 2
<1>0. /\ Local(t) \in Nat /\ Local(t) \in {t, t + Hour}
      /\ Local(t) = IF Forward <= t /\ t < Back THEN t + Hour ELSE t
  BY UnitsFit DEF Local
<1>1. D \in Nat /\ D * Day <= Local(t) /\ Local(t) < (D + 1) * Day
  <2> DEFINE q == Day
             x == Local(t)
  <2>1. q \in Nat \ {0} /\ x \in Nat
    BY <1>0, UnitsFit
  <2> HIDE DEF q, x
  <2>2. x \div q \in Nat /\ (x \div q) * q <= x /\ x < (x \div q + 1) * q
    BY <2>1
  <2> QED
    BY <2>2 DEF q, x
<1>2. n \in Nat /\ D + 1 <= n /\ n + 1 <= D + Window - 1
  BY <1>1, UnitsFit
<1>3. PICK l \in Nat : L = l * 2 /\ L \in Nat /\ n * Day <= L /\ L < (n + 1) * Day
  BY <1>2, ClockIsWithinDay
<1>4. Local(t) < L /\ L < Local(t) + scan - Day
  <2> HIDE DEF D, L
  <2>1. (D + 1) * Day <= n * Day
    BY <1>1, <1>2, UnitsFit
  <2>2. (n + 1) * Day <= (D + Window - 1) * Day
    BY <1>1, <1>2, UnitsFit
  <2>3. (D + Window - 1) * Day = D * Day + Window * Day - Day
    BY <1>1, UnitsFit
  <2>4. /\ D * Day \in Nat /\ (D + 1) * Day \in Nat /\ n * Day \in Nat /\ (n + 1) * Day \in Nat
        /\ scan \in Nat /\ Window * Day = scan
    BY <1>1, <1>2, UnitsFit
  <2> QED
    BY <1>0, <1>1, <1>3, <2>1, <2>2, <2>3, <2>4, UnitsFit
<1>5. t < L /\ L < t + scan + Hour - Day /\ scan \in Nat
  BY <1>0, <1>3, <1>4, UnitsFit
<1>6. ASSUME NEW k \in Nat, t < k * 2, k * 2 < t + scan
      PROVE  k \in (t \div Minute + 1)..(t \div Minute + ScanLength)
  BY <1>6, UnitsFit
<1>7. CASE L < Forward \/ L >= Back
  <2>1. Local(l * Minute) = L
    BY <1>3, <1>7, UnitsFit DEF Local
  <2>2. l * 2 < t + scan
    BY <1>3, <1>5, UnitsFit
  <2> QED
    BY <1>3, <1>5, <1>6, <2>1, <2>2
<1>8. CASE L >= Forward + Hour /\ L < Back
  <2> DEFINE k == l - Minutes
  <2>1. k * 2 = L - Hour /\ k \in Nat
    BY <1>3, <1>8, UnitsFit
  <2>2. Local(k * Minute) = L
    BY <1>3, <1>8, <2>1, UnitsFit DEF Local
  <2>3. t < k * 2 /\ k * 2 < t + scan
    BY <1>0, <1>3, <1>4, <1>5, <1>8, <2>1, UnitsFit
  <2> QED
    BY <1>6, <2>1, <2>2, <2>3
<1> QED
  BY <1>3, <1>7, <1>8, UnitsFit

-----------------------------------------------------------------------------
(* Never *)

\* What some year has a day for is met within the window, but for the leap day when
\* the window has none.
LEMMA WindowSuffices ==
  ASSUME NEW e, e.kind = "cron", Fields(e) \subseteq Seq(Items), Parse(e).kind = "clock",
         Possible(e),
         NEW t \in Nat, t + ScanLength * Minute + Hour < YearStart(LastYear + 1) * Day,
         ~LeapGap(t)
  PROVE  \E k \in (t \div Minute + 1)..(t \div Minute + ScanLength) : Means(e, k * Minute)
<1> DEFINE D     == Local(t) \div Day
           years == YearStart(LastYear + 1)
<1>1. years \in Nat /\ LastYear \in Nat
  <2>1. LastYear + 1 \in Nat /\ BaseYear <= LastYear + 1 /\ LastYear \in Nat
    BY CalendarAssumption
  <2> QED
    BY <2>1, YearsAreCounted
<1>2. D \in Nat /\ D + Window < years
  <2> DEFINE x == Local(t)
             q == Day
  <2>1. x \in Nat /\ x <= t + Hour /\ q \in Nat \ {0}
    BY UnitsFit DEF Local
  <2>2. x + Window * q < years * q
    BY <2>1, UnitsFit, <1>1
  <2> HIDE DEF x, q, years
  <2>3. x \div q \in Nat /\ (x \div q) * q <= x
    BY <2>1
  <2>4. (x \div q + Window) * q < years * q
    <3>1. (x \div q + Window) * q = (x \div q) * q + Window * q
      BY <2>1, <2>3, UnitsFit
    <3>2. (x \div q) * q \in Nat /\ Window * q \in Nat /\ years * q \in Nat
      BY <1>1, <2>1, <2>3, UnitsFit
    <3> QED
      BY <2>1, <2>2, <2>3, <3>1, <3>2
  <2>5. x \div q + Window < years
    BY <1>1, <2>1, <2>3, <2>4, UnitsFit
  <2> QED
    BY <2>3, <2>5 DEF x, q
<1>3. /\ Readable(e.minute, 0, Minutes - 1) /\ Readable(e.hour, 0, Hours - 1)
      /\ e.minute \in Seq(Items) /\ e.hour \in Seq(Items)
  BY DEF Parse, Rejected, Fields
<1>4. PICK h \in 0..(Hours - 1) : Says(e.hour, 0, Hours - 1, h)
  BY <1>3, UnitsFit, FieldsSaySomething
<1>5. PICK mi \in 0..(Minutes - 1) : Says(e.minute, 0, Minutes - 1, mi)
  BY <1>3, UnitsFit, FieldsSaySomething
<1>6. ASSUME NEW n \in (D + 1)..(D + Window - 2), Date_Means(e, Date[n]),
             Clock(n, h, mi) \notin Forward..(Forward + Hour - 1)
      PROVE  \E k \in (t \div Minute + 1)..(t \div Minute + ScanLength) : Means(e, k * Minute)
  <2>1. PICK k \in (t \div Minute + 1)..(t \div Minute + ScanLength) :
          Local(k * Minute) = Clock(n, h, mi)
    BY <1>6, ClockIsScanned
  <2>2. n \in Nat
    BY <1>2, UnitsFit
  <2>3. /\ DateOf(k * Minute) = Date[n] /\ HourOf(k * Minute) = h
        /\ MinuteOf(k * Minute) = mi
    BY <2>1, <2>2, ClockTells
  <2>4. Means(e, k * Minute)
    BY <1>4, <1>5, <1>6, <2>3 DEF Means
  <2> QED
    BY <2>4
<1>7. CASE \E n1, n2 \in (D + 1)..(D + Window - 2) :
             n1 < n2 /\ Date_Means(e, Date[n1]) /\ Date_Means(e, Date[n2])
  <2>1. PICK n1 \in (D + 1)..(D + Window - 2), n2 \in (D + 1)..(D + Window - 2) :
          n1 < n2 /\ Date_Means(e, Date[n1]) /\ Date_Means(e, Date[n2])
    BY <1>7
  <2>2. n1 \in Nat /\ n2 \in Nat
    BY <1>2, UnitsFit
  <2>3. Clock(n1, h, mi) + Day <= Clock(n2, h, mi)
    <3>1. (n1 + 1) * Day <= n2 * Day
      BY <2>1, <2>2, UnitsFit
    <3>2. (n1 + 1) * Day = n1 * Day + Day /\ n1 * Day \in Nat /\ n2 * Day \in Nat
      BY <2>2, UnitsFit
    <3>3. h * Hour + mi * Minute \in 0..(Day - 1)
      BY ClockIsWithinDay
    <3> DEFINE r == h * Hour + mi * Minute
    <3> HIDE DEF r
    <3> QED
      BY <3>1, <3>2, <3>3, UnitsFit DEF Clock, r
  <2>4. Clock(n1, h, mi) \in Nat /\ Clock(n2, h, mi) \in Nat
    BY <2>2, ClockIsWithinDay
  <2>5. \/ Clock(n1, h, mi) \notin Forward..(Forward + Hour - 1)
        \/ Clock(n2, h, mi) \notin Forward..(Forward + Hour - 1)
    BY <2>3, <2>4, UnitsFit, SMTT(30)
  <2> QED
    BY <1>6, <2>1, <2>5
<1>8. CASE \A v \in 0..6 : Date_Means(e, [month |-> 2, day |-> 29, weekday |-> v])
  <2>1. PICK n \in (D + 1)..(D + Window - 2) : LeapDay(n)
    BY DEF LeapGap
  <2>2. n \in Nat /\ n < years
    BY <1>1, <1>2, UnitsFit
  <2>3. Date[n] \in Dates
    BY <2>2, DaysAreDates
  <2>4. Date[n] = [month |-> 2, day |-> 29, weekday |-> Date[n].weekday] /\ Date[n].weekday \in 0..6
    BY <2>1, <2>3 DEF LeapDay, Dates
  <2>5. Date_Means(e, Date[n])
    BY <1>8, <2>4
  <2>6. Clock(n, h, mi) \div Day = n
    <3> DEFINE r == h * Hour + mi * Minute
    <3>1. r \in 0..(Day - 1) /\ Clock(n, h, mi) = n * Day + r
      BY ClockIsWithinDay DEF Clock
    <3> HIDE DEF r
    <3>2. (n * Day + r) \div Day = n
      BY <2>2, <3>1, UnitsFit, Divided
    <3> QED
      BY <3>1, <3>2
  <2>7. n \in DOMAIN Date
    BY <1>1, <2>2 DEF Date
  <2>8. Clock(n, h, mi) \notin Forward..(Forward + Hour - 1)
    BY <2>1, <2>6, <2>7, LocalClockAssumption
  <2> QED
    BY <1>6, <2>5, <2>8
<1> QED
  BY <1>2, <1>7, <1>8, DaysAhead

LEMMA NeverStep ==
  CalendarInv /\ CalendarInv' /\ NeverIsMeant /\ [Next]_vars => NeverIsMeant'
<1> SUFFICES ASSUME CalendarInv, CalendarInv', NeverIsMeant, [Next]_vars PROVE NeverIsMeant'
  OBVIOUS
<1>1. CASE Read
  BY <1>1 DEF Read, CalendarInv, NeverIsMeant
<1>2. CASE Fire
  <2> SUFFICES ASSUME now' = Never, Possible(Written), ~LeapGap(now) PROVE FALSE
    BY <1>2 DEF Fire, NeverIsMeant, Written
  <2> DEFINE e == Written
  <2>1. /\ spec.kind \in {"interval", "clock"} /\ now # Never /\ firings < MaxFirings
        /\ last' = now /\ now' = NextAfter(spec, now) /\ firings' = firings + 1
        /\ expr' = expr /\ e' = e /\ now \in Nat /\ firings \in Nat
    BY <1>2 DEF Fire, CalendarInv, Written
  <2>2. spec = Parse(e) /\ expr \in Expressions
    BY <2>1, ParsedKinds DEF CalendarInv
  <2>3. CASE e.kind = "every"
    <3>1. /\ spec = [kind |-> "interval", every |-> Wrapped(e.n * Units[e.unit])]
          /\ ~(Wrapped(e.n * Units[e.unit]) < Minute)
          /\ e.n \in Nat /\ e.unit \in DOMAIN Units
      BY <2>1, <2>2, <2>3, ParsedKinds, WrittenKinds
    <3>2. Wrapped(e.n * Units[e.unit]) \in Nat
      BY <3>1, ShortIntervals DEF Minute
    <3>3. now' = now + Wrapped(e.n * Units[e.unit])
      BY <2>1, <3>1 DEF NextAfter
    <3> QED
      BY <2>1, <3>2, <3>3 DEF Never
  <2>4. CASE e.kind # "every"
    <3>1. spec.kind = "clock" /\ e.kind = "cron" /\ Fields(e) \subseteq Seq(Items)
      BY <2>1, <2>2, <2>4, ParsedKinds, WrittenKinds
    <3>2. \A k \in (now \div Minute + 1)..(now \div Minute + ScanLength) : ~Means(e, k * Minute)
      <4>1. FiringsAreMeant' /\ firings' > 0
        BY <2>1 DEF CalendarInv
      <4>2. LastScanned' = now \div Minute + ScanLength
        BY <2>1 DEF LastScanned
      <4> HIDE DEF e
      <4>3. \A k \in (last' \div Minute + 1)..LastScanned' : ~Means(e', k * Minute)
        BY <2>1, <2>4, <4>1 DEF FiringsAreMeant, e
      <4> QED
        BY <2>1, <4>2, <4>3
    <3>3. now + ScanLength * Minute + Hour < YearStart(LastYear + 1) * Day
      <4>1. 0 \in Nat /\ 0 <= now \div Minute + ScanLength
        BY <2>1, UnitsFit
      <4> QED
        BY <2>1, <3>1, <4>1, RoomForScan
    <3> QED
      BY <2>1, <2>2, <3>1, <3>2, <3>3, WindowSuffices
  <2> QED
    BY <2>3, <2>4
<1>3. CASE UNCHANGED vars
  BY <1>3 DEF vars, NeverIsMeant, Written
<1> QED
  BY <1>1, <1>2, <1>3 DEF Next

\* NextAfter: "never" is said only of what no year has a day for, or of the leap day
\* where the window holds none; with it the whole of what the runs check.
THEOREM NeverMeans == Spec => []FiringsAreTheCalendars
<1>1. Init => NeverIsMeant
  BY DEF Init, NeverIsMeant
<1>2. Spec => []CalendarInv
  BY CalendarInit, CalendarStep, PTL DEF Spec
<1>3. Spec => []NeverIsMeant
  BY <1>1, <1>2, NeverStep, PTL DEF Spec
<1> QED
  BY <1>3, FiringsMean, PTL DEF FiringsAreTheCalendars
=============================================================================
