----------------------------- MODULE MCCalendar -----------------------------
(* A finite instance of Calendar for TLC. *)
EXTENDS Calendar

At(y, m, d, h, minute) ==
  (MonthStart(y, m) + d - 1) * Day + h * Hour + minute * Minute

\* The clock is moved from 1:00 to 2:00 on 25 March 2096 and back in October.
MCForward == At(2096, 3, 25, 1, 0)
MCBack    == At(2096, 10, 28, 1, 0)

By(a, b, n)  == Item(FALSE, a, b, <<n>>)
StarBy(n)    == <<Item(TRUE, 0, 0, <<n>>)>>
Span(a, b)   == <<Item(FALSE, a, b, <<>>)>>

\* Midnight on the given days.
Daily(d, m, w) == Cron(One(0), One(0), d, m, w)

MCExpressions ==
  { Named("yearly"), Named("monthly"), Named("weekly"), Named("daily"), Named("hourly"),
    Daily(One(29), One(2), Star),        \* leap days
    Daily(One(29), One(2), One(1)),      \* leap days or Mondays of February
    Daily(One(30), One(2), Star),        \* never
    Daily(One(31), Star, Star),          \* seven months have one
    Daily(Star, Star, One(7)),           \* Sunday
    Daily(Star, Star, Span(5, 7)),       \* Friday to Sunday
    Daily(StarBy(1), Star, One(1)),      \* every day: "*/1" is not "*"
    Daily(One(13), Star, One(5)),        \* the 13th, and Fridays
    Daily(Star, <<By(2, 12, 5)>>, StarBy(3)),
    Cron(One(1), One(1), Star, Star, Star),                       \* an hour that is skipped
    Cron(StarBy(1), One(2), Star, Star, Star),                    \* and one that comes twice
    Cron(One(1), <<Item(FALSE, 0, 0, <<>>), Item(FALSE, 2, 2, <<1>>)>>, One(25), One(3), Star),
    Cron(One(0), One(1), One(25), One(3), Star),
    Cron(One(2), Star, Star, Star, Star),                         \* rejected: out of range,
    Cron(One(0), StarBy(0), Star, Star, Star),                    \* no step,
    Daily(Span(5, 2), Star, Star),                                \* an empty range,
    Daily(<<>>, Star, Star),                                      \* an empty item
    Every(0, "m"), Every(1, "m"), Every(3, "h"), Every(1, "mo"), Every(1, "y"),
    Every(2, "y"), Every(3, "y") }                                \* too long

MCStarts ==
  { At(2094, 12, 31, 2, 1) + 1,     \* within the last minute of a year
    At(2095, 7, 5, 1, 0),
    At(2096, 2, 29, 0, 0),          \* on a leap day; the next is in 2104
    At(2096, 3, 24, 2, 1),          \* before the clock is moved
    At(2096, 10, 27, 2, 0) + 1,
    At(2099, 3, 1, 0, 0),
    At(2103, 2, 28, 2, 1) }
=============================================================================
