------------------------------ MODULE Datetime ------------------------------
(***************************************************************************)
(* The calendar of ft::datetime.  A user starts at a datetime and moves    *)
(* from it, by differences of days alone (Date) or of a time (Datetime);   *)
(* elapsed is where the movements of days lead, counted one by one.        *)
(* C++ divides towards zero: Quot and Rem.                                 *)
(***************************************************************************)
EXTENDS Integers, Sequences, Functions

CONSTANTS
  Start,   \* the date a user starts from
  Unix,    \* the days of that date since 1970-01-01
  Steps,   \* days moved in one operation
  Span,    \* bound: days from the start
  Deltas   \* the differences of a datetime: arguments of the longest constructor

DatetimeAssumption == Steps \subseteq Int /\ Span \in Nat /\ Unix \in Nat

VARIABLES
  date,     \* a Date that was moved
  elapsed,  \* history: the days it was moved by
  now,      \* a Datetime that was moved once from midnight of Start, and
  moved     \* history: the Timedelta it was moved by, and its arguments

vars == <<date, elapsed, now, moved>>

Quot(a, b) == IF a < 0 THEN -((-a) \div b) ELSE a \div b
Rem(a, b) == a - b * Quot(a, b)

TimeCarry(t, base) == IF t < 0 THEN Quot(t + 1, base) - 1 ELSE t \div base

(* Fault: a negative time is not carried. *)
TimeModPlain(t, base) == Rem(t, base)

TimeMod(t, base) == IF t < 0 THEN Rem(t, base) + base ELSE t % base

IsLeapYear(y) == y % 4 = 0 /\ (y % 100 = 0 => y % 400 = 0)

DayRange(y) == <<31, IF IsLeapYear(y) THEN 29 ELSE 28, 31, 30, 31, 30, 31, 31, 30, 31, 30, 31>>

AccumulatedDay(y) ==
  LET leap == IF IsLeapYear(y) THEN 1 ELSE 0
  IN <<0, 31, 59 + leap, 90 + leap, 120 + leap, 151 + leap, 181 + leap, 212 + leap,
       243 + leap, 273 + leap, 304 + leap, 334 + leap>>

Date(y, m, d) == [year |-> y, month |-> m, day |-> d]

IsDate(x) == x.year \in 1 .. 9999 /\ x.month \in 1 .. 12 /\ x.day \in 1 .. DayRange(x.year)[x.month]

-----------------------------------------------------------------------------
(* Date: a year at a time, then a month at a time. *)

RECURSIVE Forward(_, _), Backward(_, _)

Forward(x, n) ==
  LET year == IF IsLeapYear(x.year) THEN 366 ELSE 365
      left == year - (AccumulatedDay(x.year)[x.month] + x.day)
      leftThisMonth == DayRange(x.year)[x.month] - x.day
  IN IF n > left THEN Forward(Date(x.year + 1, 1, 1), n - left - 1)
     ELSE IF n > leftThisMonth THEN Forward(Date(x.year, x.month + 1, 1), n - leftThisMonth - 1)
     ELSE [x EXCEPT !.day = @ + n]

Backward(x, n) ==
  LET before == AccumulatedDay(x.year)[x.month] + x.day - 1
  IN IF n > before THEN Backward(Date(x.year - 1, 12, 31), n - before - 1)
     ELSE IF n < x.day THEN [x EXCEPT !.day = @ - n]
     ELSE Backward(Date(x.year, x.month - 1, DayRange(x.year)[x.month - 1]), n - x.day)

DatePlus(x, n) == IF n < 0 THEN Backward(x, -n) ELSE Forward(x, n)
DateMinus(x, n) == IF n < 0 THEN Forward(x, -n) ELSE Backward(x, n)

SameYear(x, y) ==
  AccumulatedDay(x.year)[x.month] + x.day - AccumulatedDay(y.year)[y.month] - y.day

(* Fault: the years between are counted from the early one. *)
FullYearsAll(from, to) == [y \in from .. to - 1 |-> IF IsLeapYear(y) THEN 366 ELSE 365]

FullYears(from, to) == [y \in from + 1 .. to - 1 |-> IF IsLeapYear(y) THEN 366 ELSE 365]

DateDiff(x, y) ==
  LET Between(l, e) == 1 + SameYear(Date(e.year, 12, 31), e) + SameYear(l, Date(l.year, 1, 1))
                       + FoldFunction(+, 0, FullYears(e.year, l.year))
  IN IF x.year = y.year THEN SameYear(x, y)
     ELSE IF x.year > y.year THEN Between(x, y) ELSE -Between(y, x)

YearOf(b, d, m) == b * 100 + d - 6700 + 1900 + m \div 10

\* The date of a number of days since 1970-01-01.
FastUnixSecondToDate(days) ==
  LET a == days + 2472632
      b == (a * 4 + 3) \div 146097
      c == a - (b * 146097) \div 4
      d == (c * 4 + 3) \div 1461
      e == c - (d * 1461) \div 4
      m == (5 * e + 2) \div 153
  IN Date(YearOf(b, d, m), m + 3 - 12 * (m \div 10), e + 1 - (153 * m + 2) \div 5)

-----------------------------------------------------------------------------
(* Timedelta and Datetime. *)

\* Timedelta(days, hours, minutes, seconds, milliseconds, microseconds), as a
\* sequence, with what is carried into the field before.
Carried(f, i, base) == [f EXCEPT ![i - 1] = @ + TimeCarry(f[i], base), ![i] = TimeMod(f[i], base)]

Timedelta(f) ==
  LET g == Carried(Carried(Carried(Carried(Carried(f, 6, 1000), 5, 1000), 4, 60), 3, 60), 2, 24)
  IN [days |-> g[1], seconds |-> g[4] + g[3] * 60 + g[2] * 3600,
      microseconds |-> g[6] + g[5] * 1000]

Datetime(x, h, mi, s, us) ==
  [date |-> x, hour |-> h, minute |-> mi, second |-> s, microsecond |-> us]

\* The days of the difference count only when the hours pass midnight.
DatetimePlus(x, t) ==
  LET us == x.microsecond + t.microseconds
      s == x.second + t.seconds + us \div 1000000
      mi == x.minute + s \div 60
      h == x.hour + mi \div 60
  IN Datetime(IF h \div 24 = 0 THEN x.date ELSE DatePlus(x.date, t.days + h \div 24),
              h % 24, mi % 60, s % 60, us % 1000000)

\* The difference is negated by the constructor of days, hours and minutes.
DatetimeMinus(x, t) == DatetimePlus(x, Timedelta(<<-t.days, -t.seconds, -t.microseconds, 0, 0, 0>>))

TimedeltaPlus(t, u) ==
  Timedelta(<<t.days + u.days, 0, 0, t.seconds + u.seconds, 0, t.microseconds + u.microseconds>>)

DatetimeDiff(x, y) ==
  TimedeltaPlus([days |-> DateDiff(x.date, y.date), seconds |-> 0, microseconds |-> 0],
                Timedelta(<<0, x.hour - y.hour, x.minute - y.minute, x.second - y.second, 0,
                            x.microsecond - y.microsecond>>))

-----------------------------------------------------------------------------
Morning == Datetime(Start, 9, 30, 15, 500000)
Still == <<0, 0, 0, 0, 0, 0>>

Init == date = Start /\ elapsed = 0 /\ now = Morning /\ moved = Still

Later(n) == elapsed + n \in -Span .. Span /\ date' = DatePlus(date, n) /\ elapsed' = elapsed + n
Earlier(n) == elapsed - n \in -Span .. Span /\ date' = DateMinus(date, n) /\ elapsed' = elapsed - n

MoveDate == \E n \in Steps : (Later(n) \/ Earlier(n)) /\ UNCHANGED <<now, moved>>

MoveTime ==
  /\ moved = Still /\ moved' \in Deltas /\ UNCHANGED <<date, elapsed>>
  /\ now' = DatetimePlus(now, Timedelta(moved'))

\* Back by what it was moved: to where it started.
MoveBack ==
  /\ moved # Still /\ moved' = Still /\ UNCHANGED <<date, elapsed>>
  /\ now' = DatetimeMinus(now, Timedelta(moved))

Next == MoveDate \/ MoveTime

Spec == Init /\ [][Next]_vars

BackSpec == Init /\ [][Next \/ MoveBack]_vars

-----------------------------------------------------------------------------
TypeOK == IsDate(date) /\ IsDate(now.date)

\* Three algorithms agree after any sequence of movements: the walk over years
\* and months, the difference of two dates, the count of days
\* (Date::operator+, operator-).
DaysAddUp == DateDiff(date, Start) = elapsed

\* The closed formula for the date of a day gives the date the walk reached
\* (FastUnixSecondToDate).
UnixAgrees == Unix + elapsed >= 0 => FastUnixSecondToDate(Unix + elapsed) = date

\* The time of the day is the exact sum, whatever is carried through four
\* fields of different bases, and from negative ones.
MicrosOf(f) == f[6] + f[5] * 1000
SecondsOf(f) == f[4] + f[3] * 60 + f[2] * 3600 + MicrosOf(f) \div 1000000
TimeOfDayAdds ==
  LET us == 500000 + (MicrosOf(moved) % 1000000)
      s == 9 * 3600 + 30 * 60 + 15 + SecondsOf(moved) + us \div 1000000
  IN /\ now.microsecond = us % 1000000
     /\ now.hour * 3600 + now.minute * 60 + now.second = s % 86400

\* Where the time passes midnight the date is the exact sum too, whatever the
\* carries and a borrow from a negative number of days make of the days.
DateAdds ==
  LET us == 500000 + (MicrosOf(moved) % 1000000)
      s == 9 * 3600 + 30 * 60 + 15 + SecondsOf(moved) + us \div 1000000
      timeOf(x) == <<x.hour * 3600 + x.minute * 60 + x.second, x.microsecond>>
      earlier(a, b) == a[1] < b[1] \/ (a[1] = b[1] /\ a[2] < b[2])
  IN earlier(timeOf(now), timeOf(Morning)) =>
       DateDiff(now.date, Start) = moved[1] + s \div 86400

\* What was added is the difference (test_datetime.cpp:158-161 adds a difference and
\* finds it again).
DifferenceIsAdded == DatetimeDiff(now, Morning) = Timedelta(moved)

\* A difference counts all its fields, the negative ones by borrowing
\* (datetime.h:16-18, 27-29).
Normalised ==
  LET t == Timedelta(moved)
      us == MicrosOf(moved) % 1000000
  IN /\ t.microseconds = us
     /\ t.seconds = SecondsOf(moved) % 86400
     /\ t.days = moved[1] + SecondsOf(moved) \div 86400

\* Subtracting what was added leads back.
BackAgain == moved = Still => now = Morning
=============================================================================
