------------------------------ MODULE Calendar ------------------------------
(***************************************************************************)
(* date_time, which dates files, entries and connections, and the dates    *)
(* that SimpleWeb puts into responses.                                     *)
(*                                                                         *)
(* A date_time is its fields; a text is a sequence of bytes.  The local    *)
(* time zone is left out: mktime and localtime are inverse of each other.  *)
(***************************************************************************)
EXTENDS Integers, Sequences, SequencesExt

CONSTANTS
  Starts,          \* dates and times to begin with
  Amounts,         \* what is added: units and numbers of them
  MaxAdds,         \* bound: additions
  MaxPoint         \* bound: points in time, in halves of a second

VARIABLES
  dt,              \* a date_time
  day, milli,      \* history: the day and the millisecond of it that dt should be
  adds,            \* history: the number of additions so far
  cache,           \* Date::to_string: result_cache, as the second it shows, and last_time_point
  shown            \* history: the point that was asked for and the second that was returned

calVars == <<dt, day, milli, adds, cache, shown>>

(***************************************************************************)
(* Normalisation                                                           *)
(***************************************************************************)
CountDaysInMonth(month, year) ==
  CASE month \in {4, 6, 9, 11} -> 30
    [] month = 2 -> IF (year % 4 = 0 /\ year % 100 # 0) \/ year % 400 = 0 THEN 29 ELSE 28
    [] OTHER -> 31

\* The C++ remainder has the sign of the dividend
Rem(a, b) == IF a >= 0 THEN a % b ELSE -((-a) % b)

\* incr and decr: what stays in the field and what is carried to the next one
Incr(from, max) == [stay |-> from % max, carry |-> from \div max]
DecrKeepsMax(from, max) ==
  LET new == max + Rem(from, max) IN [stay |-> new, carry |-> (from - new) \div max]
Decr(from, max) ==
  LET low == max + Rem(from, max)
      new == IF low = max THEN 0 ELSE low
  IN [stay |-> new, carry |-> (from - new) \div max]
Carry(from, max) == IF from > 0 THEN Incr(from, max) ELSE Decr(from, max)

RECURSIVE IncrMonth(_)
IncrMonth(d) ==
  LET max == CountDaysInMonth(d.month, d.year)
  IN IF d.day <= max THEN d
     ELSE IncrMonth([d EXCEPT !.day = @ - max, !.month = IF @ < 12 THEN @ + 1 ELSE 1,
                              !.year = IF d.month < 12 THEN @ ELSE @ + 1])

RECURSIVE DecrMonth(_)
DecrMonth(d) ==
  LET month == IF d.month > 1 THEN d.month - 1 ELSE 12
      year == IF d.month > 1 THEN d.year ELSE d.year - 1
  IN IF d.day >= 1 THEN d
     ELSE DecrMonth([d EXCEPT !.day = @ + CountDaysInMonth(month, year), !.month = month, !.year = year])

DayOfYear(d) == FoldLeft(LAMBDA a, m : a + CountDaysInMonth(m, d.year), d.day, [m \in 1 .. d.month - 1 |-> m])

IncrAll(d) ==
  LET ms == Carry(d.thousend, 1000)
      s == Carry(d.second + ms.carry, 60)
      m == Carry(d.minute + s.carry, 60)
      h == Carry(d.hour + m.carry, 24)
      e == [d EXCEPT !.thousend = ms.stay, !.second = s.stay, !.minute = m.stay, !.hour = h.stay, !.day = @ + h.carry]
      f == IF e.day > 0 THEN IncrMonth(e) ELSE DecrMonth(e)
  IN [f EXCEPT !.day_of_year = DayOfYear(f)]

SetDateTime(y, mo, d, h, mi, s, ms) ==
  IncrAll([year |-> y, month |-> mo, day |-> d, hour |-> h, minute |-> mi, second |-> s, thousend |-> ms, day_of_year |-> 0])

\* add_month brings the month into the year first; the day may then pass the month's end
AddMonth(d, n) ==
  LET m == d.month + n - 1
  IN IncrAll([d EXCEPT !.month = (m % 12) + 1, !.year = @ + m \div 12])

Add(d, unit, n) ==
  CASE unit = "ms"     -> IncrAll([d EXCEPT !.thousend = @ + n])
    [] unit = "second" -> IncrAll([d EXCEPT !.second = @ + n])
    [] unit = "minute" -> IncrAll([d EXCEPT !.minute = @ + n])
    [] unit = "hour"   -> IncrAll([d EXCEPT !.hour = @ + n])
    [] unit = "day"    -> IncrAll([d EXCEPT !.day = @ + n])
    [] unit = "month"  -> AddMonth(d, n)
    [] OTHER           -> IncrAll([d EXCEPT !.year = @ + n])

(***************************************************************************)
(* Texts and comparisons                                                   *)
(***************************************************************************)
RECURSIVE Decimal(_)
Decimal(n) == (IF n < 10 THEN <<>> ELSE Decimal(n \div 10)) \o <<48 + (n % 10)>>
Padded(n) == IF n < 10 THEN <<48>> \o Decimal(n) ELSE Decimal(n)
GetDate(d) == Decimal(d.year) \o <<45>> \o Padded(d.month) \o <<45>> \o Padded(d.day)
GetTime(d) == Padded(d.hour) \o <<58>> \o Padded(d.minute) \o <<58>> \o Padded(d.second)
GetDateTime(d) == GetDate(d) \o <<32>> \o GetTime(d)

\* sscanf of numbers with a separator before each but the first: the numbers it reads.
\* (Blanks and signs before a number, which %d takes too, are in no text here.)
Scan(text, seps) ==
  LET digit(a, c) == IF a.next THEN [a EXCEPT !.nums = Append(@, c - 48), !.next = FALSE]
                     ELSE [a EXCEPT !.nums[Len(a.nums)] = @ * 10 + c - 48]
      expected(a, c) == ~a.next /\ Len(a.nums) <= Len(seps) /\ seps[Len(a.nums)] = c
      step(a, c) == CASE a.stop         -> a
                      [] c \in 48 .. 57 -> digit(a, c)
                      [] expected(a, c) -> [a EXCEPT !.next = TRUE]
                      [] OTHER          -> [a EXCEPT !.stop = TRUE]
  IN FoldLeft(step, [nums |-> <<>>, next |-> TRUE, stop |-> FALSE], text).nums

\* The format of parse_date_time: a text of another length than the full format is a date
\* or a time by its length
FormatOf(text) ==
  LET date == <<"year", "month", "day">>
      time == <<"hour", "minute", "second">>
  IN CASE Len(text) = 10 -> [fields |-> date, seps |-> <<45, 45>>]
       [] Len(text) = 8  -> [fields |-> time, seps |-> <<58, 58>>]
       [] OTHER          -> [fields |-> date \o time, seps |-> <<45, 45, 32, 58, 58>>]

\* parse_date_time: sscanf writes the fields it has numbers for, and only if it has one for
\* every field of the format are they brought into range and is the text accepted
ParseDateTime(d, text) ==
  LET format == FormatOf(text)
      n == Scan(text, format.seps)
      read == [f \in DOMAIN d |-> IF \E k \in 1 .. Len(n) : format.fields[k] = f
                                 THEN n[CHOOSE k \in 1 .. Len(n) : format.fields[k] = f] ELSE d[f]]
      ok == Len(n) = Len(format.fields)
  IN [ok |-> ok, dt |-> IF ok THEN IncrAll(read) ELSE read]

DateLess(a, b) == \/ a.year < b.year
                  \/ a.year = b.year /\ (a.month < b.month \/ (a.month = b.month /\ a.day < b.day))
DateEqual(a, b) == a.year = b.year /\ a.month = b.month /\ a.day = b.day
TimeEqual(a, b) == a.hour = b.hour /\ a.minute = b.minute /\ a.second = b.second
TimeLess(a, b) ==
  \/ a.hour < b.hour
  \/ a.hour = b.hour /\ (\/ a.minute < b.minute
                         \/ a.minute = b.minute /\ (a.second < b.second \/ (a.second = b.second /\ a.thousend < b.thousend)))
Earlier(a, b) == DateLess(a, b) \/ (DateEqual(a, b) /\ TimeLess(a, b))
Same(a, b) == DateEqual(a, b) /\ TimeEqual(a, b)

\* set_time_short and get_time_short: hours and minutes as one number
SetTimeShort(d, t) ==
  IF t \notin 0 .. 2359 \/ t % 100 > 59 THEN {}
  ELSE {[d EXCEPT !.minute = t % 100, !.hour = t \div 100, !.second = 0, !.thousend = 0]}
GetTimeShort(d) == d.hour * 100 + d.minute

(***************************************************************************)
(* The day number of a date: days since the year 1, by the Gregorian rule  *)
(***************************************************************************)
DaysBefore(month) == <<0, 31, 59, 90, 120, 151, 181, 212, 243, 273, 304, 334>>[month]
DayNumber(y, m, d) ==
  LET leap == m > 2 /\ ((y % 4 = 0 /\ y % 100 # 0) \/ y % 400 = 0)
  IN 365 * (y - 1) + (y - 1) \div 4 - (y - 1) \div 100 + (y - 1) \div 400 + DaysBefore(m) + d + (IF leap THEN 1 ELSE 0)
DayMs == 86400000
MilliOf(d) == ((d.hour * 60 + d.minute) * 60 + d.second) * 1000 + d.thousend

\* operator-: seconds between two, and days cut towards zero
Minus(a, b) ==
  LET days == DayNumber(a.year, a.month, a.day) - DayNumber(b.year, b.month, b.day)
      secs == days * 86400 + MilliOf(a) \div 1000 - MilliOf(b) \div 1000
  IN [total_secs |-> secs, total_days |-> IF secs > 0 THEN secs \div 86400 ELSE -((-secs) \div 86400)]

CalInit ==
  /\ dt \in Starts
  /\ day = DayNumber(dt.year, dt.month, dt.day) /\ milli = MilliOf(dt)
  /\ adds = 0
  /\ cache = [second |-> -1, point |-> 0] /\ shown = [point |-> 0, second |-> 0]

UnitMs(unit) == CASE unit = "ms" -> 1 [] unit = "second" -> 1000 [] unit = "minute" -> 60000 [] OTHER -> 3600000

AddTo(unit, n) ==
  /\ adds < MaxAdds /\ adds' = adds + 1
  /\ dt' = Add(dt, unit, n)
  /\ CASE unit \in {"ms", "second", "minute", "hour"} ->
            /\ milli' = (milli + n * UnitMs(unit)) % DayMs
            /\ day' = day + (milli + n * UnitMs(unit)) \div DayMs
       [] unit = "day" -> day' = day + n /\ UNCHANGED milli
       [] OTHER -> \* the same day of another month, counted on past the month's end
            LET m == dt.month - 1 + (IF unit = "month" THEN n ELSE 12 * n)
            IN day' = DayNumber(dt.year + m \div 12, (m % 12) + 1, 1) + dt.day - 1 /\ UNCHANGED milli
  /\ UNCHANGED <<cache, shown>>

\* Date::to_string: the last result is given again within a second of its point.  (gmtime_r
\* fails only for a year that is no int, and no point of system_clock has one.)
DateToString(point) ==
  LET hit == cache.second # -1 /\ point - cache.point \in -1 .. 1
      second == IF hit THEN cache.second ELSE point \div 2
  IN /\ cache' = IF hit THEN cache ELSE [second |-> second, point |-> point]
     /\ shown' = [point |-> point, second |-> second]
     /\ UNCHANGED <<dt, day, milli, adds>>

AddNext == \E a \in Amounts : AddTo(a[1], a[2])
ShowNext == \E point \in 0 .. MaxPoint : DateToString(point)

\* Adding any amounts of any units, forwards and backwards, over ends of days, months and
\* years and leap days, leaves a date that exists and is the day and time that counting days
\* gives, with its day of the year; its text reads back as itself, and cut short it is refused
\* unless it ends behind the date or only its last digit is missing; it compares with the date
\* it came from as their difference says, milliseconds aside; and a response's date is never
\* more than a second old.
DatesHold ==
  /\ shown.second - shown.point \div 2 \in -1 .. 1
  /\ adds > 0 =>
     /\ dt.day \in 1 .. CountDaysInMonth(dt.month, dt.year) /\ dt.month \in 1 .. 12
     /\ DayNumber(dt.year, dt.month, dt.day) = day /\ MilliOf(dt) = milli
     /\ dt.day_of_year = day - DayNumber(dt.year, 1, 1) + 1
     /\ \A r \in {ParseDateTime(SetDateTime(2000, 1, 1, 0, 0, 0, dt.thousend), GetDateTime(dt)),
                 ParseDateTime(dt, GetDate(dt)), ParseDateTime(dt, GetTime(dt))} : r = [ok |-> TRUE, dt |-> dt]
     /\ \A k \in 0 .. 19 : ParseDateTime(dt, SubSeq(GetDateTime(dt), 1, k)).ok <=> k \in {10, 18, 19}
     /\ \A e \in Starts : LET s == Minus(dt, e).total_secs IN
          /\ Earlier(dt, e) <=> s < 0 \/ (s = 0 /\ dt.thousend < e.thousend)
          /\ Same(dt, e) <=> s = 0
     /\ \A t \in SetTimeShort(dt, GetTimeShort(dt)) : t.hour = dt.hour /\ t.minute = dt.minute
=============================================================================
