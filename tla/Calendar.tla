------------------------------ MODULE Calendar ------------------------------
(***************************************************************************)
(* Date (Julian day numbers) and TimeZone (UTC and local time) of muduo's  *)
(* base library.  A struct tm is a record of the fields the code sets; a   *)
(* zone is TimeZone::Data, the transitions and localtimes read from a      *)
(* zone file.                                                              *)
(***************************************************************************)
EXTENDS Integers, Sequences

CONSTANTS Years,       \* the years whose days are walked through
          UtcYears,    \* and those of them whose instants are converted
          DaySeconds,  \* the seconds of a day at which UTC time is converted
          ZoneFiles,   \* zone files: [times, indices, types]
          Offsets      \* instants are taken this far from a zone's transitions

VARIABLE calendar
calendarVars == <<calendar>>

\* Division and remainder of C truncate towards zero.
CDiv(a, b) == IF a >= 0 THEN a \div b ELSE -((-a) \div b)
CMod(a, b) == a - b * CDiv(a, b)

-----------------------------------------------------------------------------
\* Date.

getJulianDayNumber(year, month, day) ==
    LET a == (14 - month) \div 12
        y == year + 4800 - a
        m == month + 12 * a - 3
    IN  day + (153 * m + 2) \div 5 + y * 365 + y \div 4 - y \div 100 + y \div 400 - 32045

\* Broken variant: counts centuries without the rounding.
getYearMonthDayUnrounded(julianDayNumber) ==
    LET a == julianDayNumber + 32044
        b == (4 * a) \div 146097
        c == a - (b * 146097) \div 4
        d == (4 * c + 3) \div 1461
        e == c - (1461 * d) \div 4
        m == (5 * e + 2) \div 153
    IN  [year |-> b * 100 + d - 4800 + m \div 10,
         month |-> m + 3 - 12 * (m \div 10),
         day |-> e - ((153 * m + 2) \div 5) + 1]

getYearMonthDay(julianDayNumber) ==
    LET a == julianDayNumber + 32044
        b == (4 * a + 3) \div 146097
        c == a - (b * 146097) \div 4
        d == (4 * c + 3) \div 1461
        e == c - (1461 * d) \div 4
        m == (5 * e + 2) \div 153
    IN  [year |-> b * 100 + d - 4800 + m \div 10,
         month |-> m + 3 - 12 * (m \div 10),
         day |-> e - ((153 * m + 2) \div 5) + 1]

weekDay(julianDayNumber) == (julianDayNumber + 1) % 7

kJulianDayOf1970_01_01 == getJulianDayNumber(1970, 1, 1)

-----------------------------------------------------------------------------
\* TimeZone: UTC.

kSecondsPerDay == 24 * 60 * 60

fillHMS(seconds) ==
    LET minutes == seconds \div 60
    IN  [sec |-> seconds % 60, min |-> minutes % 60, hour |-> minutes \div 60]

\* Broken variant: borrows no day for instants before 1970.
toUtcTimeUnborrowed(secondsSinceEpoch) ==
    LET rest == CMod(secondsSinceEpoch, kSecondsPerDay)
        hms == fillHMS(IF rest < 0 THEN rest + kSecondsPerDay ELSE rest)
        date == CDiv(secondsSinceEpoch, kSecondsPerDay) + kJulianDayOf1970_01_01
        ymd == getYearMonthDay(date)
    IN  [year |-> ymd.year, month |-> ymd.month, day |-> ymd.day,
         hour |-> hms.hour, min |-> hms.min, sec |-> hms.sec,
         wday |-> weekDay(date), yday |-> date - getJulianDayNumber(ymd.year, 1, 1)]

toUtcTime(secondsSinceEpoch) ==
    LET rest == CMod(secondsSinceEpoch, kSecondsPerDay)
        whole == CDiv(secondsSinceEpoch, kSecondsPerDay)
        days == IF rest < 0 THEN whole - 1 ELSE whole
        hms == fillHMS(IF rest < 0 THEN rest + kSecondsPerDay ELSE rest)
        date == days + kJulianDayOf1970_01_01
        ymd == getYearMonthDay(date)
    IN  [year |-> ymd.year, month |-> ymd.month, day |-> ymd.day,
         hour |-> hms.hour, min |-> hms.min, sec |-> hms.sec,
         wday |-> weekDay(date), yday |-> date - getJulianDayNumber(ymd.year, 1, 1)]

fromUtcTime(tm) ==
    LET secondsInDay == tm.hour * 3600 + tm.min * 60 + tm.sec
        days == getJulianDayNumber(tm.year, tm.month, tm.day) - kJulianDayOf1970_01_01
    IN  days * kSecondsPerDay + secondsInDay

-----------------------------------------------------------------------------
\* TimeZone: local time.

\* Broken variant: stores the transitions before the types are read.
readTransitionsFirst(file, n) ==
    LET timecnt == Len(file.times)
    IN  [localtimes |-> SubSeq(file.types, 1, n - 1 - 2 * timecnt),
         transitions |->
            IF n < 1 + 2 * timecnt THEN <<>>
            ELSE [i \in 1 .. timecnt |->
                    [gmttime |-> file.times[i], localtime |-> file.times[i],
                     localtimeIdx |-> file.indices[i]]]]

\* readTimeZoneFile of a file whose first n items can be read.  The items are
\* the header (one item), the times, their indices, the types and the
\* abbreviations (one item); a short read throws, and what was stored so far
\* stays.  It returns true in every case.
readTimeZoneFile(file, n) ==
    LET timecnt == Len(file.times)
        typecnt == Len(file.types)
        whole == n >= 1 + 2 * timecnt + typecnt
    IN  [localtimes |-> IF whole THEN file.types
                        ELSE SubSeq(file.types, 1, n - 1 - 2 * timecnt),
         transitions |->
            IF ~whole THEN <<>>
            ELSE [i \in 1 .. timecnt |->
                    [gmttime |-> file.times[i],
                     localtime |-> file.times[i] + file.types[file.indices[i]].gmtOffset,
                     localtimeIdx |-> file.indices[i]]]]

\* TimeZone(eastOfUtc, name)
FixedZone(eastOfUtc) ==
    [localtimes |-> <<[gmtOffset |-> eastOfUtc, isDst |-> FALSE]>>, transitions |-> <<>>]

Key(transition, compareGmt) ==
    IF compareGmt THEN transition.gmttime ELSE transition.localtime

\* The first transition that is not before the sentry, or one past the end
lower_bound(transitions, sentry, compareGmt) ==
    CHOOSE i \in 1 .. Len(transitions) + 1 :
        /\ \A j \in 1 .. i - 1 : Key(transitions[j], compareGmt) < sentry
        /\ i <= Len(transitions) => Key(transitions[i], compareGmt) >= sentry

\* Broken variant: takes the transition before the one at the sentry itself.
findLocaltimeBefore(data, sentry, compareGmt) ==
    LET ts == data.transitions
        i == lower_bound(ts, sentry, compareGmt)
    IN  IF ts = <<>> \/ i = 1 THEN data.localtimes[1]
        ELSE data.localtimes[ts[i - 1].localtimeIdx]

findLocaltime(data, sentry, compareGmt) ==
    LET ts == data.transitions
        i == lower_bound(ts, sentry, compareGmt)
    IN  IF ts = <<>> \/ sentry < Key(ts[1], compareGmt) THEN data.localtimes[1]
        ELSE IF i > Len(ts) THEN data.localtimes[ts[Len(ts)].localtimeIdx]
        ELSE IF Key(ts[i], compareGmt) # sentry THEN data.localtimes[ts[i - 1].localtimeIdx]
        ELSE data.localtimes[ts[i].localtimeIdx]

toLocalTime(data, seconds) ==
    LET local == findLocaltime(data, seconds, TRUE)
    IN  [tm |-> toUtcTime(seconds + local.gmtOffset), isdst |-> local.isDst]

fromLocalTime(data, localTm) ==
    LET seconds == fromUtcTime(localTm.tm)
        local == findLocaltime(data, seconds, FALSE)
        tryTm == toLocalTime(data, seconds - local.gmtOffset)
        earlier == /\ localTm.isdst
                   /\ ~tryTm.isdst
                   /\ tryTm.tm.hour = localTm.tm.hour
                   /\ tryTm.tm.min = localTm.tm.min
    IN  (IF earlier THEN seconds - 3600 ELSE seconds) - local.gmtOffset

-----------------------------------------------------------------------------
\* A caller: walks through a year day by day, converts instants of each day,
\* or makes a zone and converts instants around its transitions.  A zone whose
\* file ends before its first type has no localtime: front() of the empty vector
\* ends the behaviour.

CalendarInit == calendar = [at |-> "start"]

FirstDay ==
    /\ calendar.at = "start"
    /\ \E y \in Years : calendar' = [at |-> "day", julian |-> getJulianDayNumber(y, 1, 1)]

NextDay ==
    /\ calendar.at = "day"
    /\ calendar.julian < getJulianDayNumber(getYearMonthDay(calendar.julian).year, 12, 31)
    /\ calendar' = [calendar EXCEPT !.julian = @ + 1]

ConvertUtc ==
    /\ calendar.at = "day"
    /\ getYearMonthDay(calendar.julian).year \in UtcYears
    /\ \E s \in DaySeconds :
          LET t == (calendar.julian - kJulianDayOf1970_01_01) * kSecondsPerDay + s
          IN  calendar' = [at |-> "utc", t |-> t, tm |-> toUtcTime(t)]

ReadZone ==
    /\ calendar.at = "start"
    /\ \E file \in ZoneFiles :
       \E n \in 0 .. 2 + 2 * Len(file.times) + Len(file.types) :
          calendar' = [at |-> "zone", data |-> readTimeZoneFile(file, n),
                       typeless |-> n < 2 + 2 * Len(file.times),
                       near |-> {file.times[i] : i \in DOMAIN file.times}]

FixZone ==
    /\ calendar.at = "start"
    /\ \E file \in ZoneFiles :
          calendar' = [at |-> "zone", data |-> FixedZone(file.types[1].gmtOffset),
                       typeless |-> FALSE, near |-> {0}]

ConvertLocal ==
    /\ calendar.at = "zone"
    /\ \E change \in calendar.near, s \in Offsets :
          LET t == change + s
              tm == toLocalTime(calendar.data, t)
          IN  calendar' =
                IF calendar.data.localtimes = <<>>
                THEN [at |-> "failed", typeless |-> calendar.typeless]
                ELSE [at |-> "local", data |-> calendar.data, t |-> t, tm |-> tm,
                      back |-> fromLocalTime(calendar.data, tm)]

CalendarNext == FirstDay \/ NextDay \/ ConvertUtc \/ ReadZone \/ FixZone \/ ConvertLocal

-----------------------------------------------------------------------------
\* References: the Gregorian calendar as a rule for the day after a day, and
\* the offset in force as that of the latest transition.

Leap(y) == y % 4 = 0 /\ (y % 100 # 0 \/ y % 400 = 0)

DaysIn(y, m) ==
    CASE m = 2 -> IF Leap(y) THEN 29 ELSE 28
      [] m \in {4, 6, 9, 11} -> 30
      [] OTHER -> 31

DayAfter(d) ==
    IF d.day < DaysIn(d.year, d.month) THEN [d EXCEPT !.day = @ + 1]
    ELSE IF d.month < 12 THEN [d EXCEPT !.day = 1, !.month = @ + 1]
    ELSE [year |-> d.year + 1, month |-> 1, day |-> 1]

InForce(data, t) ==
    LET past == {i \in 1 .. Len(data.transitions) : data.transitions[i].gmttime <= t}
    IN  IF past = {} THEN data.localtimes[1]
        ELSE data.localtimes[data.transitions[
                CHOOSE i \in past : \A j \in past : j <= i].localtimeIdx]

\* Consecutive Julian day numbers are consecutive days of the Gregorian
\* calendar, leap years included: getYearMonthDay follows the calendar's rule.
DaysFollowCalendar ==
    [][calendar.at = "day" /\ calendar'.at = "day" =>
         getYearMonthDay(calendar'.julian) = DayAfter(getYearMonthDay(calendar.julian))]_calendar

\* A date's Julian day number gives the date back, and toUtcTime and
\* fromUtcTime invert each other on both sides of 1970, with the time of day
\* in range and the day of the year counted from 1 January.
UtcRoundTrip ==
    /\ calendar.at = "day" =>
          LET d == getYearMonthDay(calendar.julian)
          IN  getJulianDayNumber(d.year, d.month, d.day) = calendar.julian
    /\ calendar.at = "utc" =>
          /\ fromUtcTime(calendar.tm) = calendar.t
          /\ calendar.tm.hour \in 0 .. 23 /\ calendar.tm.min \in 0 .. 59
          /\ calendar.tm.yday \in 0 .. (IF Leap(calendar.tm.year) THEN 365 ELSE 364)

\* The later instants at which clocks show what they show at t
ShownAgain(data, t) ==
    LET Shown(u) == u + InForce(data, u).gmtOffset
        offsets == {data.localtimes[i].gmtOffset : i \in DOMAIN data.localtimes}
    IN  {u \in {Shown(t) - o : o \in offsets} : u > t /\ Shown(u) = Shown(t)}

\* toLocalTime uses the offset of the latest transition.  fromLocalTime inverts it
\* on a local time that is shown once, on the last instant that shows it, and in the
\* hour that the end of one hour of summer time repeats.  A time that is repeated
\* within standard time converts to the later instant; one repeated by the end of a
\* summer time of another length is moved by an hour all the same ("FIXME: HACK").
LocalRoundTrip ==
    calendar.at = "local" =>
        LET data == calendar.data
            t == calendar.t
            again == ShownAgain(data, t)
            summerEnds == {u \in again : InForce(data, t).isDst /\ ~InForce(data, u).isDst}
        IN  /\ calendar.tm.isdst = InForce(data, t).isDst
            /\ fromUtcTime(calendar.tm.tm) = t + InForce(data, t).gmtOffset
            /\ again = {} => calendar.back = t
            /\ again # {} /\ summerEnds = {} => calendar.back \in again
            /\ \A u \in summerEnds : calendar.back = u - 3600

\* However short the file is cut, the transitions that were stored only name
\* localtimes that were stored, and only a file cut before its first type makes a
\* zone that cannot convert.
TransitionsResolve ==
    /\ calendar.at = "zone" =>
          \A i \in 1 .. Len(calendar.data.transitions) :
              calendar.data.transitions[i].localtimeIdx \in DOMAIN calendar.data.localtimes
    /\ calendar.at = "failed" => calendar.typeless

\* Dates follow the Gregorian calendar; UTC converts there and back on both sides of
\* 1970, and local time on both sides of a transition except where a local time is
\* repeated by anything but the end of one hour of summer time.
CalendarIsRight == DaysFollowCalendar /\ [](UtcRoundTrip /\ LocalRoundTrip /\ TransitionsResolve)
=============================================================================
