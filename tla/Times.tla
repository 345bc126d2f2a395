-------------------------------- MODULE Times --------------------------------
(***************************************************************************)
(* utils/robottime.py: durations as numbers and as time strings, and       *)
(* moments as seconds since the epoch and as timestamps of the local time. *)
(* Durations and the fractions of moments are in milliseconds. The C       *)
(* library converts between moments and local time.                        *)
(***************************************************************************)
EXTENDS Integers, Sequences, FiniteSets, SequencesExt, FiniteSetsExt

CONSTANTS Durations,  \* in milliseconds
          Moments,    \* [secs, millis] since the epoch
          Zones,      \* [offset, dst, summer]: secs east, whether there is summer time, its months
          NoTime,
          TwoDigits   \* whether hours are always written with two digits
ASSUME TimesAssumption == Durations \subseteq Int /\ TwoDigits \in BOOLEAN
\* From January 2004 to January 2038 a float has 22 bits behind the point: see
\* Fraction.
ASSUME MomentsAssumption == \A m \in Moments: m.secs >= 2 ^ 30 /\ m.millis \in 0..999

VARIABLES duration,      \* as a number, or None
          timestr,       \* the same as a time string: [sign, parts], or None
          moment,        \* as secs and millis, or None
          stamp,         \* the same as a timestamp, characters
          zone,          \* where the program runs
          meantDuration, meantMoment \* what they are (history)
timeVars == <<duration, timestr, moment, stamp, zone, meantDuration, meantMoment>>

Minute == 60
Hour == 60 * Minute
Day == 24 * Hour

------------------------------------------------------------------------------
(***************************************************************************)
(* Time strings: an optional sign and numbers with units. Of the parts     *)
(* that have the same unit the last one counts.                            *)
(***************************************************************************)
UnitOf(word) ==
    CASE word \in {"milliseconds", "millisecond", "millis", "ms"} -> "x"
      [] word \in {"seconds", "second", "secs", "sec", "s"} -> "s"
      [] word \in {"minutes", "minute", "mins", "min", "m"} -> "m"
      [] word \in {"hours", "hour", "h"} -> "h"
      [] word \in {"days", "day", "d"} -> "p"
      [] OTHER -> "invalid"
Millis(unit) == CASE unit = "x" -> 1 [] unit = "s" -> 1000 [] unit = "m" -> 1000 * Minute [] unit = "h" -> 1000 * Hour [] OTHER -> 1000 * Day
PartOf(parts, unit) ==
    LET i == SelectLastInSeq(parts, LAMBDA p: UnitOf(p.unit) = unit) IN IF i = 0 THEN 0 ELSE parts[i].number
TimestrToSecs(t) ==
    t.sign * (PartOf(t.parts, "x") + 1000 * PartOf(t.parts, "s") + Millis("m") * PartOf(t.parts, "m")
              + Millis("h") * PartOf(t.parts, "h") + Millis("p") * PartOf(t.parts, "p"))
Item(value, compact, one, many) ==
    IF value = 0 THEN <<>> ELSE <<[number |-> value, unit |-> IF compact # "" THEN compact ELSE IF value = 1 THEN one ELSE many]>>
Abs(n) == IF n < 0 THEN -n ELSE n
SecsToTimestr(millis, compact) ==
    LET secs == Abs(millis) \div 1000
        suffix(s) == IF compact THEN s ELSE ""
        parts == Item(secs \div Day, suffix("d"), "day", "days") \o Item((secs \div Hour) % 24, suffix("h"), "hour", "hours")
                 \o Item((secs \div Minute) % 60, suffix("min"), "minute", "minutes") \o Item(secs % 60, suffix("s"), "second", "seconds")
                 \o Item(Abs(millis) % 1000, suffix("ms"), "millisecond", "milliseconds")
    IN  [sign |-> IF millis < 0 THEN -1 ELSE 1,
         parts |-> IF parts = <<>> THEN <<[number |-> 0, unit |-> IF compact THEN "s" ELSE "seconds"]>> ELSE parts]

------------------------------------------------------------------------------
(***************************************************************************)
(* The calendar and the local time of the C library. mktime accepts fields *)
(* that are too big, and believes what it is told of summer time.          *)
(***************************************************************************)
DayNumber(y, m, d) == \* since 1970-01-01
    LET a == (14 - m) \div 12
        years == y + 4800 - a
        months == m + 12 * a - 3
    IN  d + (153 * months + 2) \div 5 + 365 * years + years \div 4 - years \div 100 + years \div 400 - 2472633
MkTime(f, isdst) ==
    DayNumber(f[1], f[2], f[3]) * Day + f[4] * Hour + f[5] * Minute + f[6] - zone.offset - (IF isdst THEN Hour ELSE 0)
DateOf(days) ==
    LET year == CHOOSE y \in 2006..2011: DayNumber(y, 1, 1) <= days /\ days < DayNumber(y + 1, 1, 1)
        month == CHOOSE m \in 1..12: DayNumber(year, m, 1) <= days /\ days < DayNumber(year, m + 1, 1)
    IN  <<year, month, days - DayNumber(year, month, 1) + 1>>
LocalTime(secs) ==
    LET standard == secs + zone.offset
        summer == zone.dst /\ DateOf(standard \div Day)[2] \in zone.summer
        local == IF summer THEN standard + Hour ELSE standard
        rest == local % Day
    IN  DateOf(local \div Day) \o <<rest \div Hour, (rest \div Minute) % 60, rest % 60>>

------------------------------------------------------------------------------
(***************************************************************************)
(* Timestamps. The fields are written with separators, and read at fixed   *)
(* places after the separators have been removed.                          *)
(***************************************************************************)
DigitOf == <<"0", "1", "2", "3", "4", "5", "6", "7", "8", "9">>
Digits(n, width) == [i \in 1..width |-> DigitOf[((n \div 10 ^ (width - i)) % 10) + 1]]
Number(digits) == FoldLeft(LAMBDA n, c: 10 * n + SelectInSeq(DigitOf, LAMBDA d: d = c) - 1, 0, digits)
FormatTime(f, seps) ==
    LET sep(s) == IF s = "" THEN <<>> ELSE <<s>>
    IN  Digits(f[1], 4) \o sep(seps[1]) \o Digits(f[2], 2) \o sep(seps[1]) \o Digits(f[3], 2) \o sep(seps[2])
        \o Digits(f[4], IF TwoDigits \/ f[4] > 9 THEN 2 ELSE 1) \o sep(seps[3]) \o Digits(f[5], 2) \o sep(seps[3]) \o Digits(f[6], 2)
        \o (IF seps[4] = "" THEN <<>> ELSE <<seps[4]>> \o Digits(f[7], 3))
\* Mutant: the milliseconds begin one digit too early.
SplitEarly(t, seps) ==
    LET digits == SelectSeq(t, LAMBDA c: c \notin seps)
        all == [i \in 1..17 |-> IF i <= Len(digits) THEN digits[i] ELSE "0"]
        at(i, j) == Number(SubSeq(all, i, j))
    IN  <<at(1, 4), at(5, 6), at(7, 8), at(9, 10), at(11, 12), at(13, 14), at(14, 16)>>
SplitTimestamp(t, seps) ==
    LET digits == SelectSeq(t, LAMBDA c: c \notin seps)
        all == [i \in 1..17 |-> IF i <= Len(digits) THEN digits[i] ELSE "0"]
        at(i, j) == Number(SubSeq(all, i, j))
    IN  <<at(1, 4), at(5, 6), at(7, 8), at(9, 10), at(11, 12), at(13, 14), at(15, 17)>>
TimestampToMillis(t, seps) ==
    LET f == SplitTimestamp(t, seps) IN [secs |-> MkTime(f, zone.dst), millis |-> f[7]]
TimestampToSecs(t, seps, millis) ==
    LET exact == TimestampToMillis(t, seps)
    IN  IF millis THEN exact ELSE [secs |-> exact.secs + (IF exact.millis >= 500 THEN 1 ELSE 0), millis |-> 0]
\* int((secs - int(secs)) * 1000) of a float, which is the nearest multiple of
\* 2^-22. (1000 / 2^22 is 125 / 2^19.)
Fraction(millis) ==
    LET bits == (2 * 2 ^ 19 * millis + 125) \div 250 IN (125 * bits) \div 2 ^ 19
SecsToTimestamp(m, seps, millis) ==
    FormatTime(LocalTime(m.secs) \o <<Fraction(m.millis)>>, <<seps[1], seps[2], seps[3], IF millis THEN "." ELSE "">>)
ElapsedTime(start, end, seps) ==
    LET s == TimestampToMillis(start, seps)
        e == TimestampToMillis(end, seps)
    IN  1000 * (e.secs - s.secs) + e.millis - s.millis
\* The keyword Get Time: only the parts that are asked for, in order.
PartNames == <<"year", "month", "day", "hour", "min", "sec">>
GetTime(m, format) ==
    IF "epoch" \in format THEN <<m.secs>>
    ELSE LET chosen == SelectSeq([i \in 1..6 |-> i], LAMBDA i: PartNames[i] \in format)
             local == LocalTime(m.secs)
         IN  IF chosen = <<>> THEN local ELSE [i \in DOMAIN chosen |-> local[chosen[i]]]
\* Times as users write them: a number, a timestamp, or relative to now.
ParseTime(written, now) ==
    CASE written.kind = "number" -> [secs |-> written.number, millis |-> 0]
      [] written.kind = "stamp" -> TimestampToSecs(written.text, {" ", ":", "-", "."}, FALSE)
      [] OTHER -> LET away == TimestrToSecs(written.timestr)
                      total == IF written.sign = "+" THEN away ELSE -away
                  IN  [secs |-> now + total \div 1000, millis |-> total % 1000]

------------------------------------------------------------------------------
UserSeps == <<"-", " ", ":", "">>      \* of Get Time and Set Modified Time
LogSeps == <<"", " ", ":", ".">>       \* of output files
RebotSeps == {" ", ":", ".", "-", "_"} \* of --starttime

TimesInit ==
    /\ duration \in Durations /\ meantDuration = duration /\ timestr = NoTime
    /\ moment \in Moments /\ meantMoment = moment /\ stamp = <<>>
    /\ zone \in Zones
WriteDuration(compact) ==
    /\ duration # NoTime
    /\ timestr' = SecsToTimestr(duration, compact) /\ duration' = NoTime
    /\ UNCHANGED <<moment, stamp, zone, meantDuration, meantMoment>>
ReadDuration ==
    /\ timestr # NoTime
    /\ duration' = TimestrToSecs(timestr) /\ timestr' = NoTime
    /\ UNCHANGED <<moment, stamp, zone, meantDuration, meantMoment>>
WriteMoment(seps, millis) ==
    /\ moment # NoTime
    /\ stamp' = SecsToTimestamp(moment, seps, millis) /\ moment' = NoTime
    /\ meantMoment' = IF millis THEN meantMoment ELSE [meantMoment EXCEPT !.millis = 0]
    /\ UNCHANGED <<duration, timestr, zone, meantDuration>>
ReadLogMoment == \* of --starttime
    /\ stamp # <<>>
    /\ moment' = TimestampToSecs(stamp, RebotSeps, TRUE) /\ stamp' = <<>>
    /\ UNCHANGED <<duration, timestr, zone, meantDuration, meantMoment>>
ReadMoment ==
    /\ stamp # <<>> /\ meantMoment.millis = 0
    /\ moment' = ParseTime([kind |-> "stamp", text |-> stamp], 0) /\ stamp' = <<>>
    /\ UNCHANGED <<duration, timestr, zone, meantDuration, meantMoment>>
RelativeTo(sign) == \* NOW + a time string, when it is the moment now
    /\ moment # NoTime /\ timestr # NoTime /\ moment = meantMoment
    /\ LET change == IF sign = "+" THEN meantDuration ELSE -meantDuration
       IN  meantMoment' = [secs |-> moment.secs + change \div 1000, millis |-> change % 1000]
    /\ moment' = ParseTime([kind |-> "now", sign |-> sign, timestr |-> timestr], moment.secs)
    /\ timestr' = NoTime
    /\ UNCHANGED <<duration, stamp, zone, meantDuration>>
TimesNext ==
    \/ \E compact \in BOOLEAN: WriteDuration(compact)
    \/ ReadDuration
    \/ \E seps \in {UserSeps, LogSeps}, millis \in BOOLEAN: WriteMoment(seps, millis)
    \/ ReadLogMoment \/ ReadMoment
    \/ \E sign \in {"+", "-"}: RelativeTo(sign)
TimesSpec == TimesInit /\ [][TimesNext]_timeVars

------------------------------------------------------------------------------
\* Durations stay what they are when they are written as texts, in any of the
\* formats, and read again. A moment that is written with milliseconds, which
\* are cut off a float, gets no later, keeps its second, and loses no more than
\* two milliseconds, however often that is done; without them nothing is lost.
\* Get Time gives the parts of it. The time between moments is their difference.
TimesAreKept ==
    /\ duration # NoTime => duration = meantDuration
    /\ moment # NoTime => /\ moment.secs = meantMoment.secs
                        /\ meantMoment.millis - moment.millis \in 0..Min({2, meantMoment.millis})
                        /\ GetTime(moment, {"epoch"}) = <<MkTime(GetTime(moment, Range(PartNames)), FALSE)>>
    /\ \A m \in Moments:
        LET local == LocalTime(m.secs) \o <<m.millis>>
            now == LocalTime(meantMoment.secs) \o <<meantMoment.millis>>
        IN  Abs(m.secs - meantMoment.secs) < 10 * Day =>
                ElapsedTime(FormatTime(now, LogSeps), FormatTime(local, LogSeps), {" ", ":", "."})
                    = 1000 * (m.secs - meantMoment.secs) + m.millis - meantMoment.millis

\* A timestamp is read as it is given also where there is summer time.
\* doc: src/robot/libraries/OperatingSystem.py:1016 "If `mtime` is a valid
\* timestamp, that time will be used."
TimestampsAreUsed == moment # NoTime => moment = meantMoment

\* The hour of a timestamp can be written without its first zero.
\* doc: src/robot/libraries/OperatingSystem.py:1029 "Set Modified Time |
\* /path/file | 2007-04-27 9:14:27".
ShortHoursAreRead == moment # NoTime => moment = meantMoment

\* The start time of a combined report is the one that is given.
\* doc: src/robot/rebot.py:167 "Set starting time of test execution".
StartTimesAreKept == moment # NoTime => moment = meantMoment
=============================================================================
