------------------------------ MODULE Decoding ------------------------------
(***************************************************************************)
(* From a line or a request to events with a time, and from an event's     *)
(* time to its partition: syslog_parse.py, otlp.py, collector.py and the   *)
(* functions of schema.sql.  The calendar is small, and has what the       *)
(* arithmetic depends on: a leap day, a first and a last day, weeks, and   *)
(* a day of several hours.                                                 *)
(***************************************************************************)
EXTENDS Integers, Sequences, FiniteSets, SequencesExt, Loops

CONSTANTS
  YearDays,   \* days of a leap year; the others have one less
  LeapDay,    \* its place in a leap year
  WeekDays, DayHours,
  LastHour,   \* the hours a datetime can hold are 0 .. LastHour
  Bad,        \* what is malformed in a request
  None

ASSUME CalendarAssumption ==
  /\ YearDays \in Nat \ {0, 1} /\ LeapDay \in 2 .. YearDays
  /\ WeekDays \in Nat \ {0} /\ DayHours \in Nat \ {0} /\ LastHour \in Nat

-----------------------------------------------------------------------------
(* RFC 3164: a month and a day, no year.  A date is [year, day]; a day     *)
(* that the year does not have is a ValueError.                            *)

Leap(y) == y % 4 = 0
Exists(date) == date.day = LeapDay => Leap(date.year)

DayNumber(date) ==
  LET y == date.year
      before == y * (YearDays - 1) + (y + 3) \div 4
  IN before + date.day - (IF ~Leap(y) /\ date.day > LeapDay THEN 1 ELSE 0)

\* A bug: there is no year but this one.
BugInferred(day, now) ==
  LET date == [year |-> now.year, day |-> day]
  IN IF Exists(date) THEN DayNumber(date) ELSE DayNumber(now)

\* _parse_3164_ts: this year, or the year before when that is more than a day
\* ahead; without a date, the line is dated when it came.
Inferred(day, now) ==
  LET date == [year |-> now.year, day |-> day]
      last == [date EXCEPT !.year = @ - 1]
  IN IF ~Exists(date) THEN DayNumber(now)
     ELSE IF DayNumber(date) - DayNumber(now) <= 1 THEN DayNumber(date)
     ELSE IF Exists(last) THEN DayNumber(last) ELSE DayNumber(now)

-----------------------------------------------------------------------------
(* RFC 5424: an hour at an offset from UTC.                                *)

\* _parse_5424_ts: astimezone leaves the range of datetime with an
\* OverflowError, which nobody catches; "-" is None.
Parse5424(hour, offset) ==
  IF hour = None THEN "now"
  ELSE IF hour - offset \in 0 .. LastHour THEN "dated" ELSE "raises"

-----------------------------------------------------------------------------
(* The severity of a line; 0 is none.                                      *)

ToOtel(sev) == <<24, 21, 19, 17, 13, 10, 9, 5>>[sev + 1]

PriSeverity(pri) == pri % 8

\* parse_syslog: the severity of a Cisco mnemonic goes first.
LineSeverity(line) ==
  IF line.cisco \in 0 .. 7 THEN ToOtel(line.cisco)
  ELSE IF line.pri # None THEN ToOtel(PriSeverity(line.pri)) ELSE 0

-----------------------------------------------------------------------------
(* OTLP: groups of scopes of records, any of which may be malformed (Bad). *)

TooMany(events, max) == Len(events) >= max

\* parse_otlp_json: nested loops over one list of events.
AddRecord(max, events, record) ==
  IF events = None \/ TooMany(events, max) \/ record = Bad THEN None
  ELSE Append(events, record)

AddScope(max, events, scope) ==
  IF events = None \/ scope = Bad THEN None
  ELSE ForEach(LAMBDA e, r : AddRecord(max, e, r), events, scope)

AddGroup(max, events, group) ==
  IF events = None \/ group = Bad THEN None
  ELSE ForEach(LAMBDA e, s : AddScope(max, e, s), events, group)

ParseOtlp(payload, max) ==
  ForEach(LAMBDA e, g : AddGroup(max, e, g), <<>>, payload)

-----------------------------------------------------------------------------
(* Weekly partitions [from, to), in hours of UTC.                          *)

Week == WeekDays * DayHours

\* _monday, and midnight of it
Monday(hour) == (hour \div Week) * Week

\* date_trunc in a session whose time zone is zone hours ahead, and the bounds,
\* which are dates there.
EnsureWeek(at, zone) ==
  LET start == ((at + zone) \div Week) * Week - zone
  IN [from |-> start, to |-> start + Week]

\* flush: the partition made for an event.
Ensured(hour, now, zone) == EnsureWeek(Monday(hour), zone)

\* ringdown_retention
Expired(partition, now, keep) == partition.to <= now - keep
=============================================================================
