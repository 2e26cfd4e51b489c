----------------------------- MODULE MCFunctions -----------------------------
(***************************************************************************)
(* The pure functions of the program over bounded inputs.  A behaviour     *)
(* takes one input and computes what the code computes; the properties     *)
(* compare the result with what it has to be.                              *)
(***************************************************************************)
EXTENDS Routing, Matching, LiveView, Decoding

CONSTANTS
  Letters,   \* of filters and bodies
  Offsets,   \* hours from UTC of an RFC 5424 time
  Zones      \* hours from UTC of the database's time zone

VARIABLES input, result
vars == <<input, result>>

Texts(chars, lengths) == UNION {[1 .. n -> chars] : n \in lengths}

RuleChoices ==
  [enabled : {TRUE}, hit : BOOLEAN, min : {0, 2}, stop : BOOLEAN,
   targets : {{}, {"t1"}, {"t1", "t2"}}]
    \cup [enabled : {FALSE}, hit : {TRUE}, min : {0}, stop : {TRUE}, targets : {{"t1"}}]
Numbered(r, i, order) ==
  [id |-> i, order |-> order, enabled |-> r.enabled, hit |-> r.hit, min |-> r.min,
   stop |-> r.stop, targets |-> r.targets]

RouteInputs ==
  [what : {"route"}, sev : {0, 2},
   rows : {{Numbered(r[i], i, order[i]) : i \in 1 .. 3} :
             r \in [1 .. 3 -> RuleChoices], order \in {<<1, 2, 3>>, <<2, 1, 1>>}}]
FilterInputs ==
  [what : {"filter"}, pattern : Texts(Letters, 1 .. 2), sensitive : BOOLEAN,
   body : Texts(Letters, 0 .. 3)]
GlobInputs ==
  [what : {"glob"}, glob : Texts({"a", "*", "?", "%", "_", "\\"}, 1 .. 3),
   text : Texts({"a", "%", "_", "\\"}, 0 .. 3)]
ViewInputs ==
  [what : {"view"},
   ops : Texts([do : {"row"}, k : 1 .. 2, kind : {"log", "alert"}]
                 \cup {[do |-> "toggle", k |-> 0, kind |-> "log"],
                       [do |-> "clear", k |-> 0, kind |-> "log"]}, 0 .. 5)]
\* An event of a year's day, received age days later; the sender's clock may be a
\* day ahead.
DayInputs ==
  {in \in [what : {"day"}, year : 1 .. 8, day : 1 .. YearDays, age : -1 .. YearDays] :
     Exists([year |-> in.year, day |-> in.day])}
TimeInputs ==
  [what : {"time"}, hour : (0 .. LastHour) \cup {None}, offset : Offsets]
LineInputs ==
  [what : {"line"}, pri : {None} \cup 0 .. 191, cisco : {None} \cup 0 .. 9]
OtlpInputs ==
  [what : {"otlp"}, max : 1 .. 3,
   payload : Texts(Texts(Texts({1, 2, Bad}, 0 .. 2) \cup {Bad}, 0 .. 1) \cup {Bad}, 0 .. 2)]
WeekInputs ==
  [what : {"week"}, hour : 0 .. 3 * Week, now : 0 .. 3 * Week, zone : Zones, keep : {Week}]

Inputs ==
  RouteInputs \cup FilterInputs \cup GlobInputs \cup ViewInputs \cup DayInputs
    \cup TimeInputs \cup LineInputs \cup OtlpInputs \cup WeekInputs

DateOf(n) ==
  CHOOSE d \in [year : 0 .. 12, day : 1 .. YearDays] : Exists(d) /\ DayNumber(d) = n

Computed(in) ==
  CASE in.what = "route" -> Routed(in.rows, in.sev)
    [] in.what = "filter" -> <<LiveMatch(in.pattern, in.sensitive, in.body),
                               SqlMatch(in.pattern, in.sensitive, in.body)>>
    [] in.what = "glob" -> <<GlobMatch(in.glob, in.text), LikeMatch(in.glob, in.text)>>
    [] in.what = "view" -> View(in.ops)
    [] in.what = "day" -> Inferred(in.day, DateOf(DayNumber(in) + in.age))
    [] in.what = "time" -> Parse5424(in.hour, in.offset)
    [] in.what = "line" -> LineSeverity(in)
    [] in.what = "otlp" -> ParseOtlp(in.payload, in.max)
    [] OTHER -> Ensured(in.hour, in.now, in.zone)

Init == input \in Inputs /\ result = None

Compute == result = None /\ result' = Computed(input) /\ UNCHANGED input

Spec == Init /\ [][Compute]_vars

Of(what) == input.what = what /\ result # None

-----------------------------------------------------------------------------

\* Compiling the rules and walking over them notifies each target of a rule that
\* the event meets exactly once, on behalf of the first such rule: a rule that is
\* left out changes nothing, and a block shields what is behind it.
FirstRuleNotifies ==
  Of("route") =>
    /\ ToSet(result) = Due(input.rows, input.sev)
    /\ Len(result) = Cardinality(ToSet(result))

\* What a filter drops is what its preview counts and its purge deletes
\* (filters.py:40), as far as case folding is lower case.
PreviewAgrees ==
  Of("filter") =>
    \/ \E c \in ToSet(input.pattern) \cup ToSet(input.body) : CasefoldChar(c) # LowerChar(c)
    \/ result[1] = result[2]

\* A glob selects the same sources and programs as its translation to LIKE,
\* whatever characters LIKE gives a meaning to.
GlobsAgree == Of("glob") => result[1] = result[2]

FilterAgrees == PreviewAgrees /\ GlobsAgree

\* "SQL predicate equivalent to live matching" (historical_predicate), for
\* every text.
PredicateIsEquivalent == Of("filter") => result[1] = result[2]

\* The screen shows the newest rows that pass, of the newest that were kept, in
\* their order, however rows, checkboxes and clears follow each other.
ScreenIsNewest == Of("view") => ShowsNewest(input.ops, result)

\* A line that comes within a year gets its own date, whatever the year's end and
\* leap years do; but for the leap day, which the year after does not have, and
\* the first of January of a clock that is ahead.
DatedRight ==
  Of("day") /\ input.age < YearDays - 2 /\ input.day # LeapDay
    /\ (input.age < 0 => input.day > 1) => result = DayNumber(input)

\* "Never raises - an undecodable line still becomes a row" (parse_syslog): its
\* time stays in the range of datetime, or gives way to the time of arrival.
NeverRaises == Of("time") => result # "raises"

\* An event is as severe as the syslog level its line states, the mnemonic's
\* first: more urgent is more severe, and 24 the most.
UrgencyKept ==
  Of("line") =>
    LET level == IF input.cisco \in 0 .. 7 THEN input.cisco
                 ELSE IF input.pri = None THEN None ELSE input.pri - 8 * (input.pri \div 8)
    IN IF level = None THEN result = 0
       ELSE /\ result \in 5 .. 24 /\ (result = 24 <=> level = 0)
            /\ \A l \in 0 .. 7 : l < level => ToOtel(l) > result

\* A request becomes all of its records, in order, or none.
AllOrNone ==
  Of("otlp") =>
    LET payload == input.payload
        Flat(groups) == IF Bad \in ToSet(groups) THEN <<>> ELSE FlattenSeq(groups)
        scopes == Flat(payload)
        records == Flat(scopes)
        whole == /\ Bad \notin ToSet(payload) /\ Bad \notin ToSet(scopes)
                 /\ Bad \notin ToSet(records) /\ Len(records) <= input.max
    IN result = IF whole THEN records ELSE None

\* The partition that the flusher makes for an event holds it, and retention does
\* not drop an event that is younger than its term.
WeekHoldsEvent ==
  Of("week") =>
    /\ result.from <= input.hour /\ input.hour < result.to
    /\ Expired(result, input.now, input.keep) => input.hour < input.now - input.keep

\* Every event that comes in is dated, graded, taken and stored where it belongs.
DecodedRight == DatedRight /\ UrgencyKept /\ AllOrNone /\ WeekHoldsEvent
=============================================================================
