----------------------------- MODULE EventWindow -----------------------------
(***************************************************************************)
(* Which events of an origin calendar a mix keeps: internal/icalmerge,     *)
(* window.go.                                                              *)
(*                                                                         *)
(* A mix may be limited to some months before and after the refresh.  The  *)
(* events of one UID (a series and its exceptions) stay or go together.  A *)
(* series is walked from its first occurrence, MaxChecks occurrences at    *)
(* most.                                                                   *)
(*                                                                         *)
(* Instants are days; now is a month and a day of it.  An optional value   *)
(* is a set with at most one member.  An event is a record of its uid (<<>> *)
(* for none), its span <<start, end>> ({} when a property the window needs *)
(* is missing or does not parse), its rule, the sequence of its RRULEs     *)
(* [every, count], and its rdates and exdates.                             *)
(***************************************************************************)
EXTENDS Integers, FiniteSets, Sequences

CONSTANTS
    MonthStart, \* the day each month begins with
    MaxChecks,  \* maxOccurrenceChecks
    Forever     \* count of a rule without COUNT and UNTIL

\* Months follow one another.
ASSUME MonthsInOrder ==
    /\ MonthStart \in [DOMAIN MonthStart -> Int] /\ DOMAIN MonthStart \subseteq Int
    /\ \A i, j \in DOMAIN MonthStart : i <= j => MonthStart[i] <= MonthStart[j]

ASSUME ChecksAssumption == MaxChecks \in Nat \ {0}

\* time.AddDate: a day the month does not have runs over into the next one.
AddMonths(now, months) == MonthStart[now.month + months] + now.day - 1

Active(w) == w.past # {} \/ w.future # {}

\* Mutant: both bounds lie ahead.
boundsAhead(w) ==
    [earliest |-> {AddMonths(w.now, months) : months \in w.past},
     latest   |-> {AddMonths(w.now, months) : months \in w.future}]

bounds(w) ==
    [earliest |-> {AddMonths(w.now, -months) : months \in w.past},
     latest   |-> {AddMonths(w.now, months) : months \in w.future}]

\* Mutant: an event that lasts until the window opens counts as inside.
overlapsOnBound(start, end, b) ==
    /\ \A latest \in b.latest : start < latest
    /\ \A earliest \in b.earliest : end >= earliest

overlaps(start, end, b) ==
    /\ \A latest \in b.latest : start < latest
    /\ \A earliest \in b.earliest : (IF end < start THEN start ELSE end) > earliest

Repeats(ev) == ev.rule # <<>> \/ ev.rdates # {}

\* The dates of a rule, of an endless one the first n.
Ruled(r, start, n) ==
    {start + k * r.every : k \in 0..((IF r.count = Forever THEN n ELSE r.count) - 1)}

\* An rrule.Set holds one rule: of several, each takes the place of the one
\* before, and the last is left.
LastRule(ev) == IF ev.rule = <<>> THEN {} ELSE {ev.rule[Len(ev.rule)]}

\* What rrule.Set iterates over.  DTSTART by itself is not a member.
Occurrences(ev, start, n) ==
    ((UNION {Ruled(r, start, n) : r \in LastRule(ev)}) \union ev.rdates) \ ev.exdates

Duration(start, end) == IF end < start THEN 0 ELSE end - start

Before(dates, occ) == {date \in dates : date < occ}

\* The dates the walk gets to.  An excluded date costs no check.
Walked(ev, start) == Occurrences(ev, start, MaxChecks + Cardinality(ev.exdates))

Checked(dates) == {occ \in dates : Cardinality(Before(dates, occ)) < MaxChecks}

\* Mutant: a walk that reaches its cap drops the series.
seriesHitsOrEnds(ev, start, end, b) ==
    \E occ \in Checked(Walked(ev, start)) :
        overlaps(occ, occ + Duration(start, end), b)

\* The walk over the occurrences: one is in the window, or none of as many as
\* it may check is beyond the window.
seriesHits(ev, start, end, b) ==
    LET dates == Walked(ev, start)
    IN  \/ \E occ \in Checked(dates) : overlaps(occ, occ + Duration(start, end), b)
        \/ /\ Cardinality(dates) >= MaxChecks
           /\ \A occ \in Checked(dates), latest \in b.latest : occ < latest

eventHits(ev, b) ==
    \A span \in ev.span :
        IF Repeats(ev) THEN seriesHits(ev, span[1], span[2], b)
        ELSE overlaps(span[1], span[2], b)

\* Mutant: an exception is looked at by itself.
sameGroupAlone(ev, other) == other = ev

\* The components that stand or fall together.
sameGroup(ev, other) == other = ev \/ (ev.uid # <<>> /\ other.uid = ev.uid)

\* The events a calendar keeps, of the set of its events.
eventsInWindow(events, w) ==
    LET b == bounds(w)
    IN  {ev \in events : \E other \in events : sameGroup(ev, other) /\ eventHits(other, b)}
=============================================================================
