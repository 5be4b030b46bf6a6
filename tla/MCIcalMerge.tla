---------------------------- MODULE MCIcalMerge ------------------------------
(***************************************************************************)
(* Instances of IcalMerge for TLC.  Months are two or three days long, so  *)
(* that a day of one may be missing in the month before.                   *)
(***************************************************************************)
EXTENDS IcalMerge

MCMonthStart == <<0, 3, 5, 8, 11>>

Component(kind, uid, tzid, span, rule, rdates, exdates) ==
    [kind |-> kind, uid |-> uid, tzid |-> tzid, span |-> span,
     rule |-> rule, rdates |-> rdates, exdates |-> exdates]

Zone(tzid) == Component("VTIMEZONE", <<>>, tzid, {}, <<>>, {}, {})
Todo(uid) == Component("other", uid, "", {}, <<>>, {}, {})
Event(uid, tzid, start, end) ==
    Component("VEVENT", uid, tzid, {<<start, end>>}, <<>>, {}, {})

OneOrNone(S) == {{}} \union {{x} : x \in S}

MonthWindows(months) ==
    {[now |-> [month |-> 3, day |-> day], past |-> past, future |-> future] :
        day \in {1, 3}, past \in OneOrNone(months), future \in OneOrNone(months)}

AllWindows == MonthWindows({0, 1, 2})

\* One calendar with one event, repeating or not.
Spans == OneOrNone({<<s, s + d>> : s \in 0..12, d \in {-1, 0, 2}})
Rule(every, count) == [every |-> every, count |-> count]
Rules ==
    {<<>>} \union {<<r>> : r \in [every : {1, 3}, count : {2, Forever}]}
        \union {<<Rule(1, 2), Rule(3, Forever)>>, <<Rule(1, Forever), Rule(3, 2)>>}

SingleEvents ==
    {Component("VEVENT", <<"u">>, "", span, rule, rdates, exdates) :
        span \in Spans, rule \in Rules,
        rdates \in OneOrNone({4, 9}), exdates \in OneOrNone({3, 6})}

OneEvent == {<<[id |-> "s1", cal |-> {<<ev>>}]>> : ev \in SingleEvents}

\* Two calendars of up to two components: a series and its exception, events
\* with the same UID or none, zones of the same name, one that does not parse.
Parts ==
    {Zone("z"), Todo(<<"u">>), Event(<<>>, "z", 6, 7), Event(<<"u">>, "z", 6, 7),
     Component("VEVENT", <<"u">>, "y", {<<0, 1>>},
         <<Rule(3, 2)>>, {}, {})}

Calendars == {<<>>} \union {<<a, b>> : a, b \in Parts}

TwoSources ==
    {<<[id |-> "s1", cal |-> first], [id |-> "s2", cal |-> second]>> :
        first, second \in OneOrNone(Calendars)}

AllInputs == OneEvent \union TwoSources
=============================================================================
