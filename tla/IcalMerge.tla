------------------------------ MODULE IcalMerge ------------------------------
(***************************************************************************)
(* Merging the origin calendars of a mix into one: internal/icalmerge,     *)
(* merge.go.  The sources are taken in their order, and the components of  *)
(* each in theirs; a source that does not parse fails the whole merge.     *)
(*                                                                         *)
(* A component is a record of its kind, its uid (a sequence, <<>> for      *)
(* none, so that a prefix can be put before it), the tzid it defines or    *)
(* refers to ("" for none), and what EventWindow reads of an event.  Where *)
(* a merged component comes from is history.  Property values, summaries   *)
(* and their prefix, and the line format are left out.                     *)
(***************************************************************************)
EXTENDS EventWindow

CONSTANTS
    Inputs,     \* the sources a merge may be given
    Windows,    \* the windows a mix may have
    Far         \* dates of an endless rule the properties look at

Components ==
    [kind : {"VEVENT", "VTIMEZONE", "other"}, uid : Seq(STRING), tzid : STRING,
     span : SUBSET (Int \X Int), rule : Seq([every : Nat \ {0}, count : Nat]),
     rdates : SUBSET Int, exdates : SUBSET Int]

Optional(set) == \A x, y \in set : x = y

\* The sources of a feed are rows of a table, with distinct ids.  A zone has
\* no UID.
ASSUME InputsAssumption ==
    \A input \in Inputs :
        /\ input \in Seq([id : STRING \ {""}, cal : SUBSET Seq(Components)])
        /\ \A i, j \in DOMAIN input : input[i].id = input[j].id => i = j
        /\ \A i \in DOMAIN input : Optional(input[i].cal)
        /\ \A i \in DOMAIN input : \A cal \in input[i].cal : \A j \in DOMAIN cal :
              /\ cal[j].kind = "VTIMEZONE" => cal[j].uid = <<>>
              /\ Optional(cal[j].span)
              /\ IsFiniteSet(cal[j].rdates) /\ IsFiniteSet(cal[j].exdates)
              /\ Far >= MaxChecks + Cardinality(cal[j].exdates)

ASSUME WindowsAssumption ==
    /\ Windows \subseteq [now : [month : Int, day : Int],
                         past : SUBSET Nat, future : SUBSET Nat]
    /\ \A w \in Windows :
          /\ \A months \in w.past : w.now.month - months \in DOMAIN MonthStart
          /\ \A months \in w.future : w.now.month + months \in DOMAIN MonthStart

ASSUME FarAssumption == Far \in Nat

VARIABLES
    sources,    \* sequence of [id, cal], cal = {} when it does not parse
    window,     \* the window of the mix
    next,       \* the source the loop is at
    at,         \* the component of it the inner loop is at
    out,        \* the merged components, [from, at, comp]
    seenTZ,     \* TZIDs already in out
    pc          \* "merging", "merged" or "failed"

vars == <<sources, window, next, at, out, seenTZ, pc>>

Init ==
    /\ sources \in Inputs
    /\ window \in Windows
    /\ next = 1
    /\ at = 1
    /\ out = <<>>
    /\ seenTZ = {}
    /\ pc = "merging"

Events(cal) == {comp \in {cal[j] : j \in DOMAIN cal} : comp.kind = "VEVENT"}

\* Mutant: what is no event in the window is no longer copied.
KeepsEvents(comp, cal) == comp \in eventsInWindow(Events(cal), window)

\* An inactive window keeps every event, any window every other component.
Keeps(comp, cal) ==
    \/ comp.kind # "VEVENT"
    \/ ~Active(window)
    \/ comp \in eventsInWindow(Events(cal), window)

\* Mutant: the UID of the origin is kept as it is.
prefixUIDNot(uid, id) == uid

prefixUID(uid, id) == IF id = "" \/ uid = <<>> THEN uid ELSE <<id>> \o uid

Emit(comp) == out' = Append(out, [from |-> next, at |-> at, comp |-> comp])

Prefixed(comp, id) == [comp EXCEPT !.uid = prefixUID(@, id)]

\* Mutant: a zone is looked for, but never remembered.
copyComponentForgets(comp, id) ==
    /\ IF comp.kind = "VTIMEZONE" THEN Emit(comp) ELSE Emit(Prefixed(comp, id))
    /\ UNCHANGED seenTZ

\* A zone is copied once and as it is, any other component with a prefix.
copyComponent(comp, id) ==
    \/ /\ comp.kind = "VTIMEZONE" /\ comp.tzid \in seenTZ
       /\ UNCHANGED <<out, seenTZ>>
    \/ /\ comp.kind = "VTIMEZONE" /\ comp.tzid \notin seenTZ
       /\ Emit(comp)
       /\ seenTZ' = seenTZ \union ({comp.tzid} \ {""})
    \/ /\ comp.kind # "VTIMEZONE"
       /\ Emit(Prefixed(comp, id))
       /\ UNCHANGED seenTZ

\* One turn of the loop over the components of a source.
CopyNext ==
    /\ pc = "merging"
    /\ next <= Len(sources)
    /\ \E cal \in sources[next].cal :
         /\ at <= Len(cal)
         /\ IF Keeps(cal[at], cal) THEN copyComponent(cal[at], sources[next].id)
            ELSE UNCHANGED <<out, seenTZ>>
    /\ at' = at + 1
    /\ UNCHANGED <<sources, window, next, pc>>

\* On to the next source.
SourceDone ==
    /\ pc = "merging"
    /\ next <= Len(sources)
    /\ \E cal \in sources[next].cal : at > Len(cal)
    /\ next' = next + 1
    /\ at' = 1
    /\ UNCHANGED <<sources, window, out, seenTZ, pc>>

\* parseICS fails: there is no merge at all.
ParseFails ==
    /\ pc = "merging"
    /\ next <= Len(sources)
    /\ sources[next].cal = {}
    /\ pc' = "failed"
    /\ out' = <<>>
    /\ UNCHANGED <<sources, window, next, at, seenTZ>>

Serialize ==
    /\ pc = "merging"
    /\ next > Len(sources)
    /\ pc' = "merged"
    /\ UNCHANGED <<sources, window, next, at, out, seenTZ>>

Next == CopyNext \/ SourceDone \/ ParseFails \/ Serialize

Spec == Init /\ [][Next]_vars

-----------------------------------------------------------------------------
(* Properties. *)

Positions == DOMAIN out
Merged == pc = "merged"

(* Two components of the mix share a UID only when they had it in the same *)
(* origin: events of different origins are never taken for one another,    *)
(* and an exception finds the series it belongs to.                        *)
UidsApart ==
    \A a, b \in Positions :
        out[a].comp.uid = out[b].comp.uid /\ out[a].comp.uid # <<>> =>
            out[a].from = out[b].from

(* A zone is defined once in the mix, however many origins define it ...   *)
Defines(comp, tzid) == comp.kind = "VTIMEZONE" /\ comp.tzid = tzid /\ tzid # ""

ZonesOnce ==
    \A a, b \in Positions :
        /\ Defines(out[a].comp, out[a].comp.tzid)
        /\ Defines(out[b].comp, out[a].comp.tzid)
        => a = b

(* ... and every zone a component refers to that its origin defines is     *)
(* defined in the mix.                                                     *)
ZonesDefined ==
    Merged =>
        \A a \in Positions : \A cal \in sources[out[a].from].cal : \A j \in DOMAIN cal :
            Defines(cal[j], out[a].comp.tzid) =>
                \E b \in Positions : Defines(out[b].comp, out[a].comp.tzid)

(* A series and its exceptions stay together: when an event is in the mix, *)
(* so is every other of its UID in its origin, under the same UID as it.   *)
SeriesTogether ==
    Merged =>
        \A a \in Positions : \A cal \in sources[out[a].from].cal : \A j \in DOMAIN cal :
            LET ev == cal[out[a].at]
            IN  /\ ev.kind = "VEVENT" /\ cal[j].kind = "VEVENT"
                /\ cal[j].uid = ev.uid /\ ev.uid # <<>>
                => \E b \in Positions :
                     /\ out[b].from = out[a].from /\ out[b].at = j
                     /\ out[b].comp.uid = out[a].comp.uid

-----------------------------------------------------------------------------
(* What the window should keep.  An occurrence is outside when it is over  *)
(* before the window opens, or begins when it has closed.                  *)

Lasts(span) == IF span[2] < span[1] THEN 0 ELSE span[2] - span[1]

Over(span, occ) ==
    \E past \in window.past : occ + Lasts(span) <= AddMonths(window.now, -past)

Ahead(occ) == \E future \in window.future : occ >= AddMonths(window.now, future)

InWindow(span, occ) == ~Over(span, occ) /\ ~Ahead(occ)

\* The dates an event has by its properties: DTSTART, those of every RRULE and
\* every RDATE, less the EXDATEs.
Dates(ev, span) ==
    IF Repeats(ev)
    THEN ({span[1]} \union ev.rdates
            \union UNION {Ruled(ev.rule[k], span[1], Far) : k \in DOMAIN ev.rule})
         \ ev.exdates
    ELSE {span[1]}

\* Those of them that make it into the set the code walks.  What an RRULE
\* before the last one gives does not, nor does the DTSTART of a series without
\* RRULE, though faq.html:16 keeps a series for any occurrence.
SeenDates(ev, span) ==
    {occ \in Dates(ev, span) :
        Repeats(ev) =>
            \/ occ \in ev.rdates
            \/ \E r \in LastRule(ev) : occ \in Ruled(r, span[1], Far)}

Inside(ev) == \E span \in ev.span : \E occ \in SeenDates(ev, span) : InWindow(span, occ)

\* Undecided: a property does not parse, or the walk ends before the window.
Undecided(ev) ==
    \/ ev.span = {}
    \/ \E span \in ev.span :
         Cardinality({occ \in SeenDates(ev, span) : Over(span, occ)}) >= MaxChecks

Copied(i, j) == \E a \in Positions : out[a].from = i /\ out[a].at = j

(* No event is missing from the mix that has an occurrence in the window   *)
(* which its last RRULE or an RDATE gives, or its DTSTART when it does not *)
(* repeat: be it the occurrence after more checks than the walk may take.  *)
KeepsWhatIsInside ==
    Merged =>
        \A i \in DOMAIN sources : \A cal \in sources[i].cal : \A j \in DOMAIN cal :
            cal[j].kind = "VEVENT" /\ Inside(cal[j]) => Copied(i, j)

(* An event without any such occurrence is in the mix only along with one  *)
(* of its UID that has one, or that the code cannot decide.                *)
DropsWhatIsOutside ==
    Merged /\ Active(window) =>
        \A i \in DOMAIN sources : \A cal \in sources[i].cal : \A j \in DOMAIN cal :
            cal[j].kind = "VEVENT" /\ Copied(i, j) =>
                \E other \in Events(cal) :
                    /\ other = cal[j] \/ (other.uid = cal[j].uid /\ other.uid # <<>>)
                    /\ Inside(other) \/ Undecided(other)

(* Extending a window by a month, or lifting a bound, never loses an event *)
(* the narrower one keeps.                                                 *)
Wider(w) ==
    {v \in Windows :
        /\ v.now = w.now
        /\ \A m \in v.past : \E k \in w.past : k <= m
        /\ \A m \in v.future : \E k \in w.future : k <= m}

WiderKeepsMore ==
    \A v \in Wider(window) : \A i \in DOMAIN sources : \A cal \in sources[i].cal :
        eventsInWindow(Events(cal), window) \subseteq eventsInWindow(Events(cal), v)

=============================================================================
