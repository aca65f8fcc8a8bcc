---------------------------- MODULE DesktopView ----------------------------
(***************************************************************************)
(* What the window shows (apps/desktop/src/App.tsx), beside the store it   *)
(* asks (SessionQuery) and the feed that tells it of captures (EventFeed). *)
(*                                                                         *)
(* The window keeps the session list, the selected session with its        *)
(* detail, and the traffic overview.  Each is loaded by a command: it is   *)
(* asked for, served by the store at one instant, and its answer delivered *)
(* to the window later.  Commands run concurrently, so answers come in any *)
(* order, and the window takes each as it comes.  A replay is a command as *)
(* well, and reloads what is shown when it is over.  Events are heard in the *)
(* order they were emitted.  Callbacks of the window do not interleave.    *)
(* Sessions captured in this run bear the number of their event.           *)
(***************************************************************************)
EXTENDS EventFeed, SessionQuery, Bags

CONSTANTS
    Earlier,      \* sessions stored by an earlier run of the application
    Filter,       \* Filter[f]: the SessionFilter the user may set by the name f
    NoFilter,     \* the name of emptyFilter, the one the window starts with
    Missing,      \* the answer to a load that fails
    MaxLoads,     \* bound: loads in flight
    MaxReplays,   \* bound: replays in flight
    MaxCommands   \* bound: what else the user does, and what fails

ASSUME ViewAssumption ==
    /\ DOMAIN Session = Earlier \cup 1..MaxEvents
    /\ IsFiniteSet(Earlier) /\ Earlier \cap 1..MaxEvents = {}
    /\ NoFilter \in DOMAIN Filter
    /\ MaxLoads \in Nat /\ MaxReplays \in Nat /\ MaxCommands \in Nat

VARIABLES
    stored,    \* the sessions in the database
    inserted,  \* those captured in this run, cleared or not
    heard,     \* events the window has taken, of those emitted
    filter, list, selected, detail, overview,  \* the window's state
    loads,     \* the bag of loads in flight: they may come in any order
    replays,   \* the bag of replays in flight
    clearing,  \* the Clear button: "no", "asked" or "deleted"
    commands,  \* how much the user has done, or has failed, so far
    race,      \* history: views whose loads overlapped, failed, or met an event or a clear;
               \* and "filter", if a replay asked for the list of a filter set before
    hidden     \* history: what was stored and left out when the list was last loaded

feedVars == <<sent, slots, next, task, held, emitted>>
shown == <<filter, list, selected, detail, overview>>
viewVars == <<stored, inserted, heard, shown, loads, replays, clearing, commands, race, hidden>>
allVars == <<feedVars, viewVars>>

Views == {"list", "detail", "overview"}
Ids == DOMAIN Session
Filters == DOMAIN Filter

\* A load of a view: a list for a filter, a detail for a session.  One that is
\* chained has the overview loaded after it.
Asked(view, arg) ==
    [view |-> view, arg |-> arg, chained |-> FALSE, served |-> FALSE, answer |-> Missing, left |-> {}]

InFlight(view) == \E load \in BagToSet(loads) : load.view = view

\* A set of loads is asked for.
Ask(asked) ==
    /\ BagCardinality(loads) + Cardinality(asked) <= MaxLoads
    /\ loads' = loads (+) SetToBag(asked)

Overlapping(views) == {v \in views : InFlight(v)}

\* The command loadOverview.
OverviewLoad == Asked("overview", None)

ViewInit ==
    /\ Init
    /\ stored = Earlier /\ inserted = {} /\ heard = 0
    /\ filter = NoFilter /\ list = <<>>
    /\ selected = None /\ detail = None /\ overview = None
    /\ loads = SetToBag({Asked("list", NoFilter), OverviewLoad}) /\ replays = EmptyBag
    /\ clearing = "no" /\ commands = 0
    /\ race = {} /\ hidden = {}
-----------------------------------------------------------------------------
\* A handler, or a replay, stores a session.
Insert(n) ==
    /\ n \notin inserted
    /\ inserted' = inserted \cup {n}
    /\ stored' = stored \cup {n}
    /\ UNCHANGED <<feedVars, heard, shown, loads, replays, clearing, commands, race, hidden>>

\* Mutant: a session is announced before it is stored.
SendFirst == Send /\ UNCHANGED viewVars

\* It announces the session only once it is stored.
SendStored ==
    /\ sent + 1 \in inserted
    /\ Send
    /\ UNCHANGED viewVars

Forward == (Recv \/ Lag \/ Emit) /\ UNCHANGED viewVars
-----------------------------------------------------------------------------
\* At most Limit of a sequence.
Cap(s) == SubSeq(s, 1, IF Len(s) > Limit THEN Limit ELSE Len(s))

\* Mutant: the session is put in front of the list it may already be in.
PrependedTwice(n) == Cap(<<n>> \o list)

\* The list without a session.
Without(n) == RowsAt(list, {k \in DOMAIN list : list[k] # n})

\* The listener's setSessions: at the top, once, and no more than Limit.
Prepended(n) == Cap(<<n>> \o Without(n))

\* Mutant: an event does not refresh the overview.
HearOnly ==
    /\ heard < Len(emitted)
    /\ heard' = heard + 1
    /\ list' = Prepended(emitted[heard + 1])
    /\ race' = race \cup Overlapping({"list"}) \cup (IF clearing = "deleted" THEN {"list"} ELSE {})
    /\ UNCHANGED <<feedVars, stored, inserted, filter, selected, detail, overview,
                   loads, replays, clearing, commands, hidden>>

\* session://captured: the list whatever its filter, and the overview anew.
Hear ==
    /\ heard < Len(emitted)
    /\ heard' = heard + 1
    /\ list' = Prepended(emitted[heard + 1])
    /\ Ask({OverviewLoad})
    /\ race' = race \cup Overlapping({"list", "overview"})
                    \cup (IF clearing = "deleted" THEN {"list"} ELSE {})
    /\ UNCHANGED <<feedVars, stored, inserted, filter, selected, detail, overview,
                   replays, clearing, commands, hidden>>

Command == commands < MaxCommands /\ commands' = commands + 1

\* Mutant: the list is loaded for the filter that was set before.
ReloadOld(f) ==
    /\ Command
    /\ filter' = f
    /\ Ask({Asked("list", filter), OverviewLoad})
    /\ race' = race \cup Overlapping({"list", "overview"})
    /\ UNCHANGED <<feedVars, stored, inserted, heard, list, selected, detail, overview,
                   replays, clearing, hidden>>

\* loadSessions and loadOverview: Refresh, Apply, Enter, and the effect of a
\* changed filter, which the list load closes over.
Reload(f) ==
    /\ Command
    /\ filter' = f
    /\ Ask({Asked("list", f), OverviewLoad})
    /\ race' = race \cup Overlapping({"list", "overview"})
    /\ UNCHANGED <<feedVars, stored, inserted, heard, list, selected, detail, overview,
                   replays, clearing, hidden>>

\* A row is clicked: the effect asks for its detail, unless it was selected.
Select(n) ==
    /\ Command
    /\ n \in ToSet(list) \ {selected}
    /\ selected' = n
    /\ Ask({Asked("detail", n)})
    /\ race' = race \cup Overlapping({"detail"})
    /\ UNCHANGED <<feedVars, stored, inserted, heard, filter, list, detail, overview,
                   replays, clearing, hidden>>

\* Replay is clicked, which a detail is shown for.  What it does once it is over
\* closes over the filter of now.
Replay ==
    /\ BagCardinality(replays) < MaxReplays
    /\ selected # None /\ detail # None
    /\ replays' = replays (+) SetToBag({[filter |-> filter, after |-> sent]})
    /\ UNCHANGED <<feedVars, stored, inserted, heard, shown, loads, clearing, commands, race, hidden>>

\* It has stored and announced a session.  The list is loaded for the filter of
\* the click, which may not be the one set any more, and then the overview.
ReplayReturns(replay) ==
    /\ sent > replay.after
    /\ replays' = replays (-) SetToBag({replay})
    /\ Ask({[Asked("list", replay.filter) EXCEPT !.chained = TRUE]})
    /\ race' = race \cup Overlapping({"list"})
                    \cup (IF replay.filter # filter THEN {"filter"} ELSE {})
    /\ UNCHANGED <<feedVars, stored, inserted, heard, shown, clearing, commands, hidden>>

\* The session is gone, its server did not answer, or the store failed.
ReplayFails(replay) ==
    /\ replays' = replays (-) SetToBag({replay})
    /\ UNCHANGED <<feedVars, stored, inserted, heard, shown, loads, clearing, commands, race, hidden>>

Replaying ==
    \/ Replay
    \/ \E replay \in BagToSet(replays) : ReplayReturns(replay) \/ ReplayFails(replay)

\* Clear is pressed; the toolbar is disabled until it is done.
Clear ==
    /\ Command
    /\ clearing = "no" /\ clearing' = "asked"
    /\ UNCHANGED <<feedVars, stored, inserted, heard, shown, loads, replays, race, hidden>>

\* clear_sessions in the store.  What the window still hears or gets of the
\* sessions deleted here brings them back to it.
ClearDeletes ==
    /\ clearing = "asked" /\ clearing' = "deleted"
    /\ stored' = {}
    /\ race' = race \cup Overlapping({"list", "overview"})
                    \cup (IF stored \cap (heard + 1)..MaxEvents # {} THEN {"list"} ELSE {})
    /\ UNCHANGED <<feedVars, inserted, heard, shown, loads, replays, commands, hidden>>

\* The store failed: the error is shown and nothing else.
ClearFails ==
    /\ Command
    /\ clearing = "asked" /\ clearing' = "no"
    /\ UNCHANGED <<feedVars, stored, inserted, heard, shown, loads, replays, race, hidden>>

\* Mutant: the detail stays.
ClearsListOnly ==
    /\ clearing = "deleted" /\ clearing' = "no"
    /\ list' = <<>> /\ selected' = None /\ overview' = None
    /\ race' = race \cup Overlapping({"detail"})
    /\ UNCHANGED <<feedVars, stored, inserted, heard, filter, detail, loads, replays, commands, hidden>>

\* The command returned: everything shown is dropped.
ClearReturns ==
    /\ clearing = "deleted" /\ clearing' = "no"
    /\ list' = <<>> /\ selected' = None /\ detail' = None /\ overview' = None
    /\ race' = race \cup Overlapping({"detail"})
    /\ UNCHANGED <<feedVars, stored, inserted, heard, filter, loads, replays, commands, hidden>>
-----------------------------------------------------------------------------
\* The page an overview is made from.
OverviewPage == ListSessions(stored, DefaultFilter)

\* What the store answers now; a session that is gone is an error.
Answer(load) ==
    CASE load.view = "list" -> ListSessions(stored, Filter[load.arg])
      [] load.view = "detail" -> IF load.arg \in stored THEN load.arg ELSE Missing
      [] load.view = "overview" -> OverviewPage

Served(load, answer, left) ==
    loads' = (loads (-) SetToBag({load}))
                (+) SetToBag({[load EXCEPT !.served = TRUE, !.answer = answer, !.left = left]})

\* The command takes its answer under the store's lock.
Serve(load) ==
    /\ ~load.served
    /\ \E answer \in {Answer(load)} :
           Served(load, answer, IF load.view = "list" THEN stored \ ToSet(answer) ELSE {})
    /\ UNCHANGED <<feedVars, stored, inserted, heard, shown, replays, clearing, commands, race, hidden>>

\* The store failed.
ServeFails(load) ==
    /\ Command
    /\ ~load.served
    /\ Served(load, Missing, {})
    /\ UNCHANGED <<feedVars, stored, inserted, heard, shown, replays, clearing, race, hidden>>

\* What is asked for next, once a load has been answered.
Chained(load) == IF load.chained THEN {OverviewLoad} ELSE {}

\* The answer is set, whatever else was asked for since.
Deliver(load) ==
    /\ load.served /\ load.answer # Missing
    /\ loads' = (loads (-) SetToBag({load})) (+) SetToBag(Chained(load))
    /\ list' = IF load.view = "list" THEN load.answer ELSE list
    /\ detail' = IF load.view = "detail" THEN load.answer ELSE detail
    /\ overview' = IF load.view = "overview" THEN load.answer ELSE overview
    /\ hidden' = IF load.view = "list" THEN load.left ELSE hidden
    /\ race' = race \cup (IF clearing = "deleted" THEN {load.view} ELSE {})
                    \cup (IF load.chained THEN Overlapping({"overview"}) ELSE {})
    /\ UNCHANGED <<feedVars, stored, inserted, heard, filter, selected, replays, clearing, commands>>

\* An error is shown, or swallowed, and the view stays as it is.
DeliverError(load) ==
    /\ load.served /\ load.answer = Missing
    /\ loads' = loads (-) SetToBag({load})
    /\ race' = race \cup {load.view}
    /\ UNCHANGED <<feedVars, stored, inserted, heard, shown, replays, clearing, commands, hidden>>

Answering ==
    \E load \in BagToSet(loads) :
        Serve(load) \/ ServeFails(load) \/ Deliver(load) \/ DeliverError(load)

ViewNext ==
    \/ \E n \in 1..MaxEvents : Insert(n)
    \/ SendStored \/ Forward \/ Hear
    \/ \E f \in Filters : Reload(f)
    \/ \E n \in Ids : Select(n)
    \/ Replaying
    \/ Clear \/ ClearDeletes \/ ClearFails \/ ClearReturns
    \/ Answering

ViewSpec == ViewInit /\ [][ViewNext]_allVars

\* While the forwarding task, the window's event loop or a command can go on,
\* one of them does.
FairViewSpec == ViewSpec /\ WF_allVars(Forward \/ Hear \/ Answering)
-----------------------------------------------------------------------------
Distinct(s) == \A i, j \in DOMAIN s : s[i] = s[j] => i = j

\* At most Limit sessions, each once.
Lists == {s \in UNION {[1..n -> Ids] : n \in 0..Limit} : Distinct(s)}

\* A load's argument and, once it has one, its answer.
WellTyped(load) ==
    LET Typed(args, answers) == load.arg \in args /\ (load.answer = Missing \/ load.answer \in answers)
    IN  /\ \/ load.view = "list" /\ Typed(Filters, Lists)
           \/ load.view = "detail" /\ Typed(Ids, Ids)
           \/ load.view = "overview" /\ Typed({None}, Lists)
        /\ load.chained \in BOOLEAN /\ (load.chained => load.view = "list")
        /\ load.served \in BOOLEAN /\ load.left \subseteq Ids

ViewTypeOK ==
    /\ TypeOK
    /\ stored \subseteq Ids /\ inserted \subseteq 1..MaxEvents
    /\ heard \in 0..Len(emitted)
    /\ filter \in Filters
    /\ list \in Lists
    /\ selected \in Ids \cup {None} /\ detail \in Ids \cup {None}
    /\ overview \in Lists \cup {None}
    /\ IsABag(loads)
    /\ \A load \in BagToSet(loads) : WellTyped(load)
    /\ IsABag(replays)
    /\ \A replay \in BagToSet(replays) : replay.filter \in Filters /\ replay.after \in 0..sent
    /\ clearing \in {"no", "asked", "deleted"}
    /\ commands \in 0..MaxCommands
    /\ race \subseteq Views \cup {"filter"} /\ hidden \subseteq Ids

\* Nothing that could still change the view is under way.
Settled(view) == ~InFlight(view) /\ clearing = "no"

\* "The UI reloads detail on demand": the detail shown is that of the selected
\* session, unless details were asked for faster than they came, one could not
\* be had, or a clear came in between.
DetailNeedsRace == Settled("detail") /\ "detail" \notin race => detail = selected

\* The list shows no session that is gone, and leaves out none that was announced
\* since it was loaded, unless a load met an event, another load or a clear, or
\* the list is full.
ListNeedsRace ==
    Settled("list") /\ "list" \notin race =>
        /\ ToSet(list) \subseteq stored
        /\ Len(list) < Limit => stored \ (ToSet(list) \cup hidden) \subseteq (heard + 1)..MaxEvents

\* What is listed but was not put there by an event passes the filter set; and a
\* stored session the window has heard of is left out only if it does not pass,
\* if Limit newer ones are stored or if the list is full.  All this unless the
\* loads of the list raced, or a replay listed by a filter set before.
ListFitsFilter ==
    LET Passes(i) == MatchesFilter(Session[i], Filter[filter])
    IN  Settled("list") /\ race \cap {"list", "filter"} = {} =>
            /\ \A i \in ToSet(list) : i \in 1..heard \/ Passes(i)
            /\ Len(list) < Limit =>
                   \A i \in stored \ ToSet(list) :
                       \/ i \in (heard + 1)..MaxEvents
                       \/ ~Passes(i)
                       \/ Cardinality({j \in stored : Session[j].started > Session[i].started}) >= Limit

\* Once every capture was heard of, the overview is that of what is stored,
\* unless loads of it overlapped each other or a clear.
OverviewNeedsRace ==
    Settled("overview") /\ "overview" \notin race /\ inserted = 1..heard =>
        \/ overview = OverviewPage
        \/ overview = None /\ stored = {}

\* The buckets by a field count its sessions, and none left out is larger.
LargestAreShown(page, by, buckets) ==
    LET Count(key) == Cardinality({i \in ToSet(page) : Key(Session[i][by]) = key})
        keys == {buckets[b].key : b \in DOMAIN buckets}
    IN  \A b \in DOMAIN buckets :
            /\ buckets[b].count = Count(buckets[b].key)
            /\ \A i \in ToSet(page) :
                   LET key == Key(Session[i][by])
                   IN  key \notin keys => Count(key) <= buckets[b].count

\* The overview's figures are what they are called: the average lies between
\* the shortest and the longest, 95 of 100 took no longer than p95, and the
\* buckets shown are the largest.
FiguresAreSound ==
    overview # None =>
        LET figures == Overview(overview)
            durations == Durations(overview)
            Within(v) == Cardinality({n \in DOMAIN durations : durations[n] <= v})
        IN  /\ \A by \in DOMAIN figures.by : LargestAreShown(overview, by, figures.by[by])
            /\ durations # <<>> =>
                   /\ figures.p95 \in ToSet(durations)
                   /\ 100 * Within(figures.p95) >= 95 * Len(durations)
                   /\ durations[1] <= figures.average /\ figures.average <= durations[Len(durations)]

\* While the forwarding task lives, the window hears of every event in the end.
HeardWhileAlive ==
    \A n \in 1..MaxEvents : sent >= n ~> heard >= n \/ task = "ended"

\* components/RequestTable.tsx: "No sessions yet."  The window shows no session
\* under the filter it starts with only if there is none, or none it has heard of.
EmptyMeansNone ==
    Settled("list") /\ "list" \notin race /\ filter = NoFilter /\ list = <<>> =>
        stored \subseteq (heard + 1)..MaxEvents
=============================================================================
