---------------------------- MODULE SessionQuery ----------------------------
(***************************************************************************)
(* What the store answers about the sessions it holds: load_sessions,      *)
(* session_matches_filter and load_traffic_overview in                     *)
(* crates/core/src/store.rs.                                               *)
(*                                                                         *)
(* Strings are numbers in their order, the empty one 0.  A text is kept as *)
(* the set of the strings asked for that occur in it; the empty string     *)
(* occurs in every text.  An option is None or its value.                  *)
(***************************************************************************)
EXTENDS Integers, Sequences, SequencesExt

CONSTANTS
    None,        \* the option without a value
    Dash,        \* the string "-"
    Session,     \* Session[id]: the summary of session id
    Limit,       \* rows a list or an overview is made from (500 in the code)
    MaxBuckets   \* buckets of an overview by one key (12 in the code)

\* What an overview groups sessions by.
Groupings == {"host", "method", "status"}

ASSUME QueryAssumption ==
    /\ Limit \in Nat /\ MaxBuckets \in Nat /\ Dash \in Nat
    /\ \A i \in DOMAIN Session :
           /\ Session[i].started \in Int
           /\ Session[i].duration \in Nat \cup {None}
           /\ \A by \in Groupings : Session[i][by] \in Nat \cup {None}
    /\ \A i, j \in DOMAIN Session : Session[i].started = Session[j].started => i = j

\* SessionFilter::default: no condition at all.
DefaultFilter ==
    [keyword |-> None, method |-> None, status |-> None, host |-> None,
     onlyFailed |-> FALSE, onlyMocked |-> FALSE]

\* session_matches_filter.  A session without a host has no text to find one in,
\* and a method is compared as a whole.
MatchesFilter(s, f) ==
    /\ f.host # None => s.host # None /\ f.host \in s.hostParts
    /\ f.method # None => s.method = f.method
    /\ f.status # None => s.status = f.status
    /\ f.onlyFailed => s.state = "failed"
    /\ f.onlyMocked => s.state = "mocked"
    /\ f.keyword # None => f.keyword \in s.words

\* The members of a finite set, each after those in before[i].
Sorted(S, before) ==
    [n \in 1..Cardinality(S) |-> CHOOSE i \in S : Cardinality(before[i]) = n - 1]

\* In the order of the numbers they have.
InOrder(S, number) == Sorted(S, [i \in S |-> {j \in S : number[j] < number[i]}])

\* What a sequence has at some of its places.
RowsAt(s, places) ==
    LET order == InOrder(places, [k \in places |-> k])
    IN  [n \in DOMAIN order |-> s[order[n]]]

\* ORDER BY started_at DESC.
Newest(ids) == InOrder(ids, [i \in DOMAIN Session |-> -Session[i].started])

\* LIMIT: the sessions with fewer than Limit newer ones.
Recent(ids) ==
    {i \in ids : Cardinality({j \in ids : Session[j].started > Session[i].started}) < Limit}

\* load_sessions: LIMIT in the statement, the filter on what it returned.
ListSessions(ids, filter) == Newest({i \in Recent(ids) : MatchesFilter(Session[i], filter)})
-----------------------------------------------------------------------------
\* The durations an overview is made from, sorted.
Durations(page) ==
    LET timed == {k \in DOMAIN page : Session[page[k]].duration # None}
        duration == [k \in timed |-> Session[page[k]].duration]
        Shorter(j, k) == duration[j] < duration[k] \/ (duration[j] = duration[k] /\ j < k)
        order == Sorted(timed, [k \in timed |-> {j \in timed : Shorter(j, k)}])
    IN  [n \in DOMAIN order |-> duration[order[n]]]

SumOf(values) ==
    LET sum[n \in 0..Len(values)] == IF n = 0 THEN 0 ELSE sum[n - 1] + values[n]
    IN  sum[Len(values)]

\* average_u64.
Average(values) == IF values = <<>> THEN None ELSE SumOf(values) \div Len(values)

DivCeil(a, b) == (a + b - 1) \div b

\* percentile_u64; sequences start at one.
Percentile(values, percentile) ==
    IF values = <<>> THEN None ELSE values[DivCeil((Len(values) - 1) * percentile, 100) + 1]

\* The sessions of a page by a field, an option that is "-" when missing.
Key(option) == IF option = None THEN Dash ELSE option

Bucket(page, by, key) ==
    LET members == RowsAt(page, {k \in DOMAIN page : Key(Session[page[k]][by]) = key})
    IN  [key |-> key, count |-> Len(members), average |-> Average(Durations(members))]

\* The order of the buckets.
LargerFirst(a, b) == a.count > b.count \/ (a.count = b.count /\ a.key < b.key)

\* buckets_by.
BucketsBy(page, by) ==
    LET keys == {Key(Session[i][by]) : i \in ToSet(page)}
        buckets == {Bucket(page, by, key) : key \in keys}
        sorted == Sorted(buckets, [b \in buckets |-> {a \in buckets : LargerFirst(a, b)}])
    IN  IF Len(sorted) > MaxBuckets THEN SubSeq(sorted, 1, MaxBuckets) ELSE sorted

\* load_traffic_overview, the sums of bytes apart.
Overview(page) ==
    LET durations == Durations(page)
    IN  [total |-> Len(page), average |-> Average(durations), p95 |-> Percentile(durations, 95),
         by |-> [by \in Groupings |-> BucketsBy(page, by)]]
=============================================================================
