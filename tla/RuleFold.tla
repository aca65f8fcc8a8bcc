------------------------------ MODULE RuleFold ------------------------------
(***************************************************************************)
(* The rule table and the walk over it, rule by rule as RuleEngine in      *)
(* crates/core/src/rules.rs does it: set_rules sorts whatever order the    *)
(* database listed, apply_request and apply_response take a copy of the    *)
(* table and fold its rules into a RuleResult, and merge_headers folds the *)
(* rewrites into a message.  Meanwhile the table may be replaced.          *)
(* RuleEngine!Pass is the outcome the other modules rely on.               *)
(***************************************************************************)
EXTENDS RuleEngine, SequencesExt

CONSTANTS
    Pool,       \* the rules a user may save
    Statuses,   \* the statuses a session may have, None among them
    MaxChanges  \* bound: replacements of the table

ASSUME PoolAssumption == Pool \subseteq Rule /\ MaxChanges \in Nat

VARIABLES
    rules,    \* the engine's Vec<Rule>
    table,    \* the copy a pass walks over
    asked,    \* what the pass is asked: phase, url and status
    walked,   \* rules of the copy it has visited
    result,   \* its RuleResult
    merged,   \* rewrites merge_headers has applied
    header,   \* the value they gave the header: a set of at most one rule id
    changes   \* replacements of the table since the start

passVars == <<table, asked, walked, result, merged, header>>
foldVars == <<rules, passVars, changes>>

Question == [phase : Phases, url : Targets, status : Statuses]

(***************************************************************************)
(* The table.                                                              *)
(***************************************************************************)
\* set_rules: the list sorted by (priority, id).
SetRules(listed) ==
    LET Place(i) == Cardinality({j \in DOMAIN listed : j = i \/ Precedes(listed[j], listed[i])})
    IN  [n \in DOMAIN listed |-> listed[CHOOSE i \in DOMAIN listed : Place(i) = n]]

\* load_rules lists the rows by priority and creation time, so rules of one
\* priority may come in any order; id is the primary key.
Listing(listed) ==
    \A i, j \in DOMAIN listed : i < j =>
        listed[i].priority <= listed[j].priority /\ listed[i].id # listed[j].id

\* A command's write is followed by a listing of the whole table.
Replace(stored) ==
    /\ changes < MaxChanges /\ changes' = changes + 1
    /\ \E listed \in [1..Cardinality(stored) -> stored] :
           /\ Listing(listed)
           /\ rules' = SetRules(listed)
    /\ UNCHANGED passVars

Others(id) == {r \in ToSet(rules) : r.id # id}

\* save_rule upserts by id.
Save(rule) == Replace(Others(rule.id) \cup {rule})

Delete(id) == id \in Ids(ToSet(rules)) /\ Replace(Others(id))

(***************************************************************************)
(* The walk.                                                               *)
(***************************************************************************)
\* RuleResult::default: an option is a set of at most one member.
Nothing == [matched |-> <<>>, rewrites |-> <<>>, mock |-> {}, delay |-> {}]

OrElse(test, new, old) == IF test THEN new ELSE old

\* Mutant: the first mock and the first delay of the walk win.
VisitFirstWins(rule, phase) ==
    [matched  |-> Append(result.matched, rule.id),
     rewrites |-> OrElse(Rewrites(rule, phase), Append(result.rewrites, rule.id), result.rewrites),
     mock     |-> OrElse(Mocks(rule, phase) /\ result.mock = {}, {rule}, result.mock),
     delay    |-> OrElse(Delays(rule), {rule.value}, result.delay)]

\* What a rule that is enabled and matches makes of the result.
Visit(rule, phase) ==
    [matched  |-> Append(result.matched, rule.id),
     rewrites |-> OrElse(Rewrites(rule, phase), Append(result.rewrites, rule.id), result.rewrites),
     mock     |-> OrElse(Mocks(rule, phase), {rule}, result.mock),
     delay    |-> OrElse(Delays(rule), {rule.value}, result.delay)]

\* apply_request and apply_response have walked the whole copy.
Walked == walked = Len(table)

\* ... and merge_headers has applied every rewrite they found.
Merged == Walked /\ merged = Len(result.rewrites)

\* A pass begins with a copy of the table.
BeginPass ==
    /\ Merged
    /\ table' = rules
    /\ asked' \in Question
    /\ walked' = 0 /\ result' = Nothing
    /\ merged' = 0 /\ header' = {}
    /\ UNCHANGED <<rules, changes>>

\* One iteration of the loop.
VisitNext ==
    /\ ~Walked
    /\ walked' = walked + 1
    /\ LET rule == table[walked + 1]
       IN  result' = IF rule.enabled /\ Matches(rule, asked.url, asked.status)
                     THEN Visit(rule, asked.phase) ELSE result
    /\ UNCHANGED <<rules, table, asked, merged, header, changes>>

\* merge_headers for the one header name modelled: each rewrite replaces the
\* value an earlier one left.
MergeNext ==
    /\ Walked /\ ~Merged
    /\ merged' = merged + 1
    /\ header' = {result.rewrites[merged + 1]}
    /\ UNCHANGED <<rules, table, asked, walked, result, changes>>

\* AppState::new installs what the database lists, in whatever order.
FoldInit ==
    /\ \E n \in 0..Cardinality(Ids(Pool)) : \E listed \in [1..n -> Pool] :
           Listing(listed) /\ rules = SetRules(listed)
    /\ table = <<>> /\ asked \in Question
    /\ walked = 0 /\ result = Nothing
    /\ merged = 0 /\ header = {}
    /\ changes = 0

FoldNext ==
    \/ \E rule \in Pool : Save(rule)
    \/ \E id \in Ids(Pool) : Delete(id)
    \/ BeginPass \/ VisitNext \/ MergeNext

FoldSpec == FoldInit /\ [][FoldNext]_foldVars
-----------------------------------------------------------------------------
\* What a pass comes to is what RuleEngine!Pass says of the table it began
\* with, however the database listed that table and whatever replaced it since:
\* the rules that hit, each reported once and in ascending priority, as
\* docs/rule-engine.md promises; and for the header, the mock and the delay the
\* last rule in (priority, id) order.
WalkIsPass ==
    Merged =>
        LET pass == Pass(ToSet(table), asked.phase, asked.url, asked.status)
            prio(id) == (CHOOSE r \in ToSet(table) : r.id = id).priority
        IN  /\ ToSet(result.matched) = pass.matched
            /\ \A i, j \in 1..Len(result.matched) : i < j =>
                   /\ result.matched[i] # result.matched[j]
                   /\ prio(result.matched[i]) <= prio(result.matched[j])
            /\ header = pass.header
            /\ result.mock = pass.mock
            /\ result.delay = pass.delay
=============================================================================
