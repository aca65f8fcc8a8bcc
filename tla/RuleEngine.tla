----------------------------- MODULE RuleEngine -----------------------------
(***************************************************************************)
(* What one pass of the rule engine decides (crates/core/src/rules.rs).    *)
(*                                                                         *)
(* The engine walks its table in ascending (priority, id) order and lets   *)
(* every later rule overwrite what an earlier one asked for, so a pass is  *)
(* described here by its outcome: which rules hit, and which of them is    *)
(* the last to set the header, the mock answer or the delay.  RuleFold     *)
(* has the walk itself, whose outcome is this one (WalkIsPass).            *)
(*                                                                         *)
(* Data abstraction.  A request is known by its url, a member of Targets,  *)
(* and the method, host and url matchers of a rule by the set of urls they *)
(* accept.  One header is modelled; a rewrite sets it to the id of its     *)
(* rule.  Rule ids are numbers, compared the way the code compares names.  *)
(***************************************************************************)
EXTENDS Integers

CONSTANTS
    Targets,   \* the urls requests are made to
    None       \* the absent status of a session or of a matcher

ASSUME NoneAssumption == None \notin Nat

Phases == {"request", "response"}
ActionTypes == {"rewrite_request_headers", "rewrite_response_headers",
                "mock_response", "delay", "script"}
\* The keys a script's result may carry that the proxy uses in a phase.
ScriptKeys == {"headers", "mock_response", "delay_ms"}

(***************************************************************************)
(* targets is what the method, host and url_contains matchers accept;      *)
(* value is the status of a mock or the millis of a delay; script says     *)
(* which keys the script returns in each phase ({} when evaluation fails). *)
(***************************************************************************)
Rule == [id : Nat, enabled : BOOLEAN, priority : Int,
         targets : SUBSET Targets, status : Nat \cup {None},
         type : ActionTypes, value : Nat, script : [Phases -> SUBSET ScriptKeys]]

\* The order set_rules sorts by.
Precedes(p, q) ==
    \/ p.priority < q.priority
    \/ p.priority = q.priority /\ p.id < q.id

\* The member of S the walk reaches last: a set of at most one rule.
Latest(S) == {r \in S : \A q \in S : q = r \/ Precedes(q, r)}

Ids(S) == {r.id : r \in S}

\* matches_request: every matcher that is present must accept the session.
Matches(rule, url, status) ==
    /\ url \in rule.targets
    /\ rule.status # None => rule.status = status

\* The enabled rules of a table that match, all of which are recorded.
Hits(rules, url, status) ==
    {r \in rules : r.enabled /\ Matches(r, url, status)}

Scripted(rule, phase, key) == rule.type = "script" /\ key \in rule.script[phase]

\* Does the rule set the header of its own phase?
Rewrites(rule, phase) ==
    \/ rule.type = "rewrite_request_headers" /\ phase = "request"
    \/ rule.type = "rewrite_response_headers" /\ phase = "response"
    \/ Scripted(rule, phase, "headers")

\* A mock_response action counts before forwarding only; a script mocks in
\* either phase.
Mocks(rule, phase) ==
    \/ rule.type = "mock_response" /\ phase = "request"
    \/ Scripted(rule, phase, "mock_response")

\* A script's delay_ms is read with try_cast::<u64>, which no Rhai integer
\* satisfies, so only delay actions delay.
Delays(rule) == rule.type = "delay"

\* The status a mock answers with: a script's status is lost to the same cast
\* and becomes the default.
MockStatus(rule) == IF rule.type = "script" THEN 200 ELSE rule.value

(***************************************************************************)
(* The result of a pass: ids of the rules that hit, the rule whose header, *)
(* mock and delay prevail (each a set of at most one member).              *)
(***************************************************************************)
Pass(rules, phase, url, status) ==
    LET hits == Hits(rules, url, status)
    IN  [matched |-> Ids(hits),
         header  |-> Ids(Latest({r \in hits : Rewrites(r, phase)})),
         mock    |-> Latest({r \in hits : Mocks(r, phase)}),
         delay   |-> {r.value : r \in Latest({q \in hits : Delays(q)})}]
=============================================================================
