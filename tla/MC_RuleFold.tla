---------------------------- MODULE MC_RuleFold ----------------------------
\* RuleFold with three rule ids and, for each, rules that differ in priority,
\* reach and action, enough for ties, shadowing and misses.
EXTENDS RuleFold

MCTargets == {"a", "b"}
MCStatuses == {None, 404}

Silent == [p \in Phases |-> {}]
Base == [id |-> 1, enabled |-> TRUE, priority |-> 1, targets |-> MCTargets, status |-> None,
         type |-> "delay", value |-> 0, script |-> Silent]

Kinds == {
    [Base EXCEPT !.value = 50],
    [Base EXCEPT !.type = "mock_response", !.value = 503, !.targets = {"a"}],
    [Base EXCEPT !.type = "mock_response", !.value = 418, !.enabled = FALSE],
    [Base EXCEPT !.type = "rewrite_request_headers", !.status = 404],
    [Base EXCEPT !.type = "rewrite_response_headers", !.priority = 2],
    [Base EXCEPT !.type = "script", !.priority = 0,
                 !.script = [request |-> {"headers", "delay_ms"}, response |-> {"mock_response"}]],
    [Base EXCEPT !.type = "script", !.script = [request |-> {"mock_response"}, response |-> {"headers"}]]}

MCPool == {[kind EXCEPT !.id = i] : kind \in Kinds, i \in 1..3}
=============================================================================
