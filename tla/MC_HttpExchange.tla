-------------------------- MODULE MC_HttpExchange --------------------------
\* HttpExchange with two exchanges and three tables the desktop swaps under
\* them: rewrites and a delay, mocks of both phases, and no rule at all.
EXTENDS HttpExchange

MCTargets == {"a", "b"}
Silent == [p \in Phases |-> {}]
Base == [id |-> 1, enabled |-> TRUE, priority |-> 1, targets |-> {"a"}, status |-> None,
         type |-> "delay", value |-> 50, script |-> Silent]

Rewriting == {
    Base,
    [Base EXCEPT !.id = 2, !.type = "rewrite_request_headers"],
    [Base EXCEPT !.id = 3, !.type = "script", !.priority = 0,
                 !.script = [request |-> {"headers", "delay_ms"}, response |-> {"headers"}]]}

\* One mock carries a status HTTP has no name for; the other tables' ids recur
\* with other actions, as edited rules do.
Mocking == {
    [Base EXCEPT !.type = "mock_response", !.value = 1042],
    [Base EXCEPT !.id = 2, !.type = "script", !.targets = MCTargets, !.priority = 2,
                 !.script = [request |-> {}, response |-> {"mock_response"}]],
    [Base EXCEPT !.id = 3, !.type = "rewrite_response_headers", !.enabled = FALSE]}

MCTables == {{}, Rewriting, Mocking}
=============================================================================
