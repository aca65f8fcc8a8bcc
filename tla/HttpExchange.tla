---------------------------- MODULE HttpExchange ----------------------------
(***************************************************************************)
(* Plain HTTP exchanges through the proxy: handle_http in                  *)
(* crates/core/src/proxy.rs, from the request's arrival to its answer.     *)
(*                                                                         *)
(* Many exchanges run at once, each on a task of its own.  They share the  *)
(* rule table, which the desktop replaces at any moment and each exchange  *)
(* reads twice; the session table, which the desktop clears at any moment; *)
(* and the event channel.  An await is where another task may run, and     *)
(* where hyper drops the handler when its client has gone: pc names the    *)
(* awaits, and the steps in between are the actions.                       *)
(*                                                                         *)
(* A header is the set of the rules that last rewrote it (RuleEngine), {}  *)
(* standing for the value the peer sent.                                   *)
(***************************************************************************)
EXTENDS RuleEngine

CONSTANTS
    Exchanges,       \* requests the clients make
    Tables,          \* the rule tables the desktop may install
    UpstreamStatuses \* the statuses upstreams answer with

ASSUME TablesAssumption == Tables \subseteq SUBSET Rule
ASSUME UpstreamAssumption == UpstreamStatuses \subseteq 100..999

VARIABLES
    table,      \* RuleEngine.rules
    pc,         \* where each handler stands
    session,    \* the CapturedSession each handler builds
    plan,       \* the result of apply_request
    upstream,   \* what reached the upstream and what it answered
    rows,       \* what the store holds of each session
    announced,  \* exchanges whose CaptureEvent was sent
    reply       \* the status each client was answered, None before

vars == <<table, pc, session, plan, upstream, rows, announced, reply>>

(***************************************************************************)
(* idle: no request yet.  collecting: awaiting the request body.           *)
(* matching: awaiting the rule table.  waiting: in a rule's delay.         *)
(* ready: about to mock or forward.  forwarding: awaiting the upstream.    *)
(* amending: awaiting the rule table for the response.                     *)
(* storing, announcing, replying: the three steps at the end.              *)
(* failed: an error was answered.  dropped: the client hung up first.      *)
(***************************************************************************)
Awaiting == {"collecting", "matching", "waiting", "forwarding", "amending"}
Closing  == {"storing", "announcing", "replying", "done"}
Settled  == {"done", "failed", "dropped"}
Steps    == {"idle", "ready"} \cup Awaiting \cup Closing \cup Settled

Status == Nat \cup {None}

Session == [state : {"Pending", "Completed", "Mocked"}, url : Targets, status : Status,
            matched : SUBSET Nat, requestHeader : SUBSET Nat, responseHeader : SUBSET Nat]

\* CapturedSession::new with the target filled in.
NewSession(url) == [state |-> "Pending", url |-> url, status |-> None,
                    matched |-> {}, requestHeader |-> {}, responseHeader |-> {}]

NoPlan == [matched |-> {}, header |-> {}, mock |-> {}, delay |-> {}]
NotAsked == [asked |-> FALSE, header |-> {}, status |-> None]

\* Mutant: error statuses are answered as 200 too.
SentStatusNoErrors(status) == IF status \in 100..399 THEN status ELSE 200

\* response_from_parts: a status HTTP does not know is answered as 200.
SentStatus(status) == IF status \in 100..999 THEN status ELSE 200

Goto(x, step) == pc' = [pc EXCEPT ![x] = step]

\* internal_error: the handler returned Err and the client is answered 500.
AnswerError(x) == Goto(x, "failed") /\ reply' = [reply EXCEPT ![x] = 500]

Init ==
    /\ table \in Tables
    /\ pc = [x \in Exchanges |-> "idle"]
    /\ session \in [Exchanges -> {NewSession(url) : url \in Targets}]
    /\ plan = [x \in Exchanges |-> NoPlan]
    /\ upstream = [x \in Exchanges |-> NotAsked]
    /\ rows = [x \in Exchanges |-> "none"]
    /\ announced = {}
    /\ reply = [x \in Exchanges |-> None]
-----------------------------------------------------------------------------
\* The request head arrives and its target is built.
Receive(x) ==
    /\ pc[x] = "idle"
    /\ Goto(x, "collecting")
    /\ UNCHANGED <<table, session, plan, upstream, rows, announced, reply>>

\* build_target_uri finds no host or no valid uri.
RejectTarget(x) ==
    /\ pc[x] = "idle"
    /\ AnswerError(x)
    /\ UNCHANGED <<table, session, plan, upstream, rows, announced>>

\* The request body has been collected.
CollectBody(x) ==
    /\ pc[x] = "collecting"
    /\ Goto(x, "matching")
    /\ UNCHANGED <<table, session, plan, upstream, rows, announced, reply>>

\* The request body is malformed.
BodyFails(x) ==
    /\ pc[x] = "collecting"
    /\ AnswerError(x)
    /\ UNCHANGED <<table, session, plan, upstream, rows, announced>>

\* Mutant: the record keeps the headers the client sent.
PlannedUnmerged(s, pass) == [s EXCEPT !.matched = pass.matched]

\* The record takes over what the request pass decided.
Planned(s, pass) == [s EXCEPT !.matched = pass.matched, !.requestHeader = pass.header]

\* apply_request on a snapshot of the table, then the rewritten request
\* headers into the record, then the delay if one was asked for.
ApplyRequest(x) ==
    LET pass == Pass(table, "request", session[x].url, session[x].status)
    IN  /\ pc[x] = "matching"
        /\ plan' = [plan EXCEPT ![x] = pass]
        /\ session' = [session EXCEPT ![x] = Planned(@, pass)]
        /\ Goto(x, IF \E millis \in pass.delay : millis > 0 THEN "waiting" ELSE "ready")
        /\ UNCHANGED <<table, upstream, rows, announced, reply>>

\* Mutant: the delay starts over.
WakeAgain(x) == pc[x] = "waiting" /\ UNCHANGED vars

\* The sleep of maybe_delay is over.
Wake(x) ==
    /\ pc[x] = "waiting"
    /\ Goto(x, "ready")
    /\ UNCHANGED <<table, session, plan, upstream, rows, announced, reply>>

\* A mocked record: the mock's status and headers, never the upstream's.
Mocked(s, rule) == [s EXCEPT !.state = "Mocked", !.status = MockStatus(rule),
                             !.responseHeader = {rule.id}]

\* A mock decided by the request pass ends the exchange before forwarding.
MockRequest(x) ==
    /\ pc[x] = "ready"
    /\ \E rule \in plan[x].mock : session' = [session EXCEPT ![x] = Mocked(@, rule)]
    /\ Goto(x, "storing")
    /\ UNCHANGED <<table, plan, upstream, rows, announced, reply>>

\* Forwarding is what is left when the request pass decided on no mock.
Forwards(pass) == pass.mock = {}

\* client.request with the rewritten headers.
Forward(x) ==
    /\ pc[x] = "ready"
    /\ Forwards(plan[x])
    /\ upstream' = [upstream EXCEPT ![x] =
           [asked |-> TRUE, header |-> plan[x].header, status |-> None]]
    /\ Goto(x, "forwarding")
    /\ UNCHANGED <<table, session, plan, rows, announced, reply>>

\* The request builder refuses a rewritten header.
RefuseForward(x) ==
    /\ pc[x] = "ready"
    /\ Forwards(plan[x])
    /\ plan[x].header # {}
    /\ AnswerError(x)
    /\ UNCHANGED <<table, session, plan, upstream, rows, announced>>

\* The upstream's response has arrived in full.
UpstreamAnswers(x) ==
    /\ pc[x] = "forwarding"
    /\ \E status \in UpstreamStatuses : upstream' = [upstream EXCEPT ![x].status = status]
    /\ Goto(x, "amending")
    /\ UNCHANGED <<table, session, plan, rows, announced, reply>>

\* Connecting, the request or the response body failed.
UpstreamFails(x) ==
    /\ pc[x] = "forwarding"
    /\ AnswerError(x)
    /\ UNCHANGED <<table, session, plan, upstream, rows, announced>>

\* Mutant: the response pass replaces what the request pass recorded.
AmendedAnew(s, pass) == [s EXCEPT !.matched = pass.matched]

\* matched_rule_ids.extend: the response pass adds to what the request pass
\* recorded.
Amended(s, pass) == [s EXCEPT !.matched = @ \cup pass.matched]

\* Mutant: the state a CONNECT handler would assign.
CompletedAsTunnel(s, pass, status) == [s EXCEPT !.state = "Tunneling", !.status = status,
                                                !.responseHeader = pass.header]

\* A completed record: the upstream's status, the rewritten response headers.
Completed(s, pass, status) == [s EXCEPT !.state = "Completed", !.status = status,
                                        !.responseHeader = pass.header]

\* apply_response on a new snapshot of the table.  The session it matches
\* against still has no status: that is assigned afterwards.
ApplyResponse(x) ==
    LET pass == Pass(table, "response", session[x].url, session[x].status)
        amended == Amended(session[x], pass)
    IN  /\ pc[x] = "amending"
        /\ \/ \E rule \in pass.mock : session' = [session EXCEPT ![x] = Mocked(amended, rule)]
           \/ /\ pass.mock = {}
              /\ session' = [session EXCEPT ![x] = Completed(amended, pass, upstream[x].status)]
        /\ Goto(x, "storing")
        /\ UNCHANGED <<table, plan, upstream, rows, announced, reply>>

\* insert_session wrote both rows.
Store(x) ==
    /\ pc[x] = "storing"
    /\ rows' = [rows EXCEPT ![x] = "full"]
    /\ Goto(x, "announcing")
    /\ UNCHANGED <<table, session, plan, upstream, announced, reply>>

\* Mutant: the error of insert_session is ignored.
StoreFailsUnnoticed(x) ==
    /\ pc[x] = "storing"
    /\ \E left \in {"none", "summary"} : rows' = [rows EXCEPT ![x] = left]
    /\ Goto(x, "announcing")
    /\ UNCHANGED <<table, session, plan, upstream, announced, reply>>

\* insert_session failed, before its first statement or after it.
StoreFails(x) ==
    /\ pc[x] = "storing"
    /\ \E left \in {"none", "summary"} : rows' = [rows EXCEPT ![x] = left]
    /\ AnswerError(x)
    /\ UNCHANGED <<table, session, plan, upstream, announced>>

\* event_tx.send.
Announce(x) ==
    /\ pc[x] = "announcing"
    /\ announced' = announced \cup {x}
    /\ Goto(x, "replying")
    /\ UNCHANGED <<table, session, plan, upstream, rows, reply>>

\* The statuses an answer may go out with: response_from_parts falls back to an
\* empty 200 when a header a rule supplied is not valid.
Answers(s) == {SentStatus(s.status)} \cup (IF s.responseHeader = {} THEN {} ELSE {200})

\* The answer built from the mock or from the upstream's response.
Reply(x) ==
    /\ pc[x] = "replying"
    /\ \E status \in Answers(session[x]) : reply' = [reply EXCEPT ![x] = status]
    /\ Goto(x, "done")
    /\ UNCHANGED <<table, session, plan, upstream, rows, announced>>

\* The client closes its connection: hyper drops the handler at its await.
Hangup(x) ==
    /\ pc[x] \in Awaiting
    /\ Goto(x, "dropped")
    /\ UNCHANGED <<table, session, plan, upstream, rows, announced, reply>>

\* set_rules: the desktop installs another table.
SetRules ==
    /\ table' \in Tables \ {table}
    /\ UNCHANGED <<pc, session, plan, upstream, rows, announced, reply>>

\* clear_sessions.
Clear ==
    /\ rows' = [x \in Exchanges |-> "none"]
    /\ UNCHANGED <<table, pc, session, plan, upstream, announced, reply>>

\* clear_sessions failed after its first statement.
ClearFails ==
    /\ rows' = [x \in Exchanges |-> IF rows[x] = "full" THEN "summary" ELSE rows[x]]
    /\ UNCHANGED <<table, pc, session, plan, upstream, announced, reply>>

\* What the handler, its client's body and its upstream do.
Step(x) ==
    \/ CollectBody(x) \/ BodyFails(x) \/ ApplyRequest(x) \/ Wake(x)
    \/ MockRequest(x) \/ Forward(x) \/ RefuseForward(x)
    \/ UpstreamAnswers(x) \/ UpstreamFails(x) \/ ApplyResponse(x)
    \/ Store(x) \/ StoreFails(x) \/ Announce(x) \/ Reply(x)

\* What the client and the desktop may do.
Environment ==
    \/ \E x \in Exchanges : Receive(x) \/ RejectTarget(x) \/ Hangup(x)
    \/ SetRules \/ Clear \/ ClearFails

Next == Environment \/ \E x \in Exchanges : Step(x)

Spec == Init /\ [][Next]_vars

\* The runtime polls every task that can run, a body ends or fails and an
\* upstream answers or fails: the code itself sets no timeout.
FairSpec == Spec /\ \A x \in Exchanges : WF_vars(Step(x))
-----------------------------------------------------------------------------
TypeOK ==
    /\ table \in Tables
    /\ pc \in [Exchanges -> Steps]
    /\ session \in [Exchanges -> Session]
    /\ plan \in [Exchanges -> [matched : SUBSET Nat, header : SUBSET Nat,
                               mock : SUBSET Rule, delay : SUBSET Nat]]
    /\ upstream \in [Exchanges -> [asked : BOOLEAN, header : SUBSET Nat, status : Status]]
    /\ rows \in [Exchanges -> {"none", "summary", "full"}]
    /\ announced \subseteq Exchanges
    /\ reply \in [Exchanges -> Status]

\* Whatever table was in force at each of the two readings, the record names
\* every rule that touched the exchange: the one that rewrote the request the
\* upstream saw, and the one that made the answer's header, mock or not.
ChangesAreAttributed ==
    \A x \in Exchanges : pc[x] \in Closing =>
        /\ upstream[x].header \cup session[x].responseHeader \subseteq session[x].matched
        /\ session[x].state = "Mocked" =>
               \E T \in Tables : \E rule \in T :
                   /\ session[x].responseHeader = {rule.id}
                   /\ session[x].status = MockStatus(rule)

\* A record that says Completed carries the status the upstream gave and the
\* request header the upstream was sent; an exchange that was never forwarded
\* is recorded as Mocked and nothing else.
RecordMatchesWire ==
    \A x \in Exchanges : pc[x] \in Closing =>
        /\ session[x].state = "Completed" =>
               /\ upstream[x].asked
               /\ session[x].status = upstream[x].status
               /\ session[x].status \in UpstreamStatuses
        /\ session[x].state # "Completed" => session[x].state = "Mocked"
        /\ upstream[x].asked => session[x].requestHeader = upstream[x].header

\* "Mock responses short-circuit upstream forwarding": once the request pass
\* decides on a mock, no later table, delay or error makes the proxy contact
\* the upstream.
MockShortCircuits ==
    \A x \in Exchanges : plan[x].mock # {} => ~upstream[x].asked

\* An exchange that fails or is abandoned leaves no event and no loadable row,
\* although its handler may have got as far as the first insert; and nothing is
\* announced before the store has acknowledged it.
FailureIsSilent ==
    \A x \in Exchanges : pc[x] \notin {"announcing", "replying", "done"} =>
        x \notin announced /\ rows[x] # "full"

\* The client's answer is the recorded one, and by then the desktop has been
\* told of the exchange.  The one exception the code makes is a status or a
\* header of a rule that HTTP refuses, which turns into 200.
AnswerIsRecorded ==
    \A x \in Exchanges : pc[x] = "done" =>
        /\ x \in announced
        /\ reply[x] # session[x].status =>
               reply[x] = 200 /\ session[x].responseHeader # {}

\* No record changes after it was handed to the store: what the list, the
\* detail and the event carry is one and the same session.
RecordsAreFinal ==
    [][\A x \in Exchanges : pc[x] \in Closing => session'[x] = session[x]]_vars

\* Every request the proxy takes is answered or was abandoned by its client.
EveryRequestSettles ==
    \A x \in Exchanges : pc[x] = "collecting" ~> reply[x] # None \/ pc[x] = "dropped"

(***************************************************************************)
(* The contract of CaptureContract, seen through the handler.              *)
(***************************************************************************)
Life(step) == CASE step = "announcing" -> "recorded"
                [] step = "replying" -> "announced"
                [] step = "done"     -> "answered"
                [] step = "failed"   -> "refused"
                [] step = "dropped"  -> "abandoned"
                [] OTHER             -> "open"

\* The steps at which the record is final and stored.
Recorded == {"announcing", "replying", "done"}

LifeBar == [x \in Exchanges |-> Life(pc[x])]
RecordBar == [x \in Exchanges |->
                 IF pc[x] \in Recorded
                 THEN [state |-> session[x].state, status |-> session[x].status]
                 ELSE None]

Contract == INSTANCE CaptureContract WITH life <- LifeBar, record <- RecordBar

\* The handler keeps the contract the desktop relies on.
KeepsContract == Contract!Spec
=============================================================================
