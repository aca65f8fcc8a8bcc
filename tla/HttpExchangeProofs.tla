------------------------- MODULE HttpExchangeProofs -------------------------
(***************************************************************************)
(* What HttpExchange guarantees for any exchanges, rules, tables and       *)
(* upstreams: its type, its safety invariants, that no rule with a status  *)
(* matcher ever takes part (HitsAskNoStatus), and its contract.            *)
(***************************************************************************)
EXTENDS HttpExchange, TLAPS

Plan == [matched : SUBSET Nat, header : SUBSET Nat, mock : SUBSET Rule, delay : SUBSET Nat]

\* The rule behind a mock answers with a status that is a number.
LEMMA MockStatusType ==
    ASSUME NEW rule \in Rule
    PROVE  MockStatus(rule) \in Nat
  BY DEF MockStatus, Rule

\* A pass over a table of rules has the type of a plan; what it rewrites and
\* mocks with is a rule that it reports as matched and that the table holds.
LEMMA PassFacts ==
    ASSUME NEW rules \in SUBSET Rule, NEW phase \in Phases, NEW url, NEW status
    PROVE  /\ Pass(rules, phase, url, status) \in Plan
           /\ Pass(rules, phase, url, status).header
                 \subseteq Pass(rules, phase, url, status).matched
           /\ \A rule \in Pass(rules, phase, url, status).mock :
                 rule \in rules /\ rule.id \in Pass(rules, phase, url, status).matched
  <1> DEFINE hits == Hits(rules, url, status)
  <1>1. hits \subseteq rules
    BY DEF Hits
  <1>2. ASSUME NEW S \in SUBSET rules
        PROVE  Ids(S) \in SUBSET Nat /\ Latest(S) \in SUBSET S
    BY DEF Ids, Latest, Rule
  <1>3. ASSUME NEW S \in SUBSET hits
        PROVE  Ids(Latest(S)) \subseteq Ids(hits)
    BY DEF Ids, Latest
  <1>4. Latest({r \in hits : Mocks(r, phase)}) \subseteq hits
    BY DEF Latest
  <1>5. {r.value : r \in Latest({q \in hits : Delays(q)})} \in SUBSET Nat
    BY <1>1 DEF Latest, Rule
  <1>6. Ids(Latest({r \in hits : Rewrites(r, phase)})) \in SUBSET Nat
    <2>1. Latest({r \in hits : Rewrites(r, phase)}) \in SUBSET rules
      BY <1>1 DEF Latest
    <2> QED BY <1>2, <2>1
  <1>7. \A rule \in hits : rule.id \in Ids(hits)
    BY DEF Ids
  <1> HIDE DEF hits
  <1>8. Pass(rules, phase, url, status) =
            [matched |-> Ids(hits),
             header  |-> Ids(Latest({r \in hits : Rewrites(r, phase)})),
             mock    |-> Latest({r \in hits : Mocks(r, phase)}),
             delay   |-> {r.value : r \in Latest({q \in hits : Delays(q)})}]
    BY DEF Pass, hits
  <1>9. Ids(hits) \in SUBSET Nat
    BY <1>1, <1>2
  <1>10. Ids(Latest({r \in hits : Rewrites(r, phase)})) \subseteq Ids(hits)
    BY <1>3
  <1> QED
    BY <1>1, <1>4, <1>5, <1>6, <1>7, <1>8, <1>9, <1>10 DEF Plan
\* Each helper that writes a record yields a record.
LEMMA RecordTypes ==
    ASSUME NEW s \in Session
    PROVE  /\ \A pass \in Plan : Planned(s, pass) \in Session /\ Amended(s, pass) \in Session
           /\ \A rule \in Rule : Mocked(s, rule) \in Session
           /\ \A pass \in Plan, status \in Status : Completed(s, pass, status) \in Session
  <1>1. ASSUME NEW pass \in Plan
        PROVE  Planned(s, pass) \in Session /\ Amended(s, pass) \in Session
    BY DEF Planned, Amended, Plan, Session
  <1>2. ASSUME NEW rule \in Rule
        PROVE  Mocked(s, rule) \in Session
    <2>1. MockStatus(rule) \in Status /\ {rule.id} \in SUBSET Nat
      BY MockStatusType DEF Status, Rule
    <2> QED
      BY <2>1 DEF Mocked, Session
  <1>3. ASSUME NEW pass \in Plan, NEW status \in Status
        PROVE  Completed(s, pass, status) \in Session
    BY DEF Completed, Plan, Session
  <1> QED
    BY <1>1, <1>2, <1>3

\* Any answer to a typed record is a status.
LEMMA AnswersType ==
    ASSUME NEW s \in Session
    PROVE  Answers(s) \subseteq Status
  <1>1. s.status \in Status
    BY DEF Session
  <1>2. SentStatus(s.status) \in Status
    BY DEF SentStatus, Status
  <1> QED
    BY <1>1, <1>2 DEF Answers, Status
-----------------------------------------------------------------------------
(***************************************************************************)
(* Type correctness.                                                       *)
(***************************************************************************)
\* The handler's records and statuses keep their type for every table: the
\* matched rules are ids of rules, and a mock's status is a number even where
\* the rule's own status was lost.
THEOREM TypeCorrect == Spec => []TypeOK
  <1> USE DEF TypeOK
  <1>1. Init => TypeOK
    <2>1. ASSUME NEW url \in Targets
          PROVE  NewSession(url) \in Session
      BY DEF NewSession, Session, Status
    <2>2. NoPlan \in Plan
      BY DEF NoPlan, Plan
    <2>3. NotAsked \in [asked : BOOLEAN, header : SUBSET Nat, status : Status]
      BY DEF NotAsked, Status
    <2> QED
      BY <2>1, <2>2, <2>3 DEF Init, Plan, Steps, Status
  <1>2. TypeOK /\ [Next]_vars => TypeOK'
    <2> SUFFICES ASSUME TypeOK, [Next]_vars
                 PROVE  TypeOK'
      OBVIOUS
    <2>0. ASSUME NEW x \in Exchanges, NEW step \in Steps, Goto(x, step)
          PROVE  pc' \in [Exchanges -> Steps]
      BY <2>0 DEF Goto
    <2>1. CASE UNCHANGED vars
      BY <2>1 DEF vars
    <2>2. CASE SetRules \/ Clear \/ ClearFails
      BY <2>2 DEF SetRules, Clear, ClearFails
    <2>3. ASSUME NEW x \in Exchanges,
                 Receive(x) \/ Hangup(x) \/ CollectBody(x) \/ Wake(x) \/ Store(x) \/ Announce(x)
          PROVE  TypeOK'
      <3>1. pc' \in [Exchanges -> Steps]
        BY <2>0, <2>3 DEF Receive, Hangup, CollectBody, Wake, Store, Announce,
                          Steps, Awaiting, Closing, Settled
      <3> QED
        BY <2>3, <3>1 DEF Receive, Hangup, CollectBody, Wake, Store, Announce
    <2>4. ASSUME NEW x \in Exchanges,
                 \/ RejectTarget(x) \/ BodyFails(x) \/ RefuseForward(x)
                 \/ UpstreamFails(x) \/ StoreFails(x)
          PROVE  TypeOK'
      <3>1. AnswerError(x)
        BY <2>4 DEF RejectTarget, BodyFails, RefuseForward, UpstreamFails, StoreFails
      <3>2. pc' \in [Exchanges -> Steps] /\ reply' \in [Exchanges -> Status]
        BY <2>0, <3>1 DEF AnswerError, Steps, Settled, Status
      <3>3. rows' \in [Exchanges -> {"none", "summary", "full"}]
        BY <2>4 DEF RejectTarget, BodyFails, RefuseForward, UpstreamFails, StoreFails
      <3> QED
        BY <2>4, <3>2, <3>3 DEF RejectTarget, BodyFails, RefuseForward, UpstreamFails, StoreFails
    <2>5. ASSUME NEW x \in Exchanges, ApplyRequest(x)
          PROVE  TypeOK'
      <3> DEFINE pass == Pass(table, "request", session[x].url, session[x].status)
      <3>1. pass \in Plan
        BY TablesAssumption, PassFacts DEF Phases
      <3> HIDE DEF pass
      <3>2. Planned(session[x], pass) \in Session
        BY <3>1, RecordTypes
      <3>3. pc' \in [Exchanges -> Steps]
        BY <2>0, <2>5 DEF ApplyRequest, Steps, Awaiting
      <3> QED
        BY <2>5, <3>1, <3>2, <3>3 DEF ApplyRequest, pass, Plan
    <2>6. ASSUME NEW x \in Exchanges, MockRequest(x)
          PROVE  TypeOK'
      <3>1. PICK rule \in plan[x].mock : session' = [session EXCEPT ![x] = Mocked(@, rule)]
        BY <2>6 DEF MockRequest
      <3>2. Mocked(session[x], rule) \in Session
        BY <3>1, RecordTypes
      <3>3. pc' \in [Exchanges -> Steps]
        BY <2>0, <2>6 DEF MockRequest, Steps, Closing
      <3> QED
        BY <2>6, <3>1, <3>2, <3>3 DEF MockRequest
    <2>7. ASSUME NEW x \in Exchanges, Forward(x)
          PROVE  TypeOK'
      <3>1. pc' \in [Exchanges -> Steps]
        BY <2>0, <2>7 DEF Forward, Steps, Awaiting
      <3> QED
        BY <2>7, <3>1 DEF Forward, Status
    <2>8. ASSUME NEW x \in Exchanges, UpstreamAnswers(x)
          PROVE  TypeOK'
      <3>1. PICK status \in UpstreamStatuses :
                upstream' = [upstream EXCEPT ![x].status = status]
        BY <2>8 DEF UpstreamAnswers
      <3>2. status \in Status
        BY UpstreamAssumption DEF Status
      <3>3. pc' \in [Exchanges -> Steps]
        BY <2>0, <2>8 DEF UpstreamAnswers, Steps, Awaiting
      <3>4. upstream' \in [Exchanges -> [asked : BOOLEAN, header : SUBSET Nat, status : Status]]
        BY <3>1, <3>2
      <3> QED
        BY <2>8, <3>3, <3>4 DEF UpstreamAnswers
    <2>9. ASSUME NEW x \in Exchanges, ApplyResponse(x)
          PROVE  TypeOK'
      <3> DEFINE pass == Pass(table, "response", session[x].url, session[x].status)
                 amended == Amended(session[x], pass)
      <3>1. pass \in Plan
        BY TablesAssumption, PassFacts DEF Phases
      <3>2. \/ \E rule \in pass.mock : session' = [session EXCEPT ![x] = Mocked(amended, rule)]
            \/ session' = [session EXCEPT ![x] = Completed(amended, pass, upstream[x].status)]
        BY <2>9 DEF ApplyResponse
      <3> HIDE DEF pass
      <3>3. amended \in Session
        BY <3>1, RecordTypes
      <3> HIDE DEF amended
      <3>4. upstream[x].status \in Status /\ pass.mock \subseteq Rule
        BY <3>1 DEF Plan
      <3>5. session' \in [Exchanges -> Session]
        <4>1. ASSUME NEW rule \in pass.mock
              PROVE  Mocked(amended, rule) \in Session
          BY <3>3, <3>4, RecordTypes
        <4>2. Completed(amended, pass, upstream[x].status) \in Session
          BY <3>1, <3>3, <3>4, RecordTypes
        <4> QED
          BY <3>2, <4>1, <4>2
      <3>6. pc' \in [Exchanges -> Steps]
        BY <2>0, <2>9 DEF ApplyResponse, Steps, Closing
      <3> QED
        BY <2>9, <3>5, <3>6 DEF ApplyResponse
    <2>10. ASSUME NEW x \in Exchanges, Reply(x)
           PROVE  TypeOK'
      <3>1. PICK status \in Answers(session[x]) : reply' = [reply EXCEPT ![x] = status]
        BY <2>10 DEF Reply
      <3>2. status \in Status
        BY <3>1, AnswersType
      <3>3. pc' \in [Exchanges -> Steps]
        BY <2>0, <2>10 DEF Reply, Steps, Closing
      <3> QED
        BY <2>10, <3>1, <3>2, <3>3 DEF Reply
    <2> QED
      BY <2>1, <2>2, <2>3, <2>4, <2>5, <2>6, <2>7, <2>8, <2>9, <2>10
         DEF Next, Environment, Step
  <1> QED
    BY <1>1, <1>2, PTL DEF Spec
-----------------------------------------------------------------------------
(***************************************************************************)
(* Safety.  The invariants speak of closing exchanges; what makes them     *)
(* inductive is what holds of an exchange from its first step on: the plan *)
(* comes from one table and is already in the record, and the upstream was *)
(* asked exactly when the plan had no mock, with the plan's header.        *)
(***************************************************************************)
PlanIsRecorded(x) ==
    /\ plan[x].header \subseteq plan[x].matched
    /\ \A rule \in plan[x].mock :
           rule.id \in plan[x].matched /\ \E T \in Tables : rule \in T
    /\ session[x].requestHeader = plan[x].header
    /\ plan[x].matched \subseteq session[x].matched

WireFollowsPlan(x) ==
    /\ pc[x] \in {"idle", "collecting", "matching", "waiting", "ready"} => ~upstream[x].asked
    /\ pc[x] \in {"forwarding", "amending"} => upstream[x].asked
    /\ ~upstream[x].asked => upstream[x].header = {}
    /\ upstream[x].asked => upstream[x].header = plan[x].header /\ plan[x].mock = {}
    /\ pc[x] = "amending" => upstream[x].status \in UpstreamStatuses

RecordIsTrue(x) == pc[x] \in Closing =>
    /\ upstream[x].header \cup session[x].responseHeader \subseteq session[x].matched
    /\ session[x].state = "Mocked" =>
           \E T \in Tables : \E rule \in T :
               session[x].responseHeader = {rule.id} /\ session[x].status = MockStatus(rule)
    /\ session[x].state = "Completed" =>
           /\ upstream[x].asked
           /\ session[x].status = upstream[x].status
           /\ session[x].status \in UpstreamStatuses
    /\ session[x].state \in {"Completed", "Mocked"}

EndIsOrderly(x) ==
    /\ pc[x] \notin {"announcing", "replying", "done"} => x \notin announced /\ rows[x] # "full"
    /\ pc[x] \in {"replying", "done"} => x \in announced
    /\ pc[x] = "done" => reply[x] \in Answers(session[x])

XInv(x) == PlanIsRecorded(x) /\ WireFollowsPlan(x) /\ RecordIsTrue(x) /\ EndIsOrderly(x)

IInv == TypeOK /\ \A x \in Exchanges : XInv(x)

\* A step of one exchange leaves the others as they were.
LEMMA Frame ==
    ASSUME TypeOK, NEW x \in Exchanges, NEW y \in Exchanges, x # y,
           Receive(x) \/ RejectTarget(x) \/ Hangup(x) \/ Step(x)
    PROVE  /\ pc'[y] = pc[y] /\ session'[y] = session[y] /\ plan'[y] = plan[y]
           /\ upstream'[y] = upstream[y] /\ rows'[y] = rows[y] /\ reply'[y] = reply[y]
           /\ y \in announced' <=> y \in announced
  <1> USE DEF TypeOK, Goto, AnswerError
  <1>1. CASE Receive(x) \/ RejectTarget(x) \/ Hangup(x) \/ CollectBody(x) \/ BodyFails(x) \/ Wake(x)
    BY <1>1 DEF Receive, RejectTarget, Hangup, CollectBody, BodyFails, Wake
  <1>2. CASE ApplyRequest(x) \/ MockRequest(x) \/ ApplyResponse(x)
    BY <1>2 DEF ApplyRequest, MockRequest, ApplyResponse
  <1>3. CASE Forward(x) \/ RefuseForward(x) \/ UpstreamAnswers(x) \/ UpstreamFails(x)
    BY <1>3 DEF Forward, RefuseForward, UpstreamAnswers, UpstreamFails
  <1>4. CASE Store(x) \/ StoreFails(x) \/ Announce(x) \/ Reply(x)
    BY <1>4 DEF Store, StoreFails, Announce, Reply
  <1> QED
    BY <1>1, <1>2, <1>3, <1>4 DEF Step

\* The invariant of an exchange depends on nothing but its own part of the state.
LEMMA OtherKeepsXInv ==
    ASSUME TypeOK, NEW x \in Exchanges, NEW y \in Exchanges, x # y, XInv(y),
           Receive(x) \/ RejectTarget(x) \/ Hangup(x) \/ Step(x)
    PROVE  XInv(y)'
  <1>1. /\ pc'[y] = pc[y] /\ session'[y] = session[y] /\ plan'[y] = plan[y]
        /\ upstream'[y] = upstream[y] /\ rows'[y] = rows[y] /\ reply'[y] = reply[y]
        /\ y \in announced' <=> y \in announced
    BY Frame
  <1>2. PlanIsRecorded(y)'
    BY <1>1 DEF XInv, PlanIsRecorded
  <1>3. WireFollowsPlan(y)'
    BY <1>1 DEF XInv, WireFollowsPlan
  <1>4. RecordIsTrue(y)'
    BY <1>1 DEF XInv, RecordIsTrue
  <1>5. EndIsOrderly(y)'
    BY <1>1 DEF XInv, EndIsOrderly
  <1> QED
    BY <1>2, <1>3, <1>4, <1>5 DEF XInv

\* An exchange keeps its own invariant through each of its steps.
LEMMA StepKeepsXInv ==
    ASSUME TypeOK, NEW x \in Exchanges, XInv(x),
           Receive(x) \/ RejectTarget(x) \/ Hangup(x) \/ Step(x)
    PROVE  XInv(x)'
  <1> USE DEF TypeOK, XInv
  <1>1. CASE Receive(x) \/ CollectBody(x) \/ Wake(x) \/ Hangup(x)
    <2>1. /\ pc'[x] \in {"collecting", "matching", "ready", "dropped"}
          /\ UNCHANGED <<session, plan, upstream, rows, announced, reply>>
          /\ pc'[x] # "dropped" => pc[x] \in {"idle", "collecting", "waiting"}
          /\ pc[x] \notin Closing
      BY <1>1 DEF Receive, CollectBody, Wake, Hangup, Goto, Closing, Awaiting
    <2>2. PlanIsRecorded(x)'
      BY <2>1 DEF PlanIsRecorded
    <2>3. WireFollowsPlan(x)'
      BY <2>1 DEF WireFollowsPlan
    <2>4. RecordIsTrue(x)' /\ EndIsOrderly(x)'
      BY <2>1 DEF RecordIsTrue, EndIsOrderly, Closing
    <2> QED BY <2>2, <2>3, <2>4
  <1>2. CASE RejectTarget(x) \/ BodyFails(x) \/ RefuseForward(x) \/ UpstreamFails(x) \/ StoreFails(x)
    <2>1. /\ pc'[x] = "failed"
          /\ UNCHANGED <<session, plan, upstream, announced>>
          /\ rows'[x] # "full"
          /\ x \notin announced
      BY <1>2 DEF RejectTarget, BodyFails, RefuseForward, UpstreamFails, StoreFails,
                  AnswerError, Goto, EndIsOrderly
    <2>2. PlanIsRecorded(x)'
      BY <2>1 DEF PlanIsRecorded
    <2>3. WireFollowsPlan(x)'
      BY <2>1 DEF WireFollowsPlan
    <2>4. RecordIsTrue(x)' /\ EndIsOrderly(x)'
      BY <2>1 DEF RecordIsTrue, EndIsOrderly, Closing
    <2> QED BY <2>2, <2>3, <2>4
  <1>3. CASE ApplyRequest(x)
    <2> DEFINE pass == Pass(table, "request", session[x].url, session[x].status)
    <2>1. /\ pass \in Plan
          /\ pass.header \subseteq pass.matched
          /\ \A rule \in pass.mock : rule \in table /\ rule.id \in pass.matched
      BY TablesAssumption, PassFacts DEF Phases
    <2>2. /\ plan' = [plan EXCEPT ![x] = pass]
          /\ session' = [session EXCEPT ![x] = Planned(@, pass)]
          /\ pc[x] = "matching" /\ pc'[x] \in {"waiting", "ready"}
          /\ UNCHANGED <<table, upstream, rows, announced, reply>>
      BY <1>3 DEF ApplyRequest, Goto
    <2> HIDE DEF pass
    <2>3. session[x] \in Session
      OBVIOUS
    <2>4. /\ session'[x].requestHeader = pass.header
          /\ session'[x].matched = pass.matched
          /\ plan'[x] = pass
      BY <2>2, <2>3 DEF Planned, Session
    <2>5. PlanIsRecorded(x)'
      BY <2>1, <2>4 DEF PlanIsRecorded
    <2>6. WireFollowsPlan(x)'
      BY <2>2 DEF WireFollowsPlan
    <2>7. RecordIsTrue(x)' /\ EndIsOrderly(x)'
      BY <2>2 DEF RecordIsTrue, EndIsOrderly, Closing
    <2> QED BY <2>5, <2>6, <2>7
  <1>4. CASE MockRequest(x)
    <2>1. PICK rule \in plan[x].mock : session' = [session EXCEPT ![x] = Mocked(@, rule)]
      BY <1>4 DEF MockRequest
    <2>2. /\ pc[x] = "ready" /\ pc'[x] = "storing"
          /\ UNCHANGED <<table, plan, upstream, rows, announced, reply>>
      BY <1>4 DEF MockRequest, Goto
    <2>3. session[x] \in Session
      OBVIOUS
    <2>4. /\ session'[x].requestHeader = session[x].requestHeader
          /\ session'[x].matched = session[x].matched
          /\ session'[x].responseHeader = {rule.id}
          /\ session'[x].status = MockStatus(rule)
          /\ session'[x].state = "Mocked"
      BY <2>1, <2>3 DEF Mocked, Session
    <2>5. PlanIsRecorded(x)'
      BY <2>2, <2>4 DEF PlanIsRecorded
    <2>6. WireFollowsPlan(x)'
      BY <2>2 DEF WireFollowsPlan
    <2>7. rule.id \in session[x].matched /\ \E T \in Tables : rule \in T
      BY <2>1 DEF PlanIsRecorded
    <2>8. RecordIsTrue(x)'
      BY <2>2, <2>4, <2>7 DEF RecordIsTrue, WireFollowsPlan
    <2>9. EndIsOrderly(x)'
      BY <2>2 DEF EndIsOrderly
    <2> QED BY <2>5, <2>6, <2>8, <2>9
  <1>5. CASE Forward(x)
    <2>1. /\ pc[x] = "ready" /\ pc'[x] = "forwarding"
          /\ upstream'[x] = [asked |-> TRUE, header |-> plan[x].header, status |-> None]
          /\ plan[x].mock = {}
          /\ UNCHANGED <<table, session, plan, rows, announced, reply>>
      BY <1>5 DEF Forward, Forwards, Goto
    <2>2. PlanIsRecorded(x)'
      BY <2>1 DEF PlanIsRecorded
    <2>3. WireFollowsPlan(x)'
      BY <2>1 DEF WireFollowsPlan
    <2>4. RecordIsTrue(x)' /\ EndIsOrderly(x)'
      BY <2>1 DEF RecordIsTrue, EndIsOrderly, Closing
    <2> QED BY <2>2, <2>3, <2>4
  <1>6. CASE UpstreamAnswers(x)
    <2>1. PICK status \in UpstreamStatuses :
              upstream' = [upstream EXCEPT ![x].status = status]
      BY <1>6 DEF UpstreamAnswers
    <2>2. /\ pc[x] = "forwarding" /\ pc'[x] = "amending"
          /\ upstream'[x].asked = upstream[x].asked
          /\ upstream'[x].header = upstream[x].header
          /\ upstream'[x].status = status
          /\ UNCHANGED <<table, session, plan, rows, announced, reply>>
      BY <1>6, <2>1 DEF UpstreamAnswers, Goto
    <2>3. PlanIsRecorded(x)'
      BY <2>2 DEF PlanIsRecorded
    <2>4. WireFollowsPlan(x)'
      BY <2>2 DEF WireFollowsPlan
    <2>5. RecordIsTrue(x)' /\ EndIsOrderly(x)'
      BY <2>2 DEF RecordIsTrue, EndIsOrderly, Closing
    <2> QED BY <2>3, <2>4, <2>5
  <1>7. CASE ApplyResponse(x)
    <2> DEFINE pass == Pass(table, "response", session[x].url, session[x].status)
               amended == Amended(session[x], pass)
    <2>1. /\ pass \in Plan
          /\ pass.header \subseteq pass.matched
          /\ \A rule \in pass.mock : rule \in table /\ rule.id \in pass.matched
      BY TablesAssumption, PassFacts DEF Phases
    <2>2. /\ pc[x] = "amending" /\ pc'[x] = "storing"
          /\ UNCHANGED <<table, plan, upstream, rows, announced, reply>>
      BY <1>7 DEF ApplyResponse, Goto
    <2>3. \/ \E rule \in pass.mock : session' = [session EXCEPT ![x] = Mocked(amended, rule)]
          \/ session' = [session EXCEPT ![x] = Completed(amended, pass, upstream[x].status)]
      BY <1>7 DEF ApplyResponse
    <2> HIDE DEF pass
    <2>4. session[x] \in Session
      OBVIOUS
    <2>5. /\ amended \in Session
          /\ amended.requestHeader = session[x].requestHeader
          /\ amended.matched = session[x].matched \cup pass.matched
      BY <2>1, <2>4, RecordTypes DEF Amended, Session
    <2> HIDE DEF amended
    <2>6. WireFollowsPlan(x)'
      BY <2>2 DEF WireFollowsPlan
    <2>7. EndIsOrderly(x)'
      BY <2>2 DEF EndIsOrderly
    <2>8. upstream[x].asked /\ upstream[x].header \subseteq session[x].matched
              /\ upstream[x].status \in UpstreamStatuses
      BY <2>2 DEF WireFollowsPlan, PlanIsRecorded
    <2>9. CASE \E rule \in pass.mock : session' = [session EXCEPT ![x] = Mocked(amended, rule)]
      <3>1. PICK rule \in pass.mock : session' = [session EXCEPT ![x] = Mocked(amended, rule)]
        BY <2>9
      <3>2. /\ session'[x].requestHeader = session[x].requestHeader
            /\ session'[x].matched = session[x].matched \cup pass.matched
            /\ session'[x].responseHeader = {rule.id}
            /\ session'[x].status = MockStatus(rule)
            /\ session'[x].state = "Mocked"
        BY <2>5, <3>1 DEF Mocked, Session
      <3>3. PlanIsRecorded(x)'
        BY <2>2, <3>2 DEF PlanIsRecorded
      <3>4. RecordIsTrue(x)'
        BY <2>1, <2>2, <2>8, <3>2 DEF RecordIsTrue
      <3> QED BY <2>6, <2>7, <3>3, <3>4
    <2>10. CASE session' = [session EXCEPT ![x] = Completed(amended, pass, upstream[x].status)]
      <3>1. /\ session'[x].requestHeader = session[x].requestHeader
            /\ session'[x].matched = session[x].matched \cup pass.matched
            /\ session'[x].responseHeader = pass.header
            /\ session'[x].status = upstream[x].status
            /\ session'[x].state = "Completed"
        BY <2>5, <2>10 DEF Completed, Session
      <3>2. PlanIsRecorded(x)'
        BY <2>2, <3>1 DEF PlanIsRecorded
      <3>3. RecordIsTrue(x)'
        BY <2>1, <2>2, <2>8, <3>1 DEF RecordIsTrue
      <3> QED BY <2>6, <2>7, <3>2, <3>3
    <2> QED BY <2>3, <2>9, <2>10
  <1>8. CASE Store(x) \/ Announce(x) \/ Reply(x)
    <2>1. /\ pc[x] \in Closing /\ pc'[x] \in Closing
          /\ pc'[x] \in {"announcing", "replying", "done"}
          /\ UNCHANGED <<session, plan, upstream>>
      BY <1>8 DEF Store, Announce, Reply, Goto, Closing
    <2>2. PlanIsRecorded(x)'
      BY <2>1 DEF PlanIsRecorded
    <2>3. WireFollowsPlan(x)'
      BY <2>1 DEF WireFollowsPlan
    <2>4. RecordIsTrue(x)'
      BY <2>1 DEF RecordIsTrue
    <2>5. EndIsOrderly(x)'
      BY <1>8, <2>1 DEF EndIsOrderly, Store, Announce, Reply, Goto
    <2> QED BY <2>2, <2>3, <2>4, <2>5
  <1> QED
    BY <1>1, <1>2, <1>3, <1>4, <1>5, <1>6, <1>7, <1>8 DEF Step

\* Swapping the table or clearing the list disturbs no exchange: a cleared row
\* is never a full one.
LEMMA EnvironmentKeepsXInv ==
    ASSUME TypeOK, NEW x \in Exchanges, XInv(x), SetRules \/ Clear \/ ClearFails
    PROVE  XInv(x)'
  <1>1. /\ UNCHANGED <<pc, session, plan, upstream, announced, reply>>
        /\ rows[x] # "full" => rows'[x] # "full"
    BY DEF SetRules, Clear, ClearFails, TypeOK
  <1> QED
    BY <1>1 DEF XInv, PlanIsRecorded, WireFollowsPlan, RecordIsTrue, EndIsOrderly

\* IInv is an invariant: it holds at first and every step keeps it.
THEOREM InductiveInvariant == Spec => []IInv
  <1>1. Init => \A x \in Exchanges : XInv(x)
    <2> SUFFICES ASSUME Init, NEW x \in Exchanges
                 PROVE  XInv(x)
      OBVIOUS
    <2>1. PICK url \in Targets : session[x] = NewSession(url)
      BY DEF Init
    <2>2. PlanIsRecorded(x)
      BY <2>1 DEF Init, PlanIsRecorded, NewSession, NoPlan
    <2>3. WireFollowsPlan(x) /\ RecordIsTrue(x) /\ EndIsOrderly(x)
      BY DEF Init, WireFollowsPlan, RecordIsTrue, EndIsOrderly, NotAsked, Closing
    <2> QED BY <2>2, <2>3 DEF XInv
  <1>2. TypeOK /\ (\A x \in Exchanges : XInv(x)) /\ [Next]_vars => (\A x \in Exchanges : XInv(x))'
    <2> SUFFICES ASSUME TypeOK, \A x \in Exchanges : XInv(x), [Next]_vars, NEW y \in Exchanges
                 PROVE  XInv(y)'
      OBVIOUS
    <2>1. CASE UNCHANGED vars
      BY <2>1 DEF vars, XInv, PlanIsRecorded, WireFollowsPlan, RecordIsTrue, EndIsOrderly
    <2>2. CASE SetRules \/ Clear \/ ClearFails
      BY <2>2, EnvironmentKeepsXInv
    <2>3. ASSUME NEW x \in Exchanges, Receive(x) \/ RejectTarget(x) \/ Hangup(x) \/ Step(x)
          PROVE  XInv(y)'
      <3>1. CASE x = y
        BY <2>3, <3>1, StepKeepsXInv
      <3>2. CASE x # y
        BY <2>3, <3>2, OtherKeepsXInv
      <3> QED BY <3>1, <3>2
    <2> QED
      BY <2>1, <2>2, <2>3 DEF Next, Environment
  <1> QED
    BY <1>1, <1>2, TypeCorrect, PTL DEF Spec, IInv

\* Records name every rule that touched the exchange, for every pair of tables
\* the two passes may have read.
THEOREM AttributedAlways == Spec => []ChangesAreAttributed
  <1>1. IInv => ChangesAreAttributed
    BY DEF IInv, XInv, RecordIsTrue, ChangesAreAttributed
  <1> QED
    BY <1>1, InductiveInvariant, PTL

\* What is recorded is what went over the wire.
THEOREM WireRecordedAlways == Spec => []RecordMatchesWire
  <1>1. IInv => RecordMatchesWire
    <2> SUFFICES ASSUME IInv, NEW x \in Exchanges, pc[x] \in Closing
                 PROVE  /\ session[x].state = "Completed" =>
                              /\ upstream[x].asked
                              /\ session[x].status = upstream[x].status
                              /\ session[x].status \in UpstreamStatuses
                        /\ session[x].state # "Completed" => session[x].state = "Mocked"
                        /\ upstream[x].asked => session[x].requestHeader = upstream[x].header
      BY DEF RecordMatchesWire
    <2> QED
      BY DEF IInv, XInv, RecordIsTrue, WireFollowsPlan, PlanIsRecorded
  <1> QED
    BY <1>1, InductiveInvariant, PTL

\* A request the request pass mocks never reaches the upstream.
THEOREM MockShortCircuitsAlways == Spec => []MockShortCircuits
  <1>1. IInv => MockShortCircuits
    BY DEF IInv, XInv, WireFollowsPlan, MockShortCircuits
  <1> QED
    BY <1>1, InductiveInvariant, PTL

\* Failed and abandoned exchanges leave no event and no loadable row.
THEOREM FailureIsSilentAlways == Spec => []FailureIsSilent
  <1>1. IInv => FailureIsSilent
    BY DEF IInv, XInv, EndIsOrderly, FailureIsSilent
  <1> QED
    BY <1>1, InductiveInvariant, PTL

\* What is sent is the record's status, always so for an upstream's, or 200.
LEMMA StatusesSent ==
    /\ \A v : SentStatus(v) \in {v, 200}
    /\ \A v \in UpstreamStatuses : SentStatus(v) = v
  BY UpstreamAssumption DEF SentStatus

\* The client is answered what the record says, after the desktop was told.
THEOREM AnswerIsRecordedAlways == Spec => []AnswerIsRecorded
  <1>1. IInv => AnswerIsRecorded
    <2> SUFFICES ASSUME IInv, NEW x \in Exchanges, pc[x] = "done"
                 PROVE  /\ x \in announced
                        /\ reply[x] # session[x].status =>
                               reply[x] = 200 /\ session[x].responseHeader # {}
      BY DEF AnswerIsRecorded
    <2>1. x \in announced /\ reply[x] \in Answers(session[x]) /\ RecordIsTrue(x)
      BY DEF IInv, XInv, EndIsOrderly
    <2>0. RecordIsTrue(x) /\ pc[x] \in Closing
      BY <2>1 DEF Closing
    <2>2. CASE session[x].state = "Completed"
      <3>1. session[x].status \in UpstreamStatuses
        BY <2>2, <2>0 DEF RecordIsTrue
      <3>2. SentStatus(session[x].status) = session[x].status
        BY <3>1, StatusesSent
      <3> QED BY <2>1, <3>2 DEF Answers
    <2>3. CASE session[x].state = "Mocked"
      <3>1. PICK T \in Tables : \E rule \in T : session[x].responseHeader = {rule.id}
        BY <2>0, <2>3 DEF RecordIsTrue
      <3>2. session[x].responseHeader # {}
        BY <3>1
      <3>3. SentStatus(session[x].status) \in {session[x].status, 200}
        BY StatusesSent
      <3> QED BY <2>1, <3>2, <3>3 DEF Answers
    <2> QED
      BY <2>1, <2>2, <2>3 DEF RecordIsTrue, Closing
  <1> QED
    BY <1>1, InductiveInvariant, PTL

\* A record is never touched again once it is on its way to the store.
THEOREM RecordsAreFinalAlways == Spec => RecordsAreFinal
  <1>1. TypeOK /\ [Next]_vars => [\A x \in Exchanges : pc[x] \in Closing => session'[x] = session[x]]_vars
    <2> SUFFICES ASSUME TypeOK, Next, NEW y \in Exchanges, pc[y] \in Closing
                 PROVE  session'[y] = session[y]
      OBVIOUS
    <2>1. CASE SetRules \/ Clear \/ ClearFails
      BY <2>1 DEF SetRules, Clear, ClearFails
    <2>2. ASSUME NEW x \in Exchanges, Receive(x) \/ RejectTarget(x) \/ Hangup(x) \/ Step(x)
          PROVE  session'[y] = session[y]
      <3>1. CASE x # y
        BY <2>2, <3>1, Frame
      <3>2. CASE x = y
        <4>1. ~ApplyRequest(x) /\ ~MockRequest(x) /\ ~ApplyResponse(x)
          BY <3>2 DEF ApplyRequest, MockRequest, ApplyResponse, Closing
        <4>2. UNCHANGED session
          BY <2>2, <4>1 DEF Step, Receive, RejectTarget, Hangup, CollectBody, BodyFails, Wake,
             Forward, RefuseForward, UpstreamAnswers, UpstreamFails, Store, StoreFails, Announce, Reply
        <4> QED BY <4>2
      <3> QED BY <3>1, <3>2
    <2> QED
      BY <2>1, <2>2 DEF Next, Environment
  <1> QED
    BY <1>1, TypeCorrect, PTL DEF Spec, RecordsAreFinal
-----------------------------------------------------------------------------
(***************************************************************************)
(* The status matcher.  Both passes match against a session that has no    *)
(* status yet, the response pass too: what it is given was cloned before   *)
(* the upstream's status is assigned.                                      *)
(***************************************************************************)
\* The rules that apply to a url and ask for no status.
Unconditional(url) ==
    {r \in UNION Tables : r.enabled /\ url \in r.targets /\ r.status = None}

\* What is recorded as matched, by either pass and from whatever tables, are
\* rules without a status matcher: a rule that asks for one touches no exchange.
HitsAskNoStatus ==
    \A x \in Exchanges : session[x].matched \subseteq Ids(Unconditional(session[x].url))

\* It is inductive with this: a session has no status until it is closed.
StatusComesLast ==
    \A x \in Exchanges : pc[x] \notin Closing \cup Settled => session[x].status = None

\* Before it has a status, a session is hit by such rules only.
LEMMA PassAsksNoStatus ==
    ASSUME NEW rules \in Tables, NEW phase, NEW url
    PROVE  Pass(rules, phase, url, None).matched \subseteq Ids(Unconditional(url))
  <1>1. Hits(rules, url, None) \subseteq Unconditional(url)
    <2> SUFFICES ASSUME NEW r \in rules, r.enabled, Matches(r, url, None)
                 PROVE  r \in Unconditional(url)
      BY DEF Hits
    <2>1. r.status = None /\ url \in r.targets
      BY DEF Matches
    <2> QED BY <2>1 DEF Unconditional
  <1>2. Ids(Hits(rules, url, None)) \subseteq Ids(Unconditional(url))
    BY <1>1 DEF Ids
  <1> QED BY <1>2 DEF Pass

\* No rule with a status matcher takes part in an exchange, for any tables.
THEOREM HitsAskNoStatusAlways == Spec => []HitsAskNoStatus
  <1> DEFINE Inv == HitsAskNoStatus /\ StatusComesLast
  <1>1. Init => Inv
    <2> SUFFICES ASSUME Init PROVE \A x \in Exchanges : session[x].matched = {} /\ session[x].status = None
      BY DEF HitsAskNoStatus, StatusComesLast
    <2> QED BY DEF Init, NewSession
  <1>2. TypeOK /\ Inv /\ [Next]_vars => Inv'
    <2> SUFFICES ASSUME TypeOK, Inv, [Next]_vars
                 PROVE  Inv'
      OBVIOUS
    <2>1. CASE UNCHANGED vars \/ SetRules \/ Clear \/ ClearFails
      BY <2>1 DEF vars, SetRules, Clear, ClearFails, HitsAskNoStatus, StatusComesLast
    <2>2. ASSUME NEW x \in Exchanges, Receive(x) \/ RejectTarget(x) \/ Hangup(x) \/ Step(x)
          PROVE  Inv'
      <3>1. ASSUME NEW y \in Exchanges, y # x
            PROVE  session'[y] = session[y] /\ pc'[y] = pc[y]
        BY <2>2, <3>1, Frame
      <3>2. SUFFICES /\ session'[x].matched \subseteq Ids(Unconditional(session'[x].url))
                     /\ pc'[x] \notin Closing \cup Settled => session'[x].status = None
        <4>1. ASSUME NEW y \in Exchanges
              PROVE  /\ session'[y].matched \subseteq Ids(Unconditional(session'[y].url))
                     /\ pc'[y] \notin Closing \cup Settled => session'[y].status = None
          BY <3>1, <3>2 DEF HitsAskNoStatus, StatusComesLast
        <4> QED BY <4>1 DEF HitsAskNoStatus, StatusComesLast
      <3>3. CASE ApplyRequest(x)
        <4> DEFINE pass == Pass(table, "request", session[x].url, session[x].status)
        <4>1. pc[x] = "matching" /\ session' = [session EXCEPT ![x] = Planned(@, pass)]
          BY <3>3 DEF ApplyRequest
        <4>2. session[x].status = None /\ table \in Tables
          BY <4>1 DEF StatusComesLast, Closing, Settled, TypeOK
        <4>3. pass.matched \subseteq Ids(Unconditional(session[x].url))
          BY <4>2, PassAsksNoStatus
        <4> HIDE DEF pass
        <4>4. /\ session'[x].matched = pass.matched /\ session'[x].url = session[x].url
              /\ session'[x].status = session[x].status
          BY <4>1 DEF TypeOK, Session, Planned
        <4> QED BY <4>2, <4>3, <4>4
      <3>4. CASE MockRequest(x)
        <4>1. /\ \E rule \in plan[x].mock : session' = [session EXCEPT ![x] = Mocked(@, rule)]
              /\ pc' = [pc EXCEPT ![x] = "storing"]
          BY <3>4 DEF MockRequest, Goto
        <4>2. /\ session'[x].matched = session[x].matched /\ session'[x].url = session[x].url
              /\ pc'[x] \in Closing
          BY <4>1 DEF TypeOK, Session, Mocked, Closing
        <4> QED BY <4>2 DEF HitsAskNoStatus
      <3>5. CASE ApplyResponse(x)
        <4> DEFINE pass == Pass(table, "response", session[x].url, session[x].status)
                   amended == Amended(session[x], pass)
        <4>1. /\ pc[x] = "amending" /\ pc' = [pc EXCEPT ![x] = "storing"]
              /\ \/ \E rule \in pass.mock : session' = [session EXCEPT ![x] = Mocked(amended, rule)]
                 \/ session' = [session EXCEPT ![x] = Completed(amended, pass, upstream[x].status)]
          BY <3>5 DEF ApplyResponse, Goto
        <4>2. session[x].status = None /\ table \in Tables
          BY <4>1 DEF StatusComesLast, Closing, Settled, TypeOK
        <4>3. pass.matched \subseteq Ids(Unconditional(session[x].url))
          BY <4>2, PassAsksNoStatus
        <4> HIDE DEF pass
        <4>4. amended.matched = session[x].matched \cup pass.matched /\ amended.url = session[x].url
          BY DEF TypeOK, Session, Amended
        <4>5. amended \in Session
          <5>1. pass \in Plan
            BY TablesAssumption, PassFacts DEF pass, Phases, TypeOK
          <5> QED BY <5>1, RecordTypes DEF TypeOK
        <4> HIDE DEF amended
        <4>6. /\ session'[x].matched = amended.matched /\ session'[x].url = amended.url
              /\ pc'[x] \in Closing
          <5>1. pc'[x] \in Closing
            BY <4>1 DEF TypeOK, Closing
          <5>2. CASE session' = [session EXCEPT ![x] = Completed(amended, pass, upstream[x].status)]
            BY <4>5, <5>1, <5>2 DEF TypeOK, Session, Completed
          <5>3. ASSUME NEW rule \in pass.mock, session' = [session EXCEPT ![x] = Mocked(amended, rule)]
                PROVE  session'[x].matched = amended.matched /\ session'[x].url = amended.url
            BY <4>5, <5>3 DEF TypeOK, Session, Mocked
          <5> QED BY <4>1, <5>1, <5>2, <5>3
        <4> QED BY <4>3, <4>4, <4>6 DEF HitsAskNoStatus
      <3>6. CASE ~ApplyRequest(x) /\ ~MockRequest(x) /\ ~ApplyResponse(x)
        <4>1. UNCHANGED session /\ (pc[x] \in Closing => pc'[x] \in Closing \cup Settled)
          BY <2>2, <3>6 DEF Step, Receive, RejectTarget, Hangup, CollectBody, BodyFails, Wake, Forward,
             RefuseForward, UpstreamAnswers, UpstreamFails, Store, StoreFails, Announce, Reply,
             AnswerError, Goto, Closing, Settled, TypeOK
        <4>2. pc[x] \notin Settled
          BY <2>2, <3>6 DEF Step, Receive, RejectTarget, Hangup, CollectBody, BodyFails, Wake, Forward,
             RefuseForward, UpstreamAnswers, UpstreamFails, Store, StoreFails, Announce, Reply,
             Settled, Awaiting
        <4> QED BY <4>1, <4>2 DEF HitsAskNoStatus, StatusComesLast
      <3> QED BY <3>3, <3>4, <3>5, <3>6
    <2> QED BY <2>1, <2>2 DEF Next, Environment
  <1>3. Inv => HitsAskNoStatus
    OBVIOUS
  <1> HIDE DEF Inv
  <1> QED BY <1>1, <1>2, <1>3, TypeCorrect, PTL DEF Spec
-----------------------------------------------------------------------------
(***************************************************************************)
(* The contract.                                                           *)
(***************************************************************************)
\* Seen through the contract, a step moves its own exchange only.
LEMMA BarStep ==
    ASSUME TypeOK, NEW x \in Exchanges, NEW step \in Steps, Goto(x, step),
           \A y \in Exchanges : (y # x \/ pc[x] \in Recorded) => session'[y] = session[y],
           pc[x] \in Recorded => step \in Recorded
    PROVE  /\ LifeBar' = [LifeBar EXCEPT ![x] = Life(step)]
           /\ step \notin Recorded \/ pc[x] \in Recorded => RecordBar' = RecordBar
           /\ RecordBar' = [RecordBar EXCEPT ![x] = RecordBar'[x]]
           /\ LifeBar[x] = Life(pc[x])
  <1>1. pc' = [pc EXCEPT ![x] = step] /\ pc \in [Exchanges -> Steps]
    BY DEF Goto, TypeOK
  <1>2. LifeBar' = [LifeBar EXCEPT ![x] = Life(step)] /\ LifeBar[x] = Life(pc[x])
    BY <1>1 DEF LifeBar
  <1>3. \A y \in Exchanges : y # x => RecordBar'[y] = RecordBar[y]
    BY <1>1 DEF RecordBar
  <1>4. step \notin Recorded \/ pc[x] \in Recorded => RecordBar'[x] = RecordBar[x]
    BY <1>1 DEF RecordBar
  <1>5. RecordBar = [y \in Exchanges |-> RecordBar[y]] /\ RecordBar' = [y \in Exchanges |-> RecordBar'[y]]
    BY DEF RecordBar
  <1> QED
    BY <1>2, <1>3, <1>4, <1>5

\* The session a handler stores is a finished outcome.
LEMMA StoredOutcome ==
    ASSUME IInv, NEW x \in Exchanges, pc[x] \in Closing
    PROVE  [state |-> session[x].state, status |-> session[x].status] \in Contract!Outcome
  <1>1. RecordIsTrue(x)
    BY DEF IInv, XInv
  <1>2. session[x].state \in {"Completed", "Mocked"}
    BY <1>1 DEF RecordIsTrue
  <1>3. session[x].status \in Nat
    <2>1. CASE session[x].state = "Completed"
      <3>1. session[x].status \in UpstreamStatuses
        BY <1>1, <2>1 DEF RecordIsTrue
      <3>2. \A status \in UpstreamStatuses : status \in Nat
        BY UpstreamAssumption
      <3> QED BY <3>1, <3>2
    <2>2. CASE session[x].state = "Mocked"
      <3>1. PICK T \in Tables : \E rule \in T : session[x].status = MockStatus(rule)
        BY <1>1, <2>2 DEF RecordIsTrue
      <3>2. PICK rule \in T : session[x].status = MockStatus(rule)
        BY <3>1
      <3>3. rule \in Rule
        BY TablesAssumption
      <3> QED BY <3>2, <3>3, MockStatusType
    <2> QED BY <1>2, <2>1, <2>2
  <1> QED
    BY <1>2, <1>3 DEF Contract!Outcome

\* Every behaviour of the handler is one the contract allows.
THEOREM Refinement == Spec => KeepsContract
  <1>1. Init => Contract!Init
    BY DEF Init, Contract!Init, LifeBar, RecordBar, Life, Recorded
  <1>2. IInv /\ [Next]_vars => [Contract!Next]_Contract!vars
    <2> SUFFICES ASSUME IInv, [Next]_vars
                 PROVE  Contract!Next \/ UNCHANGED Contract!vars
      OBVIOUS
    <2> USE DEF IInv
    <2>1. CASE UNCHANGED vars
      BY <2>1 DEF vars, Contract!vars, LifeBar, RecordBar
    <2>2. CASE SetRules
      BY <2>2 DEF SetRules, Contract!vars, LifeBar, RecordBar
    <2>3. CASE Clear \/ ClearFails
      BY <2>3 DEF Clear, ClearFails, Contract!Next, Contract!Clear, LifeBar, RecordBar
    <2>4. ASSUME NEW x \in Exchanges,
                 \/ Receive(x) \/ CollectBody(x) \/ ApplyRequest(x) \/ Wake(x) \/ MockRequest(x)
                 \/ Forward(x) \/ UpstreamAnswers(x) \/ ApplyResponse(x)
          PROVE  UNCHANGED Contract!vars
      <3>1. PICK step \in Steps : Goto(x, step) /\ step \notin Recorded /\ Life(step) = "open"
        BY <2>4 DEF Receive, CollectBody, ApplyRequest, Wake, MockRequest, Forward, UpstreamAnswers,
                    ApplyResponse, Steps, Awaiting, Closing, Recorded, Life
      <3>2. pc[x] \notin Recorded /\ Life(pc[x]) = "open"
        BY <2>4 DEF Receive, CollectBody, ApplyRequest, Wake, MockRequest, Forward, UpstreamAnswers,
                    ApplyResponse, Recorded, Life
      <3>3. Step(x) \/ Receive(x)
        BY <2>4 DEF Step
      <3>4. \A y \in Exchanges : y # x => session'[y] = session[y]
        BY <3>3, Frame
      <3>5. LifeBar' = [LifeBar EXCEPT ![x] = LifeBar[x]] /\ RecordBar' = RecordBar
        BY <3>1, <3>2, <3>4, BarStep
      <3>6. LifeBar' = LifeBar
        BY <3>5 DEF LifeBar
      <3>7. UNCHANGED <<rows, announced, reply>>
        BY <2>4 DEF Receive, CollectBody, ApplyRequest, Wake, MockRequest, Forward, UpstreamAnswers,
                    ApplyResponse
      <3> QED
        BY <3>5, <3>6, <3>7 DEF Contract!vars
    <2>5. ASSUME NEW x \in Exchanges, Store(x)
          PROVE  Contract!Record(x)
      <3>1. /\ Goto(x, "announcing") /\ pc[x] = "storing" /\ "announcing" \in Steps
            /\ UNCHANGED <<session, announced, reply>> /\ rows' = [rows EXCEPT ![x] = "full"]
        BY <2>5 DEF Store, Steps, Closing
      <3>2. /\ LifeBar' = [LifeBar EXCEPT ![x] = "recorded"] /\ LifeBar[x] = "open"
            /\ RecordBar' = [RecordBar EXCEPT ![x] = RecordBar'[x]]
        BY <3>1, BarStep DEF Recorded, Life
      <3>3. RecordBar'[x] = [state |-> session[x].state, status |-> session[x].status]
        BY <3>1 DEF RecordBar, Goto, TypeOK, Recorded
      <3>4. RecordBar'[x] \in Contract!Outcome
        BY <3>1, <3>3, StoredOutcome DEF Closing
      <3> QED
        BY <3>1, <3>2, <3>4 DEF Contract!Record, Contract!Move
    <2>6. ASSUME NEW x \in Exchanges, Announce(x)
          PROVE  Contract!Announce(x)
      <3>1. /\ Goto(x, "replying") /\ pc[x] = "announcing" /\ "replying" \in Steps
            /\ UNCHANGED <<session, rows, reply>> /\ announced' = announced \cup {x}
        BY <2>6 DEF Announce, Steps, Closing
      <3>2. /\ LifeBar' = [LifeBar EXCEPT ![x] = "announced"] /\ LifeBar[x] = "recorded"
            /\ RecordBar' = RecordBar
        BY <3>1, BarStep DEF Recorded, Life
      <3> QED
        BY <3>1, <3>2 DEF Contract!Announce, Contract!Move
    <2>7. ASSUME NEW x \in Exchanges, Reply(x)
          PROVE  Contract!Answer(x)
      <3>1. PICK status \in Answers(session[x]) : reply' = [reply EXCEPT ![x] = status]
        BY <2>7 DEF Reply
      <3>2. /\ Goto(x, "done") /\ pc[x] = "replying" /\ "done" \in Steps
            /\ UNCHANGED <<session, rows, announced>>
        BY <2>7 DEF Reply, Steps, Closing
      <3>3. /\ LifeBar' = [LifeBar EXCEPT ![x] = "answered"] /\ LifeBar[x] = "announced"
            /\ RecordBar' = RecordBar
        BY <3>2, BarStep DEF Recorded, Life
      <3>4. RecordBar[x].status = session[x].status
        BY <3>2 DEF RecordBar, Recorded
      <3>5. status \in {RecordBar[x].status, 200}
        BY <3>1, <3>4 DEF Answers, SentStatus
      <3> QED
        BY <3>1, <3>2, <3>3, <3>5 DEF Contract!Answer, Contract!Move
    <2>8. ASSUME NEW x \in Exchanges,
                 \/ RejectTarget(x) \/ BodyFails(x) \/ RefuseForward(x)
                 \/ UpstreamFails(x) \/ StoreFails(x)
          PROVE  Contract!Refuse(x)
      <3>1. /\ Goto(x, "failed") /\ reply' = [reply EXCEPT ![x] = 500]
            /\ UNCHANGED <<session, announced>>
            /\ pc[x] \in {"idle", "collecting", "ready", "forwarding", "storing"}
            /\ "failed" \in Steps
        BY <2>8 DEF RejectTarget, BodyFails, RefuseForward, UpstreamFails, StoreFails, AnswerError,
                    Steps, Settled
      <3>2. /\ LifeBar' = [LifeBar EXCEPT ![x] = "refused"] /\ LifeBar[x] = "open"
            /\ RecordBar' = RecordBar
        BY <3>1, BarStep DEF Recorded, Life
      <3>3. rows[x] \in {"none", "summary"} /\ rows = [rows EXCEPT ![x] = rows[x]]
        BY <3>1 DEF XInv, EndIsOrderly, TypeOK
      <3>4. \E left \in {"none", "summary"} : rows' = [rows EXCEPT ![x] = left]
        BY <2>8, <3>3 DEF RejectTarget, BodyFails, RefuseForward, UpstreamFails, StoreFails
      <3> QED
        BY <3>1, <3>2, <3>4 DEF Contract!Refuse, Contract!Move
    <2>9. ASSUME NEW x \in Exchanges, Hangup(x)
          PROVE  Contract!Abandon(x)
      <3>1. /\ Goto(x, "dropped") /\ pc[x] \in Awaiting /\ "dropped" \in Steps
            /\ UNCHANGED <<session, rows, announced, reply>>
        BY <2>9 DEF Hangup, Steps, Settled
      <3>2. /\ LifeBar' = [LifeBar EXCEPT ![x] = "abandoned"] /\ LifeBar[x] = "open"
            /\ RecordBar' = RecordBar
        BY <3>1, BarStep DEF Recorded, Life, Awaiting
      <3> QED
        BY <3>1, <3>2 DEF Contract!Abandon, Contract!Move
    <2> QED
      BY <2>1, <2>2, <2>3, <2>4, <2>5, <2>6, <2>7, <2>8, <2>9
         DEF Next, Environment, Step, Contract!Next
  <1> QED
    BY <1>1, <1>2, InductiveInvariant, PTL DEF Spec, KeepsContract, Contract!Spec
=============================================================================
