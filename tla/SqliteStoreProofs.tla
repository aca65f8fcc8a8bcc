-------------------------- MODULE SqliteStoreProofs --------------------------
(***************************************************************************)
(* What the two session tables guarantee for any clients, sessions and     *)
(* faults: their type, that what was acknowledged is there, that they are  *)
(* one table to their callers, and that the lock is held only by a call    *)
(* under way (LockIsInUse).                                                *)
(***************************************************************************)
EXTENDS SqliteStore, TLAPS

\* A load of present ids answers with versions, or fails.
LEMMA LoadedType ==
    ASSUME TypeOK, NEW ids \in SUBSET Ids
    PROVE  Loaded(ids) \in Answer
  <1> DEFINE found == Present(sessions, ids)
  <1>1. CASE found \subseteq Present(details, ids)
    <2>1. \A id \in found : id \in Ids /\ details[id] \in Versions
      BY <1>1 DEF Present, TypeOK, Rows
    <2>2. {<<id, details[id]>> : id \in found} \in SUBSET (Ids \X Versions)
      BY <2>1
    <2> QED BY <1>1, <2>2 DEF Loaded, Answer
  <1>2. CASE ~(found \subseteq Present(details, ids))
    BY <1>2 DEF Loaded, Answer, Failed
  <1> QED BY <1>1, <1>2

\* An Ok without rows is an answer.
LEMMA DoneType == Done \in Answer
  BY DEF Done, Answer

\* The two parts of an operation that every proof needs.
LEMMA OpParts ==
    ASSUME NEW o \in Op
    PROVE  /\ o.ids \in SUBSET Ids /\ o.version \in Versions \cup {None}
           /\ o.kind \in {"insert", "load", "list", "clear"}
           /\ o.kind = "insert" => o.version \in Versions
           /\ o.kind = "clear" => o.version = None /\ o.ids = Ids
  BY DEF Op

\* The tables, the answers and the history keep their type through every step.
THEOREM TypeCorrect == Spec => []TypeOK
  <1>1. Init => TypeOK
    <2> SUFFICES ASSUME Init
                 PROVE  TypeOK
      OBVIOUS
    <2>1. NoRows \in Rows(Versions \cup {None}) /\ NoRows \in Rows(Versions \cup {None, Unknown})
      BY DEF NoRows, Rows
    <2>2. op \in [Clients -> Op]
      <3>1. [kind |-> "clear", ids |-> Ids, version |-> None] \in Op
        BY DEF Op
      <3> QED BY <3>1 DEF Init
    <2>3. answer \in [Clients -> Answer]
      <3>1. Failed \in Answer
        BY DEF Failed, Answer
      <3> QED BY <3>1 DEF Init
    <2>4. pc \in [Clients -> Steps] /\ calls \in [Clients -> Nat]
      BY DEF Init, Steps
    <2> QED
      BY <2>1, <2>2, <2>3, <2>4 DEF Init, TypeOK
  <1>2. TypeOK /\ [Next]_vars => TypeOK'
    <2> SUFFICES ASSUME TypeOK, [Next]_vars
                 PROVE  TypeOK'
      OBVIOUS
    <2> USE DEF TypeOK
    <2>1. CASE UNCHANGED vars
      BY <2>1 DEF vars
    <2>2. CASE Crash
      BY <2>2 DEF Crash, Steps
    <2>3. ASSUME NEW c \in Clients, Call(c)
          PROVE  TypeOK'
      <3>1. PICK o \in Op : op' = [op EXCEPT ![c] = o]
        BY <2>3 DEF Call
      <3>2. op' \in [Clients -> Op] /\ calls' \in [Clients -> Nat]
        BY <2>3, <3>1 DEF Call
      <3> QED BY <2>3, <3>2 DEF Call, Goto, Steps
    <2>4. ASSUME NEW c \in Clients, Acquire(c) \/ Open(c)
          PROVE  TypeOK'
      BY <2>4 DEF Acquire, Open, Goto, Steps
    <2>5. ASSUME NEW c \in Clients, OpenFails(c) \/ StatementFails(c)
          PROVE  TypeOK'
      <3>1. Failed \in Answer
        BY DEF Failed, Answer
      <3>2. pc' \in [Clients -> Steps]
        BY <2>5 DEF OpenFails, StatementFails, Goto, Steps
      <3> QED BY <2>5, <3>1, <3>2 DEF OpenFails, StatementFails
    <2>6. ASSUME NEW c \in Clients, InsertSummary(c) \/ InsertDetails(c)
          PROVE  TypeOK'
      <3>1. op[c].version \in Versions \cup {None}
        BY OpParts
      <3>2. ASSUME NEW table \in Rows(Versions \cup {None})
            PROVE  Put(table, c) \in Rows(Versions \cup {None})
        BY <3>1 DEF Put, Rows
      <3>3. Put(sessions, c) \in Rows(Versions \cup {None}) /\ Put(details, c) \in Rows(Versions \cup {None})
        BY <3>2
      <3>4. acked' \in Rows(Versions \cup {None, Unknown})
        BY <2>6 DEF InsertSummary, InsertDetails, Doubt, Rows
      <3>5. pc' \in [Clients -> Steps]
        BY <2>6 DEF InsertSummary, InsertDetails, Goto, Steps
      <3>6. answer' \in [Clients -> Answer]
        BY <2>6, DoneType DEF InsertSummary, InsertDetails
      <3> QED
        BY <2>6, <3>3, <3>4, <3>5, <3>6 DEF InsertSummary, InsertDetails
    <2>7. ASSUME NEW c \in Clients, ClearDetails(c) \/ ClearSummaries(c)
          PROVE  TypeOK'
      <3>1. NoRows \in Rows(Versions \cup {None})
        BY DEF NoRows, Rows
      <3>2. acked' \in Rows(Versions \cup {None, Unknown})
        BY <2>7 DEF ClearDetails, ClearSummaries, Doubt, Rows
      <3>3. pc' \in [Clients -> Steps]
        BY <2>7 DEF ClearDetails, ClearSummaries, Goto, Steps
      <3>4. answer' \in [Clients -> Answer]
        BY <2>7, DoneType DEF ClearDetails, ClearSummaries
      <3> QED
        BY <2>7, <3>1, <3>2, <3>3, <3>4 DEF ClearDetails, ClearSummaries
    <2>8. ASSUME NEW c \in Clients, Load(c)
          PROVE  TypeOK'
      <3>1. Loaded(op[c].ids) \in Answer
        BY OpParts, LoadedType
      <3> QED BY <2>8, <3>1 DEF Load, Goto, Steps
    <2>9. ASSUME NEW c \in Clients, List(c)
          PROVE  TypeOK'
      <3>1. {<<id, sessions[id]>> : id \in Present(sessions, Ids)} \in SUBSET (Ids \X Versions)
        BY DEF Present, Rows
      <3> QED BY <2>9, <3>1 DEF List, Goto, Steps, Answer
    <2>10. ASSUME NEW c \in Clients, Return(c)
           PROVE  TypeOK'
      <3>1. acked' \in Rows(Versions \cup {None, Unknown})
        BY <2>10, OpParts DEF Return, Settle, Rows
      <3> QED BY <2>10, <3>1 DEF Return, Goto, Steps
    <2> QED
      BY <2>1, <2>2, <2>3, <2>4, <2>5, <2>6, <2>7, <2>8, <2>9, <2>10 DEF Next, Step
  <1> QED
    BY <1>1, <1>2, PTL DEF Spec
-----------------------------------------------------------------------------
(***************************************************************************)
(* Safety.  Whoever is inside the lock is alone there; between its two     *)
(* statements it has put its ids in doubt, and when it is about to answer  *)
(* Ok both tables hold what it will be said to have written.               *)
(***************************************************************************)
Inside == {"opening", "first", "second", "closing"}

Alone(c) == pc[c] \in Inside => lock = c

HalfWay(c) == pc[c] = "second" =>
    /\ op[c].kind \in Writes
    /\ \A id \in op[c].ids : acked[id] = Unknown
    /\ op[c].kind = "insert" => \A id \in op[c].ids : sessions[id] = op[c].version
    /\ op[c].kind = "clear" => details = NoRows

Written(c) == pc[c] = "closing" /\ answer[c].ok /\ op[c].kind \in Writes =>
    \A id \in op[c].ids : sessions[id] = op[c].version /\ details[id] = op[c].version

Seen(c) == pc[c] = "closing" /\ op[c].kind \in {"load", "list"} /\ answer[c].ok =>
    \A id \in op[c].ids : acked[id] # Unknown =>
        \A v \in Versions : <<id, v>> \in answer[c].rows <=> acked[id] = v

CInv(c) == Alone(c) /\ HalfWay(c) /\ Written(c) /\ Seen(c)

IInv == TypeOK /\ AckedIsDurable /\ DetailNeedsSummary /\ \A c \in Clients : CInv(c)

\* A client outside the lock claims nothing about the tables.
LEMMA OutsideClaimsNothing ==
    ASSUME NEW c, pc[c] \notin Inside
    PROVE  CInv(c)
  BY DEF CInv, Alone, HalfWay, Written, Seen, Inside

\* A step of the holder, or of a client that is outside, keeps the others' parts.
LEMMA OthersKeep ==
    ASSUME IInv, NEW c \in Clients, NEW d \in Clients, c # d, Call(c) \/ Step(c)
    PROVE  CInv(d)'
  <1>1. pc'[d] = pc[d] /\ op'[d] = op[d] /\ answer'[d] = answer[d]
    <2>1. CASE Call(c) \/ Acquire(c) \/ Open(c) \/ OpenFails(c) \/ StatementFails(c) \/ Return(c)
      BY <2>1 DEF IInv, TypeOK, Call, Acquire, Open, OpenFails, StatementFails, Return, Goto
    <2>2. CASE InsertSummary(c) \/ InsertDetails(c) \/ ClearDetails(c) \/ ClearSummaries(c)
               \/ Load(c) \/ List(c)
      BY <2>2 DEF IInv, TypeOK, InsertSummary, InsertDetails, ClearDetails, ClearSummaries,
                  Load, List, Goto
    <2> QED BY <2>1, <2>2 DEF Step
  <1>2. CASE pc[d] \notin Inside
    BY <1>1, <1>2 DEF CInv, Alone, HalfWay, Written, Seen, Inside
  <1>3. CASE pc[d] \in Inside
    <2>1. lock = d /\ pc[c] \notin Inside /\ lock # None
      BY <1>3, StoreAssumption DEF IInv, CInv, Alone
    <2>2. Call(c)
      BY <2>1 DEF Step, Acquire, Open, OpenFails, InsertSummary, InsertDetails, ClearDetails,
                  ClearSummaries, Load, List, StatementFails, Return, Goto, Inside
    <2>3. UNCHANGED <<sessions, details, lock, acked>>
      BY <2>2 DEF Call
    <2> QED
      BY <1>1, <2>3 DEF IInv, CInv, Alone, HalfWay, Written, Seen
  <1> QED BY <1>2, <1>3

\* What a load or a list answers of ids that are not in doubt.
LEMMA ReadsAreTrue ==
    ASSUME IInv, NEW ids \in SUBSET Ids, NEW id \in ids, acked[id] # Unknown, NEW v \in Versions
    PROVE  /\ Loaded(ids).ok => (<<id, v>> \in Loaded(ids).rows <=> acked[id] = v)
           /\ <<id, v>> \in {<<i, sessions[i]>> : i \in Present(sessions, Ids)} <=> acked[id] = v
  <1>1. sessions[id] = acked[id] /\ details[id] = acked[id]
    BY DEF IInv, AckedIsDurable
  <1>2. id \in Present(sessions, ids) <=> acked[id] # None
    BY <1>1 DEF Present
  <1>3. id \in Present(sessions, Ids) <=> acked[id] # None
    BY <1>1 DEF Present
  <1>4. v # None
    BY StoreAssumption
  <1>5. ASSUME Loaded(ids).ok
        PROVE  <<id, v>> \in Loaded(ids).rows <=> acked[id] = v
    <2>1. Loaded(ids).rows = {<<i, details[i]>> : i \in Present(sessions, ids)}
      BY <1>5 DEF Loaded, Failed
    <2> QED BY <1>1, <1>2, <1>4, <2>1
  <1> QED BY <1>1, <1>3, <1>4, <1>5

\* A step keeps what the tables say and the part of the client that takes it.
LEMMA StepKeeps ==
    ASSUME IInv, NEW c \in Clients, Call(c) \/ Step(c)
    PROVE  AckedIsDurable' /\ DetailNeedsSummary' /\ CInv(c)'
  <1> USE DEF IInv
  <1>0. /\ op[c] \in Op /\ op[c].ids \in SUBSET Ids
        /\ op[c].kind = "insert" => op[c].version \in Versions
        /\ op[c].kind = "clear" => op[c].version = None /\ op[c].ids = Ids
    BY OpParts DEF TypeOK
  <1>1. CASE Call(c) \/ Return(c)
    <2>1. pc'[c] \notin Inside /\ UNCHANGED <<sessions, details>>
      BY <1>1 DEF Call, Return, Goto, TypeOK, Inside
    <2>2. CInv(c)'
      BY <2>1 DEF CInv, Alone, HalfWay, Written, Seen, Inside
    <2>3. \A id \in Ids : acked'[id] # acked[id] =>
              sessions[id] = acked'[id] /\ details[id] = acked'[id]
      BY <1>0, <1>1 DEF Call, Return, Goto, Settle, CInv, Written
    <2> QED
      BY <2>1, <2>2, <2>3 DEF AckedIsDurable, DetailNeedsSummary
  <1>2. CASE Acquire(c) \/ Open(c) \/ OpenFails(c) \/ StatementFails(c)
    <2>1. UNCHANGED <<sessions, details, acked>>
      BY <1>2 DEF Acquire, Open, OpenFails, StatementFails
    <2>2. /\ lock' = c /\ pc'[c] \in {"opening", "first", "closing"}
          /\ pc'[c] = "closing" => ~answer'[c].ok
      BY <1>2 DEF Acquire, Open, OpenFails, StatementFails, Goto, TypeOK, Failed, CInv, Alone, Inside
    <2>3. CInv(c)'
      BY <2>1, <2>2 DEF CInv, Alone, HalfWay, Written, Seen
    <2> QED
      BY <2>1, <2>3 DEF AckedIsDurable, DetailNeedsSummary
  <1>3. CASE InsertSummary(c)
    <2>1. /\ sessions' = [id \in Ids |-> IF id \in op[c].ids THEN op[c].version ELSE sessions[id]]
          /\ acked' = [id \in Ids |-> IF id \in op[c].ids THEN Unknown ELSE acked[id]]
          /\ pc[c] = "first" /\ pc'[c] = "second" /\ op[c].kind = "insert"
          /\ UNCHANGED <<details, lock, op, answer>>
      BY <1>3 DEF InsertSummary, Put, Doubt, Goto, TypeOK
    <2>2. op[c].version # None
      BY <1>0, <2>1, StoreAssumption
    <2>3. AckedIsDurable'
      BY <2>1 DEF AckedIsDurable
    <2>4. DetailNeedsSummary'
      BY <2>1, <2>2 DEF DetailNeedsSummary
    <2>5. CInv(c)'
      BY <1>0, <2>1 DEF CInv, Alone, HalfWay, Written, Seen, Inside, Writes
    <2> QED BY <2>3, <2>4, <2>5
  <1>4. CASE InsertDetails(c)
    <2>1. /\ details' = [id \in Ids |-> IF id \in op[c].ids THEN op[c].version ELSE details[id]]
          /\ pc[c] = "second" /\ pc'[c] = "closing" /\ op[c].kind = "insert"
          /\ UNCHANGED <<sessions, lock, op, acked>>
      BY <1>4 DEF InsertDetails, Put, Goto, TypeOK
    <2>2. /\ \A id \in op[c].ids : sessions[id] = op[c].version /\ acked[id] = Unknown
          /\ lock = c
      BY <2>1 DEF CInv, HalfWay, Alone, Inside
    <2>3. op[c].version # None
      BY <1>0, <2>1, StoreAssumption
    <2>4. AckedIsDurable'
      BY <2>1, <2>2 DEF AckedIsDurable
    <2>5. DetailNeedsSummary'
      BY <2>1, <2>2, <2>3 DEF DetailNeedsSummary
    <2>6. CInv(c)'
      BY <1>0, <2>1, <2>2 DEF CInv, Alone, HalfWay, Written, Seen
    <2> QED BY <2>4, <2>5, <2>6
  <1>5. CASE ClearDetails(c)
    <2>1. /\ details' = NoRows /\ acked' = [id \in Ids |-> Unknown]
          /\ pc[c] = "first" /\ pc'[c] = "second" /\ op[c].kind = "clear"
          /\ UNCHANGED <<sessions, lock, op, answer>>
      BY <1>5 DEF ClearDetails, Doubt, Goto, TypeOK
    <2>2. AckedIsDurable' /\ DetailNeedsSummary'
      BY <2>1 DEF AckedIsDurable, DetailNeedsSummary, NoRows
    <2>3. CInv(c)'
      BY <1>0, <2>1 DEF CInv, Alone, HalfWay, Written, Seen, Inside, Writes
    <2> QED BY <2>2, <2>3
  <1>6. CASE ClearSummaries(c)
    <2>1. /\ sessions' = NoRows /\ details' = NoRows
          /\ pc[c] = "second" /\ pc'[c] = "closing" /\ op[c].kind = "clear"
          /\ UNCHANGED <<lock, op, acked>>
      BY <1>6 DEF ClearSummaries, Goto, TypeOK
    <2>2. lock = c /\ \A id \in Ids : acked[id] = Unknown
      BY <1>0, <2>1 DEF CInv, HalfWay, Alone, Inside
    <2>3. AckedIsDurable' /\ DetailNeedsSummary'
      BY <2>1, <2>2 DEF AckedIsDurable, DetailNeedsSummary, NoRows
    <2>4. CInv(c)'
      BY <1>0, <2>1, <2>2 DEF CInv, Alone, HalfWay, Written, Seen, NoRows
    <2> QED BY <2>3, <2>4
  <1>7. CASE Load(c) \/ List(c)
    <2>1. /\ pc[c] = "first" /\ pc'[c] = "closing" /\ op[c].kind \in {"load", "list"}
          /\ UNCHANGED <<sessions, details, lock, op, acked>>
          /\ lock = c
      BY <1>7 DEF Load, List, Goto, TypeOK, CInv, Alone, Inside
    <2>2. AckedIsDurable' /\ DetailNeedsSummary'
      BY <2>1 DEF AckedIsDurable, DetailNeedsSummary
    <2>3. \/ answer'[c] = Loaded(op[c].ids)
          \/ answer'[c].rows = {<<i, sessions[i]>> : i \in Present(sessions, Ids)}
      BY <1>7 DEF Load, List, TypeOK
    <2>4. Seen(c)'
      <3> SUFFICES ASSUME answer'[c].ok, NEW id \in op[c].ids, acked[id] # Unknown, NEW v \in Versions
                   PROVE  <<id, v>> \in answer'[c].rows <=> acked[id] = v
        BY <2>1 DEF Seen
      <3> QED BY <1>0, <2>3, ReadsAreTrue
    <2>5. Alone(c)' /\ HalfWay(c)' /\ Written(c)'
      BY <2>1 DEF Alone, HalfWay, Written, Writes
    <2> QED BY <2>2, <2>4, <2>5 DEF CInv
  <1> QED
    BY <1>1, <1>2, <1>3, <1>4, <1>5, <1>6, <1>7 DEF Step

\* IInv holds at first and every step, a crash among them, keeps it.
THEOREM InductiveInvariant == Spec => []IInv
  <1> DEFINE Rest == AckedIsDurable /\ DetailNeedsSummary /\ \A c \in Clients : CInv(c)
  <1>1. Init => Rest
    <2> SUFFICES ASSUME Init PROVE Rest
      OBVIOUS
    <2>1. AckedIsDurable /\ DetailNeedsSummary
      BY DEF Init, AckedIsDurable, DetailNeedsSummary, NoRows
    <2>2. \A c \in Clients : pc[c] \notin Inside
      BY DEF Init, Inside
    <2> QED BY <2>1, <2>2, OutsideClaimsNothing
  <1>2. TypeOK /\ Rest /\ [Next]_vars => Rest'
    <2> SUFFICES ASSUME IInv, [Next]_vars PROVE Rest'
      BY DEF IInv
    <2>1. CASE UNCHANGED vars
      BY <2>1 DEF IInv, vars, AckedIsDurable, DetailNeedsSummary, CInv, Alone, HalfWay, Written, Seen
    <2>2. CASE Crash
      <3>1. AckedIsDurable' /\ DetailNeedsSummary'
        BY <2>2 DEF Crash, IInv, AckedIsDurable, DetailNeedsSummary
      <3>2. \A c \in Clients : CInv(c)'
        BY <2>2 DEF Crash, CInv, Alone, HalfWay, Written, Seen, Inside
      <3> QED BY <3>1, <3>2
    <2>3. ASSUME NEW c \in Clients, Call(c) \/ Step(c)
          PROVE  Rest'
      <3>1. AckedIsDurable' /\ DetailNeedsSummary' /\ CInv(c)'
        BY <2>3, StepKeeps
      <3>2. ASSUME NEW d \in Clients, c # d
            PROVE  CInv(d)'
        BY <2>3, <3>2, OthersKeep
      <3> QED BY <3>1, <3>2
    <2> QED BY <2>1, <2>2, <2>3 DEF Next
  <1> QED
    BY <1>1, <1>2, TypeCorrect, PTL DEF Spec, IInv

\* What was acknowledged is in both tables, whatever failed since.
THEOREM AckedIsDurableAlways == Spec => []AckedIsDurable
  <1>1. IInv => AckedIsDurable
    BY DEF IInv
  <1> QED BY <1>1, InductiveInvariant, PTL

\* No detail row is stored that the list does not show.
THEOREM DetailNeedsSummaryAlways == Spec => []DetailNeedsSummary
  <1>1. IInv => DetailNeedsSummary
    BY DEF IInv
  <1> QED BY <1>1, InductiveInvariant, PTL

\* A read that succeeds shows what was acknowledged.
THEOREM ReadsSeeAckedAlways == Spec => []ReadsSeeAcked
  <1>1. IInv => ReadsSeeAcked
    BY DEF IInv, CInv, Seen, ReadsSeeAcked
  <1> QED BY <1>1, InductiveInvariant, PTL

\* The mutex is held by a client that is inside an operation, or by nobody: on no
\* path, a failed open, a failed statement and a crash among them, does an
\* operation end and leave the others waiting.
LockIsInUse == lock # None => lock \in Clients /\ pc[lock] \in Inside

\* The holder keeps the mutex until it returns, and nobody else moves it.
THEOREM LockIsInUseAlways == Spec => []LockIsInUse
  <1>1. Init => LockIsInUse
    BY DEF Init, LockIsInUse
  <1>2. IInv /\ LockIsInUse /\ [Next]_vars => LockIsInUse'
    <2> SUFFICES ASSUME IInv, LockIsInUse, [Next]_vars
                 PROVE  LockIsInUse'
      OBVIOUS
    <2>0. TypeOK /\ \A c \in Clients : Alone(c)
      BY DEF IInv, CInv
    <2>1. CASE UNCHANGED vars
      BY <2>1 DEF vars, LockIsInUse
    <2>2. CASE Crash
      BY <2>2 DEF Crash, LockIsInUse
    <2>3. ASSUME NEW c \in Clients, Call(c)
          PROVE  LockIsInUse'
      BY <2>0, <2>3 DEF Call, Goto, LockIsInUse, Inside, TypeOK
    <2>4. ASSUME NEW c \in Clients, Acquire(c)
          PROVE  LockIsInUse'
      BY <2>0, <2>4 DEF Acquire, Goto, LockIsInUse, Inside, TypeOK
    <2>5. ASSUME NEW c \in Clients, Return(c)
          PROVE  LockIsInUse'
      BY <2>5 DEF Return, LockIsInUse
    <2>6. ASSUME NEW c \in Clients, pc[c] \in Inside, lock' = lock, \E to \in Inside : pc' = [pc EXCEPT ![c] = to]
          PROVE  LockIsInUse'
      BY <2>0, <2>6 DEF Alone, LockIsInUse, TypeOK
    <2>7. ASSUME NEW c \in Clients,
                 \/ Open(c) \/ OpenFails(c) \/ InsertSummary(c) \/ InsertDetails(c) \/ ClearDetails(c)
                 \/ ClearSummaries(c) \/ Load(c) \/ List(c) \/ StatementFails(c)
          PROVE  LockIsInUse'
      BY <2>6, <2>7 DEF Open, OpenFails, InsertSummary, InsertDetails, ClearDetails, ClearSummaries,
                        Load, List, StatementFails, Goto, Inside
    <2> QED
      BY <2>1, <2>2, <2>3, <2>4, <2>5, <2>7 DEF Next, Step
  <1> QED
    BY <1>1, <1>2, InductiveInvariant, PTL DEF Spec
-----------------------------------------------------------------------------
(***************************************************************************)
(* The two tables are one.                                                 *)
(***************************************************************************)
\* Until something faulted the tables differ only where a writer is half-way.
TablesAgree ==
    ~faulted => \A id \in Ids :
        sessions[id] = details[id] \/ \E c \in Clients : pc[c] = "second" /\ id \in op[c].ids

StageBar == [c \in Clients |-> Stage(c)]
AnswersBar == [c \in Clients |-> AnswerBar(c)]

\* A step moves its own client only.
LEMMA Frame ==
    ASSUME TypeOK, NEW c \in Clients, Call(c) \/ Step(c), NEW d \in Clients, d # c
    PROVE  pc'[d] = pc[d] /\ op'[d] = op[d] /\ answer'[d] = answer[d]
  <1>1. CASE Call(c) \/ Acquire(c) \/ Open(c) \/ OpenFails(c) \/ StatementFails(c) \/ Return(c)
    BY <1>1 DEF TypeOK, Call, Acquire, Open, OpenFails, StatementFails, Return, Goto
  <1>2. CASE InsertSummary(c) \/ InsertDetails(c) \/ ClearDetails(c) \/ ClearSummaries(c)
             \/ Load(c) \/ List(c)
    BY <1>2 DEF TypeOK, InsertSummary, InsertDetails, ClearDetails, ClearSummaries, Load, List, Goto
  <1> QED BY <1>1, <1>2 DEF Step

\* Whoever is inside the lock finds nobody half-way but itself.
LEMMA NobodyElse ==
    ASSUME IInv, NEW c \in Clients, pc[c] \in Inside, NEW d \in Clients, pc[d] = "second"
    PROVE  d = c
  BY DEF IInv, CInv, Alone, Inside

\* So while it is not half-way itself, it finds the tables equal.
LEMMA TablesEqual ==
    ASSUME IInv, TablesAgree, ~faulted, NEW c \in Clients, pc[c] = "first"
    PROVE  sessions = details
  <1>1. \A id \in Ids : sessions[id] = details[id]
    BY NobodyElse DEF TablesAgree, Inside
  <1> QED BY <1>1 DEF IInv, TypeOK, Rows

\* Every step keeps the agreement of the two tables while nothing has failed.
LEMMA TablesAgreeStep ==
    ASSUME IInv, TablesAgree, [Next]_vars
    PROVE  TablesAgree'
  <1> USE DEF TablesAgree
  <1>1. CASE UNCHANGED vars
    BY <1>1 DEF vars
  <1>2. CASE Crash
    BY <1>2 DEF Crash
  <1>3. ASSUME NEW c \in Clients, Call(c) \/ Step(c), ~faulted'
        PROVE  TablesAgree'
    <2>0. TypeOK /\ op[c] \in Op
      BY DEF IInv, TypeOK
    <2>1. \A d \in Clients : d # c => pc'[d] = pc[d] /\ op'[d] = op[d]
      BY <1>3, <2>0, Frame
    <2>2. CASE Call(c) \/ Acquire(c) \/ Open(c) \/ OpenFails(c) \/ Load(c) \/ List(c) \/ Return(c)
      <3>1. pc[c] # "second" /\ UNCHANGED <<sessions, details, faulted>>
        BY <2>2 DEF Call, Acquire, Open, OpenFails, Load, List, Return, Goto
      <3> QED BY <2>1, <3>1
    <2>3. CASE InsertSummary(c) \/ ClearDetails(c)
      <3>1. /\ pc[c] = "first" /\ pc'[c] = "second" /\ op' = op /\ ~faulted
            /\ \A id \in Ids : id \notin op[c].ids => sessions'[id] = sessions[id] /\ details'[id] = details[id]
        BY <1>3, <2>3, <2>0, OpParts DEF InsertSummary, ClearDetails, Goto, TypeOK, Put
      <3>2. sessions = details
        BY <3>1, TablesEqual
      <3> QED BY <3>1, <3>2
    <2>4. CASE InsertDetails(c)
      <3>1. /\ pc[c] = "second" /\ op[c].kind = "insert" /\ ~faulted /\ sessions' = sessions
            /\ details' = [id \in Ids |-> IF id \in op[c].ids THEN op[c].version ELSE details[id]]
        BY <1>3, <2>4 DEF InsertDetails, Goto, Put
      <3>2. \A id \in op[c].ids : sessions[id] = op[c].version
        BY <3>1 DEF IInv, CInv, HalfWay
      <3>3. \A id \in Ids : id \notin op[c].ids => sessions[id] = details[id]
        BY <3>1, NobodyElse DEF Inside
      <3> QED BY <3>1, <3>2, <3>3
    <2>5. CASE ClearSummaries(c)
      BY <2>5 DEF ClearSummaries
    <2>6. CASE StatementFails(c)
      BY <2>6, <1>3 DEF StatementFails
    <2> QED BY <1>3, <2>2, <2>3, <2>4, <2>5, <2>6 DEF Step
  <1> QED BY <1>1, <1>2, <1>3 DEF Next

\* Seen through the mapping, a step changes its own client only.
LEMMA BarFrame ==
    ASSUME TypeOK, NEW c \in Clients, Call(c) \/ Step(c)
    PROVE  /\ StageBar' = [StageBar EXCEPT ![c] = Stage(c)']
           /\ AnswersBar' = [AnswersBar EXCEPT ![c] = AnswerBar(c)']
           /\ StageBar[c] = Stage(c) /\ AnswersBar[c] = AnswerBar(c)
  <1>1. ASSUME NEW d \in Clients, d # c
        PROVE  Stage(d)' = Stage(d) /\ AnswerBar(d)' = AnswerBar(d)
    BY <1>1, Frame DEF Stage, AnswerBar
  <1> QED BY <1>1 DEF StageBar, AnswersBar

\* Until a statement fails or the process dies, the store is the one table.
THEOREM Refinement == Spec => IsOneTable
  <1>1. Init => Table!Init /\ TablesAgree
    <2> SUFFICES ASSUME Init PROVE Table!Init /\ TablesAgree
      OBVIOUS
    <2>1. op \in [Clients -> Table!Op]
      <3>1. [kind |-> "clear", ids |-> Ids, version |-> None] \in Table!Op
        BY DEF Table!Op
      <3> QED BY <3>1 DEF Init
    <2> QED
      BY <2>1 DEF Init, Table!Init, TablesAgree, NoRows, Stage, AnswerBar, Failed, Table!Refusal
  <1>2. IInv /\ TablesAgree /\ [Next]_vars => [faulted' \/ Table!Next]_(Table!vars)
    <2> SUFFICES ASSUME IInv, TablesAgree, [Next]_vars, ~faulted'
                 PROVE  Table!Next \/ UNCHANGED Table!vars
      OBVIOUS
    <2> USE DEF Table!vars
    <2>1. CASE UNCHANGED vars
      BY <2>1 DEF vars, Stage, AnswerBar
    <2>2. CASE Crash
      BY <2>2 DEF Crash
    <2>3. ASSUME NEW c \in Clients, Call(c) \/ Step(c)
          PROVE  Table!Next \/ UNCHANGED Table!vars
      <3>0. TypeOK /\ op[c] \in Op
        BY DEF IInv, TypeOK
      <3>1. /\ StageBar' = [StageBar EXCEPT ![c] = Stage(c)']
            /\ AnswersBar' = [AnswersBar EXCEPT ![c] = AnswerBar(c)']
            /\ StageBar[c] = Stage(c) /\ AnswersBar[c] = AnswerBar(c)
        BY <2>3, <3>0, BarFrame
      <3>2. CASE Call(c)
        <4>1. PICK o \in Op : op' = [op EXCEPT ![c] = o]
          BY <3>2 DEF Call
        <4>2. /\ Stage(c) = "idle" /\ Stage(c)' = "called" /\ AnswerBar(c)' = AnswerBar(c)
              /\ details' = details
          BY <3>0, <3>2 DEF Call, Goto, Stage, AnswerBar, TypeOK
        <4>3. o \in Table!Op
          BY DEF Op, Table!Op
        <4>4. Table!Call(c, o)
          BY <3>1, <4>1, <4>2 DEF Table!Call, StageBar, AnswersBar
        <4> QED BY <4>3, <4>4 DEF Table!Next
      <3>3. CASE Acquire(c) \/ Open(c) \/ InsertSummary(c) \/ ClearSummaries(c)
        <4>1. Stage(c)' = Stage(c) /\ AnswerBar(c)' = AnswerBar(c) /\ op' = op
          BY <3>0, <3>3 DEF Acquire, Open, InsertSummary, ClearSummaries, Goto, Stage, AnswerBar, TypeOK
        <4>2. details' = details
          <5>1. ClearSummaries(c) => details = NoRows
            BY DEF ClearSummaries, Goto, IInv, CInv, HalfWay
          <5> QED BY <3>3, <5>1 DEF Acquire, Open, InsertSummary, ClearSummaries
        <4> QED BY <3>1, <4>1, <4>2 DEF StageBar, AnswersBar
      <3>4. CASE OpenFails(c)
        <4>1. /\ Stage(c) = "called" /\ Stage(c)' = "applied" /\ AnswerBar(c)' = Table!Refusal
              /\ UNCHANGED <<op, details>>
          BY <3>0, <3>4 DEF OpenFails, Goto, Stage, AnswerBar, TypeOK, Failed, Table!Refusal
        <4>2. Table!Refuse(c)
          BY <3>1, <4>1 DEF Table!Refuse, StageBar, AnswersBar
        <4> QED BY <4>2 DEF Table!Next
      <3>5. CASE InsertDetails(c)
        <4>1. /\ Stage(c) = "called" /\ Stage(c)' = "applied" /\ AnswerBar(c)' = Table!Done
              /\ op' = op /\ op[c].kind = "insert" /\ details' = Put(details, c)
          BY <3>0, <3>5 DEF InsertDetails, Goto, Stage, AnswerBar, TypeOK, Done, Table!Done
        <4>2. Table!Apply(c)
          BY <3>1, <4>1 DEF Table!Apply, StageBar, AnswersBar, Put
        <4> QED BY <4>2 DEF Table!Next
      <3>6. CASE ClearDetails(c)
        <4>1. /\ Stage(c) = "called" /\ Stage(c)' = "applied" /\ AnswerBar(c)' = Table!Done
              /\ op' = op /\ op[c].kind = "clear" /\ details' = NoRows
          BY <3>0, <3>6 DEF ClearDetails, Goto, Stage, AnswerBar, TypeOK, Done, Table!Done
        <4>2. Table!Apply(c)
          BY <3>1, <4>1 DEF Table!Apply, StageBar, AnswersBar, NoRows
        <4> QED BY <4>2 DEF Table!Next
      <3>7. CASE Load(c) \/ List(c)
        <4>1. /\ Stage(c) = "called" /\ Stage(c)' = "applied" /\ AnswerBar(c)' = answer'[c]
              /\ op' = op /\ op[c].kind \in {"load", "list"} /\ details' = details
              /\ ~faulted /\ pc[c] = "first"
          BY <3>0, <3>7 DEF Load, List, Goto, Stage, AnswerBar, TypeOK
        <4>2. sessions = details
          BY <4>1, TablesEqual
        <4>3. Load(c) => answer'[c] = [ok |-> TRUE, rows |-> Table!Found(op[c].ids)]
          BY <3>0, <4>2 DEF Load, Loaded, Present, Table!Found, TypeOK
        <4>4. List(c) => answer'[c] = [ok |-> TRUE, rows |-> Table!Found(op[c].ids)]
          <5>1. List(c) => op[c].ids = Ids
            BY <3>0 DEF List, Op
          <5>2. {<<id, sessions[id]>> : id \in Present(sessions, Ids)} = Table!Found(Ids)
            BY <4>2 DEF Present, Table!Found
          <5> QED BY <3>0, <5>1, <5>2 DEF List, TypeOK
        <4>5. Table!Apply(c)
          BY <3>1, <3>7, <4>1, <4>3, <4>4 DEF Table!Apply, StageBar, AnswersBar
        <4> QED BY <4>5 DEF Table!Next
      <3>8. CASE Return(c)
        <4>1. /\ Stage(c) = "applied" /\ Stage(c)' = "idle" /\ AnswerBar(c)' = AnswerBar(c)
              /\ UNCHANGED <<op, details>>
          BY <3>0, <3>8 DEF Return, Goto, Stage, AnswerBar, TypeOK
        <4>2. Table!Return(c)
          BY <3>1, <4>1 DEF Table!Return, StageBar, AnswersBar
        <4> QED BY <4>2 DEF Table!Next
      <3>9. ~StatementFails(c)
        BY DEF StatementFails
      <3> QED
        BY <2>3, <3>2, <3>3, <3>4, <3>5, <3>6, <3>7, <3>8, <3>9 DEF Step
    <2> QED BY <2>1, <2>2, <2>3 DEF Next
  <1> QED
    BY <1>1, <1>2, TablesAgreeStep, InductiveInvariant, PTL DEF Spec, IsOneTable
=============================================================================
