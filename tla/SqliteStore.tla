----------------------------- MODULE SqliteStore -----------------------------
(***************************************************************************)
(* The session tables of SqliteStore (crates/core/src/store.rs).           *)
(*                                                                         *)
(* Every operation runs under conn_lock on a connection of its own, but    *)
(* not in a transaction: an insert writes the sessions row and then the    *)
(* session_details row, a clear empties session_details and then sessions, *)
(* each statement committing by itself.  What lies between two statements  *)
(* is hidden by the lock and laid bare by a statement that fails or by a   *)
(* process that dies.                                                      *)
(*                                                                         *)
(* A session is known by its id and a version of its content.              *)
(***************************************************************************)
EXTENDS Naturals

CONSTANTS
    Clients,   \* tasks that call the store: handlers and commands
    Ids,       \* session ids
    Versions,  \* contents a session may have
    None,      \* no row
    Unknown,   \* a row whose last write is not known to have succeeded
    Faults,    \* what may go wrong: "open", "statement", "crash"
    MaxCalls   \* bound: the calls each client makes

ASSUME StoreAssumption ==
    /\ None \notin Versions /\ None \notin Clients /\ Unknown \notin Versions /\ None # Unknown
    /\ MaxCalls \in Nat

VARIABLES
    sessions, details, \* the two tables: the version each row was written with
    lock,              \* the holder of conn_lock, None when free
    pc, op, answer,    \* each client's step, operation and answer
    calls,             \* how many calls each client has made
    acked,             \* history: what the answers given so far say of each id
    faulted            \* history: a statement has failed or the process has died

vars == <<sessions, details, lock, pc, op, answer, calls, acked, faulted>>

Op == {[kind |-> "insert", ids |-> {id}, version |-> v] : id \in Ids, v \in Versions}
      \cup {[kind |-> "load", ids |-> S, version |-> None] : S \in SUBSET Ids}
      \cup {[kind |-> kind, ids |-> Ids, version |-> None] : kind \in {"list", "clear"}}

Writes == {"insert", "clear"}
NoRows == [id \in Ids |-> None]
Failed == [ok |-> FALSE, rows |-> {}]
Done == [ok |-> TRUE, rows |-> {}]

Init ==
    /\ sessions = NoRows
    /\ details = NoRows
    /\ lock = None
    /\ pc = [c \in Clients |-> "idle"]
    /\ op \in [Clients -> {[kind |-> "clear", ids |-> Ids, version |-> None]}]
    /\ answer = [c \in Clients |-> Failed]
    /\ calls = [c \in Clients |-> 0]
    /\ acked = NoRows
    /\ faulted = FALSE

Goto(c, from, to) == pc[c] = from /\ pc' = [pc EXCEPT ![c] = to]

\* The task enters with_conn.
Call(c) ==
    /\ calls[c] < MaxCalls
    /\ Goto(c, "idle", "queued")
    /\ calls' = [calls EXCEPT ![c] = @ + 1]
    /\ op' \in {[op EXCEPT ![c] = o] : o \in Op}
    /\ UNCHANGED <<sessions, details, lock, answer, acked, faulted>>

\* Mutant: each operation opens its connection without the lock.
AcquireNothing(c) ==
    /\ Goto(c, "queued", "opening")
    /\ UNCHANGED <<sessions, details, lock, op, answer, calls, acked, faulted>>

\* conn_lock.lock().
Acquire(c) ==
    /\ Goto(c, "queued", "opening")
    /\ lock = None
    /\ lock' = c
    /\ UNCHANGED <<sessions, details, op, answer, calls, acked, faulted>>

\* Connection::open and init_schema succeeded.
Open(c) ==
    /\ Goto(c, "opening", "first")
    /\ UNCHANGED <<sessions, details, lock, op, answer, calls, acked, faulted>>

\* Mutant: the failure is logged and the call succeeds.
OpenFailsQuietly(c) ==
    /\ "open" \in Faults
    /\ Goto(c, "opening", "closing")
    /\ answer' = [answer EXCEPT ![c] = Done]
    /\ UNCHANGED <<sessions, details, lock, op, calls, acked, faulted>>

\* Connection::open or init_schema failed: the answer is an error.
OpenFails(c) ==
    /\ "open" \in Faults
    /\ Goto(c, "opening", "closing")
    /\ answer' = [answer EXCEPT ![c] = Failed]
    /\ UNCHANGED <<sessions, details, lock, op, calls, acked, faulted>>

\* From its first write to its answer, a write leaves its ids in doubt.
Doubt(ids) == acked' = [id \in Ids |-> IF id \in ids THEN Unknown ELSE acked[id]]

\* INSERT ... ON CONFLICT(id) DO UPDATE.
Put(table, c) == [id \in Ids |-> IF id \in op[c].ids THEN op[c].version ELSE table[id]]

\* upsert_session: the sessions row.
InsertSummary(c) ==
    /\ op[c].kind = "insert"
    /\ Goto(c, "first", "second")
    /\ sessions' = Put(sessions, c)
    /\ Doubt(op[c].ids)
    /\ UNCHANGED <<details, lock, op, answer, calls, faulted>>

\* upsert_session: the session_details row.
InsertDetails(c) ==
    /\ op[c].kind = "insert"
    /\ Goto(c, "second", "closing")
    /\ details' = Put(details, c)
    /\ answer' = [answer EXCEPT ![c] = Done]
    /\ UNCHANGED <<sessions, lock, op, calls, acked, faulted>>

\* Mutant: the sessions are deleted first and nothing cascades.
ClearSummariesFirst(c) ==
    /\ op[c].kind = "clear"
    /\ Goto(c, "first", "second")
    /\ sessions' = NoRows
    /\ Doubt(Ids)
    /\ UNCHANGED <<details, lock, op, answer, calls, faulted>>

\* clear_sessions: DELETE FROM session_details.
ClearDetails(c) ==
    /\ op[c].kind = "clear"
    /\ Goto(c, "first", "second")
    /\ details' = NoRows
    /\ Doubt(Ids)
    /\ UNCHANGED <<sessions, lock, op, answer, calls, faulted>>

\* clear_sessions: DELETE FROM sessions, which cascades to session_details.
ClearSummaries(c) ==
    /\ op[c].kind = "clear"
    /\ Goto(c, "second", "closing")
    /\ sessions' = NoRows
    /\ details' = NoRows
    /\ answer' = [answer EXCEPT ![c] = Done]
    /\ UNCHANGED <<lock, op, calls, acked, faulted>>

Present(table, ids) == {id \in ids : table[id] # None}

\* Mutant: a missing detail decodes to an empty session.
LoadedByDefault(ids) ==
    [ok |-> TRUE, rows |-> {<<id, details[id]>> : id \in Present(sessions, ids)}]

\* load_session for each id: an id without a summary is left out.  The detail
\* row is the session; where it is missing the fallback decodes "{}" as a
\* BodyPreview, which has a mandatory size, and the whole load fails.
Loaded(ids) ==
    LET found == Present(sessions, ids)
    IN  IF found \subseteq Present(details, ids)
        THEN [ok |-> TRUE, rows |-> {<<id, details[id]>> : id \in found}]
        ELSE Failed

Load(c) ==
    /\ op[c].kind = "load"
    /\ Goto(c, "first", "closing")
    /\ answer' = [answer EXCEPT ![c] = Loaded(op[c].ids)]
    /\ UNCHANGED <<sessions, details, lock, op, calls, acked, faulted>>

\* load_sessions reads the summaries only.
List(c) ==
    /\ op[c].kind = "list"
    /\ Goto(c, "first", "closing")
    /\ answer' = [answer EXCEPT ![c] =
           [ok |-> TRUE, rows |-> {<<id, sessions[id]>> : id \in Present(sessions, Ids)}]]
    /\ UNCHANGED <<sessions, details, lock, op, calls, acked, faulted>>

\* A statement failed: the closure returns early.
StatementFails(c) ==
    /\ "statement" \in Faults
    /\ \/ Goto(c, "first", "closing")
       \/ Goto(c, "second", "closing")
    /\ answer' = [answer EXCEPT ![c] = Failed]
    /\ faulted' = TRUE
    /\ UNCHANGED <<sessions, details, lock, op, calls, acked>>

\* The caller has its answer: a successful write settles what it wrote.
Settle(o) ==
    acked' = [id \in Ids |-> IF id \in o.ids THEN o.version ELSE acked[id]]

\* Mutant: an error returns without dropping the guard.
ReturnKeepsLock(c) ==
    /\ Goto(c, "closing", "idle")
    /\ lock' = IF answer[c].ok THEN None ELSE lock
    /\ IF answer[c].ok /\ op[c].kind \in Writes THEN Settle(op[c]) ELSE UNCHANGED acked
    /\ UNCHANGED <<sessions, details, op, answer, calls, faulted>>

\* The guard is dropped and the call returns.
Return(c) ==
    /\ Goto(c, "closing", "idle")
    /\ lock' = None
    /\ IF answer[c].ok /\ op[c].kind \in Writes THEN Settle(op[c]) ELSE UNCHANGED acked
    /\ UNCHANGED <<sessions, details, op, answer, calls, faulted>>

\* The process dies and is started again: the committed statements stay.
Crash ==
    /\ "crash" \in Faults
    /\ lock' = None
    /\ pc' = [c \in Clients |-> "idle"]
    /\ faulted' = TRUE
    /\ UNCHANGED <<sessions, details, op, answer, calls, acked>>

Step(c) ==
    \/ Acquire(c) \/ Open(c) \/ OpenFails(c)
    \/ InsertSummary(c) \/ InsertDetails(c) \/ ClearDetails(c) \/ ClearSummaries(c)
    \/ Load(c) \/ List(c) \/ StatementFails(c) \/ Return(c)

Next == Crash \/ \E c \in Clients : Call(c) \/ Step(c)

Spec == Init /\ [][Next]_vars

\* Every thread runs on; a crash is not owed.
FairSpec == Spec /\ \A c \in Clients : WF_vars(Step(c))
-----------------------------------------------------------------------------
Rows(V) == [Ids -> V]
Answer == [ok : BOOLEAN, rows : SUBSET (Ids \X Versions)]
Steps == {"idle", "queued", "opening", "first", "second", "closing"}

TypeOK ==
    /\ sessions \in Rows(Versions \cup {None})
    /\ details \in Rows(Versions \cup {None})
    /\ lock \in Clients \cup {None}
    /\ pc \in [Clients -> Steps]
    /\ op \in [Clients -> Op]
    /\ answer \in [Clients -> Answer]
    /\ calls \in [Clients -> Nat]
    /\ acked \in Rows(Versions \cup {None, Unknown})
    /\ faulted \in BOOLEAN

\* What the answers so far say of an id is what both tables hold of it, through
\* any later failure of another operation or death of the process: an
\* acknowledged insert stays whole until the next write of that id begins, and
\* an acknowledged clear leaves nothing, not even half rows of earlier failures.
AckedIsDurable ==
    \A id \in Ids : acked[id] # Unknown => sessions[id] = acked[id] /\ details[id] = acked[id]

\* A detail row never outlives its summary (the foreign key, and the order of
\* the statements on either side of it): nothing is stored that no list shows.
DetailNeedsSummary ==
    \A id \in Ids : details[id] # None => sessions[id] # None

\* A read that succeeds shows exactly the acknowledged sessions among those not
\* in doubt, summaries and details alike.
ReadsSeeAcked ==
    \A c \in Clients : pc[c] = "closing" /\ op[c].kind \in {"load", "list"} /\ answer[c].ok =>
        \A id \in op[c].ids : acked[id] # Unknown =>
            \A v \in Versions : <<id, v>> \in answer[c].rows <=> acked[id] = v

\* Every call returns, however the others fail.
EveryCallReturns == \A c \in Clients : pc[c] = "queued" ~> pc[c] = "idle"

(***************************************************************************)
(* As long as the only failures are those of opening the database, the two *)
(* tables are one: the details, written last and deleted first.            *)
(***************************************************************************)
Stage(c) ==
    CASE pc[c] = "idle" -> "idle"
      [] pc[c] = "closing" -> "applied"
      [] pc[c] = "second" /\ op[c].kind = "clear" -> "applied"
      [] OTHER -> "called"

\* A clear has its effect, and so its answer, one statement before it returns.
AnswerBar(c) == IF pc[c] = "second" /\ op[c].kind = "clear" THEN Done ELSE answer[c]

Table == INSTANCE SessionTable WITH
    tab    <- details,
    stage  <- [c \in Clients |-> Stage(c)],
    answer <- [c \in Clients |-> AnswerBar(c)]

\* Until a statement fails or the process dies, the two tables behind the lock
\* are the one table the trait promises: clients cannot tell that a write is two
\* statements, whatever they call at the same time and however often opening the
\* database fails.
IsOneTable == Table!Init /\ [][faulted' \/ Table!Next]_(Table!vars)
=============================================================================
