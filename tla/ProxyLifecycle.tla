--------------------------- MODULE ProxyLifecycle ---------------------------
(***************************************************************************)
(* Starting and stopping the proxy: AppState.start_proxy and stop_proxy    *)
(* (apps/desktop/src-tauri/src/state.rs), the task each start spawns and   *)
(* its accept loop, ProxyServer::run (crates/core/src/proxy.rs).           *)
(*                                                                         *)
(* AppState.proxy holds the handle of the running server.  start_proxy     *)
(* keeps the mutex for its whole body, so it is one step; it does not wait *)
(* for the spawned task to bind the port, and a bind that fails is only    *)
(* logged.  stop_proxy takes the handle out, lets the mutex go, and then   *)
(* sends the shutdown signal and waits for the task.                       *)
(***************************************************************************)
EXTENDS Naturals

CONSTANTS
    Callers,   \* commands in flight at once
    Servers,   \* the tasks the starts spawn; bound: one per start
    Ports,     \* the ports asked for
    None,      \* nobody
    Foreign,   \* another process of the machine
    MaxConns   \* bound: handler tasks of one server

ASSUME LifecycleAssumption ==
    /\ None \notin Servers
    /\ Foreign \notin Servers
    /\ None # Foreign
    /\ MaxConns \in Nat

VARIABLES
    slot,      \* AppState.proxy: the server whose handle it holds
    phase,     \* each task: "none", "spawned", "listening", "failed", "stopped"
    port,      \* the port each server was started on
    told,      \* servers whose shutdown channel was signalled
    owner,     \* who listens on each port
    conns,     \* handler tasks each server has spawned and that still run
    pc, mine,  \* each caller of stop_proxy: its step and the handle it took
    overlap,   \* history: a stop on the port was in progress when the server started
    blocker    \* history: who held the port when the server failed to bind, None if nobody

vars == <<slot, phase, port, told, owner, conns, pc, mine, overlap, blocker>>

Init ==
    /\ slot = None
    /\ phase = [s \in Servers |-> "none"]
    /\ port \in [Servers -> Ports]
    /\ told = {}
    /\ owner \in [Ports -> {None, Foreign}]
    /\ conns = [s \in Servers |-> 0]
    /\ pc = [c \in Callers |-> "idle"]
    /\ mine = [c \in Callers |-> None]
    /\ overlap = {}
    /\ blocker = [s \in Servers |-> None]

Live(s) == phase[s] \in {"spawned", "listening"}

Stopping(s) == \E c \in Callers : mine[c] = s

\* Mutant: a second start is not refused.
FreeAnyway == TRUE

\* start_proxy refuses while a handle is held.
Free == slot = None

\* start_proxy: the handle is in place before the task has run.
Start(s) ==
    /\ Free
    /\ phase[s] = "none"
    /\ slot' = s
    /\ phase' = [phase EXCEPT ![s] = "spawned"]
    /\ \E p \in Ports :
         /\ port' = [port EXCEPT ![s] = p]
         /\ overlap' = IF \E t \in Servers : Stopping(t) /\ port[t] = p
                       THEN overlap \cup {s} ELSE overlap
    /\ UNCHANGED <<told, owner, conns, pc, mine, blocker>>

\* TcpListener::bind succeeds.
Bind(s) ==
    /\ phase[s] = "spawned"
    /\ owner[port[s]] = None
    /\ phase' = [phase EXCEPT ![s] = "listening"]
    /\ owner' = [owner EXCEPT ![port[s]] = s]
    /\ UNCHANGED <<slot, port, told, conns, pc, mine, overlap, blocker>>

\* BindFailed: run returns the error, the task logs it and ends.  The port may be
\* taken, but the system may as well refuse a free one.
BindFails(s) ==
    /\ phase[s] = "spawned"
    /\ phase' = [phase EXCEPT ![s] = "failed"]
    /\ blocker' = [blocker EXCEPT ![s] = owner[port[s]]]
    /\ UNCHANGED <<slot, port, told, owner, conns, pc, mine, overlap>>

\* listener.accept; select! may still choose it after the shutdown signal.  An
\* accept that fails is logged and the loop goes on.
Accept(s) ==
    /\ phase[s] = "listening"
    /\ conns[s] < MaxConns
    /\ conns' = [conns EXCEPT ![s] = @ + 1]
    /\ UNCHANGED <<slot, phase, port, told, owner, pc, mine, overlap, blocker>>

\* A handler task ends with its connection, whatever became of the server.
Close(s) ==
    /\ conns[s] > 0
    /\ conns' = [conns EXCEPT ![s] = @ - 1]
    /\ UNCHANGED <<slot, phase, port, told, owner, pc, mine, overlap, blocker>>

\* Mutant: the loop drains its connections first.
MayFinishDrained(s) == s \in told /\ conns[s] = 0

\* The accept loop breaks on the signal; the handler tasks are detached.
MayFinish(s) == s \in told

\* The loop breaks and the listener is dropped.
Finish(s) ==
    /\ phase[s] = "listening"
    /\ MayFinish(s)
    /\ phase' = [phase EXCEPT ![s] = "stopped"]
    /\ owner' = [owner EXCEPT ![port[s]] = None]
    /\ UNCHANGED <<slot, port, told, conns, pc, mine, overlap, blocker>>

\* Mutant: the handle is borrowed, not taken.
TakeKeeps(c) ==
    /\ pc[c] = "idle"
    /\ slot # None
    /\ mine' = [mine EXCEPT ![c] = slot]
    /\ pc' = [pc EXCEPT ![c] = "signalling"]
    /\ UNCHANGED <<slot, phase, port, told, owner, conns, overlap, blocker>>

\* Mutant: an empty slot is not noticed.
TakeUnchecked(c) ==
    /\ pc[c] = "idle"
    /\ mine' = [mine EXCEPT ![c] = slot]
    /\ slot' = None
    /\ pc' = [pc EXCEPT ![c] = "signalling"]
    /\ UNCHANGED <<phase, port, told, owner, conns, overlap, blocker>>

\* stop_proxy: guard.take, and the guard is dropped.
Take(c) ==
    /\ pc[c] = "idle"
    /\ slot # None
    /\ mine' = [mine EXCEPT ![c] = slot]
    /\ slot' = None
    /\ pc' = [pc EXCEPT ![c] = "signalling"]
    /\ UNCHANGED <<phase, port, told, owner, conns, overlap, blocker>>

\* ProxyHandle.stop: shutdown_tx.send; a task that is gone does not mind.
Signal(c) ==
    /\ pc[c] = "signalling"
    /\ told' = told \cup {mine[c]}
    /\ pc' = [pc EXCEPT ![c] = "waiting"]
    /\ UNCHANGED <<slot, phase, port, owner, conns, mine, overlap, blocker>>

\* Mutant: the task is not awaited.
EndedAnyway(s) == TRUE

\* The task has returned.
Ended(s) == phase[s] \in {"failed", "stopped"}

\* self.task.await returns, and stop_proxy with it.
StopReturns(c) ==
    /\ pc[c] = "waiting"
    /\ Ended(mine[c])
    /\ pc' = [pc EXCEPT ![c] = "idle"]
    /\ mine' = [mine EXCEPT ![c] = None]
    /\ UNCHANGED <<slot, phase, port, told, owner, conns, overlap, blocker>>

\* Another process takes or leaves a port.
ForeignMoves(p) ==
    /\ owner[p] \in {None, Foreign}
    /\ owner' = [owner EXCEPT ![p] = IF @ = None THEN Foreign ELSE None]
    /\ UNCHANGED <<slot, phase, port, told, conns, pc, mine, overlap, blocker>>

Next ==
    \/ \E s \in Servers : \/ Start(s) \/ Bind(s) \/ BindFails(s)
                          \/ Accept(s) \/ Close(s) \/ Finish(s)
    \/ \E c \in Callers : Take(c) \/ Signal(c) \/ StopReturns(c)
    \/ \E p \in Ports : ForeignMoves(p)

Spec == Init /\ [][Next]_vars

\* The runtime polls every task that can run: a spawned task binds or fails, an
\* accept loop that is told to stop ends (select! picks its branch at random),
\* a stop goes on.  Nobody owes a start, a connection or its end.
FairSpec ==
    /\ Spec
    /\ \A s \in Servers : WF_vars(Bind(s) \/ BindFails(s)) /\ WF_vars(Finish(s))
    /\ \A c \in Callers : WF_vars(Signal(c)) /\ WF_vars(StopReturns(c))
-----------------------------------------------------------------------------
TypeOK ==
    /\ slot \in Servers \cup {None}
    /\ phase \in [Servers -> {"none", "spawned", "listening", "failed", "stopped"}]
    /\ port \in [Servers -> Ports]
    /\ told \subseteq Servers
    /\ owner \in [Ports -> Servers \cup {None, Foreign}]
    /\ conns \in [Servers -> 0..MaxConns]
    /\ pc \in [Callers -> {"idle", "signalling", "waiting"}]
    /\ mine \in [Callers -> Servers \cup {None}]
    /\ overlap \subseteq Servers
    /\ blocker \in [Servers -> Servers \cup {None, Foreign}]

\* No listener is ever out of reach: a task that accepts connections, or is
\* about to, is the one the next stop_proxy will take or one that a stop_proxy
\* still waits for.  So once every stop has returned at most one port is open.
ListenersAreHeld == \A s \in Servers : Live(s) => slot = s \/ Stopping(s)

\* The proxy never takes its own port away from itself, unless a start was made
\* before a stop of the same port had returned: one command after the other, a
\* restart on the same port never fails because of the application's own listener.
OwnBlockNeedsOverlap ==
    \A s, t \in Servers : blocker[s] = t => s \in overlap \/ t \in overlap

\* An occupied slot refuses every start until a stop.  Its server listens or is
\* about to, or its bind failed by itself, for whatever reason: no stop, however
\* it meets a start, leaves behind a handle of a server that is gone.
DeadSlotNeedsFailedBind ==
    slot # None /\ ~Live(slot) => phase[slot] = "failed" /\ slot \notin told

\* stop_proxy returns, though connections stay open for as long as clients like.
StopReturnsInTheEnd ==
    \A c \in Callers : pc[c] = "signalling" ~> pc[c] = "idle"
=============================================================================
