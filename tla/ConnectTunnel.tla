---------------------------- MODULE ConnectTunnel ----------------------------
(***************************************************************************)
(* CONNECT requests: handle_connect, tunnel and mitm_connection in         *)
(* crates/core/src/proxy.rs, the HttpsMitmState they consult and its       *)
(* certificate resolver (crates/core/src/security.rs), and the desktop's   *)
(* commands on it (apps/desktop/src-tauri/src/state.rs).                   *)
(*                                                                         *)
(* A handler decides under the https_mitm mutex whether the tunnel will be *)
(* decrypted, spawns a task that awaits the upgrade, records the session   *)
(* as completed and answers 200; only then is the client's connection      *)
(* handed to the task.  The desktop keeps the mutex while it loads or      *)
(* generates the root CA (RootCa), and the resolver, which cannot wait,    *)
(* only tries it.  The process may end at any point and start again.       *)
(* The requests inside a decrypted tunnel are those of HttpExchange.       *)
(***************************************************************************)
EXTENDS RootCa

CONSTANTS
    Tunnels,   \* CONNECT requests
    None,      \* nobody, nothing
    Desktop,   \* the desktop's command, as a holder of the mutex
    MaxBytes   \* bound: what one tunnel carries

\* What may be decided for a tunnel.
Modes == {"mitm", "blind"}

ASSUME TunnelAssumption ==
    /\ None \notin Tunnels \cup Nat \cup Modes
    /\ Desktop \notin Tunnels \cup {None}
    /\ MaxBytes \in Nat

VARIABLES
    enabled,         \* HttpsMitmState: decryption is on
    chosen,          \* history: the user has switched decryption on in this process
    holder, job,     \* who holds the https_mitm mutex, and the desktop's command
    pc,              \* each handler
    mode,            \* what it decided for its tunnel
    task,            \* the task it spawned
    carried,         \* the bytes the tunnel has carried
    recorded,        \* the byte count of the stored session, None before
    announced        \* tunnels whose event was sent

vars == <<caVars, enabled, chosen, holder, job, pc, mode, task, carried, recorded, announced>>
mitm == <<caVars, enabled, chosen, job>>
tunnels == <<pc, mode, task, carried, recorded, announced>>

Jobs == {"status", "generate", "enable", "disable"}

Init ==
    /\ CaInit
    /\ enabled = FALSE /\ chosen = FALSE
    /\ holder = None /\ job = "status"
    /\ pc = [x \in Tunnels |-> "idle"]
    /\ mode = [x \in Tunnels |-> None]
    /\ task = [x \in Tunnels |-> "none"]
    /\ carried = [x \in Tunnels |-> 0]
    /\ recorded = [x \in Tunnels |-> None]
    /\ announced = {}

Goto(x, from, to) == pc[x] = from /\ pc' = [pc EXCEPT ![x] = to]
TaskGoto(x, from, to) == task[x] = from /\ task' = [task EXCEPT ![x] = to]
-----------------------------------------------------------------------------
\* A command takes the mutex: proxy_status, https_mitm_status, ensure_root_ca,
\* set_https_mitm_enabled.
DesktopLocks ==
    /\ holder = None /\ holder' = Desktop
    /\ job' \in Jobs
    /\ IF job' \in {"generate", "enable"} THEN Ensure ELSE UNCHANGED step
    /\ UNCHANGED <<cert, key, bundle, made, torn, told, enabled, chosen, tunnels>>

\* ensure_root_ca runs under the mutex.
DesktopEnsures ==
    /\ holder = Desktop
    /\ EnsureStep
    /\ UNCHANGED <<enabled, chosen, holder, job, tunnels>>

\* What the command does to the switch: without a root CA, nothing.
Effect ==
    \/ job \in {"status", "generate"} /\ UNCHANGED <<enabled, chosen>>
    \/ job = "enable" /\ Ready /\ enabled' = TRUE /\ chosen' = TRUE
    \/ job = "enable" /\ ~Ready /\ UNCHANGED <<enabled, chosen>>
    \/ job = "disable" /\ enabled' = FALSE /\ UNCHANGED chosen

\* Mutant: a command whose root CA cannot be had keeps the mutex.
DesktopKeeps ==
    /\ holder = Desktop
    /\ step = "idle"
    /\ Effect
    /\ holder' = IF job = "generate" /\ ~Ready THEN Desktop ELSE None
    /\ UNCHANGED <<caVars, job, tunnels>>

DesktopUnlocks ==
    /\ holder = Desktop /\ holder' = None
    /\ step = "idle"
    /\ Effect
    /\ UNCHANGED <<caVars, job, tunnels>>

\* The application ends and starts anew: decryption is off, no CA is loaded, and
\* the connections it had are gone.
Restart ==
    /\ LoseProcess
    /\ enabled' = FALSE /\ chosen' = FALSE
    /\ holder' = None
    /\ pc' = [x \in Tunnels |-> IF pc[x] \in {"idle", "done", "failed"} THEN pc[x] ELSE "dropped"]
    /\ task' = [x \in Tunnels |-> IF task[x] = "none" THEN "none" ELSE "ended"]
    /\ mode' = [x \in Tunnels |-> None]
    /\ UNCHANGED <<job, carried, recorded, announced>>
-----------------------------------------------------------------------------
\* The CONNECT request names its target.
Receive(x) ==
    /\ Goto(x, "idle", "deciding")
    /\ UNCHANGED <<mitm, holder, mode, task, carried, recorded, announced>>

\* No authority and no host: 500.
RejectTarget(x) ==
    /\ Goto(x, "idle", "failed")
    /\ UNCHANGED <<mitm, holder, mode, task, carried, recorded, announced>>

\* https_mitm.lock().await.
Acquire(x) ==
    /\ holder = None /\ holder' = x
    /\ Goto(x, "deciding", "holding")
    /\ UNCHANGED <<mitm, mode, task, carried, recorded, announced>>

\* Mutant: the switch is not asked.
UseMitmWhenReady == Ready

\* use_mitm.
UseMitm == enabled /\ Ready

\* Mutant: a third mode, which no task knows, when only the CA is there.
ModeInspect == IF UseMitm THEN "mitm" ELSE IF Ready THEN "inspect" ELSE "blind"

Mode == IF UseMitm THEN "mitm" ELSE "blind"

\* The decision is made, the mutex released, the task spawned.
Decide(x) ==
    /\ holder' = None
    /\ mode' = [mode EXCEPT ![x] = Mode]
    /\ TaskGoto(x, "none", "upgrading")
    /\ Goto(x, "holding", "storing")
    /\ UNCHANGED <<mitm, carried, recorded, announced>>

\* The session is finished and stored; its byte counts are those it began with.
Store(x) ==
    /\ Goto(x, "storing", "announcing")
    /\ recorded' = [recorded EXCEPT ![x] = 0]
    /\ UNCHANGED <<mitm, holder, mode, task, carried, announced>>

\* Mutant: the failure is only logged.
StoreFailsLogged(x) ==
    /\ Goto(x, "storing", "announcing")
    /\ UNCHANGED <<mitm, holder, mode, task, carried, recorded, announced>>

\* insert_session failed: 500, and the upgrade will not come.
StoreFails(x) ==
    /\ Goto(x, "storing", "failed")
    /\ UNCHANGED <<mitm, holder, mode, task, carried, recorded, announced>>

Announce(x) ==
    /\ announced' = announced \cup {x}
    /\ Goto(x, "announcing", "replying")
    /\ UNCHANGED <<mitm, holder, mode, task, carried, recorded>>

\* 200.
Reply(x) ==
    /\ Goto(x, "replying", "done")
    /\ UNCHANGED <<mitm, holder, mode, task, carried, recorded, announced>>

\* The client hangs up while the handler waits for the mutex.
Hangup(x) ==
    /\ Goto(x, "deciding", "dropped")
    /\ UNCHANGED <<mitm, holder, mode, task, carried, recorded, announced>>
-----------------------------------------------------------------------------
\* upgrade.await: hyper hands the connection over once 200 is written.
MayStart(x) == pc[x] = "done"

Upgraded(x) ==
    /\ MayStart(x)
    /\ TaskGoto(x, "upgrading", IF mode[x] = "mitm" THEN "handshaking" ELSE "connecting")
    /\ UNCHANGED <<mitm, holder, pc, mode, carried, recorded, announced>>

\* The handler answered an error, or the client has gone.
UpgradeFails(x) ==
    /\ pc[x] \in {"done", "failed"}
    /\ TaskGoto(x, "upgrading", "ended")
    /\ UNCHANGED <<mitm, holder, pc, mode, carried, recorded, announced>>

\* TcpStream::connect in tunnel.
Connect(x) ==
    /\ TaskGoto(x, "connecting", "copying")
    /\ UNCHANGED <<mitm, holder, pc, mode, carried, recorded, announced>>

\* copy_bidirectional moves bytes in either direction.
Carry(x) ==
    /\ task[x] = "copying"
    /\ carried[x] < MaxBytes
    /\ carried' = [carried EXCEPT ![x] = @ + 1]
    /\ UNCHANGED <<mitm, holder, pc, mode, task, recorded, announced>>

\* MitmCertResolver.resolve: try_lock, and a bundle that can be parsed.
Resolvable == holder = None /\ Ready /\ Cut \notin {bundle.cert, bundle.key}

\* The resolver has the mutex and makes a certificate.
Resolve(x) ==
    /\ Resolvable
    /\ holder' = x
    /\ TaskGoto(x, "handshaking", "certifying")
    /\ UNCHANGED <<mitm, pc, mode, carried, recorded, announced>>

\* It lets the mutex go.  The client verifies the certificate, and requests
\* follow, or turns it down.
Certify(x) ==
    /\ holder' = None
    /\ \/ TaskGoto(x, "certifying", "serving") /\ Usable
       \/ TaskGoto(x, "certifying", "ended")
    /\ UNCHANGED <<mitm, pc, mode, carried, recorded, announced>>

\* The resolver returned None.
Uncertified(x) ==
    /\ ~Resolvable
    /\ TaskGoto(x, "handshaking", "uncertified")
    /\ UNCHANGED <<mitm, holder, pc, mode, carried, recorded, announced>>

\* The upstream is unreachable, a peer ends or breaks its side, the client names
\* no server: the task ends, at most with a warning.
End(x) ==
    /\ task[x] \in {"connecting", "copying", "handshaking", "serving"}
    /\ task' = [task EXCEPT ![x] = "ended"]
    /\ UNCHANGED <<mitm, holder, pc, mode, carried, recorded, announced>>

Handler(x) ==
    Acquire(x) \/ Decide(x) \/ Store(x) \/ StoreFails(x) \/ Announce(x) \/ Reply(x)

Task(x) ==
    \/ Upgraded(x) \/ UpgradeFails(x) \/ Connect(x) \/ Carry(x)
    \/ Resolve(x) \/ Certify(x) \/ Uncertified(x) \/ End(x)

Next ==
    \/ DesktopLocks \/ DesktopEnsures \/ DesktopUnlocks \/ Restart
    \/ \E x \in Tunnels : Receive(x) \/ RejectTarget(x) \/ Hangup(x) \/ Handler(x) \/ Task(x)

Spec == Init /\ [][Next]_vars

\* Handlers, commands and the resolver run on; tokio's Mutex serves its waiters in order, so
\* one that keeps waiting gets it although the desktop keeps asking.
FairSpec ==
    /\ Spec
    /\ WF_vars(DesktopEnsures \/ DesktopUnlocks)
    /\ \A x \in Tunnels : SF_vars(Acquire(x)) /\ WF_vars(Handler(x)) /\ WF_vars(Certify(x))
-----------------------------------------------------------------------------
TypeOK ==
    /\ CaTypeOK
    /\ enabled \in BOOLEAN /\ chosen \in BOOLEAN
    /\ holder \in Tunnels \cup {Desktop, None}
    /\ job \in Jobs
    /\ pc \in [Tunnels -> {"idle", "deciding", "holding", "storing", "announcing",
                           "replying", "done", "failed", "dropped"}]
    /\ mode \in [Tunnels -> Modes \cup {None}]
    /\ task \in [Tunnels -> {"none", "upgrading", "connecting", "copying", "handshaking",
                             "certifying", "serving", "uncertified", "ended"}]
    /\ carried \in [Tunnels -> 0..MaxBytes]
    /\ recorded \in [Tunnels -> {0, None}]
    /\ announced \subseteq Tunnels

\* No tunnel goes anywhere unseen: before a task dials the upstream or shakes
\* hands with the client, its session is stored and announced.
TunnelsAreRecorded ==
    \A x \in Tunnels : task[x] \notin {"none", "upgrading", "ended"} \/ carried[x] > 0 =>
        recorded[x] # None /\ x \in announced

\* "HTTPS MITM is off by default": no tunnel is decrypted unless the user has
\* switched it on since the application was started, generating a root CA not
\* being enough, and then there is a root CA to sign with, however long the
\* decision lies back.  Nor does the switch ever show on without one.
DecryptionWasChosen ==
    /\ \A x \in Tunnels : mode[x] = "mitm" => chosen /\ Ready
    /\ enabled => Ready

\* Every CONNECT is answered or was abandoned by its client, although the
\* desktop may hold the mutex for as long as a key takes to generate.
EveryConnectSettles ==
    \A x \in Tunnels : pc[x] = "deciding" ~> pc[x] \in {"done", "failed", "dropped"}
=============================================================================
