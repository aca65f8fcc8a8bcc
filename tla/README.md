# RustNetLens in TLA+

TLA+ models of RustNetLens, the runs that check them with TLC on small instances, and proofs, checked by
TLAPS, of what matters most for every instance. Source files are named relative to the repository's root;
the modules are translated from the code, and quote a document only where a property states what that
document says of the program.

## 1. The system

RustNetLens is a capturing HTTP proxy (`crates/core`) in a Tauri desktop application
(`apps/desktop/src-tauri`) with a React window (`apps/desktop/src`). All shared state hangs off `AppState`.

| Component | State | Operations | Made hard by | Correct when |
|---|---|---|---|---|
| Rule engine, `rules.rs` | `RwLock<Vec<Rule>>`, sorted by priority and id | `set_rules`, `validate_rule`, `apply_request`, `apply_response`, `run_script`, `maybe_delay` | two readings per exchange, overwrites along the walk, scripts | a pass over the vector means what the table means |
| HTTP handler, `proxy.rs` `handle_http` | one `CapturedSession` per request | the whole life of a request, plain or inside a decrypted tunnel | a hangup at any await, failures in the middle, rules changing under way | record, event, wire and answer agree |
| Session store, `store.rs` | SQLite: `sessions`, `session_details`; `conn_lock` | insert, update, get, get by ids, list, overview, clear | statements without a transaction, crashes, concurrent callers | acknowledged means durable; one table to its callers |
| Rule persistence, `commands.rs` | SQLite `rules`, and the engine's vector | `save_rule`, `delete_rule`, load at start | three steps per command, no lock across them | the engine runs what is stored |
| Event feed, `state.rs` | `broadcast` channel of 1024, forwarding task | `send` by handlers, `recv` and `emit` by the task | overflow, overwriting under the receiver | each event is shown, once and in order |
| Proxy lifecycle, `state.rs`, `proxy.rs` `run` | `Option<ProxyHandle>`, the server task, its listener | `start_proxy`, `stop_proxy`, accept, shutdown | bind in a task nobody awaits, overlapping commands | no listener without a handle; a stop ends it |
| WebSocket relay, `proxy.rs` | a session shared by two relays | upgrade, two frame loops, `join!`, store | two directions fail or end apart | delivery in order; capture agrees with delivery |
| CONNECT and decryption, `proxy.rs`, `security.rs` | `Mutex<HttpsMitmState>`, one task per tunnel | `handle_connect`, `tunnel`, `mitm_connection`, resolver, the CA commands | a switch racing the decision, `try_lock` against holders | decrypted only when chosen; recorded before carried |
| Root CA, `security.rs` | two PEM files, one bundle | load, generate, leaf certificates | a crash between the two writes | never signs with half a CA |
| Queries, `store.rs` | none | filters, overview, buckets | filter after `LIMIT`, boundaries | figures are what they are called |
| Collections, `store.rs`, `state.rs` | `collections` table | save, delete, add a session | read, modify, write | no addition is lost, nothing deleted comes back |
| Replay, `replay.rs`; export, `export.rs`; redaction, `capture.rs` | export files | replay, export, `redact_headers` | copies of copies, files named after a second | a secret stays out of every copy; a file stays as written |
| Window, `App.tsx` | React state | event listener, list, detail, overview, clear, replay | answers out of order, callbacks that close over an old filter | shows what is stored, selected and let pass by the filter |

How they interact: the window invokes commands, which lock parts of `AppState`. `start_proxy` spawns the
server task, it spawns a handler per connection. A handler reads the engine (twice), calls the store (once)
and sends to the broadcast channel (once); the forwarding task turns events into window events; the window
loads details back from the store. A CONNECT handler spawns a task that either copies bytes or serves TLS
and calls `handle_http` again for what is inside. The store's mutex and the `https_mitm` mutex are the two
places where handlers and commands wait for each other. Replays, additions to collections and exports are
commands that read sessions in one operation of the store and use them in a later one.

The hazards, each at its line and with the properties that would catch it, are in `PROJECT.json`.

## 2. Modules

| Module | Models | Proofs |
|---|---|---|
| `RuleEngine` | matching, precedence and the result of a pass, as set operators | used by the next two |
| `RuleFold` | the engine's vector as it is sorted, copied, walked and replaced, against `RuleEngine` | `RuleProofs` |
| `HttpExchange` | `handle_http`, its clients and upstreams, and the desktop changing rules and clearing the list | `HttpExchangeProofs` |
| `CaptureContract` | what the desktop may rely on of each exchange; `HttpExchange` implements it | |
| `SqliteStore` | the store's operations statement by statement | `SqliteStoreProofs` |
| `SessionTable` | one atomic table; `SqliteStore` implements it | |
| `SessionQuery` | what a list and an overview answer of the rows | what lists and overviews answer, in `DesktopViewProofs` |
| `RuleSync` | the rule commands between database and engine | `RuleProofs` |
| `EventFeed` | the channel, its slots and the forwarding task | `DesktopViewProofs` |
| `DesktopView` | the window, over `EventFeed` and `SessionQuery` | `DesktopViewProofs` |
| `ProxyLifecycle` | start, stop, bind, accept, shutdown | `ProxyLifecycleProofs` |
| `WsRelay` | one WebSocket from upgrade to record | `WsRelayProofs` |
| `RootCa` | the root CA's bundle and its two files | `ConnectTunnelProofs` |
| `ConnectTunnel` | CONNECT handlers, their tasks, and the commands on the decryption switch, over `RootCa` | `ConnectTunnelProofs` |
| `SavedRequests` | replays, collections and exports of captured sessions | `SavedRequestsProofs` |

`HttpExchange` composes the rule engine's operators with the store seen from the handler (`rows`: nothing,
a summary, all) and with the desktop's actions. `DesktopView` composes the window with the feed and with what
the store answers; `ConnectTunnel` composes the tunnels with the CA their certificates are signed with.
`MC_X.tla` and `MC_X*.cfg` give the constants of module `X` their values. Definitions named in a comment
`Mutant:` are plausible mistakes in the definition that follows them; nothing uses them but the mutation
check described by `PROJECT.json`.

### From code to actions

*`RuleEngine`, `RuleFold`.* A rule is a record of what the engine tells apart: id, enabled, priority, the
targets it accepts (url, method and host matchers together), the status matcher, the action's type and
value, and for a script the set of keys it returns in each phase. `Latest` of the hits stands for "the last
assignment along the walk wins". `RuleFold` has the vector itself. `SetRules` is the sort, of whatever `load_rules` lists
(`Listing`); a pass takes a copy (`BeginPass`), each iteration of the loop with its overwrites is a step (`VisitNext`), and so
is each of `merge_headers` (`MergeNext`), while commands may replace the table (`Save`, `Delete`). Rhai is abstracted to its result. A script's integers are lost:
Rhai's integers are `i64`, the code casts to `u64`, so `Delays` has no script in it and `MockStatus` of a
script is 200. Order and multiplicity of `matched_rule_ids` are left to `RuleFold` (`WalkIsPass`);
`HttpExchange` has them as a set.

*`HttpExchange`.* `pc[x]` is the place in `handle_http`; one action for each stretch between two awaits or
with an outcome of its own. `session[x]` is the `CapturedSession`, its header fields abstracted to the set of
rules that wrote them. Each early return is an action (`RejectTarget`, `BodyFails`, `RefuseForward`,
`UpstreamFails`, `StoreFails`), answered as `internal_error` does. `Hangup` is hyper dropping the handler at
an await; the store's call is synchronous behind its `async fn` and cannot be dropped in the middle. The same
module stands for decrypted requests, which reach `handle_http` with another scheme. Left out: bodies,
previews, redaction, gRPC metadata, trailers (they go the way of the headers).

*`SqliteStore`.* Each client walks `with_conn`: queue, lock, open, one or two statements, unlock. An insert
writes `sessions`, then `session_details`; a clear deletes the details, then the sessions, which cascades.
Each statement commits by itself. `Faults` selects what may fail. `acked` and `faulted` are history.

*`RuleSync`.* A command is `Begin`, `Refuse` (validation) or `Write`, `List` or `ListFails`, `Install`;
`Restart` loads the engine from the database. `delete_rule` is a write of `None`. `past`, `raced`, `missed`
are history.

*`EventFeed`.* `Send` stores in slot `n % Capacity`, `Recv` takes the next event, `Lag` is
`RecvError::Lagged`, which ends `while let Ok`. The channel is external and modelled as the code uses it: a
receiver that is more than `Capacity` behind is told so.

*`SessionQuery`, `DesktopView`.* `ListSessions` is `load_sessions`: cut by `LIMIT` (`Recent`: what has fewer than `Limit`
newer ones), filtered, newest first. `Overview` is `load_traffic_overview`: durations sorted, their sum as a recursive
function, a `div_ceil` as in the code, buckets sorted and cut. Each sort is an enumeration by rank (`Sorted`: the n-th is
the one with n - 1 before it), so that it can be reasoned about. Sums are taken to stay within `u64`. The window's state is `filter`, `list`, `selected`, `detail`, `overview`. A command is asked for (`Reload`, `Select`,
`Hear`), served at one instant under the store's lock (`Serve`, `ServeFails`) and delivered later (`Deliver`,
`DeliverError`), in any order, since Tauri commands run concurrently and React takes each answer as it comes.
`Hear` is the listener: the session goes on top of the list whatever the filter (`Prepended`: without its earlier place,
cut to `Limit`), and the overview is loaded anew. The Clear button is three steps (`Clear`, `ClearDeletes`, `ClearReturns`).
A replay is in flight from `Replay` to `ReplayReturns` or `ReplayFails`. What it does when it returns closes over the filter of the
click (`replays` remembers it): it loads the list for that filter, which need not be the one set any more, and only when that
is answered the overview (`Chained`). `race` remembers which views had loads that overlapped, failed, or met an event or a
clear, and "filter" if a replay listed by a filter set before, so the properties can say: without that, the view is right.

*`ProxyLifecycle`.* `Start` puts the handle in place; `Bind` or `BindFails` happens in the task, and a bind may fail on a free
port too (no permission, no descriptors left); `Accept` and `Close` are connections, and an accept that fails changes nothing,
since the loop goes on; `Take`, `Signal`, `StopReturns` are the three steps of a stop; `Finish` is the `select!` taking the
shutdown branch. `ForeignMoves` is another process on the port.

*`WsRelay`.* `Read`, `Write`, their ends and failures for each direction; `Joined`, `Finish`, `Store`,
`Announce` after both. `captured` is one sequence for both directions, `CapturedOf` the positions of one. A frame is its kind; the byte-level reader is abstracted to whole frames, a clean end
before a frame, and a failure within one (an end after the first of the two header bytes counts as clean in
the code, and is a clean end here).

*`RootCa`.* `Ensure` is `ensure_root_ca`: a bundle that is there is kept, otherwise `Load` takes the two files
when both exist and the steps after `LoadNone` write them anew. Each `fs::write` is two steps, emptying and filling
(`CreateCert`, `FillCert`, `CreateKey`, `FillKey`), and may fail or be cut off at each. What is read is not parsed,
as in the code, before a leaf has to be signed (`Usable`).

*`ConnectTunnel`.* The handler from target to 200, and the task it spawns; the mutex as `holder`. The
desktop's commands (`https_mitm_status`, `ensure_root_ca`, `set_https_mitm_enabled`, and the status that
`proxy_status` includes) hold it while they work. The resolver takes it with `try_lock` (`Resolve`,
`Uncertified`) and keeps it while it makes the certificate. `Restart` ends the process anywhere, in the middle
of a write included, and starts it anew.

*`SavedRequests`.* A command sits in a slot: `ReadToReplay` and `StoreReplay`; `ReadToAdd`, `LoadCollection` and
`UpsertCollection`, the last two under the store's lock; `ReadToExport` and `WriteExport`. Each may fail between
its steps (`Fail`). A session is its kind and what its sensitive headers hold: absent, a secret, or
"<redacted>". `Capture` redacts as the handlers do, `Replayed` keeps the response as it came, as `replay_session`
does. An export's file is named after the second.

## 3. Runs

| Run | States | Question |
|---|---|---|
| `rule_fold` | 411 k | Does the walk compute what the operators say, for every table of up to three rules of seven kinds, however listed and while it is replaced? |
| `http_exchange` | 277 k | Do record, event, wire and answer agree for two exchanges while tables change and the list is cleared? Does each settle? |
| `sqlite_store` | 717 k | Is an acknowledged write durable, is the store one table, does every call return? |
| `rule_sync` | 121 k | What may the engine hold, and when may it differ from the database? |
| `desktop_view` | 499 k | When are list, detail and overview right, beside replays, clears and failures? When does the list fit the filter set? Does the window hear the events in order, and what ends the feed? |
| `proxy_lifecycle` | 896 k | Can a listener get out of reach, can the proxy block itself, what leaves a slot occupied in vain, does a stop return? |
| `ws_relay` | 180 k | Are frames delivered in order, captured as delivered, recorded once; does the task end? |
| `connect_tunnel` | 348 k | Is anything carried unrecorded or decrypted unasked; can the CA sign, and is it the one installed; is each CONNECT settled? |
| `saved_requests` | 608 k | Do secrets stay out of every copy of a request, are additions lost? |

Three runs end in a violation: the program does not do what the repository says of it.

| Run | Statement | What TLC shows |
|---|---|---|
| `rule_sync_race` | `docs/rule-engine.md`: "Save applies immediately." | two saves overlap, the older listing is installed last |
| `desktop_list` | `RequestTable.tsx`: "No sessions yet." | the first list is asked for with empty strings as conditions; no method equals the empty string, so the answer is empty whatever is stored |
| `saved_requests_redaction` | `README.md`: "Exported content is intended to stay redacted" | a replay stores `Set-Cookie` as it came, an export writes it |

### Bounds, and why they are enough

- Two clients, callers, exchanges or tunnels: the races are between two actors and the desktop, and state is
  kept per actor. A third adds only repetitions of the same pairwise orders.
- `sqlite_store`: two ids for loads that meet one whole and one half row, two versions to see an old detail
  under a new summary, two calls each so that a call follows another's failure.
- `rule_fold`: the run starts with any table; one replacement before, during or after a pass.
- `rule_sync`: four commands between restarts; a race takes two, and two more come after.
- `desktop_view`: one slot and two events, so that one event can overwrite the other; a session of an earlier run and a list of
  two, so that three sessions overflow it; one bucket, so that others are cut; two loads in flight, which is what it takes
  for them to overtake one another; one replay in flight and two commands or failures beside it: a session is selected and
  replayed, and the filter changes before the replay returns. `desktop_list` has one more session and room for it.
- `saved_requests`: two commands in flight, three in all, one collection, two sessions, so that a replay is
  replayed or exported beside its original; two seconds.
- `connect_tunnel`: one byte, two CAs: a second one is what a user would notice. The process may end any number of
  times.
- `proxy_lifecycle`: three starts, two stops, two ports: a start during a stop of the same or another port, and
  one after both. One connection per server is enough to outlive a stop.
- `ws_relay`: two frames from each peer, of two kinds or close: a frame can follow a close.
- Rule tables of `http_exchange`: rewrites, a delay and a script in one; mocks of both phases, one with an
  invalid status, and a disabled rule in another; and the empty table. Ids recur with other actions.

Symmetry is declared only in runs without temporal properties (`rule_sync`, `saved_requests`). `CHECK_DEADLOCK FALSE` stands
where the system really stops: all calls made, all tunnels over, all commands given. `HttpExchange` and `RuleSync` never stop
(the desktop can always act), and deadlock is checked there.

### Fairness, and why the code justifies it

- A spawned task is polled while it can run: weak fairness of `Step`, `Task`, `Relay`, `Bind`, `Signal`.
- The forwarding task and the window's event loop run on, and commands answer: weak fairness of `Forward`, `Hear` and `Answering`
  together, which asks only that one of them goes on while one can. Each uses up an event or an answer, so while the user's
  commands are finitely many none keeps the others waiting.
- A command that holds the `https_mitm` mutex computes and returns, whatever becomes of its files: weak fairness of
  `DesktopEnsures` and `DesktopUnlocks`.
- tokio's `Mutex` serves waiters in order: strong fairness of `Acquire` in `ConnectTunnel`. The store's
  `std::sync::Mutex` promises no order; callers there are finitely many and each makes finitely many calls, so
  weak fairness of each client's step is enough.
- `select!` in `run` picks at random among ready branches: weak fairness of `Finish`, even under a stream of
  connections.
- `HttpExchange` assumes that bodies and upstreams end or fail: the code sets no timeout. Clients need not hang up.
- `WsRelay` assumes that a write gets through or fails; peers need not send, end or answer.

A crash, a restart, a failure, a lag, a user's command and a hangup are never owed.

## 4. Proofs

All theorems hold for every value of the constants, from the named assumptions only (`PoolAssumption`,
`TablesAssumption`, `UpstreamAssumption`, `StoreAssumption`, and their likes, which TLC evaluates as well).

**`HttpExchangeProofs`.** `IInv` says at each step of the handler what the record, the plan and the upstream
hold: what `apply_request` planned is what was sent and what is recorded, a mock in the plan excludes having
asked, nothing is stored or announced before its step. The safety invariants follow from it, two of them
(`MockShortCircuits`, `FailureIsSilent`) proved and not run; none is inductive alone, since each speaks of the last steps and depends on what earlier ones left. `RecordsAreFinalAlways` is
an action property from the same invariant. `Refinement` shows `HttpExchange` implements `CaptureContract`.
`HitsAskNoStatusAlways` states what the clone at `proxy.rs:484` costs: since a session has no status before it is closed
(`StatusComesLast`), no rule with a status matcher is ever among those matched, in either pass and for any tables.

**`SqliteStoreProofs`.** The strengthening is mutual exclusion in terms of rows: who is inside the lock is
alone, between its two statements its ids are in doubt, and about to answer Ok both tables hold what it will
be said to have written. From it `AckedIsDurable`, `DetailNeedsSummary` and `ReadsSeeAcked` (proved and not run).
`Refinement` is `IsOneTable`, the store as `SessionTable`: each step of a client is a step of the table at the statement
that makes its effect visible, or a stutter. It needs `TablesAgree`: until something fails, the two tables differ only
in the ids of a client that is inside the lock and between its statements. `LockIsInUse`: the mutex is held by a call
that is under way or by nobody, so no failure leaves the others waiting.

**`RuleProofs`.** The commands first. Every listing is a table of the past; whoever is about to install carries either the
present table or one made stale by a write that set `raced`; an engine that differs while nobody is under way
is explained by `raced` or `missed`. `SaveAppliesOneByOne` adds an assumption the program does not meet, that a command begins
only when the one before it has returned, and proves the statement that `rule_sync_race` refutes.

Then the engine. `WalkIsPass` compares a walk from first to last with operators on sets, so the invariant says what the
walk has found so far: which of the places visited hit, each reported once and in order (`HitsInOrder`), and that the
last place to ask for something is the one followed (`LastOnePrevails`), the header as far as it is merged
(`HeaderFollows`). It needs the copy to be sorted, which is `SetRulesSorts`: a rule's place is the number of rules up to it, so
no two share one and all are taken; and that over a sorted table the last place is the latest rule
(`LatestIsFinal`). `WalkIsPassAlways` holds for any rules, listed in any order, replaced at any time.

**`ProxyLifecycleProofs`.** A taken handle is held by its stop until the task has ended; owners of ports listen;
two live servers of one application overlap with a stop. From it `ListenersAreHeld` and `OwnBlockNeedsOverlap`.
`DeadSlotNeedsFailedBind`: a slot whose server neither listens nor is about to, which refuses every start, is one whose bind
failed, whatever the error. So stops, however they meet starts, leave no dead handle behind. It needs that a handle leaves
the slot before its server is touched (`SlotIsUntouched`).

**`ConnectTunnelProofs`.** For the tunnels `RecordedFirst` (whatever a handler or its task has come to, the
record was written before) and `SwitchWasChosen` (the switch is only on when chosen, with a CA loaded, and a
decision made while it was on stays backed by both). For the CA `CaSound`: short of a torn write, the files follow
the step of the generation (`FilesFollowStep`), whatever the user was told of is on file (`ToldIsFiled`), and the
bundle is what the files hold (`BundleIsFiled`). The invariant is stated over both modules' variables because a restart
disturbs both. `MutexIsInUse` is the discipline of the mutex, both ways: whoever is at a step that needs it holds it,
and whoever holds it is at such a step.

**`SavedRequestsProofs`.** The invariant follows the data through the commands: what a slot carries between its
read and its write is redacted; the items about to be stored are those of the collection, extended by one, as
long as the slot holds the lock; a deleted collection is never the one being stored. For exports, what is in a
file is the last write of its second. `ExportsAreRedactedIfRepliesAre` proves the statement that `saved_requests_redaction`
refutes, for a world in which no replay is answered with a sensitive header: there is no other way for a secret into
an export. `LockIsInUse` is the store's lock once more, held over a collection's read and write.

**`WsRelayProofs`.** The record says what the two relays came to (`RecordFollows`), and per direction (`Progress`) the
frames captured are those taken, in the places they were sent in; what was delivered is what was taken, less the one
being written or lost; and no frame is taken after a close. The two directions append to one capture:
`CaptureKeepsPlaces` is the lemma that another direction's frame moves none of this one's. `RecordIsFinal` and
`RelayIsFaithful` follow, for any number of frames and any set of kinds. `RecordIsKept` is an action property (proved
and not run): the capture grows at its end only, and nothing late touches the record or its row.

**`DesktopViewProofs`.** First the feed. The last `Capacity` events sent are in their slots as long as anyone receives
(`WindowIsKept`; two events share a slot only a whole channel apart, `SlotsApart`), and the receiver stands just behind what
was emitted (`PositionIsKnown`). So an overrun receiver is behind by more than the channel: `EmittedInOrder`. `FeedRuns`
shows that the window leaves the feed its steps, so what is proved of it alone holds beside the window.

Then the window. What a load in flight will deliver has to be known before it is delivered, and only the last load
asked for decides what is shown. So for each view (`DetailInv`, `OverviewInv`, `ListInv`): unless the view's loads raced, at
most one is in flight (`Alone`); a served load carries what is still true of the store; and with none in flight the
view shows it. For the list this is `Covers`: nothing that is gone, and either `Limit` sessions or all that is stored,
less what is yet to be heard of and what the filter left out when the list was loaded (`hidden`). The invariant of
the list rests on lemmas about the operators: an enumeration by rank has each member once (`InOrderEnumerates`), `LIMIT`
leaves at most `Limit` and, short of that, everything (`RecentIsCapped`, `ListIsOfStored`), the listener's list has the
new session once and drops one only when it is full (`PrependedFits`). The loads in flight are a bag, and `Asking`,
`Serving`, `Delivering` and `Dropping` say what each step does to it. `DetailNeedsRace`, `OverviewNeedsRace` and `ListNeedsRace` are
proved for any `Limit`, any finite set of sessions and any number of loads in flight: the bound `MaxLoads` is a guard that the
proofs do not use.

`ListFitsFilter` compares the list with the filter set, for any filters. Its invariant (`FitInv`): unless the loads of the list raced or
a replay listed by another filter, a list in flight was asked for by the filter set; once served, it has only what passes and has left
out only what does not pass or has `Limit` newer sessions (`ListLeavesOutOld`); and with none in flight that is true of the list and of
`hidden`. A session stored later was never left out and only adds to the newer ones, and one that is heard of need not pass.
So an empty list means that of what the window has heard of nothing passes its filter, or only what is old; under `emptyFilter`, by
which nothing passes, that is what `desktop_list` shows. A replay that lists by an old filter is a cause the code has: without
`"filter"` in `race`, TLC finds `ListFitsFilter` violated.

Last the figures, for any number of sessions. `SortedEnumerates` says of an enumeration by rank that each member has one place, and
what is before it an earlier one. From it `ListLeavesOutOld` (what a list leaves out has `Limit` newer sessions), `PercentileCovers` (at least as
many of every hundred as asked for are no larger than the percentile) and `LargestBucketsAreShown`. The average needs a
sum, which is a recursive function: of the numbers of values for which there were none, or for which it were out of bounds, take the
least (`LeastNatural`, from the library's well-foundedness of the naturals), and it is not one after all (`SumExists`,
`SumIsBetween`, `AverageIsBetween`). `FiguresAreSound` puts them together; it needs of the window's state only its type, whose part `Lists` says that
no page has a session twice.

The three runs that end in a violation each refute a statement for the instance they check; the two theorems with a
hypothesis (`SaveAppliesOneByOne`, `ExportsAreRedactedIfRepliesAre`) prove it once one cause is
taken away, and so that there is no second one. Their hypotheses are not claimed of the program.

Only model-checked: the liveness properties, since fairness and `ENABLED` are beyond the prover. Every invariant and
action property that a passing run checks is a theorem as well. `FiguresAreSound` and `ExportsAreKept` are only proved: one concerns
a single page of any length, the other a file's name, and no order of steps decides either.

## 5. Observations

Met while modelling, part of the models, and not stated as a run of their own:

- A session whose second statement fails, or whose process dies between the two, is listed but cannot be
  loaded: the fallback decodes `{}` as a preview with a mandatory size (`store.rs` `load_session`).
- The forwarding task takes `Lagged` for the end of the channel and stops for good (`state.rs:52`).
- A script's `delay_ms` and mock status never take effect (`rules.rs:245`).
- No rule with a status matcher ever hits (`HitsAskNoStatusAlways`): the response pass gets a clone of the session made before its status is
  assigned (`proxy.rs:484`), while `docs/rule-engine.md:32` lists `status` among the match fields.
- A start is reported before the bind, which may fail in a task nobody asks (`state.rs:109`); the window says
  "Proxy listening at ..." (`App.tsx:107`).
- A CONNECT's record has the byte counts of the moment it was made, zero (`proxy.rs:672`), where
  `docs/demo-script.md:19` expects counts.
- A CA whose files exist and are broken is loaded and shown as ready; only the first handshake fails. Files that
  are missing or cannot be read are generated anew without a word, and the installed CA is no longer the one in use.
- A replay that returns after the filter was changed loads the list for the old filter (`App.tsx:242` closes over the
  `loadSessions` of the click), and the window shows it under the new one (`ListFitsFilter`).
- A filter applies to the newest 500 sessions only (`ListLeavesOutOld`), and events enter the list whatever the filter.
- Two exports within a second go to one file (`export.rs:67`).
- A replay sends the captured preview of a body, cut if the preview was, and stores that preview with its original
  size beside the count of the bytes really sent (`replay.rs:49`).
- The window passes `collection_id` and `session_id` to commands (`tauri.ts`); Tauri expects command arguments in
  camel case unless told otherwise. The models take the commands as the Rust side defines them.
- When a WebSocket client goes while its upstream stays open and silent, the task waits on and the captured
  frames are not stored (`proxy.rs:811`). The upgrade request itself is never sent upstream.
- An unreachable upstream of a WebSocket leaves no record (`proxy.rs:787`); an unreachable CONNECT target is recorded
  Completed.
- The certificate resolver turns a handshake down when the mutex is held (`security.rs:248`).
- The window lists rules by creation time within a priority, the engine runs them by id.

## 6. Not modelled, and the plan

Not modelled: formatting and rendering (`export.rs`, `App.tsx` layout), decompression and text heuristics
(`capture.rs`), TLS and certificate contents, gRPC metadata, error types, application wiring; of the window the
status, rules and collections panels, which load and replace one value each; `resolve_server_cert` and
`update_session`, which nothing calls apart from what is modelled already.

What comes next:

1. `FrameCodec`: header lengths of WebSocket frames against the reader's arithmetic.
2. Header lists with duplicate names and their merge (`rules.rs:330`).
