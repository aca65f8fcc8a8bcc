---------------------------- MODULE SavedRequests ----------------------------
(***************************************************************************)
(* What the desktop makes of captured sessions: replays (replay.rs),       *)
(* collections (store.rs) and export files (export.rs), each through a     *)
(* command of apps/desktop/src-tauri/src/commands.rs.                      *)
(*                                                                         *)
(* Commands run concurrently on the runtime.  Each reads its sessions in   *)
(* one operation of the store and uses later what it read.  An operation   *)
(* of the store runs under the connection lock; all but the addition to a  *)
(* collection, which reads and then writes, are one step here (SqliteStore *)
(* has their statements).  Of the headers the sensitive ones are kept.     *)
(***************************************************************************)
EXTENDS Naturals, Sequences

CONSTANTS
    Slots,        \* commands that may be in flight
    Collections,  \* ids of collections
    Missing,      \* no row, no file, no holder of the lock
    MaxSessions,  \* bound: sessions captured or replayed
    MaxCommands,  \* bound: commands the user gives
    MaxSeconds    \* bound: the clock, in seconds

Ids == 1..MaxSessions
Seconds == 0..MaxSeconds
Kinds == {"http", "connect", "websocket"}

\* What a peer may put in a sensitive header, and what may be stored of it.
Sent == {"absent", "secret"}
Headers == Sent \cup {"<redacted>"}

Session == [kind : Kinds, request : Headers, response : Headers]
Item == [session : Ids, headers : Headers]

ASSUME SavedAssumption ==
    /\ Missing \notin Slots \cup Seq(Item)
    /\ MaxSessions \in Nat /\ MaxCommands \in Nat /\ MaxSeconds \in Nat

VARIABLES
    sessions,     \* sessions[n]: the session stored by id n
    taken,        \* how many ids are taken
    collections,  \* collections[c]: the items of collection c
    deleted,      \* ids of collections that were deleted
    files,        \* files[s]: the export file named after second s
    now,          \* the second it is
    command,      \* command[i]: what slot i is doing
    lock,         \* the slot that is inside an addition
    given,        \* how many commands were given
    added,        \* history: added[c], the items whose addition to c was reported
    writes        \* history: every export written, in order

vars == <<sessions, taken, collections, deleted, files, now, command, lock, given, added, writes>>

stored == <<sessions, taken, collections, deleted>>
history == <<added, writes>>

Init ==
    /\ sessions = [n \in Ids |-> Missing] /\ taken = 0
    /\ collections = [c \in Collections |-> Missing] /\ deleted = {}
    /\ files = [s \in Seconds |-> Missing] /\ now = 0
    /\ command = [i \in Slots |-> [op |-> "idle"]]
    /\ lock = Missing /\ given = 0
    /\ added = [c \in Collections |-> <<>>] /\ writes = <<>>
-----------------------------------------------------------------------------
\* Mutant: the header is stored as it came.
RedactNothing(header) == header

\* Mutant: the header is blanked and not marked.
RedactToBlank(header) == IF header = "secret" THEN "blank" ELSE header

\* redact_header, of a sensitive name.
Redact(header) == IF header = "secret" THEN "<redacted>" ELSE header

\* What a handler records: of a tunnel no headers, of a WebSocket the request's.
Record(kind, request, response) ==
    [kind     |-> kind,
     request  |-> IF kind = "connect" THEN "absent" ELSE Redact(request),
     response |-> IF kind = "http" THEN Redact(response) ELSE "absent"]

\* The mutex of the store is free.
Unlocked == lock = Missing

\* insert_session, of a session with an id of its own.
Insert(session) ==
    /\ Unlocked
    /\ taken < MaxSessions /\ taken' = taken + 1
    /\ sessions' = [sessions EXCEPT ![taken + 1] = session]

\* A handler stores what it captured.
Capture(kind, request, response) ==
    /\ Insert(Record(kind, request, response))
    /\ UNCHANGED <<collections, deleted, files, now, command, lock, given, history>>

Tick ==
    /\ now < MaxSeconds /\ now' = now + 1
    /\ UNCHANGED <<stored, files, command, lock, given, history>>

Count == given < MaxCommands /\ given' = given + 1
-----------------------------------------------------------------------------
\* Commands that are one operation of the store: clear_sessions, ...
ClearSessions ==
    /\ Unlocked /\ Count
    /\ sessions' = [n \in Ids |-> Missing]
    /\ UNCHANGED <<taken, collections, deleted, files, now, command, lock, history>>

\* ... save_collection, which the panel calls with a new id and no items, ...
SaveCollection(c) ==
    /\ Unlocked /\ Count
    /\ collections[c] = Missing /\ c \notin deleted
    /\ collections' = [collections EXCEPT ![c] = <<>>]
    /\ UNCHANGED <<sessions, taken, deleted, files, now, command, lock, history>>

\* ... and delete_collection.
DeleteCollection(c) ==
    /\ Unlocked /\ Count
    /\ collections[c] # Missing \/ c \in deleted
    /\ collections' = [collections EXCEPT ![c] = Missing]
    /\ deleted' = deleted \cup {c}
    /\ UNCHANGED <<sessions, taken, files, now, command, lock, history>>
-----------------------------------------------------------------------------
\* A command of several steps is given to a free slot.
Give(i, what) ==
    /\ Count
    /\ command[i].op = "idle"
    /\ command' = [command EXCEPT ![i] = what]
    /\ UNCHANGED <<stored, files, now, lock, history>>

At(i, op) == command[i].op = op

Goes(i, what) == command' = [command EXCEPT ![i] = what]

\* The command is over.
Ends(i) == Goes(i, [op |-> "idle"])

\* A step fails: the store, the upstream or the disk.  The command reports it;
\* a lock it held is released and nothing it was about to write is written.
Fail(i) ==
    /\ ~At(i, "idle")
    /\ Ends(i)
    /\ lock' = IF lock = i THEN Missing ELSE lock
    /\ UNCHANGED <<stored, files, now, given, history>>

\* replay_session: get_session, and the request is sent as it is stored.  What
\* is gone, or was no plain exchange, is not replayable.
ReadToReplay(i) ==
    LET session == sessions[command[i].id]
    IN  /\ Unlocked /\ At(i, "replay")
        /\ IF session # Missing /\ session.kind = "http"
           THEN Goes(i, [op |-> "send", session |-> session])
           ELSE Ends(i)
        /\ UNCHANGED <<stored, files, now, lock, given, history>>

\* What is stored of a replay: its request again, and the response as it came.
Replayed(session, response) ==
    [kind |-> "http", request |-> session.request, response |-> response]

\* The upstream answers, and the replay is stored.
StoreReplay(i, response) ==
    /\ At(i, "send")
    /\ Insert(Replayed(command[i].session, response))
    /\ Ends(i)
    /\ UNCHANGED <<collections, deleted, files, now, lock, given, history>>

\* export_sessions: get_sessions_by_ids, which passes over what is gone.
ReadToExport(i) ==
    /\ Unlocked /\ At(i, "export")
    /\ Goes(i, [op |-> "write",
                content |-> {sessions[n] : n \in {m \in command[i].ids : sessions[m] # Missing}}])
    /\ UNCHANGED <<stored, files, now, lock, given, history>>

\* write_export_file names the file after the second.
File == now

\* The file is created, or emptied, and written, unless that is cut off.
WriteExport(i, whole) ==
    /\ At(i, "write")
    /\ files' = [files EXCEPT ![File] = [whole |-> whole, content |-> command[i].content]]
    /\ writes' = Append(writes, [second |-> now, file |-> files'[File]])
    /\ Ends(i)
    /\ UNCHANGED <<stored, now, lock, given, added>>

\* CollectionItem::from_session, the fields that say what was saved.
SavedItem(n, session) == [session |-> n, headers |-> session.request]

\* add_session_to_collection: get_session, in an operation of its own.
ReadToAdd(i) ==
    LET id == command[i].id
    IN  /\ Unlocked /\ At(i, "add")
        /\ IF sessions[id] # Missing
           THEN Goes(i, [op |-> "load", collection |-> command[i].collection,
                         item |-> SavedItem(id, sessions[id])])
           ELSE Ends(i)
        /\ UNCHANGED <<stored, files, now, lock, given, history>>

\* Mutant: the collection is loaded outside of the lock it is stored under.
HeldByNone(i) == Missing

\* The lock is held from load_collection to upsert_collection.
HeldBy(i) == i

\* load_collection; a collection that is gone is an error.
LoadCollection(i) ==
    LET items == collections[command[i].collection]
    IN  /\ Unlocked /\ At(i, "load")
        /\ IF items # Missing
           THEN /\ lock' = HeldBy(i)
                /\ Goes(i, [op |-> "upsert", collection |-> command[i].collection,
                            items |-> Append(items, command[i].item)])
           ELSE UNCHANGED lock /\ Ends(i)
        /\ UNCHANGED <<stored, files, now, given, history>>

\* upsert_collection, and the addition is reported.
UpsertCollection(i) ==
    LET c == command[i].collection
        items == command[i].items
    IN  /\ At(i, "upsert")
        /\ collections' = [collections EXCEPT ![c] = items]
        /\ added' = [added EXCEPT ![c] = Append(@, items[Len(items)])]
        /\ lock' = Missing
        /\ Ends(i)
        /\ UNCHANGED <<sessions, taken, deleted, files, now, given, writes>>

Commands(i) ==
    \/ \E n \in Ids :
           \/ Give(i, [op |-> "replay", id |-> n])
           \/ \E c \in Collections : Give(i, [op |-> "add", collection |-> c, id |-> n])
    \/ \E ids \in SUBSET Ids : Give(i, [op |-> "export", ids |-> ids])

Steps(i) ==
    \/ Fail(i)
    \/ ReadToReplay(i) \/ \E response \in Sent : StoreReplay(i, response)
    \/ ReadToExport(i) \/ \E whole \in BOOLEAN : WriteExport(i, whole)
    \/ ReadToAdd(i) \/ LoadCollection(i) \/ UpsertCollection(i)

Next ==
    \/ \E kind \in Kinds, request, response \in Sent : Capture(kind, request, response)
    \/ Tick \/ ClearSessions
    \/ \E c \in Collections : SaveCollection(c) \/ DeleteCollection(c)
    \/ \E i \in Slots : Commands(i) \/ Steps(i)

Spec == Init /\ [][Next]_vars
-----------------------------------------------------------------------------
ExportFile == [whole : BOOLEAN, content : SUBSET Session]

CommandState ==
    [op : {"idle"}]
    \cup [op : {"replay"}, id : Ids]
    \cup [op : {"send"}, session : Session]
    \cup [op : {"export"}, ids : SUBSET Ids]
    \cup [op : {"write"}, content : SUBSET Session]
    \cup [op : {"add"}, collection : Collections, id : Ids]
    \cup [op : {"load"}, collection : Collections, item : Item]
    \cup [op : {"upsert"}, collection : Collections, items : Seq(Item)]

TypeOK ==
    /\ sessions \in [Ids -> Session \cup {Missing}]
    /\ taken \in 0..MaxSessions
    /\ collections \in [Collections -> Seq(Item) \cup {Missing}]
    /\ deleted \subseteq Collections
    /\ files \in [Seconds -> ExportFile \cup {Missing}]
    /\ now \in Seconds
    /\ command \in [Slots -> CommandState]
    /\ lock \in Slots \cup {Missing}
    /\ given \in 0..MaxCommands
    /\ added \in [Collections -> Seq(Item)]
    /\ writes \in Seq([second : Seconds, file : ExportFile])

\* "Sensitive headers are redacted by default": no request header that was
\* captured is kept in the clear, by a session, by a replay however often
\* repeated, in a collection or in an export.
RequestsStayRedacted ==
    /\ \A n \in Ids : sessions[n] # Missing => sessions[n].request # "secret"
    /\ \A c \in Collections : collections[c] # Missing =>
           \A k \in DOMAIN collections[c] : collections[c][k].headers # "secret"
    /\ \A s \in Seconds : files[s] # Missing =>
           \A session \in files[s].content : session.request # "secret"

\* A collection holds what was reported as added to it, each once and in order,
\* until it is deleted; then it stays deleted, whatever was under way.
AddsAreKept ==
    \A c \in Collections :
        /\ collections[c] # Missing => collections[c] = added[c]
        /\ c \in deleted => collections[c] = Missing

\* An export stays as it was written, until it is written over by one that was
\* written within the same second.
ExportsAreKept ==
    \A k \in DOMAIN writes :
        \/ files[writes[k].second] = writes[k].file
        \/ \E l \in DOMAIN writes : l # k /\ writes[l].second = writes[k].second

\* README.md: "Exported content is intended to stay redacted."
ExportsAreRedacted ==
    \A s \in Seconds : files[s] # Missing =>
        \A session \in files[s].content : "secret" \notin {session.request, session.response}
=============================================================================
