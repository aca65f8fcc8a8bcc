------------------------- MODULE SavedRequestsProofs -------------------------
(***************************************************************************)
(* What replays, collections and exports guarantee for any number of       *)
(* sessions, collections and commands in flight: no captured request       *)
(* header leaves its redaction, no reported addition is lost, an export is *)
(* only ever replaced by one of the same second, and nobody leaves the     *)
(* lock behind. The answers to replays are the only way a secret gets into *)
(* an export (ExportsAreRedactedIfRepliesAre).                             *)
(***************************************************************************)
EXTENDS SavedRequests, TLAPS

\* What a command in flight has read is redacted as what it was read from.
ReadIsRedacted(state) ==
    /\ state.op = "send" => state.session.request # "secret"
    /\ state.op = "write" => \A session \in state.content : session.request # "secret"
    /\ state.op = "load" => state.item.headers # "secret"
    /\ state.op = "upsert" => \A k \in DOMAIN state.items : state.items[k].headers # "secret"

CommandsAreRedacted == \A i \in Slots : ReadIsRedacted(command[i])

\* A command that is about to store a collection holds the lock, and stores the
\* collection as it is with one item more.
Extends(i) ==
    LET c == command[i].collection
    IN  /\ lock = i
        /\ collections[c] # Missing
        /\ \E item \in Item : command[i].items = Append(collections[c], item)

UpsertsAreLocked == \A i \in Slots : command[i].op = "upsert" => Extends(i)

\* Nothing was added to a collection that is still to be saved.
UnsavedIsEmpty ==
    \A c \in Collections : collections[c] = Missing /\ c \notin deleted => added[c] = <<>>

\* RequestsStayRedacted needs to know what is on its way into a row or a file,
\* AddsAreKept that a collection does not change between its load and upsert.
IInv ==
    /\ TypeOK
    /\ RequestsStayRedacted /\ CommandsAreRedacted
    /\ AddsAreKept /\ UpsertsAreLocked /\ UnsavedIsEmpty
    /\ ExportsAreKept

\* The fields a command carries at each of its steps.
LEMMA Carries ==
    ASSUME NEW state \in CommandState
    PROVE  /\ state.op = "replay" => state.id \in Ids
           /\ state.op = "send" => state.session \in Session
           /\ state.op = "export" => state.ids \in SUBSET Ids
           /\ state.op = "write" => state.content \in SUBSET Session
           /\ state.op = "add" => state.collection \in Collections /\ state.id \in Ids
           /\ state.op = "load" => state.collection \in Collections /\ state.item \in Item
           /\ state.op = "upsert" => state.collection \in Collections /\ state.items \in Seq(Item)
  BY DEF CommandState

\* What a command may become.
LEMMA Becomes ==
    /\ [op |-> "idle"] \in CommandState
    /\ \A n \in Ids : [op |-> "replay", id |-> n] \in CommandState
    /\ \A session \in Session : [op |-> "send", session |-> session] \in CommandState
    /\ \A ids \in SUBSET Ids : [op |-> "export", ids |-> ids] \in CommandState
    /\ \A content \in SUBSET Session : [op |-> "write", content |-> content] \in CommandState
    /\ \A c \in Collections, n \in Ids : [op |-> "add", collection |-> c, id |-> n] \in CommandState
    /\ \A c \in Collections, item \in Item :
           [op |-> "load", collection |-> c, item |-> item] \in CommandState
    /\ \A c \in Collections, items \in Seq(Item) :
           [op |-> "upsert", collection |-> c, items |-> items] \in CommandState
  BY DEF CommandState

\* A command is given as one of three.
LEMMA Starts ==
    ASSUME NEW i \in Slots, Commands(i)
    PROVE  \E what \in CommandState :
               Give(i, what) /\ what.op \in {"replay", "export", "add"}
  <1>1. ASSUME NEW what, what \in CommandState, what.op \in {"replay", "export", "add"}, Give(i, what)
        PROVE  \E w \in CommandState : Give(i, w) /\ w.op \in {"replay", "export", "add"}
    BY <1>1
  <1>2. ASSUME NEW n \in Ids, Give(i, [op |-> "replay", id |-> n])
        PROVE  \E w \in CommandState : Give(i, w) /\ w.op \in {"replay", "export", "add"}
    BY <1>1, <1>2, Becomes
  <1>3. ASSUME NEW n \in Ids, NEW c \in Collections,
               Give(i, [op |-> "add", collection |-> c, id |-> n])
        PROVE  \E w \in CommandState : Give(i, w) /\ w.op \in {"replay", "export", "add"}
    BY <1>1, <1>3, Becomes
  <1>4. ASSUME NEW ids \in SUBSET Ids, Give(i, [op |-> "export", ids |-> ids])
        PROVE  \E w \in CommandState : Give(i, w) /\ w.op \in {"replay", "export", "add"}
    BY <1>1, <1>4, Becomes
  <1> QED BY <1>2, <1>3, <1>4 DEF Commands

\* The application starts with the invariant established.
LEMMA InitIInv == Init => IInv
  <1> SUFFICES ASSUME Init PROVE IInv
    OBVIOUS
  <1> USE SavedAssumption DEF Init
  <1>1. TypeOK
    BY Becomes DEF TypeOK, Ids, Seconds
  <1>2. RequestsStayRedacted /\ CommandsAreRedacted
    BY DEF RequestsStayRedacted, CommandsAreRedacted, ReadIsRedacted
  <1>3. AddsAreKept /\ UpsertsAreLocked /\ UnsavedIsEmpty /\ ExportsAreKept
    BY DEF AddsAreKept, UpsertsAreLocked, UnsavedIsEmpty, ExportsAreKept
  <1> QED BY <1>1, <1>2, <1>3 DEF IInv

\* Every step keeps the types.
LEMMA TypeStep ==
    ASSUME IInv, [Next]_vars
    PROVE  TypeOK'
  <1> USE SavedAssumption DEF IInv
  <1>1. CASE UNCHANGED vars
    BY <1>1 DEF vars, stored, history, TypeOK
  <1>2. ASSUME NEW kind \in Kinds, NEW request \in Sent, NEW response \in Sent, Capture(kind, request, response)
        PROVE  TypeOK'
    <2>1. Record(kind, request, response) \in Session
      BY DEF Record, Redact, Session, Headers, Sent
    <2>2. taken + 1 \in Ids /\ taken + 1 \in 0..MaxSessions
      BY <1>2 DEF Capture, Insert, TypeOK, Ids
    <2> QED BY <1>2, <2>1, <2>2 DEF Capture, Insert, history, TypeOK
  <1>3. CASE Tick
    BY <1>3 DEF Tick, stored, history, TypeOK, Seconds
  <1>4. CASE ClearSessions
    BY <1>4, Becomes DEF ClearSessions, Count, history, TypeOK
  <1>5. ASSUME NEW c \in Collections, SaveCollection(c)
        PROVE  TypeOK'
    BY <1>5, Becomes DEF SaveCollection, Count, history, TypeOK
  <1>6. ASSUME NEW c \in Collections, DeleteCollection(c)
        PROVE  TypeOK'
    BY <1>6, Becomes DEF DeleteCollection, Count, history, TypeOK
  <1>7. ASSUME NEW i \in Slots, Commands(i)
        PROVE  TypeOK'
    <2>1. PICK what \in CommandState : Give(i, what)
      BY <1>7, Starts
    <2> QED BY <2>1 DEF Give, Count, stored, history, TypeOK
  <1>8. ASSUME NEW i \in Slots, Fail(i)
        PROVE  TypeOK'
    BY <1>8, Becomes DEF Fail, Ends, Goes, stored, history, TypeOK
  <1>9. ASSUME NEW i \in Slots, ReadToReplay(i)
        PROVE  TypeOK'
    <2>1. command[i].op = "replay" /\ command[i].id \in Ids
      BY <1>9, Carries DEF ReadToReplay, At, TypeOK
    <2> DEFINE session == sessions[command[i].id]
    <2>2. session # Missing => session \in Session
      BY <2>1 DEF TypeOK
    <2>3. command' \in [Slots -> CommandState]
      <3>1. CASE session # Missing /\ session.kind = "http"
        <4>1. [op |-> "send", session |-> session] \in CommandState
          BY <2>2, <3>1, Becomes
        <4> QED BY <1>9, <3>1, <4>1 DEF ReadToReplay, Goes, TypeOK
      <3>2. CASE ~(session # Missing /\ session.kind = "http")
        BY <1>9, <3>2, Becomes DEF ReadToReplay, Goes, Ends, TypeOK
      <3> QED BY <3>1, <3>2
    <2> QED BY <1>9, <2>3 DEF ReadToReplay, stored, history, TypeOK
  <1>10. ASSUME NEW i \in Slots, NEW response \in Sent, StoreReplay(i, response)
        PROVE  TypeOK'
    <2>1. command[i].session \in Session
      BY <1>10, Carries DEF StoreReplay, At, TypeOK
    <2>2. Replayed(command[i].session, response) \in Session
      BY <2>1 DEF Replayed, Session, Kinds, Headers
    <2>3. taken + 1 \in Ids /\ taken + 1 \in 0..MaxSessions
      BY <1>10 DEF StoreReplay, Insert, TypeOK, Ids
    <2> QED BY <1>10, <2>2, <2>3, Becomes DEF StoreReplay, Insert, Ends, Goes, history, TypeOK
  <1>11. ASSUME NEW i \in Slots, ReadToExport(i)
        PROVE  TypeOK'
    <2>1. command[i].ids \in SUBSET Ids
      BY <1>11, Carries DEF ReadToExport, At, TypeOK
    <2> DEFINE content == {sessions[n] : n \in {m \in command[i].ids : sessions[m] # Missing}}
    <2>2. content \in SUBSET Session
      BY <2>1 DEF TypeOK
    <2>3. [op |-> "write", content |-> content] \in CommandState
      BY <2>2, Becomes
    <2> QED BY <1>11, <2>3 DEF ReadToExport, Goes, stored, history, TypeOK
  <1>12. ASSUME NEW i \in Slots, NEW whole \in BOOLEAN, WriteExport(i, whole)
        PROVE  TypeOK'
    <2> DEFINE file == [whole |-> whole, content |-> command[i].content]
    <2>1. file \in ExportFile
      BY <1>12, Carries DEF WriteExport, At, TypeOK, ExportFile
    <2>2. files'[now] = file
      BY <1>12 DEF WriteExport, File, TypeOK
    <2>3. [second |-> now, file |-> files'[File]] \in [second : Seconds, file : ExportFile]
      BY <2>1, <2>2 DEF File, TypeOK
    <2>4. files' \in [Seconds -> ExportFile \cup {Missing}]
      BY <1>12, <2>1 DEF WriteExport, File, TypeOK
    <2>5. writes' \in Seq([second : Seconds, file : ExportFile])
      BY <1>12, <2>3 DEF WriteExport, TypeOK
    <2>6. command' \in [Slots -> CommandState]
      BY <1>12, Becomes DEF WriteExport, Goes, Ends, TypeOK
    <2> QED BY <1>12, <2>4, <2>5, <2>6 DEF WriteExport, stored, TypeOK
  <1>13. ASSUME NEW i \in Slots, ReadToAdd(i)
        PROVE  TypeOK'
    <2> DEFINE c == command[i].collection
               n == command[i].id
    <2>1. c \in Collections /\ n \in Ids
      BY <1>13, Carries DEF ReadToAdd, At, TypeOK
    <2>2. sessions[n] # Missing => SavedItem(n, sessions[n]) \in Item
      BY <2>1 DEF TypeOK, SavedItem, Item, Session
    <2>3. command' \in [Slots -> CommandState]
      <3>1. CASE sessions[n] # Missing
        <4>1. [op |-> "load", collection |-> c, item |-> SavedItem(n, sessions[n])] \in CommandState
          BY <2>1, <2>2, <3>1, Becomes
        <4> QED BY <1>13, <3>1, <4>1 DEF ReadToAdd, Goes, TypeOK
      <3>2. CASE sessions[n] = Missing
        BY <1>13, <3>2, Becomes DEF ReadToAdd, Goes, Ends, TypeOK
      <3> QED BY <3>1, <3>2
    <2> QED BY <1>13, <2>3 DEF ReadToAdd, stored, history, TypeOK
  <1>14. ASSUME NEW i \in Slots, LoadCollection(i)
        PROVE  TypeOK'
    <2> DEFINE c == command[i].collection
               item == command[i].item
    <2>1. c \in Collections /\ item \in Item
      BY <1>14, Carries DEF LoadCollection, At, TypeOK
    <2>2. collections[c] # Missing => Append(collections[c], item) \in Seq(Item)
      BY <2>1 DEF TypeOK
    <2>3. command' \in [Slots -> CommandState]
      <3>1. CASE collections[c] # Missing
        <4>1. [op |-> "upsert", collection |-> c, items |-> Append(collections[c], item)] \in CommandState
          BY <2>1, <2>2, <3>1, Becomes
        <4> QED BY <1>14, <3>1, <4>1 DEF LoadCollection, Goes, TypeOK
      <3>2. CASE collections[c] = Missing
        BY <1>14, <3>2, Becomes DEF LoadCollection, Goes, Ends, TypeOK
      <3> QED BY <3>1, <3>2
    <2> QED BY <1>14, <2>3 DEF LoadCollection, HeldBy, stored, history, TypeOK
  <1>15. ASSUME NEW i \in Slots, UpsertCollection(i)
        PROVE  TypeOK'
    <2> DEFINE c == command[i].collection
               items == command[i].items
    <2>1. command[i].op = "upsert" /\ c \in Collections /\ items \in Seq(Item)
      BY <1>15, Carries DEF UpsertCollection, At, TypeOK
    <2>2. items[Len(items)] \in Item
      BY <2>1 DEF UpsertsAreLocked, Extends, TypeOK
    <2>3. Append(added[c], items[Len(items)]) \in Seq(Item)
      BY <2>1, <2>2 DEF TypeOK
    <2>4. collections' \in [Collections -> Seq(Item) \cup {Missing}]
      BY <1>15, <2>1 DEF UpsertCollection, TypeOK
    <2>5. added' \in [Collections -> Seq(Item)]
      BY <1>15, <2>1, <2>3 DEF UpsertCollection, TypeOK
    <2> QED BY <1>15, <2>4, <2>5, Becomes DEF UpsertCollection, Goes, Ends, TypeOK
  <1> QED
    BY <1>1, <1>2, <1>3, <1>4, <1>5, <1>6, <1>7, <1>8, <1>9, <1>10, <1>11, <1>12, <1>13, <1>14, <1>15 DEF Next, Steps

\* Whatever a step stores was redacted, or was read from what was.
LEMMA RedactedStep ==
    ASSUME IInv, [Next]_vars
    PROVE  (RequestsStayRedacted /\ CommandsAreRedacted)'
  <1> USE DEF IInv
  <1>1. CASE UNCHANGED vars
    BY <1>1 DEF vars, stored, history, RequestsStayRedacted, CommandsAreRedacted, ReadIsRedacted
  <1>2. ASSUME NEW kind \in Kinds, NEW request \in Sent, NEW response \in Sent, Capture(kind, request, response)
        PROVE  (RequestsStayRedacted /\ CommandsAreRedacted)'
    <2>1. Record(kind, request, response).request # "secret"
      BY DEF Record, Redact
    <2>2. \A n \in Ids : sessions'[n] # Missing => sessions'[n].request # "secret"
      BY <1>2, <2>1 DEF Capture, Insert, TypeOK, RequestsStayRedacted
    <2> QED BY <1>2, <2>2 DEF Capture, history, RequestsStayRedacted, CommandsAreRedacted, ReadIsRedacted
  <1>3. CASE Tick
    BY <1>3 DEF Tick, stored, history, RequestsStayRedacted, CommandsAreRedacted, ReadIsRedacted, TypeOK
  <1>4. CASE ClearSessions
    BY <1>4 DEF ClearSessions, Count, history, RequestsStayRedacted, CommandsAreRedacted, ReadIsRedacted, TypeOK
  <1>5. ASSUME NEW c \in Collections, SaveCollection(c)
        PROVE  (RequestsStayRedacted /\ CommandsAreRedacted)'
    BY <1>5 DEF SaveCollection, Count, history, RequestsStayRedacted, CommandsAreRedacted, ReadIsRedacted, TypeOK
  <1>6. ASSUME NEW c \in Collections, DeleteCollection(c)
        PROVE  (RequestsStayRedacted /\ CommandsAreRedacted)'
    BY <1>6 DEF DeleteCollection, Count, history, RequestsStayRedacted, CommandsAreRedacted, ReadIsRedacted, TypeOK
  <1>7. ASSUME NEW i \in Slots, Commands(i)
        PROVE  (RequestsStayRedacted /\ CommandsAreRedacted)'
    <2>1. PICK what \in CommandState : Give(i, what) /\ what.op \in {"replay", "export", "add"}
      BY <1>7, Starts
    <2> QED BY <2>1 DEF Give, stored, history, RequestsStayRedacted, CommandsAreRedacted, ReadIsRedacted, TypeOK
  <1>8. ASSUME NEW i \in Slots, Fail(i)
        PROVE  (RequestsStayRedacted /\ CommandsAreRedacted)'
    BY <1>8 DEF Fail, Ends, Goes, stored, history, RequestsStayRedacted, CommandsAreRedacted, ReadIsRedacted, TypeOK
  <1>9. ASSUME NEW i \in Slots, ReadToReplay(i)
        PROVE  (RequestsStayRedacted /\ CommandsAreRedacted)'
    <2>1. ReadIsRedacted(command'[i])
      <3>0. command[i].id \in Ids
        BY <1>9, Carries DEF ReadToReplay, At, TypeOK
      <3>1. CASE sessions[command[i].id] # Missing /\ sessions[command[i].id].kind = "http"
        BY <1>9, <3>1, <3>0 DEF ReadToReplay, Goes, ReadIsRedacted, RequestsStayRedacted, TypeOK
      <3>2. CASE ~(sessions[command[i].id] # Missing /\ sessions[command[i].id].kind = "http")
        BY <1>9, <3>2 DEF ReadToReplay, Goes, Ends, ReadIsRedacted, TypeOK
      <3> QED BY <3>1, <3>2
    <2>2. \A j \in Slots \ {i} : command'[j] = command[j]
      BY <1>9 DEF ReadToReplay, Goes, Ends, TypeOK
    <2> QED BY <1>9, <2>1, <2>2 DEF ReadToReplay, stored, RequestsStayRedacted, CommandsAreRedacted
  <1>10. ASSUME NEW i \in Slots, NEW response \in Sent, StoreReplay(i, response)
        PROVE  (RequestsStayRedacted /\ CommandsAreRedacted)'
    <2>1. Replayed(command[i].session, response).request # "secret"
      BY <1>10 DEF StoreReplay, At, Replayed, CommandsAreRedacted, ReadIsRedacted
    <2>2. \A n \in Ids : sessions'[n] # Missing => sessions'[n].request # "secret"
      BY <1>10, <2>1 DEF StoreReplay, Insert, TypeOK, RequestsStayRedacted
    <2> QED BY <1>10, <2>2 DEF StoreReplay, Ends, Goes, history, TypeOK, RequestsStayRedacted, CommandsAreRedacted, ReadIsRedacted
  <1>11. ASSUME NEW i \in Slots, ReadToExport(i)
        PROVE  (RequestsStayRedacted /\ CommandsAreRedacted)'
    <2>1. ReadIsRedacted(command'[i])
      <3> DEFINE content == {sessions[n] : n \in {m \in command[i].ids : sessions[m] # Missing}}
      <3>1. command[i].ids \in SUBSET Ids
        BY <1>11, Carries DEF ReadToExport, At, TypeOK
      <3>2. \A session \in content : session.request # "secret"
        BY <3>1 DEF RequestsStayRedacted
      <3>3. command'[i] = [op |-> "write", content |-> content]
        BY <1>11 DEF ReadToExport, Goes, TypeOK
      <3> QED BY <3>2, <3>3 DEF ReadIsRedacted
    <2>2. \A j \in Slots \ {i} : command'[j] = command[j]
      BY <1>11 DEF ReadToExport, Goes, Ends, TypeOK
    <2> QED BY <1>11, <2>1, <2>2 DEF ReadToExport, stored, RequestsStayRedacted, CommandsAreRedacted
  <1>12. ASSUME NEW i \in Slots, NEW whole \in BOOLEAN, WriteExport(i, whole)
        PROVE  (RequestsStayRedacted /\ CommandsAreRedacted)'
    BY <1>12 DEF WriteExport, At, Goes, Ends, File, stored, RequestsStayRedacted, CommandsAreRedacted, ReadIsRedacted, TypeOK
  <1>13. ASSUME NEW i \in Slots, ReadToAdd(i)
        PROVE  (RequestsStayRedacted /\ CommandsAreRedacted)'
    <2>1. ReadIsRedacted(command'[i])
      <3>0. command[i].id \in Ids
        BY <1>13, Carries DEF ReadToAdd, At, TypeOK
      <3>1. CASE sessions[command[i].id] # Missing
        BY <1>13, <3>1, <3>0 DEF ReadToAdd, Goes, SavedItem, ReadIsRedacted, RequestsStayRedacted, TypeOK
      <3>2. CASE ~(sessions[command[i].id] # Missing)
        BY <1>13, <3>2 DEF ReadToAdd, Goes, Ends, ReadIsRedacted, TypeOK
      <3> QED BY <3>1, <3>2
    <2>2. \A j \in Slots \ {i} : command'[j] = command[j]
      BY <1>13 DEF ReadToAdd, Goes, Ends, TypeOK
    <2> QED BY <1>13, <2>1, <2>2 DEF ReadToAdd, stored, RequestsStayRedacted, CommandsAreRedacted
  <1>14. ASSUME NEW i \in Slots, LoadCollection(i)
        PROVE  (RequestsStayRedacted /\ CommandsAreRedacted)'
    <2>1. ReadIsRedacted(command'[i])
      <3> DEFINE c == command[i].collection
                 item == command[i].item
      <3>1. c \in Collections /\ item \in Item /\ item.headers # "secret"
        BY <1>14, Carries DEF LoadCollection, At, TypeOK, CommandsAreRedacted, ReadIsRedacted
      <3>2. CASE collections[c] # Missing
        <4>1. command'[i] = [op |-> "upsert", collection |-> c, items |-> Append(collections[c], item)]
          BY <1>14, <3>2 DEF LoadCollection, Goes, TypeOK
        <4>2. collections[c] \in Seq(Item)
          BY <3>1, <3>2 DEF TypeOK
        <4>3. \A k \in DOMAIN collections[c] : collections[c][k].headers # "secret"
          BY <3>1, <3>2 DEF RequestsStayRedacted
        <4>4. \A k \in DOMAIN Append(collections[c], item) : Append(collections[c], item)[k].headers # "secret"
          BY <3>1, <4>2, <4>3
        <4> QED BY <4>1, <4>4 DEF ReadIsRedacted
      <3>3. CASE collections[c] = Missing
        BY <1>14, <3>3 DEF LoadCollection, Goes, Ends, ReadIsRedacted, TypeOK
      <3> QED BY <3>2, <3>3
    <2>2. \A j \in Slots \ {i} : command'[j] = command[j]
      BY <1>14 DEF LoadCollection, Goes, Ends, TypeOK
    <2> QED BY <1>14, <2>1, <2>2 DEF LoadCollection, stored, RequestsStayRedacted, CommandsAreRedacted
  <1>15. ASSUME NEW i \in Slots, UpsertCollection(i)
        PROVE  (RequestsStayRedacted /\ CommandsAreRedacted)'
    BY <1>15 DEF UpsertCollection, At, Goes, Ends, RequestsStayRedacted, CommandsAreRedacted, ReadIsRedacted, TypeOK
  <1> QED
    BY <1>1, <1>2, <1>3, <1>4, <1>5, <1>6, <1>7, <1>8, <1>9, <1>10, <1>11, <1>12, <1>13, <1>14, <1>15 DEF Next, Steps

\* A command that changes nothing stored, and is not to upsert next, leaves the
\* additions as they are.
LEMMA AddsFrame ==
    ASSUME IInv, NEW i \in Slots, UNCHANGED <<collections, deleted, lock, added>>,
           command'[i].op # "upsert", \A j \in Slots \ {i} : command'[j] = command[j]
    PROVE  (AddsAreKept /\ UpsertsAreLocked /\ UnsavedIsEmpty)'
  <1>1. AddsAreKept' /\ UnsavedIsEmpty'
    BY DEF IInv, AddsAreKept, UnsavedIsEmpty
  <1>2. ASSUME NEW j \in Slots, command'[j].op = "upsert"
        PROVE  Extends(j)'
    <2>1. command'[j] = command[j] /\ Extends(j)
      BY <1>2 DEF IInv, UpsertsAreLocked
    <2> QED BY <2>1 DEF Extends
  <1> QED BY <1>1, <1>2 DEF UpsertsAreLocked

\* While one command holds the lock no other changes a collection.
LEMMA AddsStep ==
    ASSUME IInv, [Next]_vars
    PROVE  (AddsAreKept /\ UpsertsAreLocked /\ UnsavedIsEmpty)'
  <1> USE SavedAssumption DEF IInv
  <1>1. CASE UNCHANGED vars
    BY <1>1 DEF vars, stored, history, AddsAreKept, UpsertsAreLocked, UnsavedIsEmpty, Extends
  <1>2. ASSUME NEW kind \in Kinds, NEW request \in Sent, NEW response \in Sent, Capture(kind, request, response)
        PROVE  (AddsAreKept /\ UpsertsAreLocked /\ UnsavedIsEmpty)'
    BY <1>2 DEF Capture, Insert, history, Unlocked, AddsAreKept, UpsertsAreLocked, UnsavedIsEmpty, Extends, TypeOK
  <1>3. CASE Tick
    BY <1>3 DEF Tick, stored, history, Unlocked, AddsAreKept, UpsertsAreLocked, UnsavedIsEmpty, Extends, TypeOK
  <1>4. CASE ClearSessions
    BY <1>4 DEF ClearSessions, Count, history, Unlocked, AddsAreKept, UpsertsAreLocked, UnsavedIsEmpty, Extends, TypeOK
  <1>5. ASSUME NEW c \in Collections, SaveCollection(c)
        PROVE  (AddsAreKept /\ UpsertsAreLocked /\ UnsavedIsEmpty)'
    BY <1>5 DEF SaveCollection, Count, history, Unlocked, AddsAreKept, UpsertsAreLocked, UnsavedIsEmpty, Extends, TypeOK
  <1>6. ASSUME NEW c \in Collections, DeleteCollection(c)
        PROVE  (AddsAreKept /\ UpsertsAreLocked /\ UnsavedIsEmpty)'
    BY <1>6 DEF DeleteCollection, Count, history, Unlocked, AddsAreKept, UpsertsAreLocked, UnsavedIsEmpty, Extends, TypeOK
  <1>7. ASSUME NEW i \in Slots, Commands(i)
        PROVE  (AddsAreKept /\ UpsertsAreLocked /\ UnsavedIsEmpty)'
    <2>1. PICK what \in CommandState : Give(i, what) /\ what.op \in {"replay", "export", "add"}
      BY <1>7, Starts
    <2> QED BY <2>1 DEF Give, stored, history, AddsAreKept, UpsertsAreLocked, UnsavedIsEmpty, Extends, TypeOK
  <1>8. ASSUME NEW i \in Slots, Fail(i)
        PROVE  (AddsAreKept /\ UpsertsAreLocked /\ UnsavedIsEmpty)'
    BY <1>8 DEF Fail, Ends, Goes, stored, history, Unlocked, AddsAreKept, UpsertsAreLocked, UnsavedIsEmpty, Extends, TypeOK
  <1>9. ASSUME NEW i \in Slots, ReadToReplay(i)
        PROVE  (AddsAreKept /\ UpsertsAreLocked /\ UnsavedIsEmpty)'
    <2>1. command'[i].op # "upsert"
      <3>1. CASE sessions[command[i].id] # Missing /\ sessions[command[i].id].kind = "http"
        BY <1>9, <3>1 DEF ReadToReplay, Goes, TypeOK
      <3>2. CASE ~(sessions[command[i].id] # Missing /\ sessions[command[i].id].kind = "http")
        BY <1>9, <3>2 DEF ReadToReplay, Goes, Ends, TypeOK
      <3> QED BY <3>1, <3>2
    <2>2. \A j \in Slots \ {i} : command'[j] = command[j]
      BY <1>9 DEF ReadToReplay, Goes, Ends, TypeOK
    <2> QED BY <1>9, <2>1, <2>2, AddsFrame DEF ReadToReplay, stored, history
  <1>10. ASSUME NEW i \in Slots, NEW response \in Sent, StoreReplay(i, response)
        PROVE  (AddsAreKept /\ UpsertsAreLocked /\ UnsavedIsEmpty)'
    BY <1>10 DEF StoreReplay, Insert, At, Goes, Ends, Replayed, history, Unlocked, AddsAreKept, UpsertsAreLocked, UnsavedIsEmpty, Extends, TypeOK
  <1>11. ASSUME NEW i \in Slots, ReadToExport(i)
        PROVE  (AddsAreKept /\ UpsertsAreLocked /\ UnsavedIsEmpty)'
    BY <1>11 DEF ReadToExport, At, Goes, stored, history, Unlocked, AddsAreKept, UpsertsAreLocked, UnsavedIsEmpty, Extends, TypeOK
  <1>12. ASSUME NEW i \in Slots, NEW whole \in BOOLEAN, WriteExport(i, whole)
        PROVE  (AddsAreKept /\ UpsertsAreLocked /\ UnsavedIsEmpty)'
    <2>1. command'[i].op # "upsert" /\ \A j \in Slots \ {i} : command'[j] = command[j]
      BY <1>12 DEF WriteExport, Ends, Goes, TypeOK
    <2>2. UNCHANGED <<stored, lock, added>>
      BY <1>12 DEF WriteExport
    <2> QED BY <2>1, <2>2, AddsFrame DEF stored
  <1>13. ASSUME NEW i \in Slots, ReadToAdd(i)
        PROVE  (AddsAreKept /\ UpsertsAreLocked /\ UnsavedIsEmpty)'
    <2>1. command'[i].op # "upsert"
      <3>1. CASE sessions[command[i].id] # Missing
        BY <1>13, <3>1 DEF ReadToAdd, Goes, TypeOK
      <3>2. CASE ~(sessions[command[i].id] # Missing)
        BY <1>13, <3>2 DEF ReadToAdd, Goes, Ends, TypeOK
      <3> QED BY <3>1, <3>2
    <2>2. \A j \in Slots \ {i} : command'[j] = command[j]
      BY <1>13 DEF ReadToAdd, Goes, Ends, TypeOK
    <2> QED BY <1>13, <2>1, <2>2, AddsFrame DEF ReadToAdd, stored, history
  <1>14. ASSUME NEW i \in Slots, LoadCollection(i)
        PROVE  (AddsAreKept /\ UpsertsAreLocked /\ UnsavedIsEmpty)'
    <2> DEFINE c == command[i].collection
               item == command[i].item
    <2>1. c \in Collections /\ item \in Item
      BY <1>14, Carries DEF LoadCollection, At, TypeOK
    <2>2. \A j \in Slots \ {i} : command'[j] = command[j] /\ command[j].op # "upsert"
      BY <1>14, SavedAssumption DEF LoadCollection, Goes, Ends, Unlocked, UpsertsAreLocked, Extends, TypeOK
    <2>3. CASE collections[c] # Missing
      <3>1. command'[i] = [op |-> "upsert", collection |-> c, items |-> Append(collections[c], item)]
        BY <1>14, <2>3 DEF LoadCollection, Goes, TypeOK
      <3>2. lock' = i /\ collections' = collections
        BY <1>14, <2>3 DEF LoadCollection, HeldBy, stored
      <3>3. Extends(i)'
        BY <2>1, <2>3, <3>1, <3>2 DEF Extends
      <3>4. UpsertsAreLocked'
        BY <2>2, <3>3 DEF UpsertsAreLocked
      <3> QED BY <1>14, <3>4 DEF LoadCollection, stored, history, AddsAreKept, UnsavedIsEmpty
    <2>4. CASE collections[c] = Missing
      <3>1. command'[i].op = "idle"
        BY <1>14, <2>4 DEF LoadCollection, Goes, Ends, TypeOK
      <3>2. UpsertsAreLocked'
        BY <2>2, <3>1 DEF UpsertsAreLocked
      <3> QED BY <1>14, <3>2 DEF LoadCollection, stored, history, AddsAreKept, UnsavedIsEmpty
    <2> QED BY <2>3, <2>4
  <1>15. ASSUME NEW i \in Slots, UpsertCollection(i)
        PROVE  (AddsAreKept /\ UpsertsAreLocked /\ UnsavedIsEmpty)'
    <2> DEFINE c == command[i].collection
               items == command[i].items
    <2>1. command[i].op = "upsert" /\ c \in Collections /\ items \in Seq(Item)
      BY <1>15, Carries DEF UpsertCollection, At, TypeOK
    <2>2. collections[c] # Missing /\ lock = i
      BY <2>1 DEF UpsertsAreLocked, Extends
    <2>3. PICK item \in Item : items = Append(collections[c], item)
      BY <2>1 DEF UpsertsAreLocked, Extends
    <2>4. collections[c] = added[c] /\ c \notin deleted /\ added[c] \in Seq(Item)
      BY <2>1, <2>2 DEF AddsAreKept, TypeOK
    <2>5. items[Len(items)] = item
      BY <2>3, <2>4
    <2>6. collections' = [collections EXCEPT ![c] = items] /\ added' = [added EXCEPT ![c] = items]
      BY <1>15, <2>3, <2>4, <2>5 DEF UpsertCollection
    <2>7. AddsAreKept'
      BY <1>15, <2>1, <2>4, <2>6 DEF UpsertCollection, AddsAreKept, TypeOK
    <2>8. \A j \in Slots : command'[j].op # "upsert"
      BY <1>15, <2>2 DEF UpsertCollection, Goes, Ends, UpsertsAreLocked, Extends, TypeOK
    <2>9. UnsavedIsEmpty'
      BY <1>15, <2>1, <2>6 DEF UpsertCollection, UnsavedIsEmpty, TypeOK
    <2> QED BY <2>7, <2>8, <2>9 DEF UpsertsAreLocked
  <1> QED
    BY <1>1, <1>2, <1>3, <1>4, <1>5, <1>6, <1>7, <1>8, <1>9, <1>10, <1>11, <1>12, <1>13, <1>14, <1>15 DEF Next, Steps

\* An export of another second is not touched.
LEMMA ExportsStep ==
    ASSUME IInv, [Next]_vars
    PROVE  ExportsAreKept'
  <1> USE DEF IInv, TypeOK
  <1>1. CASE UNCHANGED vars
    BY <1>1 DEF vars, history, ExportsAreKept
  <1>2. ASSUME NEW kind \in Kinds, NEW request \in Sent, NEW response \in Sent, Capture(kind, request, response)
        PROVE  ExportsAreKept'
    BY <1>2 DEF Capture, Insert, history, ExportsAreKept
  <1>3. CASE Tick
    BY <1>3 DEF Tick, stored, history, ExportsAreKept
  <1>4. CASE ClearSessions
    BY <1>4 DEF ClearSessions, Count, history, ExportsAreKept
  <1>5. ASSUME NEW c \in Collections, SaveCollection(c)
        PROVE  ExportsAreKept'
    BY <1>5 DEF SaveCollection, Count, history, ExportsAreKept
  <1>6. ASSUME NEW c \in Collections, DeleteCollection(c)
        PROVE  ExportsAreKept'
    BY <1>6 DEF DeleteCollection, Count, history, ExportsAreKept
  <1>7. ASSUME NEW i \in Slots, Commands(i)
        PROVE  ExportsAreKept'
    <2>1. PICK what \in CommandState : Give(i, what) /\ what.op \in {"replay", "export", "add"}
      BY <1>7, Starts
    <2> QED BY <2>1 DEF Give, stored, history, ExportsAreKept
  <1>8. ASSUME NEW i \in Slots, Fail(i)
        PROVE  ExportsAreKept'
    BY <1>8 DEF Fail, Ends, Goes, stored, history, ExportsAreKept
  <1>9. ASSUME NEW i \in Slots, ReadToReplay(i)
        PROVE  ExportsAreKept'
    BY <1>9 DEF ReadToReplay, At, Goes, Ends, stored, history, ExportsAreKept
  <1>10. ASSUME NEW i \in Slots, NEW response \in Sent, StoreReplay(i, response)
        PROVE  ExportsAreKept'
    BY <1>10 DEF StoreReplay, Insert, At, Goes, Ends, Replayed, history, ExportsAreKept
  <1>11. ASSUME NEW i \in Slots, ReadToExport(i)
        PROVE  ExportsAreKept'
    BY <1>11 DEF ReadToExport, At, Goes, stored, history, ExportsAreKept
  <1>12. ASSUME NEW i \in Slots, NEW whole \in BOOLEAN, WriteExport(i, whole)
        PROVE  ExportsAreKept'
    <2> DEFINE file == [whole |-> whole, content |-> command[i].content]
               entry == [second |-> now, file |-> file]
               Entry == [second : Seconds, file : ExportFile]
    <2>1. file \in ExportFile
      BY <1>12, Carries DEF WriteExport, At, ExportFile
    <2>2. files'[now] = file /\ \A s \in Seconds \ {now} : files'[s] = files[s]
      BY <1>12 DEF WriteExport, File
    <2>3. writes' = Append(writes, entry)
      BY <1>12, <2>2 DEF WriteExport, File
    <2>4. entry \in Entry /\ writes \in Seq(Entry)
      BY <2>1
    <2> HIDE DEF file, entry, Entry
    <2>5. /\ Len(writes) \in Nat /\ DOMAIN writes = 1..Len(writes)
          /\ DOMAIN writes' = 1..Len(writes) + 1
          /\ writes'[Len(writes) + 1] = entry
          /\ \A k \in 1..Len(writes) : writes'[k] = writes[k] /\ writes[k] \in Entry
      BY <2>3, <2>4
    <2>6. entry.second = now /\ entry.file = file /\ \A e \in Entry : e.second \in Seconds
      BY DEF entry, Entry
    <2> SUFFICES ASSUME NEW k \in DOMAIN writes'
                 PROVE  \/ files'[writes'[k].second] = writes'[k].file
                        \/ \E l \in DOMAIN writes' : l # k /\ writes'[l].second = writes'[k].second
      BY DEF ExportsAreKept
    <2>7. CASE k = Len(writes) + 1
      BY <2>2, <2>5, <2>7, <2>6
    <2>8. CASE k \in 1..Len(writes) /\ writes[k].second = now
      <3>1. Len(writes) + 1 \in DOMAIN writes' /\ Len(writes) + 1 # k
        BY <2>5, <2>8
      <3> QED BY <2>5, <2>8, <2>6, <3>1
    <2>9. CASE k \in 1..Len(writes) /\ writes[k].second # now
      <3>1. writes'[k] = writes[k] /\ files'[writes[k].second] = files[writes[k].second]
        BY <2>2, <2>5, <2>9, <2>6
      <3>2. CASE files[writes[k].second] = writes[k].file
        BY <3>1, <3>2
      <3>3. CASE \E l \in DOMAIN writes : l # k /\ writes[l].second = writes[k].second
        BY <2>5, <3>1, <3>3
      <3> QED BY <2>5, <2>9, <3>2, <3>3 DEF ExportsAreKept
    <2> QED BY <2>5, <2>7, <2>8, <2>9
  <1>13. ASSUME NEW i \in Slots, ReadToAdd(i)
        PROVE  ExportsAreKept'
    BY <1>13 DEF ReadToAdd, At, Goes, Ends, SavedItem, stored, history, ExportsAreKept
  <1>14. ASSUME NEW i \in Slots, LoadCollection(i)
        PROVE  ExportsAreKept'
    BY <1>14 DEF LoadCollection, At, Goes, Ends, HeldBy, stored, history, ExportsAreKept
  <1>15. ASSUME NEW i \in Slots, UpsertCollection(i)
        PROVE  ExportsAreKept'
    BY <1>15 DEF UpsertCollection, At, Goes, Ends, ExportsAreKept
  <1> QED
    BY <1>1, <1>2, <1>3, <1>4, <1>5, <1>6, <1>7, <1>8, <1>9, <1>10, <1>11, <1>12, <1>13, <1>14, <1>15 DEF Next, Steps

\* IInv holds of every reachable state.
THEOREM InductiveInvariant == Spec => []IInv
  <1>1. IInv /\ [Next]_vars => IInv'
    BY TypeStep, RedactedStep, AddsStep, ExportsStep DEF IInv
  <1> QED
    BY InitIInv, <1>1, PTL DEF Spec

\* What is stored and what the commands carry keep their type.
THEOREM TypeCorrect == Spec => []TypeOK
  <1>1. IInv => TypeOK
    BY DEF IInv
  <1> QED
    BY InductiveInvariant, <1>1, PTL

\* No sensitive request header that was captured is ever kept in the clear: not in a
\* session, a replay, a collection or an export.
THEOREM RequestsStayRedactedAlways == Spec => []RequestsStayRedacted
  <1>1. IInv => RequestsStayRedacted
    BY DEF IInv
  <1> QED
    BY InductiveInvariant, <1>1, PTL

\* A collection holds what was reported as added to it, whatever runs beside.
THEOREM AddsAreKeptAlways == Spec => []AddsAreKept
  <1>1. IInv => AddsAreKept
    BY DEF IInv
  <1> QED
    BY InductiveInvariant, <1>1, PTL

\* An export is replaced only by another of the same second.
THEOREM ExportsAreKeptAlways == Spec => []ExportsAreKept
  <1>1. IInv => ExportsAreKept
    BY DEF IInv
  <1> QED
    BY InductiveInvariant, <1>1, PTL
-----------------------------------------------------------------------------
\* No replay is answered with a sensitive header.
RepliesAreClean == \A i \in Slots : ~StoreReplay(i, "secret")

\* No response that is stored, exported or about to be is in the clear.
ResponsesAreClean ==
    /\ \A n \in Ids : sessions[n] # Missing => sessions[n].response # "secret"
    /\ \A i \in Slots : command[i].op = "write" =>
           \A session \in command[i].content : session.response # "secret"
    /\ \A s \in Seconds : files[s] # Missing =>
           \A session \in files[s].content : session.response # "secret"

\* A command that reads nothing to be exported leaves the responses as they are.
LEMMA CleanFrame ==
    ASSUME TypeOK, ResponsesAreClean, UNCHANGED <<sessions, files>>, NEW i \in Slots, NEW what,
           command' = [command EXCEPT ![i] = what], what.op # "write"
    PROVE  ResponsesAreClean'
  <1>1. command'[i].op # "write" /\ \A j \in Slots \ {i} : command'[j] = command[j]
    BY DEF TypeOK
  <1> QED BY <1>1 DEF ResponsesAreClean

\* What is captured is redacted, and what is exported was stored.
LEMMA CleanStep ==
    ASSUME IInv, ResponsesAreClean, [Next]_vars, [RepliesAreClean]_vars
    PROVE  ResponsesAreClean'
  <1>0. TypeOK
    BY DEF IInv
  <1>1. CASE UNCHANGED vars
    BY <1>1 DEF vars, ResponsesAreClean
  <1>2. ASSUME NEW kind \in Kinds, NEW request \in Sent, NEW response \in Sent, Capture(kind, request, response)
        PROVE  ResponsesAreClean'
    <2>1. Record(kind, request, response).response # "secret"
      BY DEF Record, Redact
    <2>2. \A n \in Ids : sessions'[n] # Missing => sessions'[n].response # "secret"
      BY <1>0, <1>2, <2>1 DEF Capture, Insert, TypeOK, ResponsesAreClean
    <2> QED BY <1>2, <2>2 DEF Capture, ResponsesAreClean
  <1>3. CASE Tick \/ \E c \in Collections : SaveCollection(c) \/ DeleteCollection(c)
    BY <1>3 DEF Tick, stored, SaveCollection, DeleteCollection, ResponsesAreClean
  <1>4. CASE ClearSessions
    <2>1. \A n \in Ids : sessions'[n] = Missing
      BY <1>4 DEF ClearSessions
    <2> QED BY <1>4, <2>1 DEF ClearSessions, ResponsesAreClean
  <1>5. ASSUME NEW i \in Slots, Commands(i)
        PROVE  ResponsesAreClean'
    <2>1. PICK what \in CommandState : Give(i, what) /\ what.op \in {"replay", "export", "add"}
      BY <1>5, Starts
    <2>2. UNCHANGED <<sessions, files>> /\ command' = [command EXCEPT ![i] = what]
      BY <2>1 DEF Give, stored
    <2> QED BY <1>0, <2>1, <2>2, CleanFrame
  <1>6. ASSUME NEW i \in Slots, Fail(i) \/ ReadToReplay(i) \/ ReadToAdd(i) \/ LoadCollection(i) \/ UpsertCollection(i)
        PROVE  ResponsesAreClean'
    <2>1. UNCHANGED <<sessions, files>>
      BY <1>6 DEF Fail, ReadToReplay, ReadToAdd, LoadCollection, UpsertCollection, stored
    <2>2. ASSUME NEW what, Goes(i, what), what.op # "write"
          PROVE  ResponsesAreClean'
      BY <1>0, <2>1, <2>2, CleanFrame DEF Goes
    <2>3. Ends(i) => ResponsesAreClean'
      BY <2>2 DEF Ends
    <2>4. CASE ReadToReplay(i)
      BY <2>2, <2>3, <2>4 DEF ReadToReplay
    <2>5. CASE ReadToAdd(i)
      BY <2>2, <2>3, <2>5 DEF ReadToAdd
    <2>6. CASE LoadCollection(i)
      BY <2>2, <2>3, <2>6 DEF LoadCollection
    <2>7. CASE Fail(i) \/ UpsertCollection(i)
      BY <2>3, <2>7 DEF Fail, UpsertCollection
    <2> QED BY <1>6, <2>4, <2>5, <2>6, <2>7
  <1>7. ASSUME NEW i \in Slots, NEW response \in Sent, StoreReplay(i, response)
        PROVE  ResponsesAreClean'
    <2>1. taken + 1 \in Ids /\ taken' # taken
      BY <1>0, <1>7, SavedAssumption DEF StoreReplay, Insert, TypeOK, Ids
    <2>2. response # "secret"
      BY <1>7, <2>1 DEF RepliesAreClean, vars
    <2>3. \A n \in Ids : sessions'[n] # Missing => sessions'[n].response # "secret"
      BY <1>0, <1>7, <2>2 DEF StoreReplay, Insert, Replayed, TypeOK, ResponsesAreClean
    <2>4. command'[i].op # "write" /\ \A j \in Slots \ {i} : command'[j] = command[j]
      BY <1>0, <1>7 DEF StoreReplay, Ends, Goes, TypeOK
    <2> QED BY <1>7, <2>3, <2>4 DEF StoreReplay, ResponsesAreClean
  <1>8. ASSUME NEW i \in Slots, ReadToExport(i)
        PROVE  ResponsesAreClean'
    <2> DEFINE content == {sessions[n] : n \in {m \in command[i].ids : sessions[m] # Missing}}
    <2>1. command[i].ids \in SUBSET Ids
      BY <1>0, <1>8, Carries DEF ReadToExport, At, TypeOK
    <2>2. \A session \in content : session.response # "secret"
      BY <2>1 DEF ResponsesAreClean
    <2>3. command'[i] = [op |-> "write", content |-> content] /\ \A j \in Slots \ {i} : command'[j] = command[j]
      BY <1>0, <1>8 DEF ReadToExport, Goes, TypeOK
    <2>4. UNCHANGED <<sessions, files>>
      BY <1>8 DEF ReadToExport, stored
    <2> HIDE DEF content
    <2> QED BY <2>2, <2>3, <2>4 DEF ResponsesAreClean
  <1>9. ASSUME NEW i \in Slots, NEW whole \in BOOLEAN, WriteExport(i, whole)
        PROVE  ResponsesAreClean'
    <2>1. \A session \in command[i].content : session.response # "secret"
      BY <1>9 DEF WriteExport, At, ResponsesAreClean
    <2>2. files' = [files EXCEPT ![now] = [whole |-> whole, content |-> command[i].content]] /\ sessions' = sessions
      BY <1>9 DEF WriteExport, File, stored
    <2>3. \A s \in Seconds : files'[s] # Missing =>
              \A session \in files'[s].content : session.response # "secret"
      BY <1>0, <2>1, <2>2 DEF TypeOK, ResponsesAreClean
    <2>4. command'[i].op # "write" /\ \A j \in Slots \ {i} : command'[j] = command[j]
      BY <1>0, <1>9 DEF WriteExport, Ends, Goes, TypeOK
    <2> QED BY <2>2, <2>3, <2>4 DEF ResponsesAreClean
  <1> QED
    BY <1>1, <1>2, <1>3, <1>4, <1>5, <1>6, <1>7, <1>8, <1>9 DEF Next, Steps

\* "Exported content is intended to stay redacted", and does, as long as no replay
\* is answered with a sensitive header: those answers are the only reason for
\* what ExportsAreRedacted is found violated by.
THEOREM ExportsAreRedactedIfRepliesAre == Spec /\ [][RepliesAreClean]_vars => []ExportsAreRedacted
  <1>1. Init => ResponsesAreClean
    BY DEF Init, ResponsesAreClean
  <1>2. IInv /\ ResponsesAreClean => ExportsAreRedacted
    BY DEF IInv, RequestsStayRedacted, ResponsesAreClean, ExportsAreRedacted
  <1> QED
    BY <1>1, <1>2, CleanStep, InductiveInvariant, PTL DEF Spec

\* The store is locked by a command that is about to store a collection, or not
\* at all: no command ends and leaves it locked, whichever step fails.
LockIsInUse == lock # Missing => lock \in Slots /\ command[lock].op = "upsert"

\* So nobody waits for a lock that will not be released.
THEOREM LockIsInUseAlways == Spec => []LockIsInUse
  <1>1. Init => LockIsInUse
    BY DEF Init, LockIsInUse
  <1>2. TypeOK /\ LockIsInUse /\ [Next]_vars => LockIsInUse'
    <2> SUFFICES ASSUME TypeOK, LockIsInUse, [Next]_vars
                 PROVE  LockIsInUse'
      OBVIOUS
    <2> USE SavedAssumption
    <2>1. CASE UNCHANGED vars
      BY <2>1 DEF vars, LockIsInUse
    <2>2. ASSUME UNCHANGED <<command, lock>>
          PROVE  LockIsInUse'
      BY <2>2 DEF LockIsInUse
    <2>3. ASSUME NEW i \in Slots, NEW what, command' = [command EXCEPT ![i] = what], lock' = lock, lock # i
          PROVE  LockIsInUse'
      BY <2>3 DEF LockIsInUse, TypeOK
    <2>4. ASSUME NEW kind \in Kinds, NEW request \in Sent, NEW response \in Sent, Capture(kind, request, response)
          PROVE  LockIsInUse'
      BY <2>2, <2>4 DEF Capture
    <2>5. CASE Tick \/ ClearSessions \/ \E c \in Collections : SaveCollection(c) \/ DeleteCollection(c)
      BY <2>2, <2>5 DEF Tick, ClearSessions, SaveCollection, DeleteCollection
    <2>6. ASSUME NEW i \in Slots, Commands(i)
          PROVE  LockIsInUse'
      <3>1. PICK what \in CommandState : Give(i, what)
        BY <2>6, Starts
      <3> QED BY <2>3, <3>1 DEF Give, LockIsInUse
    <2>7. ASSUME NEW i \in Slots, command[i].op # "upsert", Ends(i), lock' = lock
          PROVE  LockIsInUse'
      BY <2>3, <2>7 DEF Ends, Goes, LockIsInUse
    <2>8. ASSUME NEW i \in Slots, Fail(i)
          PROVE  LockIsInUse'
      BY <2>8 DEF Fail, Ends, Goes, LockIsInUse, TypeOK
    <2>9. ASSUME NEW i \in Slots, ReadToReplay(i) \/ ReadToExport(i) \/ ReadToAdd(i)
          PROVE  LockIsInUse'
      <3>1. lock' = lock /\ lock = Missing
        BY <2>9 DEF ReadToReplay, ReadToExport, ReadToAdd, Unlocked
      <3> QED BY <3>1 DEF LockIsInUse
    <2>10. ASSUME NEW i \in Slots, LoadCollection(i)
           PROVE  LockIsInUse'
      <3>1. CASE collections[command[i].collection] # Missing
        <4>1. lock' = i /\ command'[i].op = "upsert"
          BY <2>10, <3>1 DEF LoadCollection, HeldBy, Goes, TypeOK
        <4> QED BY <4>1 DEF LockIsInUse
      <3>2. CASE collections[command[i].collection] = Missing
        BY <2>10, <3>2 DEF LoadCollection, Unlocked, LockIsInUse
      <3> QED BY <3>1, <3>2
    <2>11. ASSUME NEW i \in Slots, NEW response \in Sent, StoreReplay(i, response)
           PROVE  LockIsInUse'
      BY <2>7, <2>11 DEF StoreReplay, At
    <2>12. ASSUME NEW i \in Slots, NEW whole \in BOOLEAN, WriteExport(i, whole)
           PROVE  LockIsInUse'
      BY <2>7, <2>12 DEF WriteExport, At
    <2>13. ASSUME NEW i \in Slots, UpsertCollection(i)
           PROVE  LockIsInUse'
      BY <2>13 DEF UpsertCollection, LockIsInUse
    <2> QED
      BY <2>1, <2>4, <2>5, <2>6, <2>8, <2>9, <2>10, <2>11, <2>12, <2>13 DEF Next, Steps
  <1> QED
    BY <1>1, <1>2, TypeCorrect, PTL DEF Spec
=============================================================================
