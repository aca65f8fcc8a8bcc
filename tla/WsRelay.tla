------------------------------- MODULE WsRelay -------------------------------
(***************************************************************************)
(* One captured WebSocket: handle_websocket, relay_websocket and           *)
(* relay_websocket_frames in crates/core/src/proxy.rs.                     *)
(*                                                                         *)
(* The client is answered 101 before the upstream is dialled.  Then two    *)
(* relays run side by side in one task, one for each peer they read from:  *)
(* each frame is added to the session and written to the other peer.  The  *)
(* task waits for both relays, whatever became of either, and only then    *)
(* writes the record.  The halves of the sockets are kept until then, so   *)
(* the end of one peer's stream is not passed on to the other.             *)
(*                                                                         *)
(* A frame is known by its kind; payloads, masks and previews are left     *)
(* out.  Captured sockets share nothing but the store and the channel, so  *)
(* one is modelled.                                                        *)
(***************************************************************************)
EXTENDS Naturals, Sequences, FiniteSets

CONSTANTS
    Kinds,     \* kinds of frames other than close
    MaxFrames, \* bound: frames a peer sends
    None       \* no direction

ASSUME RelayAssumption ==
    /\ "close" \notin Kinds
    /\ MaxFrames \in Nat
    /\ None \notin {"client", "upstream"}

Directions == {"client", "upstream"}
Other(d) == IF d = "client" THEN "upstream" ELSE "client"
Frame == Kinds \cup {"close"}

VARIABLES
    pc,        \* the handler, then the spawned task
    sent,      \* the frames each peer has sent
    peer,      \* each peer's sending side: "open", "ended" or "broken"
    relay,     \* the relay reading from each peer
    taken,     \* how many of the peer's frames it has read
    delivered, \* the frames it has written to the other peer
    captured,  \* session.websocket_frames: direction and frame
    state,     \* session.state
    blamed,    \* the direction whose error the session carries
    row,       \* is the session stored?
    announced  \* was its event sent?

vars == <<pc, sent, peer, relay, taken, delivered, captured, state, blamed, row, announced>>
wires == <<sent, peer, relay, taken, delivered, captured>>
record == <<state, blamed, row, announced>>

(***************************************************************************)
(* idle: no request.  upgrading: the answer is on its way and the task     *)
(* awaits the upgrade.  connecting: awaiting the upstream.  relaying: both *)
(* relays run.  storing, announcing: the record.  recorded: all done.      *)
(* refused: the request was answered with an error.  lost: the task gave   *)
(* up and left no record.                                                  *)
(***************************************************************************)
Init ==
    /\ pc = "idle"
    /\ sent = [d \in Directions |-> <<>>]
    /\ peer = [d \in Directions |-> "open"]
    /\ relay = [d \in Directions |-> "reading"]
    /\ taken = [d \in Directions |-> 0]
    /\ delivered = [d \in Directions |-> <<>>]
    /\ captured = <<>>
    /\ state = "Pending"
    /\ blamed = None
    /\ row = FALSE
    /\ announced = FALSE

Goto(from, to) == pc = from /\ pc' = to

\* The target and the key are there: 101 is answered, the task is spawned.
Upgrade == Goto("idle", "upgrading") /\ UNCHANGED <<wires, record>>

\* No ws target, no host or no Sec-WebSocket-Key.
Refuse == Goto("idle", "refused") /\ UNCHANGED <<wires, record>>

\* hyper hands over the client's connection.
Upgraded == Goto("upgrading", "connecting") /\ UNCHANGED <<wires, record>>

\* The client went away before its connection was handed over.
UpgradeFails == Goto("upgrading", "lost") /\ UNCHANGED <<wires, record>>

\* TcpStream::connect.
Connect == Goto("connecting", "relaying") /\ UNCHANGED <<wires, record>>

\* The upstream cannot be reached: the task only warns.
ConnectFails == Goto("connecting", "lost") /\ UNCHANGED <<wires, record>>
-----------------------------------------------------------------------------
\* A client may send as soon as it has its 101, an upstream once connected.
Speaking(d) == pc = "relaying" \/ (d = "client" /\ pc \in {"upgrading", "connecting"})

PeerSends(d) ==
    /\ Speaking(d) /\ peer[d] = "open"
    /\ Len(sent[d]) < MaxFrames
    /\ \E f \in Frame : sent' = [sent EXCEPT ![d] = Append(@, f)]
    /\ UNCHANGED <<pc, peer, relay, taken, delivered, captured, record>>

\* The peer ends its stream between two frames, or within one or by a reset.
PeerStops(d) ==
    /\ Speaking(d) /\ peer[d] = "open"
    /\ \E how \in {"ended", "broken"} : peer' = [peer EXCEPT ![d] = how]
    /\ UNCHANGED <<pc, sent, relay, taken, delivered, captured, record>>

\* The frame a relay is working on.
Current(d) == sent[d][taken[d]]

\* Mutant: preview_websocket_frame takes two strings, and is given them in the
\* other order.
CapturedSwapped(d, f) == Append(captured, <<f, d>>)

\* websocket_frames.push, under the session's mutex.
CapturedWith(d, f) == Append(captured, <<d, f>>)

\* read_websocket_frame returned a frame, and it is captured before it is
\* written; nothing is awaited in between that could block.
Read(d) ==
    /\ pc = "relaying" /\ relay[d] = "reading"
    /\ taken[d] < Len(sent[d])
    /\ taken' = [taken EXCEPT ![d] = @ + 1]
    /\ captured' = CapturedWith(d, sent[d][taken[d] + 1])
    /\ relay' = [relay EXCEPT ![d] = "writing"]
    /\ UNCHANGED <<pc, sent, peer, delivered, record>>

\* Ok(None): the stream ended before a frame began.
ReadEnds(d) ==
    /\ pc = "relaying" /\ relay[d] = "reading"
    /\ peer[d] = "ended" /\ taken[d] = Len(sent[d])
    /\ relay' = [relay EXCEPT ![d] = "done"]
    /\ UNCHANGED <<pc, sent, peer, taken, delivered, captured, record>>

\* A reset, which may overtake frames, or an end within a frame.
ReadFails(d) ==
    /\ pc = "relaying" /\ relay[d] = "reading"
    /\ peer[d] = "broken"
    /\ relay' = [relay EXCEPT ![d] = "failed"]
    /\ UNCHANGED <<pc, sent, peer, taken, delivered, captured, record>>

\* Mutant: a close frame is relayed like any other.
AfterWriteOn(d) == "reading"

\* The loop ends with the close frame.
AfterWrite(d) == IF Current(d) = "close" THEN "done" ELSE "reading"

\* write_all and flush.
Write(d) ==
    /\ pc = "relaying" /\ relay[d] = "writing"
    /\ delivered' = [delivered EXCEPT ![d] = Append(@, Current(d))]
    /\ relay' = [relay EXCEPT ![d] = AfterWrite(d)]
    /\ UNCHANGED <<pc, sent, peer, taken, captured, record>>

\* The peer written to has gone.
WriteFails(d) ==
    /\ pc = "relaying" /\ relay[d] = "writing"
    /\ peer[Other(d)] # "open"
    /\ relay' = [relay EXCEPT ![d] = "failed"]
    /\ UNCHANGED <<pc, sent, peer, taken, delivered, captured, record>>
-----------------------------------------------------------------------------
\* Mutant: only relays that ended well are waited for.
JoinedWell == \A d \in Directions : relay[d] = "done"

\* join! returns once both relays have returned.
Joined == \A d \in Directions : relay[d] \in {"done", "failed"}

\* Mutant: the upstream's result is not looked at.
CulpritClient == IF relay["client"] = "failed" THEN "client" ELSE None

\* The direction whose error is recorded: the client's comes first.
Culprit == CASE relay["client"] = "failed"   -> "client"
             [] relay["upstream"] = "failed" -> "upstream"
             [] OTHER                        -> None

\* The session is finished as Failed or Completed.
Finish ==
    /\ Joined
    /\ Goto("relaying", "storing")
    /\ blamed' = Culprit
    /\ state' = IF blamed' = None THEN "Completed" ELSE "Failed"
    /\ UNCHANGED <<wires, row, announced>>

Store ==
    /\ Goto("storing", "announcing")
    /\ row' = TRUE
    /\ UNCHANGED <<wires, state, blamed, announced>>

\* insert_session failed: no event, the task only warns.
StoreFails == Goto("storing", "lost") /\ UNCHANGED <<wires, record>>

Announce ==
    /\ Goto("announcing", "recorded")
    /\ announced' = TRUE
    /\ UNCHANGED <<wires, state, blamed, row>>

Relay(d) == Read(d) \/ ReadEnds(d) \/ ReadFails(d) \/ Write(d) \/ WriteFails(d)

Task ==
    \/ Upgraded \/ UpgradeFails \/ Connect \/ ConnectFails
    \/ Finish \/ Store \/ StoreFails \/ Announce

Next ==
    \/ Upgrade \/ Refuse \/ Task
    \/ \E d \in Directions : PeerSends(d) \/ PeerStops(d) \/ Relay(d)

Spec == Init /\ [][Next]_vars

\* The task runs on, polls both relays, and a write gets through or fails.
\* No peer owes anything.
FairSpec == Spec /\ WF_vars(Task) /\ \A d \in Directions : WF_vars(Relay(d))
-----------------------------------------------------------------------------
Over == {"recorded", "lost", "refused"}

TypeOK ==
    /\ pc \in {"idle", "upgrading", "connecting", "relaying", "storing", "announcing"} \cup Over
    /\ sent \in [Directions -> Seq(Frame)]
    /\ peer \in [Directions -> {"open", "ended", "broken"}]
    /\ relay \in [Directions -> {"reading", "writing", "done", "failed"}]
    /\ taken \in [Directions -> Nat]
    /\ delivered \in [Directions -> Seq(Frame)]
    /\ captured \in Seq(Directions \X Frame)
    /\ state \in {"Pending", "Completed", "Failed"}
    /\ blamed \in Directions \cup {None}
    /\ row \in BOOLEAN /\ announced \in BOOLEAN

\* Where the frames of a direction lie in the capture, and which of them one is.
CapturedOf(d) == {k \in DOMAIN captured : captured[k][1] = d}
Place(d, k) == Cardinality({j \in CapturedOf(d) : j <= k})

\* Each peer receives what the other sent, in order, without a gap and nothing
\* after a close frame, and the record shows just that, however the two
\* directions interleave: per direction the captured frames are the first ones
\* sent, and the delivered ones are all of them but at most the last, which is
\* missing only while it is being written or when writing it failed; in a
\* Completed record none is.
RelayIsFaithful ==
    \A d \in Directions :
        LET count == Cardinality(CapturedOf(d))
            lag == count - Len(delivered[d])
        IN  /\ count <= Len(sent[d])
            /\ \A k \in CapturedOf(d) :
                   /\ captured[k][2] = sent[d][Place(d, k)]
                   /\ captured[k][2] = "close" => Place(d, k) = count
            /\ delivered[d] = SubSeq(sent[d], 1, Len(delivered[d]))
            /\ lag = 0 \/ (lag = 1 /\ relay[d] \in {"writing", "failed"} /\ state # "Completed")

\* A record exists only of a relay that is over, it blames a direction that
\* failed exactly when it is Failed, and no event goes without its row.
RecordIsFinal ==
    /\ row => state # "Pending" /\ \A d \in Directions : relay[d] \in {"done", "failed"}
    /\ state = "Failed" <=> blamed # None
    /\ state = "Completed" => \A d \in Directions : relay[d] = "done"
    /\ announced => row

\* When both peers have stopped sending the socket is over in the end.
EndsWhenBothStop ==
    (pc = "relaying" /\ \A d \in Directions : peer[d] # "open") ~> pc \in Over
=============================================================================
