---------------------------- MODULE WsRelayProofs ----------------------------
(***************************************************************************)
(* What a captured WebSocket shows, for any kinds and numbers of frames:   *)
(* the relays deliver faithfully, the capture agrees with them, and the    *)
(* record is final and stays as it is (RecordIsKept). The record is        *)
(* written when pc says so and the relays by themselves, so the invariant  *)
(* says what each place in the task knows of the relays (RecordFollows),   *)
(* and how far each relay is with its frames (Progress). That the capture  *)
(* counts and orders the frames read although two relays append to it is   *)
(* CaptureKeepsPlaces.                                                     *)
(***************************************************************************)
EXTENDS WsRelay, FiniteSetTheorems, TLAPS

\* What the record's place in the task knows of the relays.
RecordFollows ==
    /\ state # "Pending" => pc \in {"storing", "announcing", "recorded", "lost"} /\ Joined
    /\ pc \in {"storing", "announcing", "recorded"} => state # "Pending"
    /\ pc \in {"announcing", "recorded"} => row

\* How far a relay is: what it has read is captured in that order, and written
\* up to the frame it holds; only its last frame may be a close frame.
Progress(d) ==
    /\ taken[d] = Cardinality(CapturedOf(d)) /\ taken[d] <= Len(sent[d])
    /\ \A k \in CapturedOf(d) : captured[k][2] = sent[d][Place(d, k)]
    /\ \A i \in 1..taken[d] : sent[d][i] = "close" => i = taken[d] /\ relay[d] # "reading"
    /\ \A i \in 1..Len(delivered[d]) : delivered[d][i] = sent[d][i]
    /\ relay[d] \in {"reading", "done"} => taken[d] = Len(delivered[d])
    /\ relay[d] = "writing" => taken[d] = Len(delivered[d]) + 1
    /\ relay[d] = "failed" => taken[d] \in {Len(delivered[d]), Len(delivered[d]) + 1}

IInv == TypeOK /\ RecordIsFinal /\ RecordFollows /\ \A d \in Directions : Progress(d)

\* The place of a captured frame in its direction is a count.
LEMMA PlacesAreFinite ==
    ASSUME TypeOK, NEW d \in Directions
    PROVE  /\ IsFiniteSet(CapturedOf(d)) /\ CapturedOf(d) \subseteq 1..Len(captured)
           /\ Cardinality(CapturedOf(d)) \in Nat
           /\ \A k \in CapturedOf(d) : Place(d, k) \in 1..Cardinality(CapturedOf(d))
  <1>1. CapturedOf(d) \subseteq 1..Len(captured) /\ Len(captured) \in Nat
    BY DEF CapturedOf, TypeOK
  <1>2. IsFiniteSet(CapturedOf(d))
    <2>1. IsFiniteSet(1..Len(captured))
      BY <1>1, FS_Interval
    <2> QED BY <1>1, <2>1, FS_Subset
  <1>3. ASSUME NEW k \in CapturedOf(d)
        PROVE  Place(d, k) \in 1..Cardinality(CapturedOf(d))
    <2> DEFINE upto == {j \in CapturedOf(d) : j <= k}
    <2>1. upto \subseteq CapturedOf(d) /\ k \in upto
      BY <1>1
    <2>2. IsFiniteSet(upto) /\ Cardinality(upto) <= Cardinality(CapturedOf(d))
      BY <1>2, <2>1, FS_Subset
    <2>3. Cardinality(upto) \in Nat /\ Cardinality(upto) # 0
      BY <2>1, <2>2, FS_CardinalityType, FS_EmptySet
    <2>4. Cardinality(CapturedOf(d)) \in Nat
      BY <1>2, FS_CardinalityType
    <2> QED BY <2>2, <2>3, <2>4 DEF Place
  <1> QED BY <1>1, <1>2, <1>3, FS_CardinalityType

\* A frame that is appended is the last of its direction and moves no other.
LEMMA CaptureKeepsPlaces ==
    ASSUME TypeOK, NEW d \in Directions, NEW f \in Frame, captured' = CapturedWith(d, f),
           NEW last, last = Len(captured) + 1
    PROVE  /\ CapturedOf(d)' = CapturedOf(d) \cup {last}
           /\ captured'[last] = <<d, f>>
           /\ \A k \in 1..Len(captured) : captured'[k] = captured[k]
           /\ Cardinality(CapturedOf(d)') = Cardinality(CapturedOf(d)) + 1
           /\ Place(d, last)' = Cardinality(CapturedOf(d)) + 1
           /\ \A k \in CapturedOf(d) : Place(d, k)' = Place(d, k)
           /\ \A e \in Directions \ {d} :
                  CapturedOf(e)' = CapturedOf(e) /\ \A k \in CapturedOf(e) : Place(e, k)' = Place(e, k)
  <1>1. /\ captured \in Seq(Directions \X Frame) /\ captured' = Append(captured, <<d, f>>)
        /\ Len(captured) \in Nat /\ DOMAIN captured = 1..Len(captured)
    BY DEF TypeOK, CapturedWith
  <1>2. /\ Len(captured') = last /\ captured'[last] = <<d, f>>
        /\ DOMAIN captured' = 1..last
        /\ \A k \in 1..Len(captured) : captured'[k] = captured[k]
    BY <1>1
  <1>3. CapturedOf(d)' = CapturedOf(d) \cup {last}
    BY <1>1, <1>2 DEF CapturedOf
  <1>4. \A e \in Directions \ {d} : CapturedOf(e)' = CapturedOf(e)
    BY <1>1, <1>2 DEF CapturedOf
  <1>5. last \notin CapturedOf(d) /\ \A e \in Directions : CapturedOf(e) \subseteq 1..Len(captured)
    BY <1>1 DEF CapturedOf
  <1>6. Cardinality(CapturedOf(d)') = Cardinality(CapturedOf(d)) + 1
    BY <1>3, <1>5, PlacesAreFinite, FS_AddElement
  <1>7. {j \in CapturedOf(d)' : j <= last} = CapturedOf(d)'
    BY <1>3, <1>5, <1>1
  <1>8. Place(d, last)' = Cardinality(CapturedOf(d)) + 1
    BY <1>6, <1>7 DEF Place
  <1>9. ASSUME NEW k \in CapturedOf(d)
        PROVE  Place(d, k)' = Place(d, k)
    <2>1. {j \in CapturedOf(d)' : j <= k} = {j \in CapturedOf(d) : j <= k}
      BY <1>1, <1>3, <1>5
    <2> QED BY <2>1 DEF Place
  <1>10. ASSUME NEW e \in Directions \ {d}, NEW k \in CapturedOf(e)
         PROVE  Place(e, k)' = Place(e, k)
    BY <1>4 DEF Place
  <1> QED BY <1>2, <1>3, <1>4, <1>6, <1>8, <1>9, <1>10
-----------------------------------------------------------------------------
\* The invariant holds before the upgrade.
LEMMA InitIInv == Init => IInv
  <1> SUFFICES ASSUME Init PROVE IInv
    OBVIOUS
  <1> USE DEF Init
  <1>1. TypeOK
    <2>1. <<>> \in Seq(Frame) /\ <<>> \in Seq(Directions \X Frame)
      OBVIOUS
    <2> QED BY <2>1 DEF TypeOK
  <1>2. RecordIsFinal /\ RecordFollows
    BY DEF RecordIsFinal, RecordFollows
  <1>3. ASSUME NEW d \in Directions
        PROVE  Progress(d)
    <2>1. CapturedOf(d) = {}
      BY DEF CapturedOf
    <2> QED BY <2>1, FS_EmptySet DEF Progress
  <1> QED BY <1>1, <1>2, <1>3 DEF IInv

\* The steps of the task before, between and after the relays.
TaskStep == Upgrade \/ Refuse \/ Task

\* The task keeps it before, between and after the relays.
LEMMA TaskKeeps ==
    ASSUME IInv, TaskStep
    PROVE  IInv'
  <1> USE DEF IInv
  <1>1. UNCHANGED wires
    BY DEF TaskStep, Task, Upgrade, Refuse, Upgraded, UpgradeFails, Connect, ConnectFails,
           Finish, Store, StoreFails, Announce
  <1>2. ASSUME NEW d \in Directions
        PROVE  Progress(d)'
    BY <1>1 DEF wires, Progress, CapturedOf, Place
  <1>3. TypeOK' /\ RecordIsFinal' /\ RecordFollows'
    <2>1. CASE Upgrade \/ Refuse \/ Upgraded \/ UpgradeFails \/ Connect \/ ConnectFails \/ StoreFails
      <3>1. /\ pc' \in {"upgrading", "refused", "connecting", "lost", "relaying"}
            /\ pc \in {"idle", "upgrading", "connecting", "storing"}
            /\ pc = "storing" => pc' = "lost"
            /\ state # "Pending" => pc = "storing"
        BY <2>1 DEF Upgrade, Refuse, Upgraded, UpgradeFails, Connect, ConnectFails, StoreFails,
                    Goto, RecordFollows
      <3>2. UNCHANGED record
        BY <2>1 DEF Upgrade, Refuse, Upgraded, UpgradeFails, Connect, ConnectFails, StoreFails
      <3> QED
        BY <1>1, <3>1, <3>2 DEF wires, record, TypeOK, RecordIsFinal, RecordFollows, Joined, Over
    <2>2. CASE Finish
      <3>1. /\ pc = "relaying" /\ pc' = "storing" /\ Joined /\ UNCHANGED <<row, announced>>
            /\ blamed' = Culprit /\ state' = IF Culprit = None THEN "Completed" ELSE "Failed"
        BY <2>2 DEF Finish, Goto
      <3>2. state = "Pending" /\ ~row /\ ~announced
        BY <3>1 DEF RecordFollows, RecordIsFinal, TypeOK
      <3>3. /\ Culprit \in Directions \cup {None}
            /\ Culprit = None <=> \A d \in Directions : relay[d] # "failed"
        BY RelayAssumption DEF Culprit, Directions
      <3>4. Culprit = None => \A d \in Directions : relay[d] = "done"
        BY <3>1, <3>3 DEF Joined
      <3>5. Joined' /\ relay' = relay
        BY <1>1, <3>1 DEF wires, Joined
      <3> QED
        BY <1>1, <3>1, <3>2, <3>3, <3>4, <3>5 DEF wires, TypeOK, RecordIsFinal, RecordFollows, Joined
    <2>3. CASE Store \/ Announce
      <3>1. /\ pc \in {"storing", "announcing"} /\ pc' \in {"announcing", "recorded"}
            /\ UNCHANGED <<state, blamed>> /\ row' /\ row' \in BOOLEAN /\ announced' \in BOOLEAN
        BY <2>3 DEF Store, Announce, Goto, RecordFollows, TypeOK
      <3> QED
        BY <1>1, <3>1 DEF wires, TypeOK, RecordIsFinal, RecordFollows, Joined, Over
    <2> QED
      BY <2>1, <2>2, <2>3 DEF TaskStep, Task
  <1> QED BY <1>2, <1>3

\* While peers and relays move, the record is still to be made.
LEMMA RecordWaits ==
    ASSUME IInv, NEW d \in Directions, PeerSends(d) \/ PeerStops(d) \/ Relay(d)
    PROVE  /\ pc \in {"upgrading", "connecting", "relaying"}
           /\ RecordIsFinal' /\ RecordFollows'
  <1>1. pc \in {"upgrading", "connecting", "relaying"} /\ UNCHANGED <<pc, record>>
    BY DEF PeerSends, PeerStops, Relay, Read, ReadEnds, ReadFails, Write, WriteFails, Speaking
  <1>2. state = "Pending" /\ ~row
    BY <1>1 DEF IInv, RecordFollows, RecordIsFinal
  <1> QED BY <1>1, <1>2 DEF IInv, RecordFollows, RecordIsFinal, record

\* A peer that sends or stops keeps it: what was sent stays a prefix.
LEMMA PeerKeeps ==
    ASSUME IInv, NEW d \in Directions, PeerSends(d) \/ PeerStops(d)
    PROVE  IInv'
  <1> USE DEF IInv
  <1>1. UNCHANGED <<relay, taken, delivered, captured, record, pc>>
    BY DEF PeerSends, PeerStops
  <1>2. TypeOK'
    <2>1. CASE PeerSends(d)
      <3>1. PICK f \in Frame : sent' = [sent EXCEPT ![d] = Append(@, f)]
        BY <2>1 DEF PeerSends
      <3>2. sent' \in [Directions -> Seq(Frame)]
        BY <3>1 DEF TypeOK
      <3> QED BY <1>1, <2>1, <3>2 DEF PeerSends, TypeOK, record
    <2>2. CASE PeerStops(d)
      BY <1>1, <2>2 DEF PeerStops, TypeOK, record
    <2> QED BY <2>1, <2>2
  <1>3. ASSUME NEW e \in Directions
        PROVE  /\ Len(sent[e]) \in Nat /\ Len(sent'[e]) \in Nat /\ Len(sent'[e]) >= Len(sent[e])
               /\ \A i \in 1..Len(sent[e]) : sent'[e][i] = sent[e][i]
    <2>1. CASE PeerSends(d)
      BY <2>1 DEF PeerSends, TypeOK
    <2>2. CASE PeerStops(d)
      BY <2>2 DEF PeerStops, TypeOK
    <2> QED BY <2>1, <2>2
  <1>4. ASSUME NEW e \in Directions
        PROVE  Progress(e)'
    <2>1. CapturedOf(e)' = CapturedOf(e) /\ \A k \in CapturedOf(e) : Place(e, k)' = Place(e, k)
      BY <1>1 DEF CapturedOf, Place
    <2>2. taken[e] \in Nat /\ taken[e] <= Len(sent[e]) /\ Len(delivered[e]) \in Nat
          /\ Len(delivered[e]) <= taken[e]
      <3>1. /\ relay[e] \in {"reading", "writing", "done", "failed"} /\ taken[e] \in Nat
            /\ Len(delivered[e]) \in Nat
        BY DEF TypeOK
      <3> QED BY <3>1 DEF Progress
    <2>3. \A k \in CapturedOf(e) : Place(e, k) \in 1..Len(sent[e])
      BY <1>3, <2>2, PlacesAreFinite DEF Progress
    <2>4. \A i \in 1..taken[e] : sent'[e][i] = sent[e][i]
      BY <1>3, <2>2
    <2>5. \A i \in 1..Len(delivered[e]) : sent'[e][i] = sent[e][i]
      BY <1>3, <2>2
    <2>6. taken'[e] = Cardinality(CapturedOf(e)') /\ taken'[e] <= Len(sent'[e])
      BY <1>1, <1>3, <2>1, <2>2 DEF Progress
    <2>7. \A k \in CapturedOf(e)' : captured'[k][2] = sent'[e][Place(e, k)']
      BY <1>1, <1>3, <2>1, <2>3 DEF Progress
    <2> QED BY <1>1, <2>4, <2>5, <2>6, <2>7 DEF Progress
  <1> QED BY <1>2, <1>4, RecordWaits

\* A relay keeps it: it moves one frame of its own direction at a time.
LEMMA RelayKeeps ==
    ASSUME IInv, NEW d \in Directions, Relay(d)
    PROVE  IInv'
  <1> USE DEF IInv
  <1>1. /\ pc = "relaying" /\ UNCHANGED <<pc, sent, peer, record>>
        /\ \A e \in Directions \ {d} :
               relay'[e] = relay[e] /\ taken'[e] = taken[e] /\ delivered'[e] = delivered[e]
    BY DEF Relay, Read, ReadEnds, ReadFails, Write, WriteFails, TypeOK
  <1>2. taken[d] \in Nat /\ Len(sent[d]) \in Nat /\ Len(delivered[d]) \in Nat
    BY DEF TypeOK
  <1>3. CASE Read(d)
    <2> DEFINE f == sent[d][taken[d] + 1]
               last == Len(captured) + 1
    <2>1. /\ relay[d] = "reading" /\ taken[d] < Len(sent[d]) /\ relay' = [relay EXCEPT ![d] = "writing"]
          /\ taken' = [taken EXCEPT ![d] = @ + 1] /\ captured' = CapturedWith(d, f)
          /\ delivered' = delivered /\ f \in Frame
      BY <1>2, <1>3 DEF Read, TypeOK
    <2>2. CapturedWith(d, f) \in Seq(Directions \X Frame)
      BY <2>1 DEF CapturedWith, TypeOK
    <2>3. TypeOK'
      BY <1>1, <1>2, <2>1, <2>2 DEF TypeOK, record
    <2>4. /\ CapturedOf(d)' = CapturedOf(d) \cup {last}
          /\ captured'[last] = <<d, f>>
          /\ \A k \in 1..Len(captured) : captured'[k] = captured[k]
          /\ Cardinality(CapturedOf(d)') = Cardinality(CapturedOf(d)) + 1
          /\ \A k \in CapturedOf(d) : Place(d, k)' = Place(d, k)
          /\ \A e \in Directions \ {d} :
                 CapturedOf(e)' = CapturedOf(e) /\ \A k \in CapturedOf(e) : Place(e, k)' = Place(e, k)
      BY <2>1, CaptureKeepsPlaces
    <2>5. ASSUME NEW l, l = last
          PROVE  Place(d, l)' = Cardinality(CapturedOf(d)) + 1
      BY <2>1, <2>5, CaptureKeepsPlaces
    <2>6. \A e \in Directions : CapturedOf(e) \subseteq 1..Len(captured)
      BY PlacesAreFinite
    <2>7. Progress(d)'
      <3>1. ASSUME NEW k \in CapturedOf(d)'
            PROVE  captured'[k][2] = sent'[d][Place(d, k)']
        <4>1. CASE k = last
          BY <1>1, <2>1, <2>4, <2>5, <4>1 DEF Progress
        <4>2. CASE k \in CapturedOf(d)
          BY <1>1, <2>4, <2>6, <4>2 DEF Progress
        <4> QED BY <2>4, <4>1, <4>2
      <3>2. taken'[d] = taken[d] + 1 /\ relay'[d] = "writing"
        BY <2>1 DEF TypeOK
      <3>3. \A i \in 1..taken'[d] : sent'[d][i] = "close" => i = taken'[d]
        BY <1>1, <1>2, <2>1, <3>2 DEF Progress
      <3> QED BY <1>1, <1>2, <2>1, <2>4, <3>1, <3>2, <3>3 DEF Progress
    <2>8. ASSUME NEW e \in Directions \ {d}
          PROVE  Progress(e)'
      <3>1. \A k \in CapturedOf(e)' : captured'[k][2] = sent'[e][Place(e, k)']
        BY <1>1, <2>4, <2>6 DEF Progress
      <3>2. taken'[e] = Cardinality(CapturedOf(e)') /\ taken'[e] <= Len(sent'[e])
        BY <1>1, <2>4 DEF Progress
      <3> QED BY <1>1, <3>1, <3>2 DEF Progress
    <2> QED BY <2>3, <2>7, <2>8, RecordWaits
  <1>4. CASE ~Read(d)
    <2>1. captured' = captured /\ taken' = taken
      BY <1>4 DEF Relay, ReadEnds, ReadFails, Write, WriteFails
    <2>2. \A e \in Directions : CapturedOf(e)' = CapturedOf(e) /\ \A k \in CapturedOf(e) : Place(e, k)' = Place(e, k)
      BY <2>1 DEF CapturedOf, Place
    <2>3. ASSUME NEW e \in Directions \ {d}
          PROVE  Progress(e)'
      BY <1>1, <2>1, <2>2 DEF Progress
    <2>4. CASE Write(d)
      <3>1. /\ relay[d] = "writing" /\ taken[d] = Len(delivered[d]) + 1 /\ taken[d] <= Len(sent[d])
            /\ Current(d) \in Frame /\ Current(d) = sent[d][taken[d]]
            /\ delivered' = [delivered EXCEPT ![d] = Append(@, Current(d))]
            /\ relay' = [relay EXCEPT ![d] = AfterWrite(d)]
        BY <1>2, <2>4 DEF Write, Current, Progress, TypeOK
      <3>2. TypeOK'
        BY <1>1, <2>1, <3>1 DEF TypeOK, AfterWrite, record
      <3>3. /\ Len(delivered'[d]) = taken[d] /\ relay'[d] = AfterWrite(d)
            /\ \A i \in 1..taken[d] : delivered'[d][i] = sent[d][i]
        BY <1>2, <3>1 DEF TypeOK, Progress
      <3>4. Progress(d)'
        <4>1. \A k \in CapturedOf(d)' : captured'[k][2] = sent'[d][Place(d, k)']
          BY <1>1, <2>1, <2>2 DEF Progress
        <4>2. taken'[d] = Cardinality(CapturedOf(d)') /\ taken'[d] <= Len(sent'[d])
          BY <1>1, <2>1, <2>2, <3>1 DEF Progress
        <4>3. /\ relay'[d] \in {"done", "reading"}
              /\ relay'[d] = "reading" => sent[d][taken[d]] # "close"
          BY <3>1, <3>3 DEF AfterWrite
        <4>4. \A i \in 1..taken'[d] : sent'[d][i] = "close" => i = taken'[d] /\ relay'[d] # "reading"
          BY <1>1, <2>1, <4>3 DEF Progress
        <4>5. \A i \in 1..Len(delivered'[d]) : delivered'[d][i] = sent'[d][i]
          BY <1>1, <3>3
        <4>6. taken'[d] = Len(delivered'[d])
          BY <2>1, <3>3
        <4> QED BY <4>1, <4>2, <4>3, <4>4, <4>5, <4>6 DEF Progress
      <3>5. RecordIsFinal' /\ RecordFollows'
        BY RecordWaits
      <3> QED BY <2>3, <3>2, <3>4, <3>5
    <2>5. CASE ReadEnds(d) \/ ReadFails(d) \/ WriteFails(d)
      <3>1. /\ delivered' = delivered /\ relay[d] \in {"reading", "writing"}
            /\ relay'[d] \in {"done", "failed"}
            /\ relay'[d] = "done" => relay[d] = "reading"
            /\ relay' \in [Directions -> {"reading", "writing", "done", "failed"}]
        BY <2>5 DEF ReadEnds, ReadFails, WriteFails, TypeOK
      <3>2. TypeOK'
        BY <1>1, <2>1, <3>1 DEF TypeOK, record
      <3>3. Progress(d)'
        <4>1. \A k \in CapturedOf(d)' : captured'[k][2] = sent'[d][Place(d, k)']
          BY <1>1, <2>1, <2>2 DEF Progress
        <4>2. taken'[d] = Cardinality(CapturedOf(d)') /\ taken'[d] <= Len(sent'[d])
          BY <1>1, <2>1, <2>2 DEF Progress
        <4>3. \A i \in 1..taken'[d] : sent'[d][i] = "close" => i = taken'[d] /\ relay'[d] # "reading"
          BY <1>1, <2>1, <3>1 DEF Progress
        <4>4. \A i \in 1..Len(delivered'[d]) : delivered'[d][i] = sent'[d][i]
          BY <1>1, <3>1 DEF Progress
        <4>5. /\ relay'[d] = "done" => taken'[d] = Len(delivered'[d])
              /\ taken'[d] \in {Len(delivered'[d]), Len(delivered'[d]) + 1}
          BY <2>1, <3>1 DEF Progress
        <4> QED BY <3>1, <4>1, <4>2, <4>3, <4>4, <4>5 DEF Progress
      <3>4. \A e \in Directions : Progress(e)'
        BY <2>3, <3>3
      <3>5. RecordIsFinal' /\ RecordFollows'
        BY RecordWaits
      <3> QED BY <3>2, <3>4, <3>5
    <2> QED BY <1>4, <2>4, <2>5 DEF Relay
  <1> QED BY <1>3, <1>4

\* IInv holds at first and every step keeps it.
THEOREM InductiveInvariant == Spec => []IInv
  <1>1. IInv /\ [Next]_vars => IInv'
    <2> SUFFICES ASSUME IInv, [Next]_vars PROVE IInv'
      OBVIOUS
    <2>1. CASE UNCHANGED vars
      <3>1. TypeOK' /\ RecordIsFinal' /\ RecordFollows'
        BY <2>1 DEF vars, IInv, TypeOK, RecordIsFinal, RecordFollows, Joined
      <3>2. ASSUME NEW d \in Directions
            PROVE  Progress(d)'
        <4>1. Progress(d)
          BY DEF IInv
        <4>2. UNCHANGED <<relay, taken, delivered, sent, captured>>
          BY <2>1 DEF vars, wires
        <4>3. CapturedOf(d)' = CapturedOf(d) /\ \A k : Place(d, k)' = Place(d, k)
          BY <4>2 DEF CapturedOf, Place
        <4> QED BY <4>1, <4>2, <4>3 DEF Progress
      <3> QED BY <3>1, <3>2 DEF IInv
    <2>2. CASE Next
      BY <2>2, TaskKeeps, PeerKeeps, RelayKeeps DEF Next, TaskStep
    <2> QED BY <2>1, <2>2
  <1> QED BY InitIInv, <1>1, PTL DEF Spec

\* Every variable of the relay keeps its type.
THEOREM TypeCorrect == Spec => []TypeOK
  <1>1. IInv => TypeOK
    BY DEF IInv
  <1> QED BY InductiveInvariant, <1>1, PTL

\* A record is of a relay that is over, and blames a direction that failed.
THEOREM RecordIsFinalAlways == Spec => []RecordIsFinal
  <1>1. IInv => RecordIsFinal
    BY DEF IInv
  <1> QED BY InductiveInvariant, <1>1, PTL

\* Each peer receives what the other sent, and the record shows just that.
THEOREM RelayIsFaithfulAlways == Spec => []RelayIsFaithful
  <1>1. IInv => RelayIsFaithful
    <2> SUFFICES ASSUME IInv, NEW d \in Directions
                 PROVE  LET count == Cardinality(CapturedOf(d))
                            lag == count - Len(delivered[d])
                        IN  /\ count <= Len(sent[d])
                            /\ \A k \in CapturedOf(d) :
                                   /\ captured[k][2] = sent[d][Place(d, k)]
                                   /\ captured[k][2] = "close" => Place(d, k) = count
                            /\ delivered[d] = SubSeq(sent[d], 1, Len(delivered[d]))
                            /\ lag = 0 \/ (lag = 1 /\ relay[d] \in {"writing", "failed"} /\ state # "Completed")
      BY DEF RelayIsFaithful
    <2>1. TypeOK /\ Progress(d) /\ taken[d] = Cardinality(CapturedOf(d)) /\ taken[d] \in Nat
      BY DEF IInv, Progress, TypeOK
    <2>2. /\ sent[d] \in Seq(Frame) /\ delivered[d] \in Seq(Frame)
          /\ Len(sent[d]) \in Nat /\ Len(delivered[d]) \in Nat
          /\ relay[d] \in {"reading", "writing", "done", "failed"}
      BY <2>1 DEF TypeOK
    <2>3. \A k \in CapturedOf(d) : captured[k][2] = sent[d][Place(d, k)] /\ Place(d, k) \in 1..taken[d]
      BY <2>1, PlacesAreFinite DEF Progress
    <2>4. \A i \in 1..taken[d] : sent[d][i] = "close" => i = taken[d]
      BY <2>1 DEF Progress
    <2>5. Len(delivered[d]) <= taken[d] /\ taken[d] <= Len(sent[d])
      BY <2>1, <2>2 DEF Progress
    <2>6. delivered[d] = SubSeq(sent[d], 1, Len(delivered[d]))
      <3>1. \A i \in 1..Len(delivered[d]) : delivered[d][i] = sent[d][i]
        BY <2>1 DEF Progress
      <3> QED BY <2>2, <2>5, <3>1
    <2>7. \/ taken[d] = Len(delivered[d])
          \/ taken[d] = Len(delivered[d]) + 1 /\ relay[d] \in {"writing", "failed"}
      BY <2>1, <2>2 DEF Progress
    <2>8. state = "Completed" => relay[d] = "done"
      BY DEF IInv, RecordIsFinal
    <2> QED BY <2>1, <2>2, <2>3, <2>4, <2>5, <2>6, <2>7, <2>8
  <1> QED BY InductiveInvariant, <1>1, PTL

\* The capture only grows, at its end; and once the relays were joined nothing of
\* it changes, nor what the session says of them: the row, the event and what the
\* window loads are one record, which no late frame touches.
RecordIsKept ==
    [][/\ captured' # captured =>
              pc = "relaying" /\ \E d \in Directions, f \in Frame : captured' = Append(captured, <<d, f>>)
       /\ state # "Pending" => UNCHANGED <<state, blamed, captured, delivered>>
       /\ row => row']_vars

\* Only a relay's read appends, and the relays are over before the record is made.
THEOREM RecordIsKeptAlways == Spec => RecordIsKept
  <1> DEFINE Kept == /\ captured' # captured =>
                            /\ pc = "relaying"
                            /\ \E d \in Directions, f \in Frame : captured' = Append(captured, <<d, f>>)
                     /\ state # "Pending" => UNCHANGED <<state, blamed, captured, delivered>>
                     /\ row => row'
  <1>1. IInv /\ [Next]_vars => [Kept]_vars
    <2> SUFFICES ASSUME IInv, Next PROVE Kept
      OBVIOUS
    <2>0. TypeOK /\ (state # "Pending" => pc # "relaying")
      BY DEF IInv, RecordFollows
    <2>1. CASE Upgrade \/ Refuse \/ Upgraded \/ UpgradeFails \/ Connect \/ ConnectFails \/ StoreFails
      BY <2>1 DEF Upgrade, Refuse, Upgraded, UpgradeFails, Connect, ConnectFails, StoreFails, wires, record
    <2>2. CASE Finish \/ Store \/ Announce
      BY <2>0, <2>2 DEF Finish, Store, Announce, Goto, wires
    <2>3. ASSUME NEW d \in Directions, Read(d)
          PROVE  Kept
      <3>1. sent[d][taken[d] + 1] \in Frame
        <4>1. sent[d] \in Seq(Frame) /\ taken[d] \in Nat
          BY <2>0 DEF TypeOK
        <4>2. taken[d] + 1 \in 1..Len(sent[d])
          BY <2>3, <4>1 DEF Read
        <4> QED BY <4>1, <4>2
      <3>2. captured' = Append(captured, <<d, sent[d][taken[d] + 1]>>) /\ pc = "relaying" /\ row' = row
        BY <2>3 DEF Read, CapturedWith, record
      <3> QED BY <2>0, <3>1, <3>2
    <2>4. ASSUME NEW d \in Directions, ReadEnds(d) \/ ReadFails(d) \/ Write(d) \/ WriteFails(d)
          PROVE  Kept
      BY <2>0, <2>4 DEF ReadEnds, ReadFails, Write, WriteFails, record
    <2>5. ASSUME NEW d \in Directions, PeerSends(d) \/ PeerStops(d)
          PROVE  Kept
      BY <2>5 DEF PeerSends, PeerStops, record
    <2> QED BY <2>1, <2>2, <2>3, <2>4, <2>5 DEF Next, Task, Relay
  <1> QED BY <1>1, InductiveInvariant, PTL DEF Spec, RecordIsKept
=============================================================================
