-------------------------- MODULE DesktopViewProofs --------------------------
(***************************************************************************)
(* What the window is sent and what it shows, for any channel, any number  *)
(* of events, sessions, filters, commands and loads in flight.             *)
(*                                                                         *)
(* First the feed by itself. EmittedInOrder says nothing of the slots;     *)
(* that the receiver finds the event it expects, or learns that it was     *)
(* overrun by a whole channel, needs that the last Capacity events sent    *)
(* are in their slots (WindowIsKept) and where the receiver stands         *)
(* (PositionIsKnown). The feed beside the window takes its own steps       *)
(* (FeedSteps), so all of this holds there too.                            *)
(*                                                                         *)
(* Then what the store answers. Lists, durations and buckets are           *)
(* enumerations by rank, of which SortedEnumerates says all that the rest  *)
(* needs: a list leaves out only what is old (ListLeavesOutOld), the       *)
(* percentile and the buckets are what they are called (PercentileCovers,  *)
(* LargestBucketsAreShown). The sum behind the average is a recursive      *)
(* function; that there is one, and how large it is, is shown of the least *)
(* number of values for which it would fail (LeastNatural).                *)
(*                                                                         *)
(* Then what the window shows. A property of a view that is settled needs  *)
(* an invariant for the time it is not: as long as its loads did not race, *)
(* there is one load of the view at most (Alone), and either that load or  *)
(* the view itself is right (DetailInv, OverviewInv, ListInv). The list    *)
(* also needs what the listener makes of it (PrependedFits), and what it   *)
(* shows and leaves out is compared with the filter set (FitInv).          *)
(***************************************************************************)
EXTENDS DesktopView, FiniteSetTheorems, SequenceTheorems, WellFoundedInduction, TLAPS

\* The receiver has emitted all it has taken, but the one in its hands.
PositionIsKnown ==
    /\ next <= sent + 1
    /\ task = "receiving" => next = Len(emitted) + 1
    /\ task = "emitting" => next = Len(emitted) + 2

\* The events that fit the channel are in it, and nothing newer.
WindowIsKept ==
    /\ \A i \in 0..Capacity - 1 : slots[i] <= sent
    /\ task # "ended" => \A n \in 1..sent : n + Capacity > sent => slots[Slot(n)] = n

FeedInv == TypeOK /\ PositionIsKnown /\ WindowIsKept /\ EmittedInOrder

\* A slot is one of the channel's.
LEMMA SlotInRange == \A n \in Nat : Slot(n) \in 0..Capacity - 1
  BY FeedAssumption DEF Slot

\* A slot is used again only a whole channel later.
LEMMA SlotsApart ==
    ASSUME NEW m \in Nat, NEW n \in Nat, m > n, Slot(m) = Slot(n)
    PROVE  m >= n + Capacity
  <1> USE FeedAssumption
  <1> DEFINE q == m \div Capacity
             r == n \div Capacity
  <1>1. /\ q \in Nat /\ m = Capacity * q + (m % Capacity)
        /\ r \in Nat /\ n = Capacity * r + (n % Capacity)
    OBVIOUS
  <1>2. m % Capacity = n % Capacity
    BY DEF Slot
  <1> HIDE DEF q, r
  <1>3. m = n + Capacity * q - Capacity * r
    BY <1>1, <1>2
  <1>4. q >= r + 1
    <2>1. q <= r => Capacity * q <= Capacity * r
      BY <1>1
    <2> QED BY <2>1, <1>1, <1>3
  <1>5. Capacity * q >= Capacity * r + Capacity
    BY <1>4, <1>1
  <1> QED BY <1>3, <1>5, <1>1

\* The feed's invariant holds before the first event.
LEMMA InitFeedInv == Init => FeedInv
  BY FeedAssumption DEF Init, FeedInv, TypeOK, PositionIsKnown, WindowIsKept, EmittedInOrder

\* A send fills the slot of the event that leaves the window, and no other.
LEMMA SendKeeps ==
    ASSUME FeedInv, Send
    PROVE  FeedInv'
  <1> USE FeedAssumption DEF FeedInv
  <1>1. /\ sent \in Nat /\ sent' = sent + 1 /\ sent' \in 0..MaxEvents
        /\ UNCHANGED <<next, task, held, emitted>>
        /\ Slot(sent + 1) \in 0..Capacity - 1
    <2>1. sent \in 0..MaxEvents /\ sent < MaxEvents /\ sent' = sent + 1
      BY DEF Send, TypeOK
    <2>2. sent + 1 \in Nat /\ sent' \in 0..MaxEvents
      BY <2>1
    <2>3. Slot(sent + 1) \in 0..Capacity - 1
      BY <2>2, SlotInRange
    <2> QED BY <2>1, <2>2, <2>3 DEF Send
  <1>2. TypeOK'
    BY <1>1 DEF Send, TypeOK
  <1>3. PositionIsKnown' /\ EmittedInOrder'
    BY <1>1 DEF PositionIsKnown, EmittedInOrder, TypeOK
  <1>4. \A i \in 0..Capacity - 1 : slots'[i] <= sent'
    BY <1>1 DEF Send, TypeOK, WindowIsKept
  <1>5. ASSUME task # "ended", NEW n \in 1..sent', n + Capacity > sent'
        PROVE  slots'[Slot(n)] = n
    <2>1. slots' = [slots EXCEPT ![Slot(sent + 1)] = sent + 1]
      BY <1>5 DEF Send
    <2>2. CASE n = sent + 1
      BY <2>1, <2>2, <1>1 DEF TypeOK
    <2>3. CASE n # sent + 1
      <3>1. n \in 1..sent /\ n + Capacity > sent
        BY <2>3, <1>5, <1>1
      <3>2. slots[Slot(n)] = n
        BY <3>1, <1>5 DEF WindowIsKept
      <3>3. Slot(n) # Slot(sent + 1)
        BY <3>1, <1>5, <1>1, SlotsApart
      <3> QED BY <2>1, <3>2, <3>3, <3>1, SlotInRange DEF TypeOK
    <2> QED BY <2>2, <2>3
  <1>6. WindowIsKept'
    BY <1>4, <1>5, <1>1 DEF WindowIsKept
  <1> QED BY <1>2, <1>3, <1>6

\* What is received is the event after the last emitted.
LEMMA RecvKeeps ==
    ASSUME FeedInv, Recv
    PROVE  FeedInv'
  <1> USE FeedAssumption DEF FeedInv
  <1>1. /\ task = "receiving" /\ task' = "emitting"
        /\ next \in Nat /\ sent \in 0..MaxEvents
        /\ next' = next + 1 /\ held' = next /\ UNCHANGED <<sent, slots, emitted>>
    BY DEF Recv, Expected, AfterRecv, TypeOK
  <1>2. next >= 1 /\ next <= sent
    <2>1. next \in 1..MaxEvents + 1 /\ slots[Slot(next)] = next
      BY DEF Recv, Expected, TypeOK
    <2>2. slots[Slot(next)] <= sent
      BY <1>1, SlotInRange DEF WindowIsKept
    <2> QED BY <2>1, <2>2
  <1>3. TypeOK'
    BY <1>1, <1>2 DEF TypeOK
  <1>4. PositionIsKnown' /\ EmittedInOrder'
    BY <1>1, <1>2 DEF PositionIsKnown, EmittedInOrder, TypeOK
  <1>5. WindowIsKept'
    BY <1>1 DEF WindowIsKept
  <1> QED BY <1>3, <1>4, <1>5

\* A receiver that finds a later event is a whole channel behind.
LEMMA LagKeeps ==
    ASSUME FeedInv, Lag
    PROVE  FeedInv'
  <1> USE FeedAssumption DEF FeedInv
  <1>1. /\ task = "receiving" /\ task' = "ended"
        /\ next \in Nat /\ sent \in Nat /\ Len(emitted) \in Nat /\ slots[Slot(next)] > next
        /\ UNCHANGED <<sent, slots, next, held, emitted>>
    BY DEF Lag, Overwritten, TypeOK
  <1>2. next < sent /\ next >= 1
    <2>1. Slot(next) \in 0..Capacity - 1
      BY <1>1, SlotInRange
    <2>2. slots[Slot(next)] <= sent
      BY <2>1 DEF WindowIsKept
    <2>3. slots[Slot(next)] \in 0..MaxEvents /\ next \in 1..MaxEvents + 1
      BY <2>1 DEF TypeOK
    <2> QED BY <2>2, <2>3, <1>1
  <1>3. next + Capacity <= sent
    <2>1. next + Capacity > sent => slots[Slot(next)] = next
      BY <1>1, <1>2 DEF WindowIsKept
    <2> QED BY <2>1, <1>1
  <1>4. sent - Len(emitted) > Capacity
    BY <1>1, <1>3 DEF PositionIsKnown
  <1>5. TypeOK' /\ WindowIsKept' /\ PositionIsKnown'
    BY <1>1 DEF TypeOK, WindowIsKept, PositionIsKnown
  <1>6. EmittedInOrder'
    BY <1>1, <1>4 DEF EmittedInOrder
  <1> QED BY <1>5, <1>6

\* What is emitted is the event in hand.
LEMMA EmitKeeps ==
    ASSUME FeedInv, Emit
    PROVE  FeedInv'
  <1> USE FeedAssumption DEF FeedInv
  <1>1. /\ task = "emitting" /\ task' = "receiving"
        /\ held = Len(emitted) + 1 /\ next = Len(emitted) + 2
        /\ emitted' = Append(emitted, held) /\ held' = 0
        /\ UNCHANGED <<sent, slots, next>>
    BY DEF Emit, AfterEmit, EmittedInOrder, PositionIsKnown
  <1>2. held \in 1..MaxEvents /\ Len(emitted) \in Nat
    BY <1>1 DEF TypeOK
  <1>3. /\ emitted' \in Seq(1..MaxEvents) /\ Len(emitted') = Len(emitted) + 1
        /\ \A i \in 1..Len(emitted) : emitted'[i] = emitted[i]
        /\ emitted'[Len(emitted) + 1] = held
    BY <1>1, <1>2 DEF TypeOK
  <1>4. TypeOK'
    BY <1>1, <1>3 DEF TypeOK
  <1>5. PositionIsKnown' /\ WindowIsKept'
    BY <1>1, <1>3 DEF PositionIsKnown, WindowIsKept
  <1>6. EmittedInOrder'
    BY <1>1, <1>2, <1>3 DEF EmittedInOrder
  <1> QED BY <1>4, <1>5, <1>6

\* Every step of the channel and of the forwarding task keeps it.
LEMMA FeedKeeps ==
    ASSUME FeedInv, [Next]_vars
    PROVE  FeedInv'
  <1>1. CASE UNCHANGED vars
    BY <1>1 DEF vars, FeedInv, TypeOK, PositionIsKnown, WindowIsKept, EmittedInOrder
  <1>2. CASE Next
    BY <1>2, SendKeeps, RecvKeeps, LagKeeps, EmitKeeps DEF Next
  <1> QED BY <1>1, <1>2

\* FeedInv, the promises of the feed with what they rest on, always holds.
THEOREM FeedInductive == Spec => []FeedInv
  <1>1. FeedInv /\ [Next]_vars => FeedInv'
    BY FeedKeeps
  <1> QED BY InitFeedInv, <1>1, PTL DEF Spec

\* Every variable of the channel and of the forwarding task keeps its type.
THEOREM TypeCorrect == Spec => []TypeOK
  <1>1. FeedInv => TypeOK
    BY DEF FeedInv
  <1> QED BY FeedInductive, <1>1, PTL

\* Events reach the window in order and without a gap, and the feed ends only
\* when the handlers are more than a channel ahead of what was emitted.
THEOREM EmittedInOrderAlways == Spec => []EmittedInOrder
  <1>1. FeedInv => EmittedInOrder
    BY DEF FeedInv
  <1> QED BY FeedInductive, <1>1, PTL
-----------------------------------------------------------------------------
\* A finite set is enumerated in a total order of its members: each has a place,
\* no other has it, and what comes before it has an earlier one.
LEMMA SortedEnumerates ==
    ASSUME NEW S, IsFiniteSet(S), NEW before,
           \A i \in S : before[i] \subseteq S /\ i \notin before[i],
           \A i, j \in S : j \in before[i] => before[j] \subseteq before[i],
           \A i, j \in S : i = j \/ i \in before[j] \/ j \in before[i]
    PROVE  /\ Cardinality(S) \in Nat
           /\ Sorted(S, before) \in [1..Cardinality(S) -> S]
           /\ Distinct(Sorted(S, before))
           /\ \A i \in S : \E n \in 1..Cardinality(S) : Sorted(S, before)[n] = i
           /\ \A m, n \in 1..Cardinality(S) :
                  m < n => Sorted(S, before)[m] \in before[Sorted(S, before)[n]]
  <1> DEFINE size == Cardinality(S)
             Place(i) == Cardinality(before[i]) + 1
             place == [i \in S |-> Place(i)]
             s == Sorted(S, before)
  <1>1. size \in Nat
    BY FS_CardinalityType
  <1>2. ASSUME NEW i \in S, NEW j \in S, i \in before[j]
        PROVE  Cardinality(before[i]) < Cardinality(before[j])
    <2>1. before[i] \in SUBSET before[j] /\ before[i] # before[j] /\ before[j] \in SUBSET S
      BY <1>2
    <2>2. IsFiniteSet(before[j]) /\ IsFiniteSet(before[i])
      BY <2>1, FS_Subset
    <2>3. /\ Cardinality(before[i]) <= Cardinality(before[j])
          /\ Cardinality(before[j]) # Cardinality(before[i])
      BY <2>1, <2>2, FS_Subset
    <2> QED BY <2>2, <2>3, FS_CardinalityType
  <1>3. ASSUME NEW i \in S
        PROVE  Cardinality(before[i]) \in Nat /\ Place(i) \in 1..size
    <2>1. before[i] \in SUBSET S /\ before[i] # S
      OBVIOUS
    <2>2. IsFiniteSet(before[i]) /\ Cardinality(before[i]) <= size /\ Cardinality(before[i]) # size
      BY <2>1, FS_Subset
    <2>3. Cardinality(before[i]) \in Nat
      BY <2>2, FS_CardinalityType
    <2> HIDE DEF size
    <2> QED BY <1>1, <2>2, <2>3
  <1>4. ASSUME NEW i \in S, NEW j \in S, Place(i) = Place(j)
        PROVE  i = j
    <2>1. Cardinality(before[i]) = Cardinality(before[j])
      BY <1>3, <1>4
    <2> QED BY <1>2, <1>3, <2>1
  <1>5. \A n \in 1..size : \E i \in S : Place(i) = n
    <2>1. place \in Injection(S, 1..size)
      BY <1>3, <1>4 DEF Injection, IsInjective
    <2>2. IsFiniteSet(1..size) /\ Cardinality(1..size) = size
      BY <1>1, FS_Interval
    <2>3. place \in Surjection(S, 1..size)
      BY <2>1, <2>2, FS_Injection
    <2> QED BY <2>3 DEF Surjection
  <1>6. s = [n \in 1..size |-> CHOOSE i \in S : Cardinality(before[i]) = n - 1]
    BY DEF Sorted
  <1>7. s \in [1..size -> S] /\ \A n \in 1..size : Place(s[n]) = n
    <2>1. ASSUME NEW n \in 1..size
          PROVE  s[n] \in S /\ Cardinality(before[s[n]]) = n - 1
      <3>1. PICK i \in S : Cardinality(before[i]) = n - 1
        BY <1>3, <1>5
      <3> QED BY <1>6, <3>1
    <2>2. \A n \in 1..size : (n - 1) + 1 = n
      BY <1>1
    <2> QED BY <1>6, <2>1, <2>2
  <1> HIDE DEF s, size
  <1>8. Distinct(s)
    <2> HIDE DEF Place
    <2> QED BY <1>7 DEF Distinct
  <1>9. ASSUME NEW i \in S
        PROVE  \E n \in 1..size : s[n] = i
    <2> HIDE DEF Place
    <2>1. Place(i) \in 1..size
      BY <1>3
    <2>2. s[Place(i)] \in S /\ Place(s[Place(i)]) = Place(i)
      BY <1>7, <2>1
    <2> QED BY <1>4, <2>1, <2>2
  <1>10. ASSUME NEW m \in 1..size, NEW n \in 1..size, m < n
         PROVE  s[m] \in before[s[n]]
    <2>1. s[m] \in S /\ s[n] \in S /\ Place(s[m]) < Place(s[n])
      BY <1>7, <1>10
    <2>2. /\ Cardinality(before[s[m]]) \in Nat /\ Cardinality(before[s[n]]) \in Nat
          /\ Cardinality(before[s[m]]) < Cardinality(before[s[n]])
      BY <1>3, <2>1
    <2>3. ~(Cardinality(before[s[n]]) < Cardinality(before[s[m]]))
      BY <2>2
    <2> QED BY <1>2, <2>1, <2>2, <2>3
  <1> QED BY <1>1, <1>7, <1>8, <1>9, <1>10 DEF s, size

\* Members with numbers of their own are enumerated in the order of the numbers.
LEMMA InOrderEnumerates ==
    ASSUME NEW S, IsFiniteSet(S), NEW number, \A i \in S : number[i] \in Int,
           \A i, j \in S : number[i] = number[j] => i = j
    PROVE  /\ Cardinality(S) \in Nat
           /\ InOrder(S, number) \in [1..Cardinality(S) -> S]
           /\ Distinct(InOrder(S, number))
           /\ \A i \in S : \E n \in 1..Cardinality(S) : InOrder(S, number)[n] = i
           /\ \A m, n \in 1..Cardinality(S) :
                  m < n => number[InOrder(S, number)[m]] < number[InOrder(S, number)[n]]
  <1> DEFINE before == [i \in S |-> {j \in S : number[j] < number[i]}]
  <1>1. \A i, j \in S : j \in before[i] <=> number[j] < number[i]
    OBVIOUS
  <1>2. \A i \in S : before[i] \subseteq S
    OBVIOUS
  <1>3. InOrder(S, number) = Sorted(S, before)
    BY DEF InOrder
  <1> HIDE DEF before
  <1>4. \A i \in S : before[i] \subseteq S /\ i \notin before[i]
    BY <1>1, <1>2
  <1>5. \A i, j \in S : j \in before[i] => before[j] \subseteq before[i]
    <2> SUFFICES ASSUME NEW i \in S, NEW j \in S, j \in before[i], NEW k \in before[j]
                 PROVE  k \in before[i]
      OBVIOUS
    <2>1. k \in S /\ number[k] < number[j] /\ number[j] < number[i]
      BY <1>1, <1>2
    <2> QED BY <1>1, <2>1
  <1>6. \A i, j \in S : i = j \/ i \in before[j] \/ j \in before[i]
    <2> SUFFICES ASSUME NEW i \in S, NEW j \in S, i \notin before[j], j \notin before[i]
                 PROVE  i = j
      OBVIOUS
    <2>1. number[i] \in Int /\ number[j] \in Int /\ ~(number[i] < number[j]) /\ ~(number[j] < number[i])
      BY <1>1
    <2>2. number[i] = number[j]
      BY <2>1
    <2> QED BY <2>2
  <1>7. /\ Cardinality(S) \in Nat
        /\ InOrder(S, number) \in [1..Cardinality(S) -> S]
        /\ Distinct(InOrder(S, number))
        /\ \A i \in S : \E n \in 1..Cardinality(S) : InOrder(S, number)[n] = i
        /\ \A m, n \in 1..Cardinality(S) :
               m < n => InOrder(S, number)[m] \in before[InOrder(S, number)[n]]
    BY <1>3, <1>4, <1>5, <1>6, SortedEnumerates
  <1>8. \A m, n \in 1..Cardinality(S) :
            m < n => number[InOrder(S, number)[m]] < number[InOrder(S, number)[n]]
    BY <1>1, <1>7
  <1> QED BY <1>7, <1>8

\* Numbers are enumerated in their order.
LEMMA NumbersInOrder ==
    ASSUME NEW S, IsFiniteSet(S), \A k \in S : k \in Int
    PROVE  LET order == InOrder(S, [k \in S |-> k])
           IN  /\ order \in [1..Cardinality(S) -> S] /\ Distinct(order)
               /\ \A k \in S : \E n \in 1..Cardinality(S) : order[n] = k
  <1> DEFINE number == [k \in S |-> k]
  <1>1. \A k \in S : number[k] \in Int
    OBVIOUS
  <1>2. \A j, k \in S : number[j] = number[k] => j = k
    OBVIOUS
  <1> HIDE DEF number
  <1>3. /\ InOrder(S, number) \in [1..Cardinality(S) -> S] /\ Distinct(InOrder(S, number))
        /\ \A k \in S : \E n \in 1..Cardinality(S) : InOrder(S, number)[n] = k
    BY <1>1, <1>2, InOrderEnumerates
  <1> QED BY <1>3 DEF number

\* What a sequence has at some of its places, each place once.
LEMMA RowsAtEnumerates ==
    ASSUME NEW m \in Nat, NEW T, NEW s \in [1..m -> T], NEW places \in SUBSET (1..m)
    PROVE  /\ IsFiniteSet(places) /\ Cardinality(places) \in 0..m
           /\ RowsAt(s, places) \in [1..Cardinality(places) -> T]
           /\ \A n \in 1..Cardinality(places) : \E k \in places : RowsAt(s, places)[n] = s[k]
           /\ \A k \in places : \E n \in 1..Cardinality(places) : RowsAt(s, places)[n] = s[k]
           /\ Distinct(s) => Distinct(RowsAt(s, places))
  <1> DEFINE order == InOrder(places, [k \in places |-> k])
             size == Cardinality(places)
  <1>1. IsFiniteSet(places) /\ Cardinality(places) \in 0..m
    <2>1. IsFiniteSet(1..m) /\ Cardinality(1..m) = m
      BY FS_Interval
    <2>2. places \in SUBSET (1..m)
      OBVIOUS
    <2>3. IsFiniteSet(places) /\ Cardinality(places) <= Cardinality(1..m)
      BY <2>1, <2>2, FS_Subset
    <2> QED BY <2>1, <2>3, FS_CardinalityType
  <1>2. \A k \in places : k \in Int
    OBVIOUS
  <1>3. RowsAt(s, places) = [n \in DOMAIN order |-> s[order[n]]]
    BY DEF RowsAt
  <1>4. /\ order \in [1..size -> places] /\ Distinct(order)
        /\ \A k \in places : \E n \in 1..size : order[n] = k
    BY <1>1, <1>2, NumbersInOrder
  <1> HIDE DEF size
  <1> HIDE DEF order
  <1>5. /\ RowsAt(s, places) \in [1..size -> T]
        /\ \A n \in 1..size : order[n] \in places /\ RowsAt(s, places)[n] = s[order[n]]
    BY <1>3, <1>4
  <1>6. Distinct(s) => Distinct(RowsAt(s, places))
    <2> SUFFICES ASSUME Distinct(s), NEW i \in 1..size, NEW j \in 1..size,
                        RowsAt(s, places)[i] = RowsAt(s, places)[j]
                 PROVE  i = j
      BY <1>5 DEF Distinct
    <2>1. order[i] \in 1..m /\ order[j] \in 1..m /\ s[order[i]] = s[order[j]]
      BY <1>5
    <2>2. order[i] = order[j]
      BY <2>1 DEF Distinct
    <2> QED BY <1>4, <2>2 DEF Distinct
  <1>7. \A k \in places : \E n \in 1..size : RowsAt(s, places)[n] = s[k]
    BY <1>4, <1>5
  <1>8. \A n \in 1..size : \E k \in places : RowsAt(s, places)[n] = s[k]
    BY <1>5
  <1> QED BY <1>1, <1>5, <1>6, <1>7, <1>8 DEF size

\* A set of naturals that has a member has a least one.  What a recursive function
\* computes is shown with it: of the places where it would not, take the first.
LEMMA LeastNatural ==
    ASSUME NEW T, T \subseteq Nat, T # {}
    PROVE  \E n \in T : \A m \in T : n <= m
  <1>1. PICK less : IsWellFoundedOn(less, Nat) /\ \A m, n \in Nat : <<m, n>> \in less <=> m < n
    <2> DEFINE less == OpToRel(<, Nat)
    <2>1. \A m, n \in Nat : <<m, n>> \in less <=> m < n
      BY DEF OpToRel
    <2> QED BY <2>1, NatLessThanWellFounded
  <1>2. PICK n \in T : \A m \in T : <<m, n>> \notin less
    <2>1. IsWellFoundedOn(less, Nat)
      BY <1>1
    <2> QED BY <2>1, WFMin
  <1>3. \A m \in T : m \in Nat /\ ~(m < n)
    BY <1>1, <1>2
  <1> QED BY <1>3

\* The recursive function of SumOf.
IsSum(sum, values, size) ==
    sum = [n \in 0..size |-> IF n = 0 THEN 0 ELSE sum[n - 1] + values[n]]

\* There is such a function: one for fewer values can be extended.
LEMMA SumExists ==
    ASSUME NEW size \in Nat, NEW values \in [1..size -> Int]
    PROVE  \E sum \in [0..size -> Int] : IsSum(sum, values, size)
  <1> DEFINE none == {k \in 0..size : ~\E sum \in [0..k -> Int] : IsSum(sum, values, k)}
  <1> SUFFICES ASSUME none # {} PROVE FALSE
    <2>1. size \in 0..size
      OBVIOUS
    <2> QED BY <2>1
  <1>1. PICK k \in none : \A m \in none : k <= m
    <2>1. none \subseteq Nat
      OBVIOUS
    <2> HIDE DEF none
    <2> QED BY <2>1, LeastNatural
  <1>2. k # 0
    <2>1. [n \in 0..0 |-> 0] \in [0..0 -> Int] /\ IsSum([n \in 0..0 |-> 0], values, 0)
      BY DEF IsSum
    <2> QED BY <2>1
  <1>3. k \in 1..size
    BY <1>1, <1>2
  <1>4. k - 1 \in 0..size /\ k - 1 \notin none
    <2> HIDE DEF none
    <2> QED BY <1>1, <1>3
  <1>5. PICK before \in [0..k - 1 -> Int] : IsSum(before, values, k - 1)
    BY <1>4
  <1> DEFINE sum == [n \in 0..k |-> IF n = k THEN before[k - 1] + values[k] ELSE before[n]]
  <1>6. sum \in [0..k -> Int]
    <2>1. before[k - 1] \in Int /\ values[k] \in Int
      BY <1>3
    <2>2. \A n \in 0..k : n # k => n \in 0..k - 1
      BY <1>3
    <2> QED BY <2>1, <2>2
  <1>7. ASSUME NEW n \in 0..k
        PROVE  sum[n] = IF n = 0 THEN 0 ELSE sum[n - 1] + values[n]
    <2>1. CASE n = k
      BY <1>3, <2>1
    <2>2. CASE n # k
      <3>1. n \in 0..k - 1 /\ (n # 0 => n - 1 \in 0..k - 1)
        BY <1>3, <2>2
      <3> QED BY <1>5, <2>2, <3>1 DEF IsSum
    <2> QED BY <2>1, <2>2
  <1> HIDE DEF sum
  <1>8. IsSum(sum, values, k)
    BY <1>6, <1>7 DEF IsSum
  <1> QED BY <1>1, <1>6, <1>8

\* What SumOf returns lies between as many times the least value and as many
\* times the greatest.
LEMMA SumIsBetween ==
    ASSUME NEW size \in Nat, NEW values \in [1..size -> Int], NEW lo \in Int, NEW hi \in Int,
           \A n \in 1..size : lo <= values[n] /\ values[n] <= hi
    PROVE  SumOf(values) \in Int /\ size * lo <= SumOf(values) /\ SumOf(values) <= size * hi
  <1> DEFINE sum == CHOOSE f : IsSum(f, values, size)
             Fits(k) == sum[k] \in Int /\ k * lo <= sum[k] /\ sum[k] <= k * hi
             wrong == {k \in 0..size : ~Fits(k)}
  <1>1. SumOf(values) = sum[size]
    <2>1. Len(values) = size
      OBVIOUS
    <2> QED BY <2>1 DEF SumOf, IsSum
  <1>2. IsSum(sum, values, size)
    BY SumExists
  <1> HIDE DEF sum
  <1>3. \A k \in 0..size : sum[k] = IF k = 0 THEN 0 ELSE sum[k - 1] + values[k]
    BY <1>2 DEF IsSum
  <1>4. wrong = {}
    <2> SUFFICES ASSUME wrong # {} PROVE FALSE
      OBVIOUS
    <2>1. PICK k \in wrong : \A m \in wrong : k <= m
      <3>1. wrong \subseteq Nat
        OBVIOUS
      <3> HIDE DEF wrong
      <3> QED BY <3>1, LeastNatural
    <2>2. k \in 0..size /\ ~Fits(k)
      OBVIOUS
    <2>3. k # 0
      BY <1>3, <2>2
    <2>4. k \in 1..size /\ k - 1 \in 0..size
      BY <2>2, <2>3
    <2>5. Fits(k - 1)
      <3> HIDE DEF Fits
      <3> QED BY <2>1, <2>4
    <2>6. sum[k] = sum[k - 1] + values[k] /\ values[k] \in Int /\ lo <= values[k] /\ values[k] <= hi
      BY <1>3, <2>3, <2>4
    <2> DEFINE low == (k - 1) * lo
               high == (k - 1) * hi
    <2>7. k * lo = low + lo /\ k * hi = high + hi /\ low \in Int /\ high \in Int
      BY <2>4
    <2>8. sum[k - 1] \in Int /\ low <= sum[k - 1] /\ sum[k - 1] <= high
      BY <2>5
    <2> HIDE DEF low, high, wrong
    <2>9. sum[k] \in Int /\ low + lo <= sum[k] /\ sum[k] <= high + hi
      BY <2>6, <2>7, <2>8
    <2> QED BY <2>2, <2>7, <2>9
  <1>5. Fits(size)
    <2>1. size \in 0..size
      OBVIOUS
    <2> HIDE DEF Fits
    <2> QED BY <1>4, <2>1
  <1> QED BY <1>1, <1>5

\* average_u64 lies between the least value and the greatest, however it rounds.
THEOREM AverageIsBetween ==
    ASSUME NEW size \in Nat \ {0}, NEW values \in [1..size -> Nat], NEW lo \in Nat, NEW hi \in Nat,
           \A n \in 1..size : lo <= values[n] /\ values[n] <= hi
    PROVE  lo <= Average(values) /\ Average(values) <= hi
  <1> DEFINE sum == SumOf(values)
             q == sum \div size
  <1>1. values # <<>> /\ Len(values) = size
    OBVIOUS
  <1>2. sum \in Int /\ size * lo <= sum /\ sum <= size * hi
    <2>1. size \in Nat /\ values \in [1..size -> Int] /\ lo \in Int /\ hi \in Int
      OBVIOUS
    <2> HIDE DEF sum
    <2>2. SumOf(values) \in Int /\ size * lo <= SumOf(values) /\ SumOf(values) <= size * hi
      BY <2>1, SumIsBetween
    <2> QED BY <2>2 DEF sum
  <1>3. Average(values) = q
    BY <1>1 DEF Average
  <1> HIDE DEF sum
  <1>4. q \in Int /\ sum = size * q + (sum % size) /\ sum % size \in 0..size - 1
    BY <1>2
  <1> HIDE DEF q
  <1>5. \A a, b \in Int : a <= b => size * a <= size * b
    OBVIOUS
  <1> DEFINE p == size * q
  <1>6. p \in Int /\ p <= sum /\ sum < p + size
    BY <1>2, <1>4
  <1>7. size * (q + 1) = p + size
    BY <1>4
  <1>8. ~(q + 1 <= lo)
    <2>1. q + 1 <= lo => p + size <= size * lo
      BY <1>4, <1>5, <1>7
    <2> HIDE DEF p
    <2> QED BY <1>2, <1>6, <2>1
  <1>9. ~(hi + 1 <= q)
    <2>1. hi + 1 <= q => size * (hi + 1) <= p
      BY <1>4, <1>5
    <2>2. size * (hi + 1) = size * hi + size /\ size * hi \in Int
      OBVIOUS
    <2> HIDE DEF p
    <2> QED BY <1>2, <1>6, <2>1, <2>2
  <1>10. lo <= q /\ q <= hi
    BY <1>4, <1>8, <1>9
  <1> QED BY <1>3, <1>10

\* percentile_u64 of sorted values is one of them, and no less than as many of
\* every hundred as it is asked for.
THEOREM PercentileCovers ==
    ASSUME NEW n \in Nat \ {0}, NEW values \in [1..n -> Nat], NEW percentile \in 0..100,
           \A i, j \in 1..n : i <= j => values[i] <= values[j]
    PROVE  \E k \in 1..n :
               /\ Percentile(values, percentile) = values[k]
               /\ \A i \in 1..k : values[i] <= Percentile(values, percentile)
               /\ 100 * k >= percentile * n
  <1> DEFINE x == (n - 1) * percentile
             ceil == (x + 100 - 1) \div 100
  <1>1. Len(values) = n /\ values # <<>>
    OBVIOUS
  <1>2. x \in Nat /\ x <= 100 * (n - 1) /\ percentile * n = x + percentile
    <2>1. \A a \in Nat, p \in 0..100 : a * p \in Nat /\ a * p <= 100 * a
      OBVIOUS
    <2>2. n - 1 \in Nat
      OBVIOUS
    <2> QED BY <2>1, <2>2
  <1> HIDE DEF x
  <1>3. ceil \in Nat /\ 100 * ceil >= x /\ ceil <= n - 1
    BY <1>2
  <1>4. Percentile(values, percentile) = values[ceil + 1]
    BY <1>1 DEF Percentile, DivCeil, x
  <1> HIDE DEF ceil
  <1>5. ceil + 1 \in 1..n /\ 100 * (ceil + 1) >= percentile * n
    BY <1>2, <1>3
  <1> QED BY <1>3, <1>4, <1>5

\* The durations of a page are sorted.
LEMMA DurationsAreSorted ==
    ASSUME NEW m \in Nat, NEW page \in [1..m -> Ids]
    PROVE  \E size \in Nat :
               /\ Durations(page) \in [1..size -> Nat]
               /\ \A i, j \in 1..size : i <= j => Durations(page)[i] <= Durations(page)[j]
  <1> DEFINE timed == {k \in DOMAIN page : Session[page[k]].duration # None}
             duration == [k \in timed |-> Session[page[k]].duration]
             Shorter(j, k) == duration[j] < duration[k] \/ (duration[j] = duration[k] /\ j < k)
             before == [k \in timed |-> {j \in timed : Shorter(j, k)}]
             order == Sorted(timed, before)
             size == Cardinality(timed)
  <1>1. IsFiniteSet(timed)
    <2>1. IsFiniteSet(1..m) /\ timed \in SUBSET (1..m)
      BY FS_Interval
    <2> QED BY <2>1, FS_Subset
  <1>2. \A k \in timed : k \in Int /\ duration[k] \in Nat
    <2>1. \A k \in timed : k \in 1..m /\ page[k] \in DOMAIN Session
      BY DEF Ids
    <2> QED BY <2>1, QueryAssumption
  <1>3. Durations(page) = [n \in DOMAIN order |-> duration[order[n]]]
    BY DEF Durations
  <1> HIDE DEF timed, duration
  <1>4. \A k, j \in timed : j \in before[k] <=> Shorter(j, k)
    OBVIOUS
  <1>5. \A k \in timed : before[k] \subseteq timed
    OBVIOUS
  <1> HIDE DEF before
  <1>6. \A k \in timed : before[k] \subseteq timed /\ k \notin before[k]
    BY <1>2, <1>4, <1>5
  <1>7. \A k, j \in timed : j \in before[k] => before[j] \subseteq before[k]
    <2> SUFFICES ASSUME NEW k \in timed, NEW j \in timed, j \in before[k], NEW i \in before[j]
                 PROVE  i \in before[k]
      OBVIOUS
    <2>1. i \in timed /\ Shorter(i, j) /\ Shorter(j, k)
      BY <1>4, <1>5
    <2>2. Shorter(i, k)
      BY <1>2, <2>1
    <2> QED BY <1>4, <2>1, <2>2
  <1>8. \A k, j \in timed : k = j \/ k \in before[j] \/ j \in before[k]
    BY <1>2, <1>4
  <1> HIDE DEF Shorter
  <1>9. /\ size \in Nat /\ order \in [1..size -> timed]
        /\ \A i, j \in 1..size : i < j => order[i] \in before[order[j]]
    BY <1>1, <1>6, <1>7, <1>8, SortedEnumerates
  <1> HIDE DEF order, size
  <1>10. /\ Durations(page) \in [1..size -> Nat]
         /\ \A n \in 1..size : Durations(page)[n] = duration[order[n]]
    BY <1>2, <1>3, <1>9
  <1>11. ASSUME NEW i \in 1..size, NEW j \in 1..size, i <= j
         PROVE  Durations(page)[i] <= Durations(page)[j]
    <2>1. CASE i = j
      BY <1>10, <2>1
    <2>2. CASE i # j
      <3>1. i < j
        BY <1>11, <2>2
      <3>2. Shorter(order[i], order[j]) /\ order[i] \in timed /\ order[j] \in timed
        BY <1>4, <1>9, <3>1
      <3>3. duration[order[i]] <= duration[order[j]]
        BY <1>2, <3>2 DEF Shorter
      <3> QED BY <1>10, <3>3
    <2> QED BY <2>1, <2>2
  <1> QED BY <1>9, <1>10, <1>11

\* The key of a session of the store is a number.
LEMMA KeysAreNumbers ==
    ASSUME NEW i \in Ids, NEW by \in Groupings
    PROVE  Key(Session[i][by]) \in Nat
  BY QueryAssumption DEF Key, Ids

\* A bucket counts the sessions with its key, of a page that has each once.
LEMMA BucketCounts ==
    ASSUME NEW m \in Nat, NEW page \in [1..m -> Ids], Distinct(page), NEW by, NEW key
    PROVE  /\ Bucket(page, by, key).key = key
           /\ Bucket(page, by, key).count \in Nat
           /\ Bucket(page, by, key).count =
                  Cardinality({i \in ToSet(page) : Key(Session[i][by]) = key})
  <1> DEFINE places == {k \in DOMAIN page : Key(Session[page[k]][by]) = key}
             members == {i \in ToSet(page) : Key(Session[i][by]) = key}
             at == [k \in places |-> page[k]]
  <1>1. places \in SUBSET (1..m) /\ DOMAIN page = 1..m
    OBVIOUS
  <1>2. at \in Bijection(places, members)
    <2>1. \A k \in places : at[k] \in members
      BY DEF ToSet
    <2>2. \A j, k \in places : at[j] = at[k] => j = k
      BY DEF Distinct
    <2>3. \A i \in members : \E k \in places : at[k] = i
      BY DEF ToSet
    <2> HIDE DEF places, members
    <2> QED BY <2>1, <2>2, <2>3 DEF Bijection, Injection, Surjection, IsInjective
  <1>3. /\ Bucket(page, by, key).key = key
        /\ Bucket(page, by, key).count = Len(RowsAt(page, places))
    BY DEF Bucket
  <1> HIDE DEF places, members, at
  <1>4. /\ IsFiniteSet(places) /\ Cardinality(places) \in 0..m
        /\ RowsAt(page, places) \in [1..Cardinality(places) -> Ids]
    BY <1>1, RowsAtEnumerates, ZenonT(30)
  <1>5. Len(RowsAt(page, places)) = Cardinality(places)
    BY <1>4
  <1>6. Cardinality(members) = Cardinality(places)
    <2>1. ExistsBijection(places, members)
      BY <1>2 DEF ExistsBijection
    <2> QED BY <1>4, <2>1, FS_Bijection
  <1> QED BY <1>3, <1>4, <1>5, <1>6 DEF members

\* The buckets of an overview count the sessions of its page, and none it leaves
\* out has more than one it shows.
THEOREM LargestBucketsAreShown ==
    ASSUME NEW page \in Lists, NEW by \in Groupings
    PROVE  LargestAreShown(page, by, BucketsBy(page, by))
  <1>1. PICK m \in 0..Limit : page \in [1..m -> Ids]
    BY DEF Lists
  <1>2. m \in Nat /\ Distinct(page) /\ DOMAIN page = 1..m /\ ToSet(page) \subseteq Ids
    BY <1>1, QueryAssumption DEF Lists, ToSet
  <1> DEFINE KeyOf(i) == Key(Session[i][by])
             Count(key) == Cardinality({i \in ToSet(page) : KeyOf(i) = key})
             keys == {KeyOf(i) : i \in ToSet(page)}
             buckets == {Bucket(page, by, key) : key \in keys}
             before == [b \in buckets |-> {a \in buckets : LargerFirst(a, b)}]
             sorted == Sorted(buckets, before)
             size == Cardinality(buckets)
             shownBuckets == BucketsBy(page, by)
  <1>3. ASSUME NEW key \in keys
        PROVE  /\ key \in Nat /\ Bucket(page, by, key).key = key
               /\ Bucket(page, by, key).count \in Nat /\ Bucket(page, by, key).count = Count(key)
    <2>1. key \in Nat
      BY <1>2, KeysAreNumbers
    <2>2. /\ Bucket(page, by, key).key = key /\ Bucket(page, by, key).count \in Nat
          /\ Bucket(page, by, key).count = Cardinality({i \in ToSet(page) : Key(Session[i][by]) = key})
      BY <1>1, <1>2, BucketCounts
    <2> QED BY <2>1, <2>2
  <1>4. shownBuckets = IF Len(sorted) > MaxBuckets THEN SubSeq(sorted, 1, MaxBuckets) ELSE sorted
    BY DEF BucketsBy
  <1>5. LargestAreShown(page, by, shownBuckets) <=>
            \A b \in DOMAIN shownBuckets :
                /\ shownBuckets[b].count = Count(shownBuckets[b].key)
                /\ \A i \in ToSet(page) :
                       KeyOf(i) \notin {shownBuckets[c].key : c \in DOMAIN shownBuckets} =>
                           Count(KeyOf(i)) <= shownBuckets[b].count
    BY DEF LargestAreShown
  <1>6. IsFiniteSet(buckets)
    <2> DEFINE bucket == [k \in 1..m |-> Bucket(page, by, KeyOf(page[k]))]
    <2>1. \A k \in 1..m : page[k] \in ToSet(page)
      BY <1>2 DEF ToSet
    <2>2. \A i \in ToSet(page) : \E k \in 1..m : page[k] = i
      BY <1>2 DEF ToSet
    <2> HIDE DEF KeyOf
    <2>3. bucket \in Surjection(1..m, buckets)
      BY <2>1, <2>2 DEF Surjection
    <2> HIDE DEF bucket, buckets
    <2> QED BY <1>2, <2>3, FS_Interval, FS_Surjection
  <1>7. \A b \in buckets : /\ b.key \in keys /\ b.key \in Nat /\ b.count \in Nat
                           /\ b.count = Count(b.key) /\ b = Bucket(page, by, b.key)
    <2> HIDE DEF Count, keys
    <2> QED BY <1>3
  <1>8. \A i \in ToSet(page) : Bucket(page, by, KeyOf(i)) \in buckets /\ Bucket(page, by, KeyOf(i)).key = KeyOf(i)
    <2>1. \A i \in ToSet(page) : KeyOf(i) \in keys
      OBVIOUS
    <2> HIDE DEF Count, KeyOf, keys
    <2> QED BY <1>3, <2>1
  <1>9. \A a, b \in buckets : a \in before[b] <=> LargerFirst(a, b)
    OBVIOUS
  <1>10. \A b \in buckets : before[b] \subseteq buckets
    OBVIOUS
  <1> HIDE DEF KeyOf, Count, keys, buckets, before
  <1>11. \A b \in buckets : before[b] \subseteq buckets /\ b \notin before[b]
    BY <1>7, <1>9, <1>10 DEF LargerFirst
  <1>12. \A b, a \in buckets : a \in before[b] => before[a] \subseteq before[b]
    <2> SUFFICES ASSUME NEW b \in buckets, NEW a \in buckets, a \in before[b], NEW c \in before[a]
                 PROVE  c \in before[b]
      OBVIOUS
    <2>1. c \in buckets /\ LargerFirst(c, a) /\ LargerFirst(a, b)
      BY <1>9, <1>10
    <2>2. LargerFirst(c, b)
      BY <1>7, <2>1 DEF LargerFirst
    <2> QED BY <1>9, <2>1, <2>2
  <1>13. \A b, a \in buckets : b = a \/ b \in before[a] \/ a \in before[b]
    <2> SUFFICES ASSUME NEW b \in buckets, NEW a \in buckets,
                        ~LargerFirst(b, a), ~LargerFirst(a, b)
                 PROVE  b = a
      BY <1>9
    <2>1. b.key = a.key
      BY <1>7 DEF LargerFirst
    <2> QED BY <1>7, <2>1
  <1>14. /\ size \in Nat /\ sorted \in [1..size -> buckets]
         /\ \A b \in buckets : \E n \in 1..size : sorted[n] = b
         /\ \A p, n \in 1..size : p < n => sorted[p] \in before[sorted[n]]
    BY <1>6, <1>11, <1>12, <1>13, SortedEnumerates
  <1> HIDE DEF sorted, size
  <1> DEFINE cut == IF size > MaxBuckets THEN MaxBuckets ELSE size
  <1>15. cut \in 0..size /\ Len(sorted) = size
    BY <1>14, QueryAssumption
  <1>16. /\ DOMAIN shownBuckets = 1..cut
         /\ \A n \in 1..cut : n \in 1..size /\ shownBuckets[n] = sorted[n]
    BY <1>4, <1>14, <1>15, QueryAssumption
  <1> HIDE DEF cut, shownBuckets
  <1>17. ASSUME NEW b \in 1..cut
         PROVE  shownBuckets[b].count = Count(shownBuckets[b].key)
    BY <1>7, <1>14, <1>16
  <1>18. ASSUME NEW b \in 1..cut, NEW i \in ToSet(page),
                KeyOf(i) \notin {shownBuckets[c].key : c \in 1..cut}
         PROVE  Count(KeyOf(i)) <= shownBuckets[b].count
    <2>1. PICK n \in 1..size : sorted[n] = Bucket(page, by, KeyOf(i))
      BY <1>8, <1>14
    <2>2. sorted[n].key = KeyOf(i) /\ sorted[n] \in buckets
      BY <1>8, <2>1
    <2>3. n \notin 1..cut
      BY <1>16, <1>18, <2>2
    <2>4. b \in 1..size /\ b < n
      BY <1>14, <1>15, <1>16, <2>3
    <2>5. sorted[b] \in buckets /\ LargerFirst(sorted[b], sorted[n])
      BY <1>9, <1>14, <2>4
    <2>6. sorted[n].count <= sorted[b].count
      BY <1>7, <2>2, <2>5 DEF LargerFirst
    <2> QED BY <1>7, <1>16, <2>2, <2>6
  <1> QED BY <1>5, <1>16, <1>17, <1>18 DEF shownBuckets

\* The figures of an overview of any page are what they are called.
LEMMA FiguresOfPage ==
    ASSUME NEW page \in Lists
    PROVE  LET figures == Overview(page)
               durations == Durations(page)
               Within(v) == Cardinality({n \in DOMAIN durations : durations[n] <= v})
           IN  /\ \A by \in DOMAIN figures.by : LargestAreShown(page, by, figures.by[by])
               /\ durations # <<>> =>
                      /\ figures.p95 \in ToSet(durations)
                      /\ 100 * Within(figures.p95) >= 95 * Len(durations)
                      /\ durations[1] <= figures.average /\ figures.average <= durations[Len(durations)]
  <1> DEFINE figures == Overview(page)
             durations == Durations(page)
             Within(v) == Cardinality({n \in DOMAIN durations : durations[n] <= v})
  <1>1. /\ figures.by = [by \in Groupings |-> BucketsBy(page, by)]
        /\ figures.p95 = Percentile(durations, 95) /\ figures.average = Average(durations)
    BY DEF Overview
  <1>2. \A by \in DOMAIN figures.by : LargestAreShown(page, by, figures.by[by])
    BY <1>1, LargestBucketsAreShown
  <1> HIDE DEF figures
  <1>3. PICK m \in 0..Limit : page \in [1..m -> Ids]
    BY DEF Lists
  <1>4. m \in Nat
    BY QueryAssumption
  <1>5. PICK size \in Nat :
            /\ durations \in [1..size -> Nat]
            /\ \A i, j \in 1..size : i <= j => durations[i] <= durations[j]
    BY <1>3, <1>4, DurationsAreSorted
  <1> HIDE DEF durations
  <1>6. ASSUME durations # <<>>
        PROVE  /\ figures.p95 \in ToSet(durations)
               /\ 100 * Within(figures.p95) >= 95 * Len(durations)
               /\ durations[1] <= figures.average /\ figures.average <= durations[Len(durations)]
    <2>1. size \in Nat \ {0} /\ Len(durations) = size /\ DOMAIN durations = 1..size
      BY <1>5, <1>6
    <2>2. PICK k \in 1..size :
              /\ figures.p95 = durations[k]
              /\ \A i \in 1..k : durations[i] <= figures.p95
              /\ 100 * k >= 95 * size
      <3>1. size \in Nat \ {0} /\ durations \in [1..size -> Nat] /\ 95 \in 0..100
        BY <1>5, <2>1
      <3>2. \A i, j \in 1..size : i <= j => durations[i] <= durations[j]
        BY <1>5
      <3>3. \E k \in 1..size :
                /\ Percentile(durations, 95) = durations[k]
                /\ \A i \in 1..k : durations[i] <= Percentile(durations, 95)
                /\ 100 * k >= 95 * size
        BY <3>1, <3>2, PercentileCovers
      <3> QED BY <1>1, <3>3
    <2>3. figures.p95 \in ToSet(durations)
      BY <2>1, <2>2 DEF ToSet
    <2>4. Within(figures.p95) \in Nat /\ Within(figures.p95) >= k
      <3> DEFINE within == {n \in DOMAIN durations : durations[n] <= figures.p95}
      <3>1. 1..k \in SUBSET within /\ within \in SUBSET (1..size)
        BY <2>1, <2>2
      <3> HIDE DEF within
      <3>2. IsFiniteSet(1..size) /\ Cardinality(1..k) = k
        BY <2>2, FS_Interval
      <3>3. IsFiniteSet(within)
        BY <3>1, <3>2, FS_Subset
      <3>4. Cardinality(1..k) <= Cardinality(within) /\ Cardinality(within) \in Nat
        BY <3>1, <3>3, FS_Subset, FS_CardinalityType
      <3> QED BY <3>2, <3>4 DEF within
    <2>5. 100 * Within(figures.p95) >= 95 * Len(durations)
      <3> HIDE DEF Within
      <3> QED BY <2>1, <2>2, <2>4
    <2>6. durations[1] \in Nat /\ durations[size] \in Nat
      BY <1>5, <2>1
    <2>7. \A n \in 1..size : durations[1] <= durations[n] /\ durations[n] <= durations[size]
      BY <1>5, <2>1
    <2>8. durations[1] <= Average(durations) /\ Average(durations) <= durations[size]
      BY <1>5, <2>1, <2>6, <2>7, AverageIsBetween
    <2> QED BY <1>1, <2>1, <2>3, <2>5, <2>8
  <1> QED BY <1>2, <1>6 DEF figures, durations

\* Finitely many sessions may ever be stored.
LEMMA IdsAreFinite == IsFiniteSet(Ids)
  <1>1. IsFiniteSet(1..MaxEvents)
    BY FeedAssumption, FS_Interval
  <1> QED BY <1>1, ViewAssumption, FS_Union DEF Ids

\* No more than Limit sessions have fewer than Limit newer ones.
LEMMA RecentIsCapped ==
    ASSUME NEW ids \in SUBSET Ids
    PROVE  /\ IsFiniteSet(Recent(ids)) /\ Recent(ids) \subseteq ids
           /\ Cardinality(Recent(ids)) \in 0..Limit
  <1> DEFINE newer(i) == {j \in ids : Session[j].started > Session[i].started}
             count == [i \in Recent(ids) |-> Cardinality(newer(i))]
  <1>1. Limit \in Nat /\ \A i \in ids : Session[i].started \in Int
    BY QueryAssumption DEF Ids
  <1>2. IsFiniteSet(ids) /\ Recent(ids) \in SUBSET ids
    BY IdsAreFinite, FS_Subset DEF Recent
  <1>3. ASSUME NEW i \in ids
        PROVE  IsFiniteSet(newer(i)) /\ Cardinality(newer(i)) \in Nat
    BY <1>2, FS_Subset, FS_CardinalityType
  <1>4. ASSUME NEW i \in ids, NEW j \in ids, Session[i].started > Session[j].started
        PROVE  Cardinality(newer(i)) # Cardinality(newer(j))
    <2>1. newer(i) \in SUBSET newer(j) /\ i \in newer(j) /\ i \notin newer(i)
      BY <1>1, <1>4
    <2> QED BY <1>3, <2>1, FS_Subset
  <1>5. ASSUME NEW i \in ids, NEW j \in ids, Cardinality(newer(i)) = Cardinality(newer(j))
        PROVE  i = j
    <2> HIDE DEF newer
    <2>1. ~(Session[i].started > Session[j].started) /\ ~(Session[j].started > Session[i].started)
      BY <1>4, <1>5
    <2>2. Session[i].started = Session[j].started
      BY <1>1, <2>1
    <2> QED BY <2>2, QueryAssumption DEF Ids
  <1>6. count \in Injection(Recent(ids), 0..(Limit - 1))
    <2>1. \A i \in Recent(ids) : Cardinality(newer(i)) \in 0..(Limit - 1)
      <3>1. \A i \in Recent(ids) : i \in ids /\ Cardinality(newer(i)) < Limit
        BY DEF Recent
      <3> HIDE DEF newer
      <3> QED BY <1>1, <1>3, <3>1
    <2> QED BY <1>2, <1>5, <2>1 DEF Injection, IsInjective
  <1>7. IsFiniteSet(0..(Limit - 1)) /\ Cardinality(0..(Limit - 1)) = Limit
    BY <1>1, FS_Interval
  <1>8. IsFiniteSet(Recent(ids)) /\ Cardinality(Recent(ids)) <= Limit
    BY <1>6, <1>7, FS_Injection
  <1> QED BY <1>1, <1>2, <1>8, FS_CardinalityType

\* What the store lists are sessions it holds, each once and at most Limit.
LEMMA ListIsOfStored ==
    ASSUME NEW ids \in SUBSET Ids, NEW f
    PROVE  /\ ListSessions(ids, f) \in Lists
           /\ ToSet(ListSessions(ids, f)) \subseteq ids
  <1> DEFINE rows == {i \in Recent(ids) : MatchesFilter(Session[i], f)}
             number == [i \in DOMAIN Session |-> -Session[i].started]
  <1>1. rows \in SUBSET Recent(ids) /\ rows \subseteq ids /\ rows \subseteq DOMAIN Session
    BY RecentIsCapped DEF Ids
  <1>2. IsFiniteSet(rows) /\ Cardinality(rows) \in 0..Limit
    <2>1. IsFiniteSet(rows) /\ Cardinality(rows) <= Cardinality(Recent(ids))
      BY <1>1, RecentIsCapped, FS_Subset
    <2> QED BY <2>1, RecentIsCapped, QueryAssumption, FS_CardinalityType
  <1>3. \A i \in rows : number[i] \in Int
    BY <1>1, QueryAssumption
  <1>4. \A i, j \in rows : number[i] = number[j] => i = j
    BY <1>1, QueryAssumption
  <1>5. ListSessions(ids, f) = InOrder(rows, number)
    BY DEF ListSessions, Newest
  <1> HIDE DEF rows, number
  <1>6. /\ ListSessions(ids, f) \in [1..Cardinality(rows) -> rows]
        /\ Distinct(ListSessions(ids, f))
    BY <1>2, <1>3, <1>4, <1>5, InOrderEnumerates
  <1>7. ListSessions(ids, f) \in [1..Cardinality(rows) -> Ids]
    BY <1>1, <1>6
  <1> QED BY <1>1, <1>2, <1>6, <1>7 DEF Lists, ToSet

\* The sessions of a set, newest first.
LEMMA NewestEnumerates ==
    ASSUME NEW ids \in SUBSET Ids
    PROVE  /\ Cardinality(ids) \in Nat
           /\ Newest(ids) \in [1..Cardinality(ids) -> ids]
           /\ \A i \in ids : \E n \in 1..Cardinality(ids) : Newest(ids)[n] = i
           /\ \A m, n \in 1..Cardinality(ids) :
                  m < n => Session[Newest(ids)[m]].started > Session[Newest(ids)[n]].started
  <1> DEFINE number == [i \in DOMAIN Session |-> -Session[i].started]
  <1>1. \A i \in ids : number[i] = -Session[i].started /\ Session[i].started \in Int
    BY QueryAssumption DEF Ids
  <1>2. \A i, j \in ids : Session[i].started = Session[j].started => i = j
    BY QueryAssumption DEF Ids
  <1>3. IsFiniteSet(ids) /\ Newest(ids) = InOrder(ids, number)
    BY IdsAreFinite, FS_Subset DEF Newest
  <1> HIDE DEF number
  <1>4. /\ \A i \in ids : number[i] \in Int
        /\ \A i, j \in ids : number[i] = number[j] => i = j
    BY <1>1, <1>2
  <1>5. /\ Cardinality(ids) \in Nat
        /\ Newest(ids) \in [1..Cardinality(ids) -> ids]
        /\ \A i \in ids : \E n \in 1..Cardinality(ids) : Newest(ids)[n] = i
        /\ \A m, n \in 1..Cardinality(ids) :
               m < n => number[Newest(ids)[m]] < number[Newest(ids)[n]]
    BY <1>3, <1>4, InOrderEnumerates
  <1>6. ASSUME NEW m \in 1..Cardinality(ids), NEW n \in 1..Cardinality(ids), m < n
        PROVE  Session[Newest(ids)[m]].started > Session[Newest(ids)[n]].started
    <2>1. Newest(ids)[m] \in ids /\ Newest(ids)[n] \in ids
      BY <1>5
    <2>2. number[Newest(ids)[m]] < number[Newest(ids)[n]]
      BY <1>5, <1>6
    <2> QED BY <1>1, <2>1, <2>2
  <1> QED BY <1>5, <1>6

\* The store lists the sessions that pass a filter newest first, and leaves one
\* out only if at least Limit newer ones are stored, whether these pass or not.
THEOREM ListLeavesOutOld ==
    ASSUME NEW ids \in SUBSET Ids, NEW f
    PROVE  LET shownList == ListSessions(ids, f)
           IN  /\ \A i \in ToSet(shownList) : i \in ids /\ MatchesFilter(Session[i], f)
               /\ \A m, n \in DOMAIN shownList :
                      m < n => Session[shownList[m]].started > Session[shownList[n]].started
               /\ \A i \in ids \ ToSet(shownList) :
                      MatchesFilter(Session[i], f) =>
                          Cardinality({j \in ids : Session[j].started > Session[i].started}) >= Limit
  <1> DEFINE shownList == ListSessions(ids, f)
             rows == {i \in Recent(ids) : MatchesFilter(Session[i], f)}
  <1>1. rows \in SUBSET Ids /\ rows \subseteq ids /\ shownList = Newest(rows)
    BY RecentIsCapped DEF ListSessions
  <1>2. \A i \in rows : MatchesFilter(Session[i], f)
    OBVIOUS
  <1>3. ASSUME NEW i \in ids, i \notin rows, MatchesFilter(Session[i], f)
        PROVE  Cardinality({j \in ids : Session[j].started > Session[i].started}) >= Limit
    <2> DEFINE newer == {j \in ids : Session[j].started > Session[i].started}
    <2>1. ~(Cardinality(newer) < Limit)
      BY <1>3 DEF Recent
    <2>2. newer \in SUBSET Ids
      OBVIOUS
    <2>3. Cardinality(newer) \in Nat /\ Limit \in Nat
      BY <2>2, IdsAreFinite, FS_Subset, FS_CardinalityType, QueryAssumption
    <2> HIDE DEF newer
    <2>4. Cardinality(newer) >= Limit
      BY <2>1, <2>3
    <2> QED BY <2>4 DEF newer
  <1> HIDE DEF rows, shownList
  <1>4. /\ shownList \in [1..Cardinality(rows) -> rows]
        /\ \A i \in rows : \E n \in 1..Cardinality(rows) : shownList[n] = i
        /\ \A m, n \in 1..Cardinality(rows) :
               m < n => Session[shownList[m]].started > Session[shownList[n]].started
    BY <1>1, NewestEnumerates
  <1>5. DOMAIN shownList = 1..Cardinality(rows) /\ ToSet(shownList) = rows
    BY <1>4 DEF ToSet
  <1> QED BY <1>1, <1>2, <1>3, <1>4, <1>5 DEF shownList

\* The empty list is a list.
LEMMA EmptyListOK == <<>> \in Lists /\ ToSet(<<>>) = {}
  <1>1. <<>> \in [1..0 -> Ids] /\ 0 \in 0..Limit
    BY QueryAssumption
  <1> QED BY <1>1 DEF Lists, Distinct, ToSet

\* The listener puts a session on top of the list, once, and loses one only at
\* the end of a full list.
LEMMA PrependedFits ==
    ASSUME list \in Lists, NEW n \in Ids
    PROVE  /\ Prepended(n) \in Lists
           /\ ToSet(Prepended(n)) \subseteq ToSet(list) \cup {n}
           /\ Len(Prepended(n)) < Limit =>
                  Len(list) < Limit /\ ToSet(Prepended(n)) = ToSet(list) \cup {n}
  <1>1. PICK m \in 0..Limit : list \in [1..m -> Ids]
    BY DEF Lists
  <1>2. Limit \in Nat /\ m \in Nat /\ m <= Limit /\ DOMAIN list = 1..m /\ Len(list) = m
    BY <1>1, QueryAssumption
  <1> DEFINE places == {k \in DOMAIN list : list[k] # n}
             size == Cardinality(places)
  <1>3. IsFiniteSet(1..m) /\ Cardinality(1..m) = m
    BY <1>2, FS_Interval
  <1>4. places \in SUBSET (1..m) /\ IsFiniteSet(places)
    BY <1>2, <1>3, FS_Subset
  <1>5. size \in Nat /\ m <= size + 1
    <2>0. size \in Nat
      BY <1>4, FS_CardinalityType
    <2>1. CASE \E k \in 1..m : list[k] = n
      <3>1. PICK k \in 1..m : list[k] = n
        BY <2>1
      <3>2. places = (1..m) \ {k}
        BY <1>2, <3>1 DEF Distinct, Lists
      <3>3. Cardinality((1..m) \ {k}) = Cardinality(1..m) - 1
        BY <1>3, FS_RemoveElement
      <3> HIDE DEF places
      <3> QED BY <1>2, <1>3, <3>2, <3>3, <2>0
    <2>2. CASE ~\E k \in 1..m : list[k] = n
      <3>1. places = 1..m
        BY <1>2, <2>2
      <3> HIDE DEF places
      <3> QED BY <1>2, <1>3, <3>1
    <2> QED BY <2>1, <2>2
  <1> DEFINE rest == Without(n)
  <1>6. rest = RowsAt(list, places)
    BY DEF Without
  <1>7. /\ \A k \in places : k \in 1..m /\ list[k] # n /\ list[k] \in ToSet(list)
        /\ \A i \in ToSet(list) : i # n => \E k \in places : list[k] = i
    BY <1>2 DEF ToSet
  <1> HIDE DEF places
  <1>8. /\ rest \in [1..size -> Ids] /\ Distinct(rest)
        /\ \A k \in 1..size : rest[k] \in ToSet(list) /\ rest[k] # n
        /\ \A i \in ToSet(list) : i # n => \E k \in 1..size : rest[k] = i
    <2>1. m \in Nat
      BY <1>2
    <2>2. places \in SUBSET (1..m)
      BY <1>4
    <2>3. list \in [1..m -> Ids]
      BY <1>1
    <2>4. /\ IsFiniteSet(places) /\ Cardinality(places) \in 0..m
          /\ RowsAt(list, places) \in [1..Cardinality(places) -> Ids]
          /\ \A p \in 1..Cardinality(places) : \E k \in places : RowsAt(list, places)[p] = list[k]
          /\ \A k \in places : \E p \in 1..Cardinality(places) : RowsAt(list, places)[p] = list[k]
          /\ Distinct(list) => Distinct(RowsAt(list, places))
      BY <2>1, <2>2, <2>3, RowsAtEnumerates, ZenonT(30)
    <2>6. Distinct(list)
      BY DEF Lists
    <2> HIDE DEF rest
    <2>5. /\ rest \in [1..size -> Ids] /\ Distinct(rest)
          /\ \A p \in 1..size : \E k \in places : rest[p] = list[k]
          /\ \A k \in places : \E p \in 1..size : rest[p] = list[k]
      BY <1>6, <2>4, <2>6
    <2> HIDE DEF size
    <2> QED BY <1>7, <2>5
  <1> DEFINE whole == <<n>> \o rest
             cut == IF Len(whole) > Limit THEN Limit ELSE Len(whole)
  <1> HIDE DEF size, rest
  <1>9. /\ whole \in Seq(Ids) /\ Len(whole) = size + 1 /\ whole[1] = n
        /\ \A k \in 2..(size + 1) : whole[k] = rest[k - 1]
    <2>1. rest \in Seq(Ids) /\ Len(rest) = size
      BY <1>5, <1>8
    <2>2. <<n>> \in Seq(Ids) /\ Len(<<n>>) = 1 /\ <<n>>[1] = n
      OBVIOUS
    <2> QED BY <1>5, <2>1, <2>2, ConcatProperties
  <1>10. cut \in 0..Limit /\ cut <= size + 1 /\ (cut < Limit => cut = size + 1)
    BY <1>2, <1>5, <1>9
  <1> HIDE DEF whole, cut
  <1>11. Prepended(n) = SubSeq(whole, 1, cut)
    BY DEF Prepended, Cap, whole, cut, rest
  <1>12. /\ Prepended(n) \in [1..cut -> Ids] /\ Len(Prepended(n)) = cut /\ DOMAIN Prepended(n) = 1..cut
         /\ \A k \in 1..cut : Prepended(n)[k] = whole[k]
    <2>1. \A k \in 1..cut : k \in 1..Len(whole) /\ whole[k] \in Ids
      BY <1>5, <1>9, <1>10
    <2>2. cut \in Int /\ cut \in Nat
      BY <1>2, <1>10
    <2>3. /\ SubSeq(whole, 1, cut) \in Seq(Ids) /\ Len(SubSeq(whole, 1, cut)) = cut
          /\ \A k \in 1..cut : SubSeq(whole, 1, cut)[k] = whole[k]
      BY <2>1, <2>2, SubSeqProperties
    <2>4. /\ Prepended(n) \in Seq(Ids) /\ Len(Prepended(n)) = cut
          /\ \A k \in 1..cut : Prepended(n)[k] = whole[k]
      BY <1>11, <2>3
    <2> QED BY <2>4, LenProperties
  <1>13. \A k \in 1..(size + 1) : whole[k] \in ToSet(list) \cup {n}
    <2> SUFFICES ASSUME NEW k \in 1..(size + 1) PROVE whole[k] \in ToSet(list) \cup {n}
      OBVIOUS
    <2>1. k = 1 \/ (k \in 2..(size + 1) /\ k - 1 \in 1..size)
      BY <1>5
    <2> QED BY <1>8, <1>9, <2>1
  <1>14. \A i \in ToSet(list) \cup {n} : \E k \in 1..(size + 1) : whole[k] = i
    <2>1. 1 \in 1..(size + 1) /\ \A k \in 1..size : k + 1 \in 2..(size + 1) /\ (k + 1) - 1 = k
      BY <1>5
    <2>2. \A k \in 1..size : k + 1 \in 1..(size + 1) /\ whole[k + 1] = rest[k]
      BY <1>5, <1>9, <2>1
    <2> QED BY <1>8, <1>9, <2>1, <2>2
  <1>15. \A j, k \in 1..(size + 1) : whole[j] = whole[k] => j = k
    <2> SUFFICES ASSUME NEW j \in 1..(size + 1), NEW k \in 1..(size + 1), whole[j] = whole[k]
                 PROVE  j = k
      OBVIOUS
    <2>1. \A l \in 1..(size + 1) : l = 1 \/ (l \in 2..(size + 1) /\ l - 1 \in 1..size)
      BY <1>5
    <2>2. CASE j = 1 \/ k = 1
      BY <1>8, <1>9, <2>1, <2>2
    <2>3. CASE j # 1 /\ k # 1
      <3>1. j - 1 \in 1..size /\ k - 1 \in 1..size /\ rest[j - 1] = rest[k - 1]
        BY <1>9, <2>1, <2>3
      <3>2. j - 1 = k - 1
        BY <1>8, <3>1 DEF Distinct
      <3> QED BY <3>2
    <2> QED BY <2>2, <2>3
  <1>16. Prepended(n) \in Lists
    <2>1. Prepended(n) \in UNION {[1..k -> Ids] : k \in 0..Limit}
      BY <1>10, <1>12
    <2>2. 1..cut \subseteq 1..(size + 1)
      BY <1>2, <1>5, <1>10
    <2> QED BY <1>12, <1>15, <2>1, <2>2 DEF Distinct, Lists
  <1>17. ToSet(Prepended(n)) \subseteq ToSet(list) \cup {n}
    <2>1. 1..cut \subseteq 1..(size + 1)
      BY <1>2, <1>5, <1>10
    <2>2. \A k \in 1..cut : Prepended(n)[k] \in ToSet(list) \cup {n}
      BY <1>12, <1>13, <2>1
    <2> QED BY <1>12, <2>2 DEF ToSet
  <1>18. ASSUME Len(Prepended(n)) < Limit
         PROVE  Len(list) < Limit /\ ToSet(Prepended(n)) = ToSet(list) \cup {n}
    <2>1. cut = size + 1 /\ m < Limit
      BY <1>2, <1>5, <1>10, <1>12, <1>18
    <2>2. \A i \in ToSet(list) \cup {n} : \E k \in DOMAIN Prepended(n) : Prepended(n)[k] = i
      BY <1>12, <1>14, <2>1
    <2>3. \A i \in ToSet(list) \cup {n} : i \in ToSet(Prepended(n))
      BY <2>2 DEF ToSet
    <2> QED BY <1>2, <1>17, <2>1, <2>3
  <1> QED BY <1>16, <1>17, <1>18
-----------------------------------------------------------------------------
\* The loads of a view that are in flight, and that there is one at most.
LoadsOf(v) == {load \in BagToSet(loads) : load.view = v}
Alone(v) == \A load, other \in LoadsOf(v) : load = other /\ loads[load] = 1
SameLoads(v) == LoadsOf(v)' = LoadsOf(v) /\ \A load \in LoadsOf(v) : loads'[load] = loads[load]

\* A load is such a record, and its answer is one the store can give.
LoadOK(load) ==
    /\ WellTyped(load)
    /\ load = [view |-> load.view, arg |-> load.arg, chained |-> load.chained,
               served |-> load.served, answer |-> load.answer, left |-> load.left]
    /\ load.answer # Missing /\ load.view = "detail" => load.answer = load.arg

LoadsOK == IsABag(loads) /\ \A load \in BagToSet(loads) : LoadOK(load)

\* A view has a load in flight when the bag of loads has one of it.
LEMMA NoneInFlight == \A v : InFlight(v) <=> LoadsOf(v) # {}
  BY DEF InFlight, LoadsOf

\* What is asked for is added: it is alone if none of its view was in flight.
LEMMA Asking ==
    ASSUME LoadsOK, NEW asked, loads' = loads (+) SetToBag(asked), \A load \in asked : LoadOK(load)
    PROVE  /\ LoadsOK'
           /\ \A v : (\A load \in asked : load.view # v) => SameLoads(v)
           /\ \A v : \A load \in asked :
                  LoadsOf(v) = {} /\ load.view = v /\ (\A other \in asked : other.view = v => other = load)
                      => LoadsOf(v)' = {load} /\ Alone(v)'
  <1>1. /\ IsABag(loads)' /\ BagToSet(loads)' = BagToSet(loads) \cup asked
        /\ \A load \in BagToSet(loads) \ asked : loads'[load] = loads[load]
        /\ \A load \in asked \ BagToSet(loads) : loads'[load] = 1
    BY DEF LoadsOK, IsABag, BagToSet, SetToBag, (+)
  <1>2. LoadsOK'
    BY <1>1 DEF LoadsOK
  <1>3. ASSUME NEW v, \A load \in asked : load.view # v
        PROVE  SameLoads(v)
    BY <1>1, <1>3 DEF SameLoads, LoadsOf
  <1>4. ASSUME NEW v, NEW load \in asked, LoadsOf(v) = {}, load.view = v,
               \A other \in asked : other.view = v => other = load
        PROVE  LoadsOf(v)' = {load} /\ Alone(v)'
    <2>1. LoadsOf(v)' = {load}
      BY <1>1, <1>4 DEF LoadsOf
    <2>2. loads'[load] = 1
      BY <1>1, <1>4 DEF LoadsOf
    <2> QED BY <2>1, <2>2 DEF Alone
  <1> QED BY <1>2, <1>3, <1>4

\* A load whose answer is taken is no longer in flight.
LEMMA Dropping ==
    ASSUME LoadsOK, NEW load \in BagToSet(loads), loads' = loads (-) SetToBag({load})
    PROVE  /\ LoadsOK'
           /\ \A v : v # load.view => SameLoads(v)
           /\ Alone(load.view) => LoadsOf(load.view)' = {}
  <1>1. /\ IsABag(loads)' /\ BagToSet(loads)' \subseteq BagToSet(loads)
        /\ BagToSet(loads) \ {load} \subseteq BagToSet(loads)'
        /\ \A other \in BagToSet(loads) \ {load} : loads'[other] = loads[other]
        /\ loads[load] = 1 => load \notin BagToSet(loads)'
    BY DEF LoadsOK, IsABag, BagToSet, SetToBag, (-)
  <1>2. LoadsOK'
    BY <1>1 DEF LoadsOK
  <1>3. ASSUME NEW v, v # load.view
        PROVE  SameLoads(v)
    BY <1>1, <1>3 DEF SameLoads, LoadsOf
  <1>4. ASSUME Alone(load.view)
        PROVE  LoadsOf(load.view)' = {}
    BY <1>1, <1>4 DEF Alone, LoadsOf
  <1> QED BY <1>2, <1>3, <1>4

\* What is chained to a load is asked for when the answer is taken.
LEMMA Delivering ==
    ASSUME LoadsOK, NEW load \in BagToSet(loads), LoadOK(OverviewLoad),
           loads' = (loads (-) SetToBag({load})) (+) SetToBag(Chained(load))
    PROVE  /\ LoadsOK'
           /\ \A v : v # load.view /\ (load.chained => v # "overview") => SameLoads(v)
           /\ Alone(load.view) => LoadsOf(load.view)' = {}
           /\ load.chained /\ LoadsOf("overview") = {} =>
                  LoadsOf("overview")' = {OverviewLoad} /\ Alone("overview")'
  <1> DEFINE asked == Chained(load)
             rest == loads (-) SetToBag({load})
  <1>1. /\ IsABag(rest) /\ BagToSet(rest) \subseteq BagToSet(loads)
        /\ BagToSet(loads) \ {load} \subseteq BagToSet(rest)
        /\ \A other \in BagToSet(loads) \ {load} : rest[other] = loads[other]
        /\ loads[load] = 1 => load \notin BagToSet(rest)
    BY DEF LoadsOK, IsABag, BagToSet, SetToBag, (-)
  <1>2. /\ \A other \in asked : other = OverviewLoad /\ LoadOK(other) /\ load.chained
        /\ load.chained => OverviewLoad \in asked
        /\ load.chained => load.view = "list"
        /\ OverviewLoad.view = "overview"
    BY DEF Chained, OverviewLoad, Asked, LoadsOK, LoadOK, WellTyped
  <1>3. loads' = rest (+) SetToBag(asked)
    OBVIOUS
  <1> HIDE DEF asked, rest
  <1>4. /\ IsABag(loads)' /\ BagToSet(loads)' = BagToSet(rest) \cup asked
        /\ \A other \in BagToSet(rest) \ asked : loads'[other] = rest[other]
        /\ \A other \in asked \ BagToSet(rest) : loads'[other] = 1
    BY <1>1, <1>3 DEF IsABag, BagToSet, SetToBag, (+)
  <1>5. LoadsOK'
    BY <1>1, <1>2, <1>4 DEF LoadsOK
  <1>6. ASSUME NEW v, v # load.view, load.chained => v # "overview"
        PROVE  SameLoads(v)
    BY <1>1, <1>2, <1>4, <1>6 DEF SameLoads, LoadsOf
  <1>7. ASSUME Alone(load.view)
        PROVE  LoadsOf(load.view)' = {}
    <2>1. /\ loads[load] = 1 /\ load \notin BagToSet(rest)
          /\ \A other \in BagToSet(loads) : other.view = load.view => other = load
      BY <1>1, <1>7 DEF Alone, LoadsOf
    <2>2. \A other \in asked : other.view # load.view
      BY <1>2
    <2> QED BY <1>1, <1>4, <2>1, <2>2 DEF LoadsOf
  <1>8. ASSUME load.chained, LoadsOf("overview") = {}
        PROVE  LoadsOf("overview")' = {OverviewLoad} /\ Alone("overview")'
    <2>1. OverviewLoad \notin BagToSet(rest)
      BY <1>1, <1>2, <1>8 DEF LoadsOf
    <2>2. LoadsOf("overview")' = {OverviewLoad}
      BY <1>1, <1>2, <1>4, <1>8 DEF LoadsOf
    <2> QED BY <1>2, <1>4, <1>8, <2>1, <2>2 DEF Alone
  <1> QED BY <1>5, <1>6, <1>7, <1>8

\* A load that is served stays in flight, with its answer.
LEMMA Serving ==
    ASSUME LoadsOK, NEW load \in BagToSet(loads), ~load.served, NEW answer, NEW left,
           Served(load, answer, left),
           NEW served, served = [view |-> load.view, arg |-> load.arg, chained |-> load.chained,
                                 served |-> TRUE, answer |-> answer, left |-> left],
           LoadOK(served)
    PROVE  /\ LoadsOK'
           /\ \A v : v # load.view => SameLoads(v)
           /\ Alone(load.view) => LoadsOf(load.view)' = {served} /\ Alone(load.view)'
  <1>1. LoadOK(load) /\ IsABag(loads)
    BY DEF LoadsOK
  <1>2. served = [load EXCEPT !.served = TRUE, !.answer = answer, !.left = left]
    <2> DEFINE changed == [load EXCEPT !.served = TRUE, !.answer = answer, !.left = left]
               F == {"view", "arg", "chained", "served", "answer", "left"}
    <2>1. DOMAIN load = F
      BY <1>1 DEF LoadOK
    <2>2. DOMAIN changed = F /\ DOMAIN served = F
      BY <2>1
    <2>3. /\ changed.view = load.view /\ changed.arg = load.arg /\ changed.chained = load.chained
          /\ changed.served = TRUE /\ changed.answer = answer /\ changed.left = left
      BY <2>1
    <2>4. changed = [f \in F |-> changed[f]] /\ served = [f \in F |-> served[f]]
      BY <2>2
    <2>5. /\ served.view = load.view /\ served.arg = load.arg /\ served.chained = load.chained
          /\ served.served = TRUE /\ served.answer = answer /\ served.left = left
      OBVIOUS
    <2> HIDE DEF changed
    <2>6. \A f \in F : changed[f] = served[f]
      BY <2>3, <2>5
    <2> HIDE DEF F
    <2>7. served = changed
      BY <2>4, <2>6
    <2> QED BY <2>7 DEF changed
  <1>3. served.view = load.view /\ served # load
    BY <1>2
  <1>4. loads' = (loads (-) SetToBag({load})) (+) SetToBag({served})
    BY <1>2 DEF Served
  <1> DEFINE rest == loads (-) SetToBag({load})
  <1>5. /\ IsABag(rest) /\ BagToSet(rest) \subseteq BagToSet(loads)
        /\ BagToSet(loads) \ {load} \subseteq BagToSet(rest)
        /\ \A other \in BagToSet(loads) \ {load} : rest[other] = loads[other]
        /\ loads[load] = 1 => load \notin BagToSet(rest)
    BY <1>1 DEF IsABag, BagToSet, SetToBag, (-)
  <1> HIDE DEF rest
  <1>6. /\ IsABag(loads)' /\ BagToSet(loads)' = BagToSet(rest) \cup {served}
        /\ \A other \in BagToSet(rest) \ {served} : loads'[other] = rest[other]
        /\ served \notin BagToSet(rest) => loads'[served] = 1
    <2>1. loads' = rest (+) SetToBag({served})
      BY <1>4 DEF rest
    <2> QED BY <1>5, <2>1 DEF IsABag, BagToSet, SetToBag, (+)
  <1>7. LoadsOK'
    BY <1>5, <1>6 DEF LoadsOK
  <1>8. ASSUME NEW v, v # load.view
        PROVE  SameLoads(v)
    BY <1>3, <1>5, <1>6, <1>8 DEF SameLoads, LoadsOf
  <1>9. ASSUME Alone(load.view)
        PROVE  LoadsOf(load.view)' = {served} /\ Alone(load.view)'
    <2>1. loads[load] = 1 /\ \A other \in BagToSet(loads) : other.view = load.view => other = load
      BY <1>9 DEF Alone, LoadsOf
    <2>2. LoadsOf(load.view)' = {served}
      BY <1>3, <1>5, <1>6, <2>1 DEF LoadsOf
    <2>3. served \notin BagToSet(rest)
      BY <1>3, <1>5, <2>1
    <2> QED BY <1>6, <2>2, <2>3 DEF Alone
  <1> QED BY <1>7, <1>8, <1>9
-----------------------------------------------------------------------------
\* What was announced is stored, and the loads are such as the window asks for.
Basics ==
    /\ ViewTypeOK /\ FeedInv /\ LoadsOK
    /\ 1..sent \subseteq inserted

\* Unless the loads of the detail raced, one at most is in flight, for the
\* session selected, and without it that session's detail is shown.
DetailInv ==
    "detail" \notin race =>
        /\ Alone("detail")
        /\ \A load \in LoadsOf("detail") : load.arg = selected
        /\ LoadsOf("detail") = {} => detail = selected

\* Unless the loads of the overview raced, one at most is in flight.  While
\* every session stored has been heard of, its answer is the overview of what
\* is stored, and without a load that is what the window shows.
OverviewInv ==
    "overview" \notin race =>
        /\ Alone("overview")
        /\ inserted = 1..heard =>
               /\ \A load \in LoadsOf("overview") :
                      load.answer # Missing => load.answer = OverviewPage
               /\ LoadsOf("overview") = {} =>
                      IF clearing = "deleted" THEN stored = {}
                      ELSE overview = OverviewPage \/ (overview = None /\ stored = {})

Unheard == (heard + 1)..MaxEvents

\* A list that shows stored sessions only, and all the window knows of but some.
Covers(shownIds, left) ==
    /\ shownIds \subseteq stored
    /\ stored \ (shownIds \cup left) \subseteq Unheard

\* Unless the loads of the list raced, what the window has not heard of is
\* stored, and one load at most is in flight, whose answer covers what is stored;
\* without it the list does, unless it is full or about to be emptied.
ListInv ==
    "list" \notin race =>
        /\ inserted \ 1..heard \subseteq stored
        /\ Alone("list")
        /\ \A load \in LoadsOf("list") :
               load.answer # Missing => Covers(ToSet(load.answer), load.left)
        /\ LoadsOf("list") = {} =>
               IF clearing = "deleted" THEN stored \subseteq Unheard
               ELSE /\ ToSet(list) \subseteq stored
                    /\ Len(list) < Limit => Covers(ToSet(list), hidden)

ViewInv == Basics /\ DetailInv /\ OverviewInv /\ ListInv

\* Whatever the window does, the feed takes a step of its own or none.
LEMMA FeedSteps ==
    ASSUME [ViewNext]_allVars
    PROVE  [Next]_vars
  <1> USE DEF feedVars, vars
  <1>1. CASE UNCHANGED allVars
    BY <1>1 DEF allVars
  <1>2. CASE ViewNext
    BY <1>2 DEF ViewNext, Insert, SendStored, Forward, Hear, Reload, Select, Replaying, Replay,
                ReplayReturns, ReplayFails, Clear, ClearDeletes, ClearFails, ClearReturns, Answering,
                Serve, ServeFails, Deliver, DeliverError, Next
  <1> QED BY <1>1, <1>2

\* What the window has heard was announced, so it was stored at some time.
LEMMA HeardWasStored ==
    ASSUME Basics
    PROVE  /\ heard \in Nat /\ sent \in Nat /\ MaxEvents \in Nat /\ Len(emitted) \in Nat
           /\ heard <= Len(emitted) /\ Len(emitted) <= sent /\ sent <= MaxEvents
           /\ 1..heard \subseteq inserted /\ inserted \subseteq 1..MaxEvents
           /\ 1..MaxEvents \subseteq Ids
           /\ heard < Len(emitted) =>
                  emitted[heard + 1] = heard + 1 /\ heard + 1 \in inserted \cap Ids
  <1>1. /\ TypeOK /\ PositionIsKnown /\ EmittedInOrder /\ ViewTypeOK /\ 1..sent \subseteq inserted
        /\ MaxEvents \in Nat /\ Capacity \in Nat
    BY FeedAssumption DEF Basics, FeedInv
  <1>2. /\ sent \in 0..MaxEvents /\ Len(emitted) \in Nat /\ heard \in 0..Len(emitted)
        /\ inserted \subseteq 1..MaxEvents /\ next \in Nat
        /\ task \in {"receiving", "emitting", "ended"}
    BY <1>1 DEF TypeOK, ViewTypeOK
  <1>3. Len(emitted) <= sent
    BY <1>1, <1>2 DEF PositionIsKnown, EmittedInOrder
  <1>4. 1..MaxEvents \subseteq Ids
    BY ViewAssumption DEF Ids
  <1>5. heard < Len(emitted) => heard + 1 \in 1..Len(emitted) /\ heard + 1 \in 1..sent
    BY <1>2, <1>3
  <1>6. 1..heard \subseteq 1..sent
    BY <1>2, <1>3
  <1>7. heard < Len(emitted) => emitted[heard + 1] = heard + 1
    BY <1>1, <1>5 DEF EmittedInOrder
  <1>8. heard < Len(emitted) => heard + 1 \in inserted \cap Ids
    BY <1>1, <1>2, <1>4, <1>5
  <1> QED BY <1>1, <1>2, <1>3, <1>4, <1>6, <1>7, <1>8

\* The commands the window gives are well-formed.
LEMMA AskedOK ==
    /\ LoadOK(OverviewLoad)
    /\ \A f \in Filters : LoadOK(Asked("list", f))
    /\ \A n \in Ids : LoadOK(Asked("detail", n))
  BY DEF LoadOK, WellTyped, Asked, OverviewLoad

\* The list load with which a replay returns, with the overview chained to it.
ReplayLoad(f) == [Asked("list", f) EXCEPT !.chained = TRUE]

LEMMA ReplayLoadOK ==
    ASSUME NEW f \in Filters
    PROVE  /\ LoadOK(ReplayLoad(f)) /\ ReplayLoad(f).view = "list" /\ ReplayLoad(f).arg = f
           /\ ReplayLoad(f).answer = Missing /\ ReplayLoad(f).left = {}
  <1> DEFINE load == [view |-> "list", arg |-> f, chained |-> TRUE, served |-> FALSE,
                      answer |-> Missing, left |-> {}]
             F == {"view", "arg", "chained", "served", "answer", "left"}
  <1>1. ReplayLoad(f) = load
    <2> DEFINE old == Asked("list", f)
               new == [old EXCEPT !.chained = TRUE]
    <2>1. /\ DOMAIN old = F /\ DOMAIN load = F
          /\ old.view = "list" /\ old.arg = f /\ old.served = FALSE
          /\ old.answer = Missing /\ old.left = {}
      BY DEF Asked
    <2>2. load = [x \in F |-> load[x]]
      OBVIOUS
    <2> HIDE DEF old
    <2>3. new = [x \in F |-> new[x]]
      BY <2>1
    <2>4. \A x \in F : new[x] = load[x]
      <3>1. /\ new.view = "list" /\ new.arg = f /\ new.chained = TRUE /\ new.served = FALSE
            /\ new.answer = Missing /\ new.left = {}
        BY <2>1
      <3>2. /\ load.view = "list" /\ load.arg = f /\ load.chained = TRUE /\ load.served = FALSE
            /\ load.answer = Missing /\ load.left = {}
        OBVIOUS
      <3> HIDE DEF new, load
      <3> QED BY <3>1, <3>2
    <2> HIDE DEF new, load, F
    <2>5. new = load
      BY <2>2, <2>3, <2>4
    <2> QED BY <2>5 DEF new, old, ReplayLoad
  <1>2. WellTyped(load)
    BY DEF WellTyped
  <1>3. LoadOK(load)
    BY <1>2 DEF LoadOK
  <1> QED BY <1>1, <1>3

\* So are the store's answers to them.
LEMMA AnswerOK ==
    ASSUME Basics, NEW load \in BagToSet(loads), NEW answer, NEW left \in SUBSET Ids,
           answer = Answer(load) \/ answer = Missing
    PROVE  LoadOK([view |-> load.view, arg |-> load.arg, chained |-> load.chained,
                   served |-> TRUE, answer |-> answer, left |-> left])
  <1> DEFINE served == [view |-> load.view, arg |-> load.arg, chained |-> load.chained,
                        served |-> TRUE, answer |-> answer, left |-> left]
  <1>1. /\ served.view = load.view /\ served.arg = load.arg /\ served.chained = load.chained
        /\ served.served = TRUE /\ served.answer = answer /\ served.left = left
    OBVIOUS
  <1>2. LoadOK(load) /\ WellTyped(load) /\ stored \in SUBSET Ids
    BY DEF Basics, LoadsOK, LoadOK, ViewTypeOK
  <1>3. \/ load.view = "list" /\ load.arg \in Filters
        \/ load.view = "detail" /\ load.arg \in Ids
        \/ load.view = "overview" /\ load.arg = None
    BY <1>2 DEF WellTyped
  <1>4. load.chained \in BOOLEAN /\ (load.chained => load.view = "list")
    BY <1>2 DEF WellTyped
  <1>5. answer # Missing =>
            IF load.view = "detail" THEN answer = load.arg ELSE answer \in Lists
    BY <1>2, <1>3, ListIsOfStored DEF Answer, OverviewPage
  <1> HIDE DEF served
  <1>6. WellTyped(served)
    <2>1. \/ served.view = "list" /\ served.arg \in Filters /\ (served.answer # Missing => served.answer \in Lists)
          \/ served.view = "detail" /\ served.arg \in Ids /\ (served.answer # Missing => served.answer \in Ids)
          \/ served.view = "overview" /\ served.arg \in {None} /\ (served.answer # Missing => served.answer \in Lists)
      BY <1>1, <1>3, <1>5
    <2>2. served.chained \in BOOLEAN /\ (served.chained => served.view = "list")
      BY <1>1, <1>4
    <2>3. served.served \in BOOLEAN /\ served.left \subseteq Ids
      BY <1>1
    <2> QED BY <2>1, <2>2, <2>3 DEF WellTyped
  <1>7. served = [view |-> served.view, arg |-> served.arg, chained |-> served.chained,
                  served |-> served.served, answer |-> served.answer, left |-> served.left]
    BY <1>1 DEF served
  <1>8. served.answer # Missing /\ served.view = "detail" => served.answer = served.arg
    BY <1>1, <1>5
  <1> QED BY <1>6, <1>7, <1>8 DEF LoadOK, served

\* What leaves the bag of loads alone leaves each view's loads alone.
LEMMA LoadsUntouched ==
    ASSUME UNCHANGED loads
    PROVE  (LoadsOK => LoadsOK') /\ \A v : SameLoads(v)
  BY DEF LoadsOK, SameLoads, LoadsOf

\* The feed's steps keep what the window knows of it.
LEMMA FeedGrows ==
    ASSUME Basics, [ViewNext]_allVars
    PROVE  /\ FeedInv' /\ TypeOK' /\ Len(emitted) <= Len(emitted') /\ Len(emitted') \in Nat
           /\ sent' # sent => sent' = sent + 1 /\ sent + 1 \in inserted /\ inserted' = inserted
  <1>1. FeedInv'
    BY FeedSteps, FeedKeeps DEF Basics
  <1>2. TypeOK' /\ TypeOK
    BY <1>1 DEF FeedInv, Basics
  <1>3. Len(emitted) \in Nat /\ Len(emitted') \in Nat
    BY <1>2 DEF TypeOK
  <1>4. Len(emitted) <= Len(emitted')
    <2>1. emitted' = emitted \/ emitted' = Append(emitted, held)
      BY FeedSteps DEF Next, Send, Recv, Lag, Emit, vars
    <2>2. emitted \in Seq(1..MaxEvents)
      BY <1>2 DEF TypeOK
    <2> QED BY <1>3, <2>1, <2>2
  <1>5. ASSUME sent' # sent
        PROVE  sent' = sent + 1 /\ sent + 1 \in inserted /\ inserted' = inserted
    <2>1. SendStored
      BY <1>5 DEF ViewNext, allVars, feedVars, Insert, Forward, Recv, Lag, Emit, Hear, Reload, Select,
                  Replaying, Replay, ReplayReturns, ReplayFails, Clear, ClearDeletes, ClearFails,
                  ClearReturns, Answering, Serve, ServeFails, Deliver, DeliverError
    <2> QED BY <2>1 DEF SendStored, Send, viewVars
  <1> QED BY <1>1, <1>2, <1>3, <1>4, <1>5

\* The types of what the window keeps, the loads and the feed apart.
WindowTypeOK ==
    /\ stored \subseteq Ids /\ inserted \subseteq 1..MaxEvents
    /\ heard \in Nat /\ heard <= Len(emitted)
    /\ filter \in Filters
    /\ list \in Lists
    /\ selected \in Ids \cup {None} /\ detail \in Ids \cup {None}
    /\ overview \in Lists \cup {None}
    /\ clearing \in {"no", "asked", "deleted"}
    /\ commands \in 0..MaxCommands
    /\ race \subseteq Views \cup {"filter"} /\ hidden \subseteq Ids

\* A replay was asked for with a filter of the window's, after events sent by then.
ReplaysOK ==
    /\ IsABag(replays)
    /\ \A replay \in BagToSet(replays) : replay.filter \in Filters /\ replay.after \in 0..sent

\* The type invariant is that of the feed, of the loads, of the replays and of the rest.
LEMMA TypeParts ==
    ASSUME Len(emitted) \in Nat, LoadsOK
    PROVE  ViewTypeOK <=> TypeOK /\ WindowTypeOK /\ ReplaysOK
  <1>1. IsABag(loads) /\ \A load \in BagToSet(loads) : WellTyped(load)
    BY DEF LoadsOK, LoadOK
  <1>2. heard \in 0..Len(emitted) <=> heard \in Nat /\ heard <= Len(emitted)
    OBVIOUS
  <1> QED BY <1>1, <1>2 DEF ViewTypeOK, WindowTypeOK, ReplaysOK

\* A replay is added with the filter set, or taken out.
LEMMA ReplaysKept ==
    ASSUME Basics, [ViewNext]_allVars
    PROVE  ReplaysOK'
  <1>1. /\ ReplaysOK /\ filter \in Filters /\ sent \in Nat /\ sent' \in Nat /\ sent <= sent'
    BY HeardWasStored, FeedGrows DEF Basics, ViewTypeOK, ReplaysOK
  <1>2. CASE UNCHANGED replays
    BY <1>1, <1>2 DEF ReplaysOK
  <1>3. CASE Replay
    <2> DEFINE asked == {[filter |-> filter, after |-> sent]}
    <2>1. \A replay \in asked : replay.filter \in Filters /\ replay.after \in 0..sent
      BY <1>1
    <2>2. replays' = replays (+) SetToBag(asked)
      BY <1>3 DEF Replay
    <2> HIDE DEF asked
    <2>3. IsABag(replays)' /\ BagToSet(replays)' = BagToSet(replays) \cup asked
      BY <1>1, <2>2 DEF ReplaysOK, IsABag, BagToSet, SetToBag, (+)
    <2> QED BY <1>1, <2>1, <2>3 DEF ReplaysOK
  <1>4. ASSUME NEW replay \in BagToSet(replays), ReplayReturns(replay) \/ ReplayFails(replay)
        PROVE  ReplaysOK'
    <2>1. replays' = replays (-) SetToBag({replay})
      BY <1>4 DEF ReplayReturns, ReplayFails
    <2>2. IsABag(replays)' /\ BagToSet(replays)' \subseteq BagToSet(replays)
      BY <1>1, <2>1 DEF ReplaysOK, IsABag, BagToSet, SetToBag, (-)
    <2> QED BY <1>1, <2>2 DEF ReplaysOK
  <1>5. UNCHANGED replays \/ Replaying
    BY DEF ViewNext, allVars, viewVars, feedVars, Insert, SendStored, Forward, Hear, Reload, Select,
           Clear, ClearDeletes, ClearFails, ClearReturns, Answering, Serve, ServeFails, Deliver,
           DeliverError
  <1> QED BY <1>2, <1>3, <1>4, <1>5 DEF Replaying

\* Basics follows from the types of the loads and of the window; the rest of it
\* every step keeps.
LEMMA BasicsKept ==
    ASSUME Basics, [ViewNext]_allVars, LoadsOK', WindowTypeOK'
    PROVE  Basics'
  <1>1. 1..sent' \subseteq inserted'
    <2>1. inserted \subseteq inserted'
      BY DEF ViewNext, allVars, viewVars, feedVars, Insert, SendStored, Forward, Hear, Reload, Select,
             Replaying, Replay, ReplayReturns, ReplayFails, Clear, ClearDeletes, ClearFails,
             ClearReturns, Answering, Serve, ServeFails, Deliver, DeliverError
    <2>2. 1..sent \subseteq inserted /\ sent \in Nat
      BY HeardWasStored DEF Basics
    <2>3. sent' = sent \/ (sent' = sent + 1 /\ sent + 1 \in inserted)
      BY FeedGrows
    <2> QED BY <2>1, <2>2, <2>3
  <1>2. ViewTypeOK'
    <2>1. (Len(emitted) \in Nat /\ LoadsOK)' => (ViewTypeOK <=> TypeOK /\ WindowTypeOK /\ ReplaysOK)'
      BY TypeParts, PTL
    <2> QED BY <2>1, FeedGrows, ReplaysKept
  <1> QED BY <1>1, <1>2, FeedGrows DEF Basics

\* What a step leaves alone keeps a view's invariant.
LEMMA DetailFrame ==
    ASSUME DetailInv, SameLoads("detail"), UNCHANGED <<selected, detail>>,
           "detail" \in race => "detail" \in race'
    PROVE  DetailInv'
  <1>1. /\ LoadsOf("detail")' = LoadsOf("detail")
        /\ \A load \in LoadsOf("detail") : loads'[load] = loads[load]
    BY DEF SameLoads
  <1>2. Alone("detail") => Alone("detail")'
    BY <1>1 DEF Alone
  <1> QED BY <1>1, <1>2 DEF DetailInv

\* What touches neither the overview nor its loads keeps its invariant.
LEMMA OverviewFrame ==
    ASSUME OverviewInv, SameLoads("overview"), UNCHANGED <<stored, inserted, heard, overview>>,
           "overview" \in race => "overview" \in race',
           clearing' = "deleted" <=> clearing = "deleted"
    PROVE  OverviewInv'
  <1>1. /\ LoadsOf("overview")' = LoadsOf("overview")
        /\ \A load \in LoadsOf("overview") : loads'[load] = loads[load]
    BY DEF SameLoads
  <1>2. Alone("overview") => Alone("overview")'
    BY <1>1 DEF Alone
  <1>3. OverviewPage' = OverviewPage
    BY DEF OverviewPage
  <1> QED BY <1>1, <1>2, <1>3 DEF OverviewInv

\* What touches neither the list nor its loads keeps its invariant.
LEMMA ListFrame ==
    ASSUME ListInv, SameLoads("list"), UNCHANGED <<stored, inserted, heard, list, hidden>>,
           "list" \in race => "list" \in race',
           clearing' = "deleted" <=> clearing = "deleted"
    PROVE  ListInv'
  <1>1. /\ LoadsOf("list")' = LoadsOf("list")
        /\ \A load \in LoadsOf("list") : loads'[load] = loads[load]
    BY DEF SameLoads
  <1>2. Alone("list") => Alone("list")'
    BY <1>1 DEF Alone
  <1>3. Unheard' = Unheard
    BY DEF Unheard
  <1> QED BY <1>1, <1>2, <1>3 DEF ListInv, Covers

\* A load that was asked for while none of its view was in flight.
LEMMA RaceOfOverlap ==
    ASSUME NEW views, NEW v \in views, v \notin Overlapping(views)
    PROVE  LoadsOf(v) = {}
  BY NoneInFlight DEF Overlapping

\* The feed moves, the user presses Clear or Replay, or either fails.
Quiet ==
    \/ SendStored \/ Forward \/ Clear \/ ClearFails \/ UNCHANGED allVars
    \/ Replay \/ \E replay \in BagToSet(replays) : ReplayFails(replay)

LEMMA QuietKeeps ==
    ASSUME ViewInv, Quiet
    PROVE  ViewInv'
  <1>1. /\ UNCHANGED <<stored, heard, inserted, shown, loads, race, hidden>>
        /\ clearing' = "deleted" <=> clearing = "deleted"
        /\ WindowTypeOK /\ LoadsOK /\ Len(emitted) \in Nat /\ [ViewNext]_allVars
    <2>1. WindowTypeOK /\ LoadsOK /\ Len(emitted) \in Nat
      BY TypeParts, HeardWasStored DEF ViewInv, Basics
    <2>2. [ViewNext]_allVars
      BY DEF ViewNext, Quiet, Replaying
    <2> QED
      BY <2>1, <2>2
         DEF Quiet, SendStored, Forward, Clear, ClearFails, Replay, ReplayFails, allVars, viewVars
  <1>2. clearing' \in {"no", "asked", "deleted"} /\ commands' \in 0..MaxCommands
    <2>1. clearing' \in {clearing, "no", "asked"} /\ (Command \/ UNCHANGED commands)
      BY DEF Quiet, SendStored, Forward, Clear, ClearFails, Replay, ReplayFails, allVars, viewVars
    <2> QED BY <1>1, <2>1, ViewAssumption DEF Command, WindowTypeOK
  <1>3. Len(emitted) <= Len(emitted') /\ Len(emitted') \in Nat
    BY <1>1, FeedGrows DEF ViewInv
  <1>4. WindowTypeOK'
    BY <1>1, <1>2, <1>3 DEF WindowTypeOK, shown
  <1>5. LoadsOK' /\ \A v : SameLoads(v)
    BY <1>1, LoadsUntouched
  <1>6. Basics'
    BY <1>1, <1>4, <1>5, BasicsKept DEF ViewInv
  <1>7. DetailInv'
    BY <1>1, <1>5, DetailFrame DEF ViewInv, shown
  <1>8. OverviewInv'
    BY <1>1, <1>5, OverviewFrame DEF ViewInv, shown
  <1>9. ListInv'
    BY <1>1, <1>5, ListFrame DEF ViewInv, shown
  <1> QED BY <1>6, <1>7, <1>8, <1>9 DEF ViewInv

\* A session that is stored is one the window has not heard of.
LEMMA InsertKeeps ==
    ASSUME ViewInv, NEW n \in 1..MaxEvents, Insert(n)
    PROVE  ViewInv'
  <1>1. /\ WindowTypeOK /\ LoadsOK /\ Len(emitted) \in Nat /\ [ViewNext]_allVars
        /\ heard \in Nat /\ 1..heard \subseteq inserted /\ n \in Ids
    BY TypeParts, HeardWasStored DEF ViewInv, Basics, ViewNext
  <1>2. /\ n \notin inserted /\ inserted' = inserted \cup {n} /\ stored' = stored \cup {n}
        /\ UNCHANGED <<emitted, heard, shown, loads, clearing, commands, race, hidden>>
    BY DEF Insert, feedVars
  <1>3. n \in Unheard
    BY <1>1, <1>2 DEF Unheard
  <1>4. WindowTypeOK'
    BY <1>1, <1>2 DEF WindowTypeOK, shown
  <1>5. LoadsOK' /\ \A v : SameLoads(v)
    BY <1>1, <1>2, LoadsUntouched
  <1>6. Basics'
    BY <1>1, <1>4, <1>5, BasicsKept DEF ViewInv
  <1>7. DetailInv'
    BY <1>2, <1>5, DetailFrame DEF ViewInv, shown
  <1>8. OverviewInv'
    <2>1. inserted' # 1..heard'
      BY <1>1, <1>2
    <2>2. Alone("overview") => Alone("overview")'
      BY <1>5 DEF SameLoads, Alone
    <2> QED BY <1>2, <2>1, <2>2 DEF OverviewInv, ViewInv
  <1>9. ListInv'
    <2> SUFFICES ASSUME "list" \notin race
                 PROVE  ListInv'
      BY <1>2 DEF ListInv
    <2>1. Alone("list")' /\ LoadsOf("list")' = LoadsOf("list")
      BY <1>5 DEF SameLoads, Alone, ListInv, ViewInv
    <2>2. Unheard' = Unheard
      BY <1>2 DEF Unheard
    <2>3. \A ids, left : Covers(ids, left) => Covers(ids, left)'
      BY <1>2, <1>3, <2>2 DEF Covers
    <2>4. inserted' \ 1..heard' \subseteq stored'
      BY <1>2 DEF ListInv, ViewInv
    <2>5. \A load \in LoadsOf("list")' : load.answer # Missing => Covers(ToSet(load.answer), load.left)'
      BY <2>1, <2>3 DEF ListInv, ViewInv
    <2>6. LoadsOf("list")' = {} =>
              IF clearing' = "deleted" THEN stored' \subseteq Unheard'
              ELSE /\ ToSet(list') \subseteq stored'
                   /\ Len(list') < Limit => Covers(ToSet(list), hidden)'
      <3>1. list' = list /\ hidden' = hidden /\ clearing' = clearing
        BY <1>2 DEF shown
      <3>2. Covers(ToSet(list), hidden) => Covers(ToSet(list), hidden)'
        BY <1>2, <1>3, <2>2, <3>1 DEF Covers
      <3> QED BY <1>2, <1>3, <2>1, <2>2, <3>1, <3>2 DEF ListInv, ViewInv
    <2> QED BY <2>1, <2>4, <2>5, <2>6 DEF ListInv
  <1> QED BY <1>6, <1>7, <1>8, <1>9 DEF ViewInv

\* The store is emptied.  If the window has a session to hear of yet that is
\* deleted here, the list's loads race.
LEMMA ClearDeletesKeeps ==
    ASSUME ViewInv, ClearDeletes
    PROVE  ViewInv'
  <1>1. /\ WindowTypeOK /\ LoadsOK /\ Len(emitted) \in Nat /\ [ViewNext]_allVars
        /\ inserted \subseteq 1..MaxEvents /\ heard \in Nat /\ MaxEvents \in Nat
    BY TypeParts, HeardWasStored DEF ViewInv, Basics, ViewNext
  <1>2. /\ clearing = "asked" /\ clearing' = "deleted" /\ stored' = {}
        /\ race' = race \cup Overlapping({"list", "overview"})
                        \cup (IF stored \cap (heard + 1)..MaxEvents # {} THEN {"list"} ELSE {})
        /\ UNCHANGED <<emitted, inserted, heard, shown, loads, commands, hidden>>
    BY DEF ClearDeletes, feedVars
  <1>3. WindowTypeOK'
    BY <1>1, <1>2 DEF WindowTypeOK, shown, Overlapping, Views
  <1>4. LoadsOK' /\ \A v : SameLoads(v)
    BY <1>1, <1>2, LoadsUntouched
  <1>5. Basics'
    BY <1>1, <1>3, <1>4, BasicsKept DEF ViewInv
  <1>6. DetailInv'
    BY <1>2, <1>4, DetailFrame DEF ViewInv, shown
  <1>7. OverviewInv'
    <2> SUFFICES ASSUME "overview" \notin race' PROVE OverviewInv'
      BY DEF OverviewInv
    <2>1. "overview" \notin race /\ LoadsOf("overview") = {}
      BY <1>2, RaceOfOverlap
    <2>2. LoadsOf("overview")' = {}
      BY <1>4, <2>1 DEF SameLoads
    <2> QED BY <1>2, <2>2 DEF OverviewInv, Alone
  <1>8. ListInv'
    <2> SUFFICES ASSUME "list" \notin race' PROVE ListInv'
      BY DEF ListInv
    <2>1. "list" \notin race /\ LoadsOf("list") = {} /\ stored \cap (heard + 1)..MaxEvents = {}
      BY <1>2, RaceOfOverlap
    <2>2. LoadsOf("list")' = {}
      BY <1>4, <2>1 DEF SameLoads
    <2>3. inserted \ 1..heard = {}
      <3>1. inserted \ 1..heard \subseteq stored
        BY <2>1 DEF ViewInv, ListInv
      <3>2. inserted \ 1..heard \subseteq (heard + 1)..MaxEvents
        BY <1>1
      <3> QED BY <2>1, <3>1, <3>2
    <2> QED BY <1>2, <2>2, <2>3 DEF ListInv, Alone
  <1> QED BY <1>5, <1>6, <1>7, <1>8 DEF ViewInv

\* The window drops what it shows.
LEMMA ClearReturnsKeeps ==
    ASSUME ViewInv, ClearReturns
    PROVE  ViewInv'
  <1>1. WindowTypeOK /\ LoadsOK /\ Len(emitted) \in Nat /\ [ViewNext]_allVars
    BY TypeParts, HeardWasStored DEF ViewInv, Basics, ViewNext
  <1>2. /\ clearing = "deleted" /\ clearing' = "no"
        /\ list' = <<>> /\ selected' = None /\ detail' = None /\ overview' = None
        /\ race' = race \cup Overlapping({"detail"})
        /\ UNCHANGED <<emitted, stored, inserted, heard, filter, loads, commands, hidden>>
    BY DEF ClearReturns, feedVars
  <1>3. WindowTypeOK'
    BY <1>1, <1>2, EmptyListOK DEF WindowTypeOK, Overlapping, Views
  <1>4. LoadsOK' /\ \A v : SameLoads(v)
    BY <1>1, <1>2, LoadsUntouched
  <1>5. Basics'
    BY <1>1, <1>3, <1>4, BasicsKept DEF ViewInv
  <1>6. DetailInv'
    <2> SUFFICES ASSUME "detail" \notin race' PROVE DetailInv'
      BY DEF DetailInv
    <2>1. LoadsOf("detail") = {}
      BY <1>2, RaceOfOverlap
    <2>2. LoadsOf("detail")' = {}
      BY <1>4, <2>1 DEF SameLoads
    <2> QED BY <1>2, <2>2 DEF DetailInv, Alone
  <1>7. OverviewInv'
    <2> SUFFICES ASSUME "overview" \notin race PROVE OverviewInv'
      BY <1>2 DEF OverviewInv
    <2>1. Alone("overview")' /\ LoadsOf("overview")' = LoadsOf("overview")
      BY <1>4 DEF SameLoads, Alone, OverviewInv, ViewInv
    <2>2. OverviewPage' = OverviewPage
      BY <1>2 DEF OverviewPage
    <2> QED BY <1>2, <2>1, <2>2 DEF OverviewInv, ViewInv
  <1>8. ListInv'
    <2> SUFFICES ASSUME "list" \notin race' PROVE ListInv'
      BY DEF ListInv
    <2>1. "list" \notin race
      BY <1>2
    <2>2. Alone("list")' /\ LoadsOf("list")' = LoadsOf("list")
      BY <1>4, <2>1 DEF SameLoads, Alone, ListInv, ViewInv
    <2>3. Unheard' = Unheard /\ ToSet(list') = {} /\ ToSet(list)' = {}
      BY <1>2, EmptyListOK DEF Unheard, ToSet
    <2>4. LoadsOf("list") = {} => stored \subseteq Unheard
      BY <1>2, <2>1 DEF ListInv, ViewInv
    <2>5. LoadsOf("list") = {} => Covers(ToSet(list), hidden)'
      BY <1>2, <2>3, <2>4 DEF Covers
    <2>6. \A load \in LoadsOf("list")' : load.answer # Missing => Covers(ToSet(load.answer), load.left)'
      BY <1>2, <2>1, <2>2, <2>3 DEF Covers, ListInv, ViewInv
    <2> QED BY <1>2, <2>1, <2>2, <2>3, <2>5, <2>6 DEF ListInv, ViewInv
  <1> QED BY <1>5, <1>6, <1>7, <1>8 DEF ViewInv

\* A session that is heard of is stored, and the overview is loaded anew.
LEMMA HearKeeps ==
    ASSUME ViewInv, Hear
    PROVE  ViewInv'
  <1> DEFINE n == heard + 1
  <1>1. /\ WindowTypeOK /\ LoadsOK /\ Len(emitted) \in Nat /\ [ViewNext]_allVars
        /\ heard \in Nat /\ inserted \subseteq 1..MaxEvents /\ 1..heard \subseteq inserted
        /\ heard < Len(emitted) => emitted[n] = n /\ n \in inserted \cap Ids
    BY TypeParts, HeardWasStored DEF ViewInv, Basics, ViewNext
  <1>2. /\ heard < Len(emitted) /\ heard' = n /\ list' = Prepended(emitted[n])
        /\ loads' = loads (+) SetToBag({OverviewLoad})
        /\ race' = race \cup Overlapping({"list", "overview"})
                        \cup (IF clearing = "deleted" THEN {"list"} ELSE {})
        /\ UNCHANGED <<emitted, stored, inserted, filter, selected, detail, overview,
                       clearing, commands, hidden>>
    BY DEF Hear, Ask, feedVars
  <1>3. n \in inserted \cap Ids /\ list' = Prepended(n)
    BY <1>1, <1>2
  <1>4. /\ list' \in Lists /\ ToSet(list') \subseteq ToSet(list) \cup {n}
        /\ Len(list') < Limit => Len(list) < Limit /\ ToSet(list') = ToSet(list) \cup {n}
    BY <1>1, <1>3, PrependedFits DEF WindowTypeOK
  <1>5. WindowTypeOK'
    <2>1. heard' \in Nat /\ heard' <= Len(emitted')
      BY <1>1, <1>2
    <2>2. race' \subseteq Views \cup {"filter"}
      BY <1>1, <1>2 DEF WindowTypeOK, Overlapping, Views
    <2> QED BY <1>1, <1>2, <1>4, <2>1, <2>2 DEF WindowTypeOK
  <1>6. OverviewLoad.view = "overview" /\ OverviewLoad.answer = Missing
    BY DEF OverviewLoad, Asked
  <1>7. /\ LoadsOK' /\ SameLoads("detail") /\ SameLoads("list")
        /\ LoadsOf("overview") = {} => LoadsOf("overview")' = {OverviewLoad} /\ Alone("overview")'
    <2> DEFINE asked == {OverviewLoad}
    <2>1. /\ \A load \in asked : LoadOK(load) /\ load.view = "overview"
          /\ \A load, other \in asked : load = other
          /\ OverviewLoad \in asked /\ loads' = loads (+) SetToBag(asked)
      BY <1>2, <1>6, AskedOK
    <2> HIDE DEF asked
    <2>2. /\ LoadsOK'
          /\ \A v : (\A load \in asked : load.view # v) => SameLoads(v)
          /\ \A v : \A load \in asked :
                 LoadsOf(v) = {} /\ load.view = v /\ (\A other \in asked : other.view = v => other = load)
                     => LoadsOf(v)' = {load} /\ Alone(v)'
      BY <1>1, <2>1, Asking
    <2>3. SameLoads("detail") /\ SameLoads("list")
      BY <2>1, <2>2
    <2>4. LoadsOf("overview") = {} => LoadsOf("overview")' = {OverviewLoad} /\ Alone("overview")'
      BY <1>6, <2>1, <2>2
    <2> QED BY <2>2, <2>3, <2>4
  <1>8. Basics'
    BY <1>1, <1>5, <1>7, BasicsKept DEF ViewInv
  <1>9. DetailInv'
    BY <1>2, <1>7, DetailFrame DEF ViewInv
  <1>10. OverviewInv'
    <2> SUFFICES ASSUME "overview" \notin race' PROVE OverviewInv'
      BY DEF OverviewInv
    <2>1. LoadsOf("overview") = {}
      BY <1>2, RaceOfOverlap
    <2> QED BY <1>6, <1>7, <2>1 DEF OverviewInv
  <1>11. ListInv'
    <2> SUFFICES ASSUME "list" \notin race' PROVE ListInv'
      BY DEF ListInv
    <2>1. "list" \notin race /\ LoadsOf("list") = {} /\ clearing # "deleted"
      BY <1>2, RaceOfOverlap
    <2>2. LoadsOf("list")' = {} /\ Alone("list")'
      BY <1>7, <2>1 DEF SameLoads, Alone
    <2>3. inserted \ 1..heard \subseteq stored /\ n \in stored
      BY <1>1, <1>3, <2>1 DEF ViewInv, ListInv
    <2>4. inserted' \ 1..heard' \subseteq stored'
      BY <1>1, <1>2, <2>3
    <2>5. ToSet(list) \subseteq stored /\ (Len(list) < Limit => Covers(ToSet(list), hidden))
      BY <2>1 DEF ViewInv, ListInv
    <2>6. Unheard \ {n} \subseteq Unheard'
      BY <1>1, <1>2 DEF Unheard
    <2>7. Len(list') < Limit => stored \ (ToSet(list') \cup hidden) \subseteq Unheard'
      BY <1>4, <2>5, <2>6 DEF Covers
    <2>8. ToSet(list') \subseteq stored
      BY <1>4, <2>3, <2>5
    <2>9. ToSet(list)' = ToSet(list')
      BY DEF ToSet
    <2>10. Len(list') < Limit => Covers(ToSet(list), hidden)'
      BY <1>2, <2>7, <2>8, <2>9 DEF Covers
    <2> QED BY <1>2, <2>1, <2>2, <2>4, <2>8, <2>9, <2>10 DEF ListInv
  <1> QED BY <1>8, <1>9, <1>10, <1>11 DEF ViewInv

\* The list and the overview are asked for together.
LEMMA ReloadKeeps ==
    ASSUME ViewInv, NEW f \in Filters, Reload(f)
    PROVE  ViewInv'
  <1> DEFINE asked == {Asked("list", f), OverviewLoad}
  <1>1. WindowTypeOK /\ LoadsOK /\ Len(emitted) \in Nat /\ [ViewNext]_allVars
    BY TypeParts, HeardWasStored DEF ViewInv, Basics, ViewNext
  <1>2. /\ filter' = f /\ loads' = loads (+) SetToBag(asked)
        /\ commands' \in 0..MaxCommands
        /\ race' = race \cup Overlapping({"list", "overview"})
        /\ UNCHANGED <<emitted, stored, inserted, heard, list, selected, detail, overview,
                       clearing, hidden>>
    BY <1>1, ViewAssumption DEF Reload, Command, Ask, feedVars, WindowTypeOK
  <1>3. WindowTypeOK'
    <2>1. race' \subseteq Views \cup {"filter"}
      BY <1>1, <1>2 DEF WindowTypeOK, Overlapping, Views
    <2> QED BY <1>1, <1>2, <2>1 DEF WindowTypeOK
  <1>4. /\ \A load \in asked : LoadOK(load)
        /\ Asked("list", f) \in asked /\ OverviewLoad \in asked
        /\ \A load \in asked : load.view # "detail" /\ load.answer = Missing
        /\ Asked("list", f).view = "list" /\ OverviewLoad.view = "overview"
        /\ \A load \in asked : load.view = "list" => load = Asked("list", f)
        /\ \A load \in asked : load.view = "overview" => load = OverviewLoad
    <2>1. LoadOK(Asked("list", f)) /\ LoadOK(OverviewLoad)
      BY AskedOK
    <2>2. /\ Asked("list", f).view = "list" /\ OverviewLoad.view = "overview"
          /\ Asked("list", f).answer = Missing /\ OverviewLoad.answer = Missing
      BY DEF Asked, OverviewLoad
    <2> QED BY <2>1, <2>2
  <1> HIDE DEF asked
  <1>5. /\ LoadsOK'
        /\ \A v : (\A load \in asked : load.view # v) => SameLoads(v)
        /\ \A v : \A load \in asked :
               LoadsOf(v) = {} /\ load.view = v /\ (\A other \in asked : other.view = v => other = load)
                   => LoadsOf(v)' = {load} /\ Alone(v)'
    BY <1>1, <1>2, <1>4, Asking
  <1>6. Basics'
    BY <1>1, <1>3, <1>5, BasicsKept DEF ViewInv
  <1>7. DetailInv'
    <2>1. SameLoads("detail")
      BY <1>4, <1>5
    <2> QED BY <1>2, <2>1, DetailFrame DEF ViewInv
  <1>8. OverviewInv'
    <2> SUFFICES ASSUME "overview" \notin race' PROVE OverviewInv'
      BY DEF OverviewInv
    <2>1. LoadsOf("overview") = {}
      BY <1>2, RaceOfOverlap
    <2>2. LoadsOf("overview")' = {OverviewLoad} /\ Alone("overview")'
      BY <1>4, <1>5, <2>1
    <2> QED BY <1>4, <2>2 DEF OverviewInv
  <1>9. ListInv'
    <2> SUFFICES ASSUME "list" \notin race' PROVE ListInv'
      BY DEF ListInv
    <2>1. "list" \notin race /\ LoadsOf("list") = {}
      BY <1>2, RaceOfOverlap
    <2>2. LoadsOf("list")' = {Asked("list", f)} /\ Alone("list")'
      BY <1>4, <1>5, <2>1
    <2> QED BY <1>2, <1>4, <2>1, <2>2 DEF ListInv, ViewInv
  <1> QED BY <1>6, <1>7, <1>8, <1>9 DEF ViewInv

\* A replay that returns asks for the list, by whatever filter.
LEMMA ReplayReturnsKeeps ==
    ASSUME ViewInv, NEW replay \in BagToSet(replays), ReplayReturns(replay)
    PROVE  ViewInv'
  <1> DEFINE new == ReplayLoad(replay.filter)
             asked == {new}
  <1>1. /\ WindowTypeOK /\ LoadsOK /\ Len(emitted) \in Nat /\ [ViewNext]_allVars
        /\ replay.filter \in Filters
    BY TypeParts, HeardWasStored DEF ViewInv, Basics, ViewNext, Replaying, ReplaysOK
  <1>2. /\ loads' = loads (+) SetToBag(asked)
        /\ race' = race \cup Overlapping({"list"})
                        \cup (IF replay.filter # filter THEN {"filter"} ELSE {})
        /\ UNCHANGED <<emitted, stored, inserted, heard, shown, clearing, commands, hidden>>
    BY DEF ReplayReturns, Ask, feedVars, ReplayLoad
  <1>3. WindowTypeOK'
    <2>1. race' \subseteq Views \cup {"filter"}
      BY <1>1, <1>2 DEF WindowTypeOK, Overlapping, Views
    <2> QED BY <1>1, <1>2, <2>1 DEF WindowTypeOK, shown
  <1>4. LoadOK(new) /\ new.view = "list" /\ new.answer = Missing
    BY <1>1, ReplayLoadOK
  <1> HIDE DEF new
  <1>5. /\ \A load \in asked : LoadOK(load) /\ load.view = "list"
        /\ new \in asked /\ \A load, other \in asked : load = other
    BY <1>4
  <1> HIDE DEF asked
  <1>6. /\ LoadsOK'
        /\ \A v : (\A load \in asked : load.view # v) => SameLoads(v)
        /\ \A v : \A load \in asked :
               LoadsOf(v) = {} /\ load.view = v /\ (\A other \in asked : other.view = v => other = load)
                   => LoadsOf(v)' = {load} /\ Alone(v)'
    BY <1>1, <1>2, <1>5, Asking
  <1>7. SameLoads("detail") /\ SameLoads("overview")
    BY <1>5, <1>6
  <1>8. Basics'
    BY <1>1, <1>3, <1>6, BasicsKept DEF ViewInv
  <1>9. DetailInv'
    BY <1>2, <1>7, DetailFrame DEF ViewInv, shown
  <1>10. OverviewInv'
    BY <1>2, <1>7, OverviewFrame DEF ViewInv, shown
  <1>11. ListInv'
    <2> SUFFICES ASSUME "list" \notin race' PROVE ListInv'
      BY DEF ListInv
    <2>1. "list" \notin race /\ LoadsOf("list") = {}
      BY <1>2, RaceOfOverlap
    <2>2. LoadsOf("list")' = {new} /\ Alone("list")'
      BY <1>4, <1>5, <1>6, <2>1
    <2> QED BY <1>2, <1>4, <2>1, <2>2 DEF ListInv, ViewInv
  <1> QED BY <1>8, <1>9, <1>10, <1>11 DEF ViewInv

\* Another session is selected, and its detail asked for.
LEMMA SelectKeeps ==
    ASSUME ViewInv, NEW n \in Ids, Select(n)
    PROVE  ViewInv'
  <1> DEFINE asked == {Asked("detail", n)}
  <1>1. WindowTypeOK /\ LoadsOK /\ Len(emitted) \in Nat /\ [ViewNext]_allVars
    BY TypeParts, HeardWasStored DEF ViewInv, Basics, ViewNext
  <1>2. /\ selected' = n /\ loads' = loads (+) SetToBag(asked)
        /\ commands' \in 0..MaxCommands
        /\ race' = race \cup Overlapping({"detail"})
        /\ UNCHANGED <<emitted, stored, inserted, heard, filter, list, detail, overview,
                       clearing, hidden>>
    BY <1>1, ViewAssumption DEF Select, Command, Ask, feedVars, WindowTypeOK
  <1>3. WindowTypeOK'
    <2>1. race' \subseteq Views \cup {"filter"}
      BY <1>1, <1>2 DEF WindowTypeOK, Overlapping, Views
    <2> QED BY <1>1, <1>2, <2>1 DEF WindowTypeOK
  <1>4. /\ \A load \in asked : LoadOK(load) /\ load.view = "detail" /\ load.arg = n
        /\ Asked("detail", n) \in asked /\ \A load, other \in asked : load = other
    BY AskedOK DEF Asked
  <1> HIDE DEF asked
  <1>5. /\ LoadsOK'
        /\ \A v : (\A load \in asked : load.view # v) => SameLoads(v)
        /\ \A v : \A load \in asked :
               LoadsOf(v) = {} /\ load.view = v /\ (\A other \in asked : other.view = v => other = load)
                   => LoadsOf(v)' = {load} /\ Alone(v)'
    BY <1>1, <1>2, <1>4, Asking
  <1>6. SameLoads("list") /\ SameLoads("overview")
    BY <1>4, <1>5
  <1>7. Basics'
    BY <1>1, <1>3, <1>5, BasicsKept DEF ViewInv
  <1>8. DetailInv'
    <2> SUFFICES ASSUME "detail" \notin race' PROVE DetailInv'
      BY DEF DetailInv
    <2>1. LoadsOf("detail") = {}
      BY <1>2, RaceOfOverlap
    <2>2. LoadsOf("detail")' = {Asked("detail", n)} /\ Alone("detail")'
      BY <1>4, <1>5, <2>1
    <2> QED BY <1>2, <1>4, <2>2 DEF DetailInv
  <1>9. OverviewInv'
    BY <1>2, <1>6, OverviewFrame DEF ViewInv
  <1>10. ListInv'
    BY <1>2, <1>6, ListFrame DEF ViewInv
  <1> QED BY <1>7, <1>8, <1>9, <1>10 DEF ViewInv

\* The answer of the store is right when it is given, if it is one.
LEMMA ServedKeeps ==
    ASSUME ViewInv, [ViewNext]_allVars, NEW load \in BagToSet(loads), ~load.served,
           NEW answer, NEW left \in SUBSET Ids, Served(load, answer, left),
           \/ answer = Missing
           \/ answer = Answer(load) /\ (load.view = "list" => left = stored \ ToSet(answer)),
           commands' \in 0..MaxCommands,
           UNCHANGED <<emitted, stored, inserted, heard, shown, clearing, race, hidden>>
    PROVE  ViewInv'
  <1>1. WindowTypeOK /\ LoadsOK /\ Len(emitted) \in Nat /\ stored \in SUBSET Ids
    BY TypeParts, HeardWasStored DEF ViewInv, Basics, ViewTypeOK
  <1>2. WindowTypeOK'
    BY <1>1 DEF WindowTypeOK, shown
  <1> DEFINE served == [view |-> load.view, arg |-> load.arg, chained |-> load.chained,
                        served |-> TRUE, answer |-> answer, left |-> left]
  <1>3. LoadOK(served)
    BY AnswerOK DEF ViewInv
  <1>4. served.view = load.view /\ served.arg = load.arg /\ served.answer = answer /\ served.left = left
    OBVIOUS
  <1>5. /\ LoadsOK'
        /\ \A v : v # load.view => SameLoads(v)
        /\ Alone(load.view) => LoadsOf(load.view)' = {served} /\ Alone(load.view)'
    BY <1>1, <1>3, Serving
  <1> HIDE DEF served
  <1>6. Basics'
    BY <1>2, <1>5, BasicsKept DEF ViewInv
  <1>7. load \in LoadsOf(load.view) /\ load.view \in Views
    BY <1>1 DEF LoadsOf, LoadsOK, LoadOK, WellTyped, Views
  <1>8. DetailInv'
    <2>1. CASE load.view # "detail"
      BY <1>5, <2>1, DetailFrame DEF ViewInv, shown
    <2>2. CASE load.view = "detail"
      BY <1>4, <1>5, <1>7, <2>2 DEF ViewInv, DetailInv, shown
    <2> QED BY <2>1, <2>2
  <1>9. OverviewInv'
    <2>1. CASE load.view # "overview"
      BY <1>5, <2>1, OverviewFrame DEF ViewInv, shown
    <2>2. CASE load.view = "overview"
      <3>1. answer # Missing => answer = OverviewPage
        BY <2>2 DEF Answer
      <3>2. OverviewPage' = OverviewPage
        BY DEF OverviewPage
      <3> QED BY <1>4, <1>5, <2>2, <3>1, <3>2 DEF ViewInv, OverviewInv
    <2> QED BY <2>1, <2>2
  <1>10. ListInv'
    <2>1. CASE load.view # "list"
      BY <1>5, <2>1, ListFrame DEF ViewInv, shown
    <2>2. CASE load.view = "list"
      <3>1. answer # Missing => ToSet(answer) \subseteq stored /\ left = stored \ ToSet(answer)
        BY <1>1, <2>2, ListIsOfStored DEF Answer
      <3>2. answer # Missing => Covers(ToSet(answer), left)'
        BY <3>1 DEF Covers
      <3> QED BY <1>4, <1>5, <2>2, <3>2 DEF ViewInv, ListInv
    <2> QED BY <2>1, <2>2
  <1> QED BY <1>6, <1>8, <1>9, <1>10 DEF ViewInv

\* An answer that is taken is what the view shows from then on.
LEMMA DeliverKeeps ==
    ASSUME ViewInv, NEW load \in BagToSet(loads), Deliver(load)
    PROVE  ViewInv'
  <1>1. /\ WindowTypeOK /\ LoadsOK /\ Len(emitted) \in Nat /\ LoadOK(load) /\ [ViewNext]_allVars
    BY TypeParts, HeardWasStored DEF ViewInv, Basics, ViewNext, Answering, LoadsOK
  <1>2. /\ load.answer # Missing
        /\ loads' = (loads (-) SetToBag({load})) (+) SetToBag(Chained(load))
        /\ list' = IF load.view = "list" THEN load.answer ELSE list
        /\ detail' = IF load.view = "detail" THEN load.answer ELSE detail
        /\ overview' = IF load.view = "overview" THEN load.answer ELSE overview
        /\ hidden' = IF load.view = "list" THEN load.left ELSE hidden
        /\ race' = race \cup (IF clearing = "deleted" THEN {load.view} ELSE {})
                        \cup (IF load.chained THEN Overlapping({"overview"}) ELSE {})
        /\ UNCHANGED <<emitted, stored, inserted, heard, filter, selected, clearing, commands>>
    BY DEF Deliver, feedVars
  <1>3. /\ load.view \in Views /\ load.left \subseteq Ids
        /\ load.view = "list" => load.answer \in Lists
        /\ load.view = "detail" => load.answer \in Ids /\ load.answer = load.arg
        /\ load.view = "overview" => load.answer \in Lists
        /\ load.chained => load.view = "list"
    BY <1>1, <1>2 DEF LoadOK, WellTyped, Views
  <1>4. WindowTypeOK'
    <2>1. list' \in Lists
      BY <1>1, <1>2, <1>3 DEF WindowTypeOK
    <2>2. race' \subseteq Views \cup {"filter"} /\ hidden' \subseteq Ids
      BY <1>1, <1>2, <1>3 DEF WindowTypeOK, Overlapping, Views
    <2> QED BY <1>1, <1>2, <1>3, <2>1, <2>2 DEF WindowTypeOK
  <1>5. /\ LoadsOK'
        /\ \A v : v # load.view /\ (load.chained => v # "overview") => SameLoads(v)
        /\ Alone(load.view) => LoadsOf(load.view)' = {}
        /\ load.chained /\ LoadsOf("overview") = {} =>
               LoadsOf("overview")' = {OverviewLoad} /\ Alone("overview")'
    BY <1>1, <1>2, AskedOK, Delivering
  <1>6. load \in LoadsOf(load.view)
    BY DEF LoadsOf
  <1>7. Basics'
    BY <1>1, <1>4, <1>5, BasicsKept DEF ViewInv
  <1>8. DetailInv'
    <2>1. CASE load.view # "detail"
      BY <1>2, <1>5, <2>1, DetailFrame DEF ViewInv
    <2>2. CASE load.view = "detail"
      BY <1>2, <1>3, <1>5, <1>6, <2>2 DEF ViewInv, DetailInv, Alone
    <2> QED BY <2>1, <2>2
  <1>9. OverviewInv'
    <2>1. CASE load.view # "overview" /\ ~load.chained
      BY <1>2, <1>5, <2>1, OverviewFrame DEF ViewInv
    <2>2. CASE load.view = "overview"
      <3>1. OverviewPage' = OverviewPage
        BY <1>2 DEF OverviewPage
      <3>2. ~load.chained
        BY <1>3, <2>2
      <3> QED BY <1>2, <1>5, <1>6, <2>2, <3>1, <3>2 DEF ViewInv, OverviewInv, Alone
    <2>3. CASE load.chained
      <3> SUFFICES ASSUME "overview" \notin race' PROVE OverviewInv'
        BY DEF OverviewInv
      <3>1. LoadsOf("overview") = {}
        BY <1>2, <2>3, RaceOfOverlap
      <3>2. OverviewLoad.answer = Missing
        BY DEF OverviewLoad, Asked
      <3> QED BY <1>5, <2>3, <3>1, <3>2 DEF OverviewInv
    <2> QED BY <2>1, <2>2, <2>3
  <1>10. ListInv'
    <2>1. CASE load.view # "list"
      BY <1>2, <1>5, <2>1, ListFrame DEF ViewInv
    <2>2. CASE load.view = "list"
      <3> SUFFICES ASSUME "list" \notin race' PROVE ListInv'
        BY DEF ListInv
      <3>1. "list" \notin race /\ clearing # "deleted"
        BY <1>2, <2>2
      <3>2. LoadsOf("list")' = {} /\ Alone("list")'
        BY <1>5, <2>2, <3>1 DEF ViewInv, ListInv, Alone
      <3>3. Covers(ToSet(load.answer), load.left)
        BY <1>2, <1>6, <2>2, <3>1 DEF ViewInv, ListInv
      <3>4. list' = load.answer /\ hidden' = load.left /\ Unheard' = Unheard
        BY <1>2, <2>2 DEF Unheard
      <3>5. ToSet(list') \subseteq stored' /\ Covers(ToSet(list), hidden)'
        BY <1>2, <3>3, <3>4 DEF Covers, ToSet
      <3> QED BY <1>2, <3>1, <3>2, <3>5 DEF ViewInv, ListInv
    <2> QED BY <2>1, <2>2
  <1> QED BY <1>7, <1>8, <1>9, <1>10 DEF ViewInv

\* A load that failed has raced.
LEMMA DeliverErrorKeeps ==
    ASSUME ViewInv, NEW load \in BagToSet(loads), DeliverError(load)
    PROVE  ViewInv'
  <1>1. /\ WindowTypeOK /\ LoadsOK /\ Len(emitted) \in Nat /\ LoadOK(load) /\ [ViewNext]_allVars
    BY TypeParts, HeardWasStored DEF ViewInv, Basics, ViewNext, Answering, LoadsOK
  <1>2. /\ loads' = loads (-) SetToBag({load}) /\ race' = race \cup {load.view}
        /\ UNCHANGED <<emitted, stored, inserted, heard, shown, clearing, commands, hidden>>
    BY DEF DeliverError, feedVars
  <1>3. load.view \in Views
    BY <1>1 DEF LoadOK, WellTyped, Views
  <1>4. WindowTypeOK'
    BY <1>1, <1>2, <1>3 DEF WindowTypeOK, shown
  <1>5. LoadsOK' /\ \A v : v # load.view => SameLoads(v)
    BY <1>1, <1>2, Dropping
  <1>6. Basics'
    BY <1>1, <1>4, <1>5, BasicsKept DEF ViewInv
  <1>7. DetailInv'
    <2>1. CASE load.view # "detail"
      BY <1>2, <1>5, <2>1, DetailFrame DEF ViewInv, shown
    <2>2. CASE load.view = "detail"
      BY <1>2, <2>2 DEF DetailInv
    <2> QED BY <2>1, <2>2
  <1>8. OverviewInv'
    <2>1. CASE load.view # "overview"
      BY <1>2, <1>5, <2>1, OverviewFrame DEF ViewInv, shown
    <2>2. CASE load.view = "overview"
      BY <1>2, <2>2 DEF OverviewInv
    <2> QED BY <2>1, <2>2
  <1>9. ListInv'
    <2>1. CASE load.view # "list"
      BY <1>2, <1>5, <2>1, ListFrame DEF ViewInv, shown
    <2>2. CASE load.view = "list"
      BY <1>2, <2>2 DEF ListInv
    <2> QED BY <2>1, <2>2
  <1> QED BY <1>6, <1>7, <1>8, <1>9 DEF ViewInv

\* A command that is answered, or whose answer is taken, keeps the invariant.
LEMMA AnsweringKeeps ==
    ASSUME ViewInv, Answering
    PROVE  ViewInv'
  <1>1. PICK load \in BagToSet(loads) :
            Serve(load) \/ ServeFails(load) \/ Deliver(load) \/ DeliverError(load)
    BY DEF Answering
  <1>2. /\ [ViewNext]_allVars /\ commands \in 0..MaxCommands /\ stored \subseteq Ids
        /\ MaxCommands \in Nat
    BY ViewAssumption DEF ViewNext, ViewInv, Basics, ViewTypeOK
  <1>3. CASE Serve(load)
    <2> DEFINE left == IF load.view = "list" THEN stored \ ToSet(Answer(load)) ELSE {}
    <2>1. /\ ~load.served /\ Served(load, Answer(load), left) /\ left \in SUBSET Ids
          /\ load.view = "list" => left = stored \ ToSet(Answer(load))
          /\ UNCHANGED <<emitted, stored, inserted, heard, shown, clearing, commands, race, hidden>>
      BY <1>2, <1>3 DEF Serve, feedVars
    <2> HIDE DEF left
    <2> QED BY <1>2, <2>1, ServedKeeps
  <1>4. CASE ServeFails(load)
    <2>1. /\ ~load.served /\ Served(load, Missing, {}) /\ {} \in SUBSET Ids
          /\ commands' \in 0..MaxCommands
          /\ UNCHANGED <<emitted, stored, inserted, heard, shown, clearing, race, hidden>>
      BY <1>2, <1>4 DEF ServeFails, Command, feedVars
    <2> QED BY <1>2, <2>1, ServedKeeps
  <1> QED BY <1>1, <1>3, <1>4, DeliverKeeps, DeliverErrorKeeps

\* The window starts with a load of the list and one of the overview.
LEMMA InitViewInv == ViewInit => ViewInv
  <1> SUFFICES ASSUME ViewInit PROVE ViewInv
    OBVIOUS
  <1> DEFINE asked == {Asked("list", NoFilter), OverviewLoad}
  <1>1. /\ stored = Earlier /\ inserted = {} /\ heard = 0 /\ filter = NoFilter /\ list = <<>>
        /\ selected = None /\ detail = None /\ overview = None /\ loads = SetToBag(asked)
        /\ replays = EmptyBag /\ clearing = "no" /\ commands = 0 /\ race = {} /\ hidden = {}
        /\ sent = 0 /\ emitted = <<>>
    BY DEF ViewInit, Init
  <1>2. FeedInv /\ TypeOK
    BY InitFeedInv DEF ViewInit, FeedInv
  <1>3. WindowTypeOK
    <2>1. Earlier \subseteq Ids /\ NoFilter \in Filters /\ MaxCommands \in Nat
      BY ViewAssumption DEF Ids, Filters
    <2> QED BY <1>1, <2>1, EmptyListOK DEF WindowTypeOK
  <1>4. /\ \A load \in asked : LoadOK(load)
        /\ \A load \in asked : load.view # "detail" /\ load.answer = Missing
        /\ Asked("list", NoFilter) \in asked /\ OverviewLoad \in asked
        /\ \A load, other \in asked : load.view = other.view => load = other
        /\ Asked("list", NoFilter).view = "list" /\ OverviewLoad.view = "overview"
    <2>1. LoadOK(Asked("list", NoFilter)) /\ LoadOK(OverviewLoad)
      BY AskedOK, ViewAssumption DEF Filters
    <2>2. /\ Asked("list", NoFilter).view = "list" /\ OverviewLoad.view = "overview"
          /\ Asked("list", NoFilter).answer = Missing /\ OverviewLoad.answer = Missing
      BY DEF Asked, OverviewLoad
    <2> QED BY <2>1, <2>2
  <1> HIDE DEF asked
  <1>5. IsABag(loads) /\ BagToSet(loads) = asked /\ \A load \in asked : loads[load] = 1
    BY <1>1 DEF IsABag, SetToBag, BagToSet
  <1>6. LoadsOK /\ \A v \in Views : Alone(v)
    BY <1>4, <1>5 DEF LoadsOK, Alone, LoadsOf
  <1>7. Basics
    <2>1. ReplaysOK
      BY <1>1 DEF ReplaysOK, IsABag, BagToSet, EmptyBag, SetToBag
    <2> QED BY <1>1, <1>2, <1>3, <1>6, <2>1, TypeParts DEF Basics
  <1>8. /\ LoadsOf("detail") = {} /\ LoadsOf("list") # {} /\ LoadsOf("overview") # {}
        /\ \A v : \A load \in LoadsOf(v) : load.answer = Missing
    BY <1>4, <1>5 DEF LoadsOf
  <1>9. DetailInv /\ OverviewInv /\ ListInv
    BY <1>1, <1>6, <1>8 DEF DetailInv, OverviewInv, ListInv, Views
  <1> QED BY <1>7, <1>9 DEF ViewInv

\* Every step of the window, of the store and of the feed keeps the invariant.
LEMMA ViewKeeps ==
    ASSUME ViewInv, [ViewNext]_allVars
    PROVE  ViewInv'
  <1>1. CASE UNCHANGED allVars
    BY <1>1, QuietKeeps DEF Quiet
  <1>2. CASE ViewNext
    BY <1>2, QuietKeeps, InsertKeeps, ClearDeletesKeeps, ClearReturnsKeeps, HearKeeps,
       ReloadKeeps, SelectKeeps, ReplayReturnsKeeps, AnsweringKeeps DEF ViewNext, Quiet, Replaying
  <1> QED BY <1>1, <1>2

\* ViewInv, the promises of the window with what they rest on, always holds.
THEOREM ViewInductive == ViewSpec => []ViewInv
  <1>1. ViewInv /\ [ViewNext]_allVars => ViewInv'
    BY ViewKeeps
  <1> QED BY InitViewInv, <1>1, PTL DEF ViewSpec

\* Every variable of the window, of the store it asks and of the commands in
\* flight keeps its type; the list shows no session twice.
THEOREM ViewTypeCorrect == ViewSpec => []ViewTypeOK
  <1>1. ViewInv => ViewTypeOK
    BY DEF ViewInv, Basics
  <1> QED BY ViewInductive, <1>1, PTL

\* Beside the window, the feed runs as it does alone, so its promises hold here.
THEOREM FeedRuns == ViewSpec => Spec
  <1>1. ViewInit => Init
    BY DEF ViewInit
  <1>2. [ViewNext]_allVars => [Next]_vars
    BY FeedSteps
  <1> QED BY <1>1, <1>2, PTL DEF ViewSpec, Spec

\* The window is sent the captures in order and without a gap, until the
\* channel is overrun.
THEOREM EmittedInOrderToWindow == ViewSpec => []EmittedInOrder
  BY FeedRuns, EmittedInOrderAlways, PTL

\* The detail shown is that of the session selected, unless its loads raced.
THEOREM DetailNeedsRaceAlways == ViewSpec => []DetailNeedsRace
  <1>1. ViewInv => DetailNeedsRace
    BY NoneInFlight DEF ViewInv, DetailInv, DetailNeedsRace, Settled
  <1> QED BY ViewInductive, <1>1, PTL

\* Once every capture was heard of, the overview is that of what is stored,
\* unless its loads raced.
THEOREM OverviewNeedsRaceAlways == ViewSpec => []OverviewNeedsRace
  <1>1. ViewInv => OverviewNeedsRace
    BY NoneInFlight DEF ViewInv, OverviewInv, OverviewNeedsRace, Settled
  <1> QED BY ViewInductive, <1>1, PTL

\* The list shows no session that is gone and, unless it is full, leaves out
\* none announced since it was loaded, unless its loads raced.
THEOREM ListNeedsRaceAlways == ViewSpec => []ListNeedsRace
  <1>1. ViewInv => ListNeedsRace
    BY NoneInFlight DEF ViewInv, ListInv, ListNeedsRace, Settled, Covers, Unheard
  <1> QED BY ViewInductive, <1>1, PTL

\* What the filter set lets pass, and what a list may have left out for it: what
\* does not pass, and what has Limit newer sessions beside it.
Passes(i) == MatchesFilter(Session[i], Filter[filter])
Newer(i) == {j \in stored : Session[j].started > Session[i].started}
Fits(ids) == \A i \in ids : i \in 1..heard \/ Passes(i)
Excused(left) == \A i \in left \cap stored : ~Passes(i) \/ Cardinality(Newer(i)) >= Limit

\* Whatever was stored was stored before or captured since.  Unless the loads of
\* the list raced or a replay listed by another filter, a list in flight was
\* asked for by the filter set and its answer fits it; without one the list does.
FitInv ==
    /\ stored \subseteq Earlier \cup inserted
    /\ race \cap {"list", "filter"} = {} =>
           /\ \A load \in LoadsOf("list") :
                  /\ load.arg = filter /\ load.left \subseteq Earlier \cup inserted
                  /\ load.answer # Missing => Fits(ToSet(load.answer)) /\ Excused(load.left)
           /\ LoadsOf("list") = {} =>
                  Fits(ToSet(list)) /\ hidden \subseteq Earlier \cup inserted /\ Excused(hidden)

\* What touches neither the list nor what it is loaded from keeps it.
LEMMA FitFrame ==
    ASSUME FitInv, SameLoads("list"), UNCHANGED <<stored, inserted, heard, filter, list, hidden>>,
           race \subseteq race'
    PROVE  FitInv'
  <1>1. LoadsOf("list")' = LoadsOf("list")
    BY DEF SameLoads
  <1>2. \A ids : (Fits(ids) => Fits(ids)') /\ (Excused(ids) => Excused(ids)')
    BY DEF Fits, Excused, Passes, Newer
  <1>3. ToSet(list)' = ToSet(list)
    BY DEF ToSet
  <1> QED BY <1>1, <1>2, <1>3 DEF FitInv

\* A session that is stored was not left out before, and has no fewer newer ones.
LEMMA FitInserted ==
    ASSUME ViewInv, FitInv, NEW n \in 1..MaxEvents, Insert(n)
    PROVE  FitInv'
  <1>1. /\ n \notin inserted /\ stored' = stored \cup {n} /\ inserted' = inserted \cup {n}
        /\ UNCHANGED <<heard, filter, list, loads, race, hidden>>
    BY DEF Insert, shown
  <1>2. n \notin Earlier /\ stored \in SUBSET Ids /\ stored' \in SUBSET Ids
    <2>1. n \in Ids
      BY ViewAssumption DEF Ids
    <2> QED BY <1>1, <2>1, ViewAssumption DEF ViewInv, Basics, ViewTypeOK
  <1>3. ASSUME NEW left, left \subseteq Earlier \cup inserted, Excused(left)
        PROVE  Excused(left)'
    <2> SUFFICES ASSUME NEW i \in left, i \in stored', Passes(i)'
                 PROVE  Cardinality(Newer(i)') >= Limit
      BY DEF Excused
    <2>1. i \in stored /\ Passes(i)
      BY <1>1, <1>2, <1>3 DEF Passes
    <2>2. Cardinality(Newer(i)) >= Limit
      BY <1>3, <2>1 DEF Excused
    <2>3. /\ IsFiniteSet(Newer(i)') /\ IsFiniteSet(Newer(i))
          /\ Cardinality(Newer(i)) <= Cardinality(Newer(i)')
      <3>1. Newer(i)' \in SUBSET Ids /\ Newer(i) \in SUBSET Newer(i)'
        BY <1>1, <1>2 DEF Newer
      <3>2. IsFiniteSet(Newer(i)')
        BY <3>1, IdsAreFinite, FS_Subset
      <3> QED BY <3>1, <3>2, FS_Subset
    <2> QED BY <2>2, <2>3, FS_CardinalityType, QueryAssumption
  <1>4. \A ids : Fits(ids) => Fits(ids)'
    BY <1>1 DEF Fits, Passes
  <1>5. LoadsOf("list")' = LoadsOf("list") /\ ToSet(list)' = ToSet(list)
    BY <1>1 DEF LoadsOf, ToSet
  <1> QED BY <1>1, <1>3, <1>4, <1>5 DEF FitInv

\* The store empties itself: nothing is left out of what is stored.
LEMMA FitCleared ==
    ASSUME FitInv, ClearDeletes
    PROVE  FitInv'
  <1>1. /\ stored' = {} /\ race \subseteq race'
        /\ UNCHANGED <<inserted, heard, filter, list, loads, hidden>>
    BY DEF ClearDeletes, shown
  <1>2. \A ids : Excused(ids)' /\ (Fits(ids) => Fits(ids)')
    BY <1>1 DEF Excused, Fits, Passes
  <1>3. LoadsOf("list")' = LoadsOf("list") /\ ToSet(list)' = ToSet(list)
    BY <1>1 DEF LoadsOf, ToSet
  <1> QED BY <1>1, <1>2, <1>3 DEF FitInv

\* The window drops its list: nothing in it needs to pass.
LEMMA FitDropped ==
    ASSUME FitInv, ClearReturns
    PROVE  FitInv'
  <1>1. /\ list' = <<>> /\ race \subseteq race'
        /\ UNCHANGED <<stored, inserted, heard, filter, loads, hidden>>
    BY DEF ClearReturns
  <1>2. \A ids : (Excused(ids) => Excused(ids)') /\ (Fits(ids) => Fits(ids)')
    BY <1>1 DEF Excused, Fits, Passes, Newer
  <1>3. LoadsOf("list")' = LoadsOf("list") /\ ToSet(list)' = {}
    BY <1>1, EmptyListOK DEF LoadsOf, ToSet
  <1>4. Fits({})'
    BY DEF Fits
  <1> QED BY <1>1, <1>2, <1>3, <1>4 DEF FitInv

\* What the listener puts on top has been heard of.
LEMMA FitHeard ==
    ASSUME ViewInv, FitInv, Hear
    PROVE  FitInv'
  <1>1. /\ heard \in Nat /\ heard' = heard + 1 /\ list \in Lists /\ heard + 1 \in Ids
        /\ list' = Prepended(heard + 1) /\ loads' = loads (+) SetToBag({OverviewLoad})
        /\ race' = race \cup Overlapping({"list", "overview"})
                        \cup (IF clearing = "deleted" THEN {"list"} ELSE {})
        /\ UNCHANGED <<stored, inserted, filter, hidden>>
    BY HeardWasStored DEF Hear, Ask, ViewInv, Basics, ViewTypeOK
  <1> SUFFICES ASSUME race' \cap {"list", "filter"} = {} PROVE FitInv'
    BY <1>1 DEF FitInv
  <1>2. LoadsOf("list") = {}
    BY <1>1, RaceOfOverlap
  <1>3. LoadsOf("list")' = {}
    <2>1. LoadsOK /\ LoadOK(OverviewLoad) /\ OverviewLoad.view # "list"
      BY AskedOK DEF ViewInv, Basics, OverviewLoad, Asked
    <2>2. SameLoads("list")
      BY <1>1, <2>1, Asking
    <2> QED BY <1>2, <2>2 DEF SameLoads
  <1>4. Fits(ToSet(list)) /\ Excused(hidden)
    BY <1>1, <1>2 DEF FitInv
  <1>5. hidden \subseteq Earlier \cup inserted
    BY <1>1, <1>2 DEF FitInv
  <1>6. ToSet(list') \subseteq ToSet(list) \cup {heard + 1}
    BY <1>1, PrependedFits
  <1>7. \A i \in ToSet(list') : i \in 1..heard' \/ Passes(i)'
    BY <1>1, <1>4, <1>6 DEF Fits, Passes
  <1>8. Excused(hidden)' /\ ToSet(list)' = ToSet(list')
    BY <1>1, <1>4 DEF Excused, Passes, Newer, ToSet
  <1> QED BY <1>1, <1>3, <1>5, <1>7, <1>8 DEF FitInv, Fits

\* A list that is asked for without a race is that of the filter set.
LEMMA FitAsked ==
    ASSUME FitInv, LoadsOK, NEW asked, loads' = loads (+) SetToBag(asked),
           \A load \in asked : LoadOK(load),
           NEW new \in asked, new.view = "list", new.answer = Missing, new.left = {},
           \A load \in asked : load.view = "list" => load = new,
           race \cup Overlapping({"list"}) \subseteq race',
           race' \cap {"list", "filter"} = {} => new.arg = filter',
           UNCHANGED <<stored, inserted>>
    PROVE  FitInv'
  <1> SUFFICES ASSUME race' \cap {"list", "filter"} = {} PROVE FitInv'
    BY DEF FitInv
  <1>1. LoadsOf("list") = {}
    BY RaceOfOverlap
  <1>2. LoadsOf("list")' = {new}
    <2>1. \A v : \A load \in asked :
              LoadsOf(v) = {} /\ load.view = v /\ (\A other \in asked : other.view = v => other = load)
                  => LoadsOf(v)' = {load}
      BY Asking
    <2> QED BY <1>1, <2>1
  <1> QED BY <1>2 DEF FitInv

\* The store answers with what passes the filter, and all that does but what has
\* Limit newer ones.
LEMMA FitServed ==
    ASSUME ViewInv, FitInv, NEW load \in BagToSet(loads), ~load.served,
           NEW answer, NEW left \in SUBSET Ids, Served(load, answer, left),
           \/ answer = Missing /\ left = {}
           \/ answer = Answer(load) /\ (load.view = "list" => left = stored \ ToSet(answer)),
           UNCHANGED <<stored, inserted, heard, shown, race, hidden>>
    PROVE  FitInv'
  <1> DEFINE served == [view |-> load.view, arg |-> load.arg, chained |-> load.chained,
                        served |-> TRUE, answer |-> answer, left |-> left]
  <1>1. LoadsOK /\ LoadOK(served) /\ stored \in SUBSET Ids
    BY AnswerOK DEF ViewInv, Basics, ViewTypeOK
  <1>2. served.view = load.view /\ served.arg = load.arg /\ served.answer = answer /\ served.left = left
    OBVIOUS
  <1>3. /\ \A v : v # load.view => SameLoads(v)
        /\ Alone(load.view) => LoadsOf(load.view)' = {served}
    BY <1>1, Serving
  <1> HIDE DEF served
  <1>4. UNCHANGED <<filter, list>>
    BY DEF shown
  <1>5. CASE load.view # "list"
    BY <1>3, <1>4, <1>5, FitFrame
  <1>6. CASE load.view = "list"
    <2> SUFFICES ASSUME race \cap {"list", "filter"} = {} PROVE FitInv'
      BY <1>4 DEF FitInv
    <2>1. LoadsOf("list")' = {served} /\ load \in LoadsOf("list")
      BY <1>3, <1>6 DEF ViewInv, ListInv, LoadsOf
    <2>2. load.arg = filter /\ stored \subseteq Earlier \cup inserted
      BY <2>1 DEF FitInv
    <2>3. left \subseteq Earlier \cup inserted
      BY <1>6, <2>2
    <2>4. ASSUME answer # Missing
          PROVE  Fits(ToSet(answer))' /\ Excused(left)'
      <3>1. answer = ListSessions(stored, Filter[filter]) /\ left = stored \ ToSet(answer)
        BY <1>6, <2>2, <2>4 DEF Answer
      <3>2. /\ \A i \in ToSet(answer) : Passes(i)
            /\ \A i \in stored \ ToSet(answer) : Passes(i) => Cardinality(Newer(i)) >= Limit
        <4> DEFINE f == Filter[filter]
                   shownList == ListSessions(stored, f)
        <4> HIDE DEF f
        <4>1. /\ \A i \in ToSet(shownList) : MatchesFilter(Session[i], f)
              /\ \A i \in stored \ ToSet(shownList) :
                     MatchesFilter(Session[i], f) =>
                         Cardinality({j \in stored : Session[j].started > Session[i].started}) >= Limit
          BY <1>1, ListLeavesOutOld, Zenon
        <4>2. answer = shownList
          BY <3>1 DEF f
        <4> HIDE DEF shownList
        <4> QED BY <4>1, <4>2, Zenon DEF Passes, Newer, f
      <3>3. Fits(ToSet(answer)) /\ Excused(left)
        BY <3>1, <3>2 DEF Fits, Excused
      <3> QED BY <1>4, <3>3 DEF Fits, Excused, Passes, Newer
    <2> QED BY <1>2, <1>4, <2>1, <2>2, <2>3, <2>4 DEF FitInv
  <1> QED BY <1>5, <1>6

\* An answer that is taken fits as it did in flight.
LEMMA FitDelivered ==
    ASSUME ViewInv, FitInv, NEW load \in BagToSet(loads), Deliver(load) \/ DeliverError(load)
    PROVE  FitInv'
  <1>1. /\ LoadsOK /\ load.view \in Views
        /\ load.view = "list" \/ ~load.chained
    BY DEF ViewInv, Basics, LoadsOK, LoadOK, WellTyped, Views
  <1>2. /\ load.view # "list" => SameLoads("list")
        /\ Alone(load.view) => LoadsOf(load.view)' = {}
    <2>1. CASE Deliver(load)
      BY <1>1, <2>1, AskedOK, Delivering DEF Deliver
    <2>2. CASE DeliverError(load)
      BY <1>1, <2>2, Dropping DEF DeliverError
    <2> QED BY <2>1, <2>2
  <1>3. /\ UNCHANGED <<stored, inserted, heard, filter>> /\ race \subseteq race'
        /\ load.view # "list" => UNCHANGED <<list, hidden>>
        /\ load.view = "list" /\ "list" \notin race' =>
               load.answer # Missing /\ list' = load.answer
        /\ hidden' \in {hidden, load.left} /\ (load.view = "list" => hidden' = load.left \/ "list" \in race')
    BY DEF Deliver, DeliverError, shown
  <1>4. CASE load.view # "list"
    BY <1>2, <1>3, <1>4, FitFrame
  <1>5. CASE load.view = "list"
    <2>1. stored' \subseteq Earlier \cup inserted'
      BY <1>3 DEF FitInv
    <2> SUFFICES ASSUME race' \cap {"list", "filter"} = {} PROVE FitInv'
      BY <2>1 DEF FitInv
    <2>2. race \cap {"list", "filter"} = {} /\ load \in LoadsOf("list") /\ load.answer # Missing
      BY <1>3, <1>5 DEF LoadsOf
    <2>3. LoadsOf("list")' = {}
      BY <1>2, <1>5, <2>2 DEF ViewInv, ListInv
    <2>4. /\ load.left \subseteq Earlier \cup inserted
          /\ Fits(ToSet(load.answer)) /\ Excused(load.left)
      BY <2>2 DEF FitInv
    <2>5. list' = load.answer /\ hidden' = load.left
      BY <1>3, <1>5
    <2>6. Fits(ToSet(list))' /\ Excused(hidden)'
      BY <1>3, <2>4, <2>5 DEF Fits, Excused, Passes, Newer, ToSet
    <2> QED BY <1>3, <2>1, <2>3, <2>4, <2>5, <2>6 DEF FitInv
  <1> QED BY <1>4, <1>5

\* Every step keeps it.
LEMMA FitKeeps ==
    ASSUME ViewInv, FitInv, [ViewNext]_allVars
    PROVE  FitInv'
  <1>1. LoadsOK /\ stored \in SUBSET Ids
    BY DEF ViewInv, Basics, ViewTypeOK
  <1>2. CASE Quiet
    <2>1. UNCHANGED <<stored, inserted, heard, filter, list, loads, race, hidden>>
      BY <1>2 DEF Quiet, allVars, viewVars, shown, SendStored, Forward, Clear, ClearFails, Replay,
                  ReplayFails
    <2> QED BY <2>1, LoadsUntouched, FitFrame
  <1>3. ASSUME NEW f \in Filters, Reload(f)
        PROVE  FitInv'
    <2> DEFINE asked == {Asked("list", f), OverviewLoad}
    <2>1. /\ loads' = loads (+) SetToBag(asked) /\ filter' = f
          /\ race' = race \cup Overlapping({"list", "overview"}) /\ UNCHANGED <<stored, inserted>>
      BY <1>3 DEF Reload, Ask
    <2>2. /\ \A load \in asked : LoadOK(load)
          /\ Asked("list", f) \in asked
          /\ Asked("list", f).view = "list" /\ Asked("list", f).arg = f
          /\ Asked("list", f).answer = Missing /\ Asked("list", f).left = {}
          /\ \A load \in asked : load.view = "list" => load = Asked("list", f)
      BY AskedOK DEF Asked, OverviewLoad
    <2> HIDE DEF asked
    <2>3. race \cup Overlapping({"list"}) \subseteq race'
      BY <2>1 DEF Overlapping
    <2> QED BY <1>1, <2>1, <2>2, <2>3, FitAsked
  <1>4. ASSUME NEW replay \in BagToSet(replays), ReplayReturns(replay)
        PROVE  FitInv'
    <2> DEFINE new == ReplayLoad(replay.filter)
               asked == {new}
    <2>1. /\ loads' = loads (+) SetToBag(asked) /\ UNCHANGED <<stored, inserted, filter>>
          /\ race' = race \cup Overlapping({"list"})
                          \cup (IF replay.filter # filter THEN {"filter"} ELSE {})
      BY <1>4 DEF ReplayReturns, Ask, ReplayLoad, shown
    <2>2. /\ LoadOK(new) /\ new.view = "list" /\ new.arg = replay.filter
          /\ new.answer = Missing /\ new.left = {}
      BY ReplayLoadOK DEF ViewInv, Basics, ViewTypeOK
    <2> HIDE DEF new
    <2>3. /\ \A load \in asked : LoadOK(load) /\ load = new
          /\ new \in asked
      BY <2>2
    <2> HIDE DEF asked
    <2>4. race' \cap {"list", "filter"} = {} => new.arg = filter'
      BY <2>1, <2>2
    <2>5. race \cup Overlapping({"list"}) \subseteq race'
      BY <2>1
    <2> QED BY <1>1, <2>1, <2>2, <2>3, <2>4, <2>5, FitAsked
  <1>5. ASSUME NEW n \in Ids, Select(n)
        PROVE  FitInv'
    <2>1. /\ loads' = loads (+) SetToBag({Asked("detail", n)}) /\ race \subseteq race'
          /\ UNCHANGED <<stored, inserted, heard, filter, list, hidden>>
      BY <1>5 DEF Select, Ask
    <2>2. LoadOK(Asked("detail", n)) /\ Asked("detail", n).view # "list"
      BY <1>5, AskedOK DEF Asked
    <2>3. SameLoads("list")
      BY <1>1, <2>1, <2>2, Asking
    <2> QED BY <2>1, <2>3, FitFrame
  <1>6. ASSUME NEW load \in BagToSet(loads), Serve(load) \/ ServeFails(load)
        PROVE  FitInv'
    <2> DEFINE left == IF load.view = "list" THEN stored \ ToSet(Answer(load)) ELSE {}
    <2>1. /\ left \in SUBSET Ids /\ {} \in SUBSET Ids
          /\ load.view = "list" => left = stored \ ToSet(Answer(load))
      BY <1>1
    <2>2. CASE Serve(load)
      <3>1. /\ ~load.served /\ Served(load, Answer(load), left)
            /\ UNCHANGED <<stored, inserted, heard, shown, race, hidden>>
        BY <2>2 DEF Serve
      <3> HIDE DEF left
      <3> QED BY <1>6, <2>1, <3>1, FitServed
    <2>3. CASE ServeFails(load)
      <3>1. /\ ~load.served /\ Served(load, Missing, {})
            /\ UNCHANGED <<stored, inserted, heard, shown, race, hidden>>
        BY <2>3 DEF ServeFails
      <3> QED BY <1>6, <2>1, <3>1, FitServed
    <2> QED BY <1>6, <2>2, <2>3
  <1> QED BY <1>2, <1>3, <1>4, <1>5, <1>6, FitInserted, FitCleared, FitDropped, FitHeard, FitDelivered
          DEF ViewNext, Answering, Replaying, Quiet

\* The window asks for the first list with the filter it starts with.
LEMMA InitFitInv ==
    ASSUME ViewInit
    PROVE  FitInv
  <1> DEFINE asked == {Asked("list", NoFilter), OverviewLoad}
  <1>1. loads = SetToBag(asked) /\ filter = NoFilter /\ stored = Earlier
    BY DEF ViewInit
  <1>2. /\ Asked("list", NoFilter) \in asked /\ Asked("list", NoFilter).view = "list"
        /\ \A load \in asked :
               load.answer = Missing /\ load.left = {} /\ (load.view = "list" => load.arg = NoFilter)
    BY DEF Asked, OverviewLoad
  <1> HIDE DEF asked
  <1>3. BagToSet(loads) = asked
    BY <1>1 DEF SetToBag, BagToSet
  <1>4. /\ LoadsOf("list") # {}
        /\ \A load \in LoadsOf("list") : load.arg = filter /\ load.answer = Missing /\ load.left = {}
    BY <1>1, <1>2, <1>3 DEF LoadsOf
  <1> QED BY <1>1, <1>4 DEF FitInv

\* Where the loads of the list did not race and no replay listed by a filter set
\* before, the list shows what passes the filter set and what it has heard of,
\* and leaves out only what does not pass or what is old.
THEOREM ListFitsFilterAlways == ViewSpec => []ListFitsFilter
  <1>1. ViewInit => ViewInv /\ FitInv
    BY InitViewInv, InitFitInv
  <1>2. ViewInv /\ [ViewNext]_allVars => ViewInv'
    BY ViewKeeps
  <1>3. ViewInv /\ FitInv /\ [ViewNext]_allVars => FitInv'
    BY FitKeeps
  <1>4. ViewInv /\ FitInv => ListFitsFilter
    <2> SUFFICES ASSUME ViewInv, FitInv, Settled("list"), race \cap {"list", "filter"} = {}
                 PROVE  /\ \A i \in ToSet(list) : i \in 1..heard \/ Passes(i)
                        /\ Len(list) < Limit =>
                               \A i \in stored \ ToSet(list) :
                                   i \in Unheard \/ ~Passes(i) \/ Cardinality(Newer(i)) >= Limit
      BY DEF ListFitsFilter, Passes, Newer, Unheard
    <2>1. LoadsOf("list") = {} /\ "list" \notin race /\ clearing = "no"
      BY NoneInFlight DEF Settled
    <2>2. Fits(ToSet(list)) /\ Excused(hidden)
      BY <2>1 DEF FitInv
    <2>3. Len(list) < Limit => stored \ (ToSet(list) \cup hidden) \subseteq Unheard
      BY <2>1 DEF ViewInv, ListInv, Covers
    <2> QED BY <2>2, <2>3 DEF Fits, Excused
  <1> QED BY <1>1, <1>2, <1>3, <1>4, PTL DEF ViewSpec

\* The figures of the overview shown are what they are called: its buckets are
\* the largest and count the sessions of a key, its p95 is a duration that 95 of
\* a hundred do not exceed, and its average lies between the shortest and the
\* longest.
THEOREM FiguresAreSoundAlways == ViewSpec => []FiguresAreSound
  <1>1. ViewTypeOK => FiguresAreSound
    <2> SUFFICES ASSUME ViewTypeOK, overview # None PROVE FiguresAreSound
      BY DEF FiguresAreSound
    <2>1. overview \in Lists
      BY DEF ViewTypeOK
    <2> QED BY <2>1, FiguresOfPage DEF FiguresAreSound
  <1> QED BY ViewTypeCorrect, <1>1, PTL
=============================================================================
