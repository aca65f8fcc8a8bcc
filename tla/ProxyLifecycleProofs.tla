------------------------ MODULE ProxyLifecycleProofs ------------------------
(***************************************************************************)
(* What starting and stopping guarantees for any number of callers, starts *)
(* and ports: no listener is out of reach, the proxy does not block its    *)
(* own restart unless a start overlapped a stop, and no stop leaves a slot *)
(* occupied in vain (DeadSlotNeedsFailedBind).                             *)
(***************************************************************************)
EXTENDS ProxyLifecycle, TLAPS

\* A stop holds a handle from its Take to its return.
HandleTaken == \A c \in Callers : pc[c] = "idle" <=> mine[c] = None

\* A port is in a server's hands exactly while that server's loop accepts on it.
OwnersListen ==
    \A p \in Ports : \A s \in Servers :
        owner[p] = s <=> phase[s] = "listening" /\ port[s] = p

\* Two servers are on their way to one port, or on it, only after an overlap.
RivalsOverlap ==
    \A s, t \in Servers :
        s # t /\ Live(s) /\ Live(t) /\ port[s] = port[t] => s \in overlap \/ t \in overlap

\* ListenersAreHeld is not inductive alone: a Take must not overwrite a handle
\* (HandleTaken), and what blocks a bind must be a live rival (OwnersListen).
IInv ==
    /\ TypeOK
    /\ HandleTaken
    /\ OwnersListen
    /\ ListenersAreHeld
    /\ RivalsOverlap
    /\ OwnBlockNeedsOverlap

\* No server is live and no stop is in progress at the start.
LEMMA InitIInv == Init => IInv
  <1> SUFFICES ASSUME Init PROVE IInv
    OBVIOUS
  <1> USE LifecycleAssumption DEF Init
  <1>1. TypeOK
    BY DEF TypeOK
  <1>2. HandleTaken
    BY DEF HandleTaken
  <1>3. OwnersListen
    BY DEF OwnersListen
  <1>4. ListenersAreHeld /\ RivalsOverlap /\ OwnBlockNeedsOverlap
    BY DEF ListenersAreHeld, RivalsOverlap, OwnBlockNeedsOverlap, Live
  <1> QED BY <1>1, <1>2, <1>3, <1>4 DEF IInv

\* A signal is sent only to a server, because a stop holds one.
LEMMA TypeStep ==
    ASSUME IInv, [Next]_vars
    PROVE  TypeOK'
  <1> USE LifecycleAssumption DEF IInv, TypeOK
  <1>1. CASE UNCHANGED vars
    BY <1>1 DEF vars
  <1>2. ASSUME NEW s \in Servers, Start(s)
        PROVE  TypeOK'
    BY <1>2 DEF Start, Free
  <1>3. ASSUME NEW s \in Servers, Bind(s)
        PROVE  TypeOK'
    BY <1>3 DEF Bind
  <1>4. ASSUME NEW s \in Servers, BindFails(s)
        PROVE  TypeOK'
    BY <1>4 DEF BindFails
  <1>5. ASSUME NEW s \in Servers, Accept(s)
        PROVE  TypeOK'
    BY <1>5 DEF Accept
  <1>6. ASSUME NEW s \in Servers, Close(s)
        PROVE  TypeOK'
    BY <1>6 DEF Close
  <1>7. ASSUME NEW s \in Servers, Finish(s)
        PROVE  TypeOK'
    BY <1>7 DEF Finish, MayFinish
  <1>8. ASSUME NEW c \in Callers, Take(c)
        PROVE  TypeOK'
    BY <1>8 DEF Take
  <1>9. ASSUME NEW c \in Callers, Signal(c)
        PROVE  TypeOK'
    BY <1>9 DEF Signal, HandleTaken
  <1>10. ASSUME NEW c \in Callers, StopReturns(c)
        PROVE  TypeOK'
    BY <1>10 DEF StopReturns, Ended
  <1>11. ASSUME NEW p \in Ports, ForeignMoves(p)
        PROVE  TypeOK'
    BY <1>11 DEF ForeignMoves
  <1> QED
    BY <1>1, <1>2, <1>3, <1>4, <1>5, <1>6, <1>7, <1>8, <1>9, <1>10, <1>11 DEF Next

\* Only Take and StopReturns move a handle.
LEMMA HandleStep ==
    ASSUME IInv, [Next]_vars
    PROVE  HandleTaken'
  <1> USE LifecycleAssumption DEF IInv, TypeOK
  <1>1. CASE UNCHANGED vars
    BY <1>1 DEF vars, HandleTaken
  <1>2. ASSUME NEW s \in Servers, Start(s)
        PROVE  HandleTaken'
    BY <1>2 DEF Start, Free, HandleTaken
  <1>3. ASSUME NEW s \in Servers, Bind(s)
        PROVE  HandleTaken'
    BY <1>3 DEF Bind, HandleTaken
  <1>4. ASSUME NEW s \in Servers, BindFails(s)
        PROVE  HandleTaken'
    BY <1>4 DEF BindFails, HandleTaken
  <1>5. ASSUME NEW s \in Servers, Accept(s)
        PROVE  HandleTaken'
    BY <1>5 DEF Accept, HandleTaken
  <1>6. ASSUME NEW s \in Servers, Close(s)
        PROVE  HandleTaken'
    BY <1>6 DEF Close, HandleTaken
  <1>7. ASSUME NEW s \in Servers, Finish(s)
        PROVE  HandleTaken'
    BY <1>7 DEF Finish, MayFinish, HandleTaken
  <1>8. ASSUME NEW c \in Callers, Take(c)
        PROVE  HandleTaken'
    BY <1>8 DEF Take, HandleTaken
  <1>9. ASSUME NEW c \in Callers, Signal(c)
        PROVE  HandleTaken'
    BY <1>9 DEF Signal, HandleTaken
  <1>10. ASSUME NEW c \in Callers, StopReturns(c)
        PROVE  HandleTaken'
    BY <1>10 DEF StopReturns, Ended, HandleTaken
  <1>11. ASSUME NEW p \in Ports, ForeignMoves(p)
        PROVE  HandleTaken'
    BY <1>11 DEF ForeignMoves, HandleTaken
  <1> QED
    BY <1>1, <1>2, <1>3, <1>4, <1>5, <1>6, <1>7, <1>8, <1>9, <1>10, <1>11 DEF Next

\* A bind takes a free port, the end of a loop gives up its own.
LEMMA OwnersStep ==
    ASSUME IInv, [Next]_vars
    PROVE  OwnersListen'
  <1> USE LifecycleAssumption DEF IInv, TypeOK
  <1>1. CASE UNCHANGED vars
    BY <1>1 DEF vars, OwnersListen
  <1>2. ASSUME NEW s \in Servers, Start(s)
        PROVE  OwnersListen'
    BY <1>2 DEF Start, Free, OwnersListen
  <1>3. ASSUME NEW s \in Servers, Bind(s)
        PROVE  OwnersListen'
    BY <1>3 DEF Bind, OwnersListen
  <1>4. ASSUME NEW s \in Servers, BindFails(s)
        PROVE  OwnersListen'
    BY <1>4 DEF BindFails, OwnersListen
  <1>5. ASSUME NEW s \in Servers, Accept(s)
        PROVE  OwnersListen'
    BY <1>5 DEF Accept, OwnersListen
  <1>6. ASSUME NEW s \in Servers, Close(s)
        PROVE  OwnersListen'
    BY <1>6 DEF Close, OwnersListen
  <1>7. ASSUME NEW s \in Servers, Finish(s)
        PROVE  OwnersListen'
    BY <1>7 DEF Finish, MayFinish, OwnersListen
  <1>8. ASSUME NEW c \in Callers, Take(c)
        PROVE  OwnersListen'
    BY <1>8 DEF Take, OwnersListen
  <1>9. ASSUME NEW c \in Callers, Signal(c)
        PROVE  OwnersListen'
    BY <1>9 DEF Signal, OwnersListen
  <1>10. ASSUME NEW c \in Callers, StopReturns(c)
        PROVE  OwnersListen'
    BY <1>10 DEF StopReturns, Ended, OwnersListen
  <1>11. ASSUME NEW p \in Ports, ForeignMoves(p)
        PROVE  OwnersListen'
    BY <1>11 DEF ForeignMoves, OwnersListen
  <1> QED
    BY <1>1, <1>2, <1>3, <1>4, <1>5, <1>6, <1>7, <1>8, <1>9, <1>10, <1>11 DEF Next

\* A handle passes from the slot to a stop, which keeps it while its task lives.
LEMMA HeldStep ==
    ASSUME IInv, [Next]_vars
    PROVE  ListenersAreHeld'
  <1> USE LifecycleAssumption DEF IInv, TypeOK
  <1>1. CASE UNCHANGED vars
    BY <1>1 DEF vars, ListenersAreHeld, Live, Stopping, HandleTaken
  <1>2. ASSUME NEW s \in Servers, Start(s)
        PROVE  ListenersAreHeld'
    BY <1>2 DEF Start, Free, ListenersAreHeld, Live, Stopping, HandleTaken
  <1>3. ASSUME NEW s \in Servers, Bind(s)
        PROVE  ListenersAreHeld'
    BY <1>3 DEF Bind, ListenersAreHeld, Live, Stopping, HandleTaken
  <1>4. ASSUME NEW s \in Servers, BindFails(s)
        PROVE  ListenersAreHeld'
    BY <1>4 DEF BindFails, ListenersAreHeld, Live, Stopping, HandleTaken
  <1>5. ASSUME NEW s \in Servers, Accept(s)
        PROVE  ListenersAreHeld'
    BY <1>5 DEF Accept, ListenersAreHeld, Live, Stopping, HandleTaken
  <1>6. ASSUME NEW s \in Servers, Close(s)
        PROVE  ListenersAreHeld'
    BY <1>6 DEF Close, ListenersAreHeld, Live, Stopping, HandleTaken
  <1>7. ASSUME NEW s \in Servers, Finish(s)
        PROVE  ListenersAreHeld'
    BY <1>7 DEF Finish, MayFinish, ListenersAreHeld, Live, Stopping, HandleTaken
  <1>8. ASSUME NEW c \in Callers, Take(c)
        PROVE  ListenersAreHeld'
    BY <1>8 DEF Take, ListenersAreHeld, Live, Stopping, HandleTaken
  <1>9. ASSUME NEW c \in Callers, Signal(c)
        PROVE  ListenersAreHeld'
    BY <1>9 DEF Signal, ListenersAreHeld, Live, Stopping, HandleTaken
  <1>10. ASSUME NEW c \in Callers, StopReturns(c)
        PROVE  ListenersAreHeld'
    BY <1>10 DEF StopReturns, Ended, ListenersAreHeld, Live, Stopping, HandleTaken
  <1>11. ASSUME NEW p \in Ports, ForeignMoves(p)
        PROVE  ListenersAreHeld'
    BY <1>11 DEF ForeignMoves, ListenersAreHeld, Live, Stopping, HandleTaken
  <1> QED
    BY <1>1, <1>2, <1>3, <1>4, <1>5, <1>6, <1>7, <1>8, <1>9, <1>10, <1>11 DEF Next

\* A server started beside a live one on its port was started during a stop.
LEMMA RivalsStep ==
    ASSUME IInv, [Next]_vars
    PROVE  RivalsOverlap'
  <1> USE LifecycleAssumption DEF IInv, TypeOK
  <1>1. CASE UNCHANGED vars
    BY <1>1 DEF vars, RivalsOverlap, Live, ListenersAreHeld, Stopping
  <1>2. ASSUME NEW s \in Servers, Start(s)
        PROVE  RivalsOverlap'
    BY <1>2 DEF Start, Free, RivalsOverlap, Live, ListenersAreHeld, Stopping
  <1>3. ASSUME NEW s \in Servers, Bind(s)
        PROVE  RivalsOverlap'
    BY <1>3 DEF Bind, RivalsOverlap, Live, ListenersAreHeld, Stopping
  <1>4. ASSUME NEW s \in Servers, BindFails(s)
        PROVE  RivalsOverlap'
    BY <1>4 DEF BindFails, RivalsOverlap, Live, ListenersAreHeld, Stopping
  <1>5. ASSUME NEW s \in Servers, Accept(s)
        PROVE  RivalsOverlap'
    BY <1>5 DEF Accept, RivalsOverlap, Live, ListenersAreHeld, Stopping
  <1>6. ASSUME NEW s \in Servers, Close(s)
        PROVE  RivalsOverlap'
    BY <1>6 DEF Close, RivalsOverlap, Live, ListenersAreHeld, Stopping
  <1>7. ASSUME NEW s \in Servers, Finish(s)
        PROVE  RivalsOverlap'
    BY <1>7 DEF Finish, MayFinish, RivalsOverlap, Live, ListenersAreHeld, Stopping
  <1>8. ASSUME NEW c \in Callers, Take(c)
        PROVE  RivalsOverlap'
    BY <1>8 DEF Take, RivalsOverlap, Live, ListenersAreHeld, Stopping
  <1>9. ASSUME NEW c \in Callers, Signal(c)
        PROVE  RivalsOverlap'
    BY <1>9 DEF Signal, RivalsOverlap, Live, ListenersAreHeld, Stopping
  <1>10. ASSUME NEW c \in Callers, StopReturns(c)
        PROVE  RivalsOverlap'
    BY <1>10 DEF StopReturns, Ended, RivalsOverlap, Live, ListenersAreHeld, Stopping
  <1>11. ASSUME NEW p \in Ports, ForeignMoves(p)
        PROVE  RivalsOverlap'
    BY <1>11 DEF ForeignMoves, RivalsOverlap, Live, ListenersAreHeld, Stopping
  <1> QED
    BY <1>1, <1>2, <1>3, <1>4, <1>5, <1>6, <1>7, <1>8, <1>9, <1>10, <1>11 DEF Next

\* Whoever blocks a bind is a live rival, or another process.
LEMMA BlockStep ==
    ASSUME IInv, [Next]_vars
    PROVE  OwnBlockNeedsOverlap'
  <1> USE LifecycleAssumption DEF IInv, TypeOK
  <1>1. CASE UNCHANGED vars
    BY <1>1 DEF vars, OwnBlockNeedsOverlap, RivalsOverlap, OwnersListen, Live
  <1>2. ASSUME NEW s \in Servers, Start(s)
        PROVE  OwnBlockNeedsOverlap'
    BY <1>2 DEF Start, Free, OwnBlockNeedsOverlap, RivalsOverlap, OwnersListen, Live
  <1>3. ASSUME NEW s \in Servers, Bind(s)
        PROVE  OwnBlockNeedsOverlap'
    BY <1>3 DEF Bind, OwnBlockNeedsOverlap, RivalsOverlap, OwnersListen, Live
  <1>4. ASSUME NEW s \in Servers, BindFails(s)
        PROVE  OwnBlockNeedsOverlap'
    BY <1>4 DEF BindFails, OwnBlockNeedsOverlap, RivalsOverlap, OwnersListen, Live
  <1>5. ASSUME NEW s \in Servers, Accept(s)
        PROVE  OwnBlockNeedsOverlap'
    BY <1>5 DEF Accept, OwnBlockNeedsOverlap, RivalsOverlap, OwnersListen, Live
  <1>6. ASSUME NEW s \in Servers, Close(s)
        PROVE  OwnBlockNeedsOverlap'
    BY <1>6 DEF Close, OwnBlockNeedsOverlap, RivalsOverlap, OwnersListen, Live
  <1>7. ASSUME NEW s \in Servers, Finish(s)
        PROVE  OwnBlockNeedsOverlap'
    BY <1>7 DEF Finish, MayFinish, OwnBlockNeedsOverlap, RivalsOverlap, OwnersListen, Live
  <1>8. ASSUME NEW c \in Callers, Take(c)
        PROVE  OwnBlockNeedsOverlap'
    BY <1>8 DEF Take, OwnBlockNeedsOverlap, RivalsOverlap, OwnersListen, Live
  <1>9. ASSUME NEW c \in Callers, Signal(c)
        PROVE  OwnBlockNeedsOverlap'
    BY <1>9 DEF Signal, OwnBlockNeedsOverlap, RivalsOverlap, OwnersListen, Live
  <1>10. ASSUME NEW c \in Callers, StopReturns(c)
        PROVE  OwnBlockNeedsOverlap'
    BY <1>10 DEF StopReturns, Ended, OwnBlockNeedsOverlap, RivalsOverlap, OwnersListen, Live
  <1>11. ASSUME NEW p \in Ports, ForeignMoves(p)
        PROVE  OwnBlockNeedsOverlap'
    BY <1>11 DEF ForeignMoves, OwnBlockNeedsOverlap, RivalsOverlap, OwnersListen, Live
  <1> QED
    BY <1>1, <1>2, <1>3, <1>4, <1>5, <1>6, <1>7, <1>8, <1>9, <1>10, <1>11 DEF Next

\* IInv holds of every reachable state.
THEOREM InductiveInvariant == Spec => []IInv
  <1>1. IInv /\ [Next]_vars => IInv'
    BY TypeStep, HandleStep, OwnersStep, HeldStep, RivalsStep, BlockStep DEF IInv
  <1> QED
    BY InitIInv, <1>1, PTL DEF Spec

\* The slot, the tasks, the ports and the stops keep their type.
THEOREM TypeCorrect == Spec => []TypeOK
  <1>1. IInv => TypeOK
    BY DEF IInv
  <1> QED
    BY InductiveInvariant, <1>1, PTL

\* Every task that listens or will listen is in the slot or in a stop's hands.
THEOREM ListenersAreHeldAlways == Spec => []ListenersAreHeld
  <1>1. IInv => ListenersAreHeld
    BY DEF IInv
  <1> QED
    BY InductiveInvariant, <1>1, PTL

\* A server of ours blocks another's bind only if a start overlapped a stop.
THEOREM OwnBlockNeedsOverlapAlways == Spec => []OwnBlockNeedsOverlap
  <1>1. IInv => OwnBlockNeedsOverlap
    BY DEF IInv
  <1> QED
    BY InductiveInvariant, <1>1, PTL
-----------------------------------------------------------------------------
\* No stop has a hand on the slot's server, nor on one that was never started.
SlotIsUntouched ==
    /\ slot # None => slot \notin told /\ ~Stopping(slot) /\ phase[slot] # "none"
    /\ \A s \in Servers : s \in told \/ Stopping(s) => phase[s] # "none"

\* A handle leaves the slot before its server is touched.
LEMMA SlotStep ==
    ASSUME IInv, SlotIsUntouched, DeadSlotNeedsFailedBind, [Next]_vars
    PROVE  SlotIsUntouched' /\ DeadSlotNeedsFailedBind'
  <1> USE LifecycleAssumption DEF IInv, TypeOK
  <1>1. CASE UNCHANGED vars
    BY <1>1 DEF vars, SlotIsUntouched, DeadSlotNeedsFailedBind, Stopping, Live
  <1>2. ASSUME NEW s \in Servers, Start(s)
        PROVE  SlotIsUntouched' /\ DeadSlotNeedsFailedBind'
    BY <1>2 DEF Start, Free, SlotIsUntouched, DeadSlotNeedsFailedBind, Stopping, Live
  <1>3. ASSUME NEW s \in Servers, Bind(s)
        PROVE  SlotIsUntouched' /\ DeadSlotNeedsFailedBind'
    BY <1>3 DEF Bind, SlotIsUntouched, DeadSlotNeedsFailedBind, Stopping, Live
  <1>4. ASSUME NEW s \in Servers, BindFails(s)
        PROVE  SlotIsUntouched' /\ DeadSlotNeedsFailedBind'
    BY <1>4 DEF BindFails, SlotIsUntouched, DeadSlotNeedsFailedBind, Stopping, Live
  <1>5. ASSUME NEW s \in Servers, Accept(s) \/ Close(s)
        PROVE  SlotIsUntouched' /\ DeadSlotNeedsFailedBind'
    BY <1>5 DEF Accept, Close, SlotIsUntouched, DeadSlotNeedsFailedBind, Stopping, Live
  <1>6. ASSUME NEW s \in Servers, Finish(s)
        PROVE  SlotIsUntouched' /\ DeadSlotNeedsFailedBind'
    BY <1>6 DEF Finish, MayFinish, SlotIsUntouched, DeadSlotNeedsFailedBind, Stopping, Live
  <1>7. ASSUME NEW c \in Callers, Take(c)
        PROVE  SlotIsUntouched' /\ DeadSlotNeedsFailedBind'
    BY <1>7 DEF Take, SlotIsUntouched, DeadSlotNeedsFailedBind, Stopping, Live
  <1>8. ASSUME NEW c \in Callers, Signal(c)
        PROVE  SlotIsUntouched' /\ DeadSlotNeedsFailedBind'
    BY <1>8 DEF Signal, HandleTaken, SlotIsUntouched, DeadSlotNeedsFailedBind, Stopping, Live
  <1>9. ASSUME NEW c \in Callers, StopReturns(c)
        PROVE  SlotIsUntouched' /\ DeadSlotNeedsFailedBind'
    BY <1>9 DEF StopReturns, SlotIsUntouched, DeadSlotNeedsFailedBind, Stopping, Live
  <1>10. ASSUME NEW p \in Ports, ForeignMoves(p)
         PROVE  SlotIsUntouched' /\ DeadSlotNeedsFailedBind'
    BY <1>10 DEF ForeignMoves, SlotIsUntouched, DeadSlotNeedsFailedBind, Stopping, Live
  <1> QED
    BY <1>1, <1>2, <1>3, <1>4, <1>5, <1>6, <1>7, <1>8, <1>9, <1>10 DEF Next

\* A slot is occupied in vain only after a bind that failed, whatever the cause.
THEOREM DeadSlotNeedsFailedBindAlways == Spec => []DeadSlotNeedsFailedBind
  <1>1. Init => SlotIsUntouched /\ DeadSlotNeedsFailedBind
    BY LifecycleAssumption DEF Init, SlotIsUntouched, DeadSlotNeedsFailedBind, Stopping
  <1> QED
    BY <1>1, SlotStep, InductiveInvariant, PTL DEF Spec
=============================================================================
