------------------------------ MODULE EventFeed ------------------------------
(***************************************************************************)
(* How capture events travel from the handlers to the desktop window: the  *)
(* tokio broadcast channel and the forwarding task that AppState::new      *)
(* spawns (apps/desktop/src-tauri/src/state.rs).                           *)
(*                                                                         *)
(* A sender never waits: when the channel is full the oldest event is      *)
(* overwritten, and a receiver that was still to read it is told so by an  *)
(* error on its next recv.  The forwarding task reads in a                 *)
(* while-let-Ok loop.  The channel is a library's; it is modelled by the   *)
(* slots it keeps and the position its one receiver has reached.  Events   *)
(* are numbered in the order they are sent.                                *)
(***************************************************************************)
EXTENDS Naturals, Sequences

CONSTANTS
    Capacity,  \* slots of the channel (1024 in the code)
    MaxEvents  \* bound: events the handlers send

ASSUME FeedAssumption == Capacity \in Nat \ {0} /\ MaxEvents \in Nat

VARIABLES
    sent,    \* how many events were sent
    slots,   \* the event in each slot, 0 before the first
    next,    \* the next event the receiver expects
    task,    \* the forwarding task: "receiving", "emitting" or "ended"
    held,    \* the event it is emitting, 0 if none
    emitted  \* the summaries the window was sent, in order

vars == <<sent, slots, next, task, held, emitted>>

Slot(n) == n % Capacity

Init ==
    /\ sent = 0
    /\ slots = [i \in 0..Capacity - 1 |-> 0]
    /\ next = 1
    /\ task = "receiving"
    /\ held = 0
    /\ emitted = <<>>

\* event_tx.send by any handler, or by replay_session.  Once the forwarding
\* task has ended there is no receiver and send returns an error that every
\* caller discards.
Send ==
    /\ sent < MaxEvents
    /\ sent' = sent + 1
    /\ slots' = IF task = "ended" THEN slots ELSE [slots EXCEPT ![Slot(sent + 1)] = sent + 1]
    /\ UNCHANGED <<next, task, held, emitted>>

\* The slot still holds the event the receiver expects.
Expected == slots[Slot(next)] = next

\* The position after a successful recv.
AfterRecv == next + 1

\* recv returns Ok(event).
Recv ==
    /\ task = "receiving"
    /\ Expected
    /\ held' = slots[Slot(next)]
    /\ next' = AfterRecv
    /\ task' = "emitting"
    /\ UNCHANGED <<sent, slots, emitted>>

\* The slot was reused for a later event.
Overwritten == slots[Slot(next)] > next

\* Mutant: the error is skipped, and nothing moves the receiver on.
LagSkipped ==
    /\ task = "receiving"
    /\ Overwritten
    /\ UNCHANGED vars

\* recv returns Err(Lagged): the loop is over and the receiver is dropped.
Lag ==
    /\ task = "receiving"
    /\ Overwritten
    /\ task' = "ended"
    /\ UNCHANGED <<sent, slots, next, held, emitted>>

\* The emit result is discarded and the loop goes on.
AfterEmit == "receiving"

\* Mutant: a summary is passed over when a later one is waiting.
EmitNewest ==
    /\ task = "emitting"
    /\ emitted' = IF Expected THEN emitted ELSE Append(emitted, held)
    /\ held' = 0
    /\ task' = AfterEmit
    /\ UNCHANGED <<sent, slots, next>>

\* emitter.emit of the summary.
Emit ==
    /\ task = "emitting"
    /\ emitted' = Append(emitted, held)
    /\ held' = 0
    /\ task' = AfterEmit
    /\ UNCHANGED <<sent, slots, next>>

Next == Send \/ Recv \/ Lag \/ Emit

Spec == Init /\ [][Next]_vars
-----------------------------------------------------------------------------
TypeOK ==
    /\ sent \in 0..MaxEvents
    /\ slots \in [0..Capacity - 1 -> 0..MaxEvents]
    /\ next \in 1..MaxEvents + 1
    /\ task \in {"receiving", "emitting", "ended"}
    /\ held \in 0..MaxEvents
    /\ emitted \in Seq(1..MaxEvents)

\* The window sees the events in the order they were sent, each once and
\* without a gap, up to the point where it stops seeing any.  And it stops only
\* because the handlers sent more events than the channel holds while the task
\* was behind: no shorter burst ends the feed, and nothing of what it had taken
\* out of the channel is lost with it.
EmittedInOrder ==
    /\ \A i \in 1..Len(emitted) : emitted[i] = i
    /\ task = "emitting" => held = Len(emitted) + 1
    /\ task = "ended" => sent - Len(emitted) > Capacity
=============================================================================
