--------------------------- MODULE CaptureContract ---------------------------
(***************************************************************************)
(* What the desktop may rely on about each captured exchange, whatever the *)
(* proxy does inside: an exchange is recorded once, whole and finished,    *)
(* then announced, then answered; or it is refused or abandoned and then   *)
(* never announced.  A refusal may still leave half a row behind, and the  *)
(* rows of recorded exchanges go when the user clears them.                *)
(***************************************************************************)
EXTENDS Integers

CONSTANTS Exchanges, None

VARIABLES
    life,      \* how far each exchange has come
    record,    \* the outcome recorded for it, None before
    rows,      \* what the store holds of it: nothing, a summary, all
    announced, \* exchanges whose event was sent
    reply      \* the status its client was answered, None before

vars == <<life, record, rows, announced, reply>>

Outcome == [state : {"Completed", "Mocked"}, status : Nat]

Init ==
    /\ life = [x \in Exchanges |-> "open"]
    /\ record = [x \in Exchanges |-> None]
    /\ rows = [x \in Exchanges |-> "none"]
    /\ announced = {}
    /\ reply = [x \in Exchanges |-> None]

Move(x, from, to) == life[x] = from /\ life' = [life EXCEPT ![x] = to]

\* The exchange is over and both its rows are stored.
Record(x) ==
    /\ Move(x, "open", "recorded")
    /\ record'[x] \in Outcome
    /\ record' = [record EXCEPT ![x] = record'[x]]
    /\ rows' = [rows EXCEPT ![x] = "full"]
    /\ UNCHANGED <<announced, reply>>

Announce(x) ==
    /\ Move(x, "recorded", "announced")
    /\ announced' = announced \cup {x}
    /\ UNCHANGED <<record, rows, reply>>

\* The client gets the recorded status, or 200 in its place.
Answer(x) ==
    /\ Move(x, "announced", "answered")
    /\ \E status \in {record[x].status, 200} : reply' = [reply EXCEPT ![x] = status]
    /\ UNCHANGED <<record, rows, announced>>

Refuse(x) ==
    /\ Move(x, "open", "refused")
    /\ reply' = [reply EXCEPT ![x] = 500]
    /\ \E left \in {"none", "summary"} : rows' = [rows EXCEPT ![x] = left]
    /\ UNCHANGED <<record, announced>>

Abandon(x) ==
    /\ Move(x, "open", "abandoned")
    /\ UNCHANGED <<record, rows, announced, reply>>

\* The user clears the list; a failure may leave the summaries.
Clear ==
    /\ \/ rows' = [x \in Exchanges |-> "none"]
       \/ rows' = [x \in Exchanges |-> IF rows[x] = "full" THEN "summary" ELSE rows[x]]
    /\ UNCHANGED <<life, record, announced, reply>>

Next == \/ \E x \in Exchanges : \/ Record(x) \/ Announce(x) \/ Answer(x)
                                \/ Refuse(x) \/ Abandon(x)
        \/ Clear

Spec == Init /\ [][Next]_vars
=============================================================================
