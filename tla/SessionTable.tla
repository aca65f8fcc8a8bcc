---------------------------- MODULE SessionTable ----------------------------
(***************************************************************************)
(* What the SessionStore trait of crates/core/src/store.rs promises its    *)
(* callers: one table of sessions, each operation applied to it at one     *)
(* instant between its call and its return, or refused without effect.     *)
(***************************************************************************)
EXTENDS Naturals

CONSTANTS Clients, Ids, Versions, None

VARIABLES
    tab,    \* the session stored under each id, None if there is none
    stage,  \* how far each caller's operation has come
    op,     \* the operation of each caller
    answer  \* what it is told

vars == <<tab, stage, op, answer>>

Op == {[kind |-> "insert", ids |-> {id}, version |-> v] : id \in Ids, v \in Versions}
      \cup {[kind |-> "load", ids |-> S, version |-> None] : S \in SUBSET Ids}
      \cup {[kind |-> kind, ids |-> Ids, version |-> None] : kind \in {"list", "clear"}}

Refusal == [ok |-> FALSE, rows |-> {}]
Done == [ok |-> TRUE, rows |-> {}]

Init == /\ tab = [id \in Ids |-> None]
        /\ stage = [c \in Clients |-> "idle"]
        /\ op \in [Clients -> Op]
        /\ answer = [c \in Clients |-> Refusal]

Call(c, o) == /\ stage[c] = "idle"
              /\ stage' = [stage EXCEPT ![c] = "called"]
              /\ op' = [op EXCEPT ![c] = o]
              /\ UNCHANGED <<tab, answer>>

\* The sessions of a set of ids, as loading or listing shows them.
Found(ids) == {<<id, tab[id]>> : id \in {i \in ids : tab[i] # None}}

Apply(c) ==
    /\ stage[c] = "called"
    /\ stage' = [stage EXCEPT ![c] = "applied"]
    /\ \/ /\ op[c].kind = "insert"
          /\ tab' = [id \in Ids |-> IF id \in op[c].ids THEN op[c].version ELSE tab[id]]
          /\ answer' = [answer EXCEPT ![c] = Done]
       \/ /\ op[c].kind = "clear"
          /\ tab' = [id \in Ids |-> None]
          /\ answer' = [answer EXCEPT ![c] = Done]
       \/ /\ op[c].kind \in {"load", "list"}
          /\ tab' = tab
          /\ answer' = [answer EXCEPT ![c] = [ok |-> TRUE, rows |-> Found(op[c].ids)]]
    /\ UNCHANGED op

Refuse(c) == /\ stage[c] = "called"
             /\ stage' = [stage EXCEPT ![c] = "applied"]
             /\ answer' = [answer EXCEPT ![c] = Refusal]
             /\ UNCHANGED <<tab, op>>

Return(c) == /\ stage[c] = "applied"
             /\ stage' = [stage EXCEPT ![c] = "idle"]
             /\ UNCHANGED <<tab, op, answer>>

Next == \E c \in Clients : \/ \E o \in Op : Call(c, o)
                           \/ Apply(c) \/ Refuse(c) \/ Return(c)

Spec == Init /\ [][Next]_vars
=============================================================================
