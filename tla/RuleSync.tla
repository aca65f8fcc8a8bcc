------------------------------ MODULE RuleSync ------------------------------
(***************************************************************************)
(* How a saved or deleted rule reaches the running engine: the commands    *)
(* save_rule and delete_rule (apps/desktop/src-tauri/src/commands.rs) and  *)
(* the start of the application (state.rs).                                *)
(*                                                                         *)
(* A command writes the rule to the database, lists the whole table back   *)
(* and installs the list as the engine's table.  The three are separate    *)
(* calls: conn_lock and the engine's RwLock each cover one of them, so the *)
(* commands of two callers interleave between them.                        *)
(***************************************************************************)
EXTENDS Naturals

CONSTANTS
    Callers,   \* commands that may be in flight at once
    RuleIds,   \* rule ids
    Versions,  \* contents a rule may have
    Absent,    \* no rule
    MaxCalls   \* bound: commands issued between two starts of the application

ASSUME SyncAssumption == Absent \notin Versions /\ MaxCalls \in Nat

VARIABLES
    db,       \* the rules table
    engine,   \* RuleEngine.rules
    pc, op,   \* each caller's step and command
    listed,   \* what list_rules returned to each caller
    calls,    \* commands issued since the start
    past,     \* history: every table the database has held since the start
    raced,    \* history: the database was written between a caller's listing and installing
    missed    \* history: a written rule was never listed because list_rules failed

vars == <<db, engine, pc, op, listed, calls, past, raced, missed>>

Table == [RuleIds -> Versions \cup {Absent}]

\* save_rule writes a version, delete_rule writes Absent.
Op == [id : RuleIds, version : Versions \cup {Absent}]

Init ==
    /\ db \in Table
    /\ engine = db
    /\ pc = [c \in Callers |-> "idle"]
    /\ op \in [Callers -> {o \in Op : o.version = Absent}]
    /\ listed = [c \in Callers |-> db]
    /\ calls = 0
    /\ past = {db}
    /\ raced = FALSE
    /\ missed = FALSE

Goto(c, from, to) == pc[c] = from /\ pc' = [pc EXCEPT ![c] = to]

\* The command arrives; a rule that does not validate goes no further.
Begin(c) ==
    /\ calls < MaxCalls
    /\ Goto(c, "idle", "writing")
    /\ calls' = calls + 1
    /\ \E o \in Op : op' = [op EXCEPT ![c] = o]
    /\ UNCHANGED <<db, engine, listed, past, raced, missed>>

\* validate_rule refuses the rule, or the store fails to write it.
Refuse(c) ==
    /\ Goto(c, "writing", "idle")
    /\ UNCHANGED <<db, engine, op, listed, calls, past, raced, missed>>

\* Mutant: the list is taken before the write.
WriteAfterListing(c) ==
    /\ Goto(c, "writing", "installing")
    /\ db' = [db EXCEPT ![op[c].id] = op[c].version]
    /\ listed' = [listed EXCEPT ![c] = db]
    /\ past' = past \cup {db'}
    /\ UNCHANGED <<engine, op, calls, raced, missed>>

\* store.save_rule or store.delete_rule.
Write(c) ==
    /\ Goto(c, "writing", "listing")
    /\ db' = [db EXCEPT ![op[c].id] = op[c].version]
    /\ past' = past \cup {db'}
    /\ raced' = (raced \/ \E d \in Callers : pc[d] = "installing")
    /\ UNCHANGED <<engine, op, listed, calls, missed>>

\* store.list_rules.
List(c) ==
    /\ Goto(c, "listing", "installing")
    /\ listed' = [listed EXCEPT ![c] = db]
    /\ UNCHANGED <<db, engine, op, calls, past, raced, missed>>

\* list_rules failed: the command returns the error, the rule stays written.
ListFails(c) ==
    /\ Goto(c, "listing", "idle")
    /\ missed' = TRUE
    /\ UNCHANGED <<db, engine, op, listed, calls, past, raced>>

\* Mutant: the engine takes over the rule of the command alone.
Patched(c) == [engine EXCEPT ![op[c].id] = op[c].version]

\* Mutant: deleted rules are left out of the table's keys.
InstalledLive(c) == [id \in {i \in RuleIds : listed[c][i] # Absent} |-> listed[c][id]]

\* The table set_rules replaces the engine's with.
Installed(c) == listed[c]

\* rules.set_rules.
Install(c) ==
    /\ Goto(c, "installing", "idle")
    /\ engine' = Installed(c)
    /\ UNCHANGED <<db, op, listed, calls, past, raced, missed>>

\* The application ends at any point and starts again: AppState::new lists the
\* rules and installs them before any command can arrive.
Restart ==
    /\ engine' = db
    /\ pc' = [c \in Callers |-> "idle"]
    /\ calls' = 0
    /\ past' = {db}
    /\ raced' = FALSE
    /\ missed' = FALSE
    /\ UNCHANGED <<db, op, listed>>

Next ==
    \/ Restart
    \/ \E c \in Callers : \/ Begin(c) \/ Refuse(c) \/ Write(c)
                          \/ List(c) \/ ListFails(c) \/ Install(c)

Spec == Init /\ [][Next]_vars
-----------------------------------------------------------------------------
TypeOK ==
    /\ db \in Table /\ engine \in Table /\ listed \in [Callers -> Table]
    /\ pc \in [Callers -> {"idle", "writing", "listing", "installing"}]
    /\ op \in [Callers -> Op]
    /\ calls \in 0..MaxCalls
    /\ past \subseteq Table
    /\ raced \in BOOLEAN /\ missed \in BOOLEAN

\* Traffic is never ruled by a mixture: the engine's table is one the database
\* held as a whole, however commands interleave, fail or are cut short.
EngineWasStored == engine \in past

AllIdle == \A c \in Callers : pc[c] = "idle"

\* The engine falls behind the database for good only if a caller installed a
\* list older than another's write, or a written rule was never listed; commands
\* one after the other always end with the stored rules in force.
StaleNeedsRace == AllIdle /\ engine # db => raced \/ missed

\* docs/rule-engine.md: "Save applies immediately".  When no command is in
\* flight and none failed, the saved rules are the rules in force.
SaveApplies == AllIdle /\ ~missed => engine = db
=============================================================================
