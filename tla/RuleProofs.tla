------------------------------ MODULE RuleProofs ------------------------------
(***************************************************************************)
(* What becomes of a saved rule, for any number of callers, rules and      *)
(* commands.                                                               *)
(*                                                                         *)
(* First the commands between database and engine: the engine's table was  *)
(* the database's, and it stays behind only after a race or a failed       *)
(* listing. Commands that are given one by one always apply                *)
(* (SaveAppliesOneByOne): their overlap is the only cause that one does    *)
(* not.                                                                    *)
(*                                                                         *)
(* Then the engine by itself: a pass comes to what the operators of        *)
(* RuleEngine say. The table it walks is sorted, whatever order it was     *)
(* listed in (SetRulesSorts: the place of a rule is the number of rules up *)
(* to it); over such a table the last place is the latest rule             *)
(* (LatestIsFinal); and the walk knows, of the places it has visited,      *)
(* which hit and which of them is followed (HitsInOrder, LastOnePrevails). *)
(***************************************************************************)
EXTENDS RuleSync, RuleFold, FiniteSetTheorems, SequenceTheorems, TLAPS

\* Everything that is, or is about to become, the engine's table was stored.
AllWereStored ==
    /\ db \in past
    /\ \A c \in Callers : pc[c] = "installing" => listed[c] \in past

\* Without a race a list about to be installed is the database as it is, and a
\* caller that will bring the engine up to date is on its way if it is behind.
OnItsWay ==
    ~raced /\ ~missed =>
        /\ \A c \in Callers : pc[c] = "installing" => listed[c] = db
        /\ engine = db \/ \E c \in Callers : pc[c] \in {"listing", "installing"}

\* StaleNeedsRace speaks of idle callers alone; OnItsWay says what holds until
\* they are.
IInv == TypeOK /\ AllWereStored /\ EngineWasStored /\ OnItsWay

\* The application starts with the invariant established.
LEMMA InitIInv == Init => IInv
  <1> SUFFICES ASSUME Init PROVE IInv
    OBVIOUS
  <1>1. TypeOK
    <2>1. op \in [Callers -> Op] /\ listed \in [Callers -> Table]
      BY DEF Init
    <2>2. 0 \in 0..MaxCalls /\ {db} \subseteq Table
      BY SyncAssumption DEF Init
    <2> QED BY <2>1, <2>2 DEF Init, TypeOK
  <1>2. AllWereStored /\ EngineWasStored /\ OnItsWay
    BY DEF Init, AllWereStored, EngineWasStored, OnItsWay
  <1> QED BY <1>1, <1>2 DEF IInv

\* A command writes a version of its rule, or Absent.
LEMMA TypeStep ==
    ASSUME IInv, [Next]_vars
    PROVE  TypeOK'
  <1> USE SyncAssumption DEF IInv, TypeOK
  <1>1. CASE UNCHANGED vars
    BY <1>1 DEF vars
  <1>2. CASE Restart
    <2>1. 0 \in 0..MaxCalls /\ {db} \subseteq Table
      OBVIOUS
    <2> QED BY <1>2, <2>1 DEF Restart
  <1>3. ASSUME NEW c \in Callers, Begin(c)
        PROVE  TypeOK'
    BY <1>3 DEF Begin, Goto
  <1>4. ASSUME NEW c \in Callers, Refuse(c)
        PROVE  TypeOK'
    BY <1>4 DEF Refuse, Goto
  <1>5. ASSUME NEW c \in Callers, Write(c)
        PROVE  TypeOK'
    <2>1. op[c].id \in RuleIds /\ op[c].version \in Versions \cup {Absent}
      BY DEF Op
    <2>2. [db EXCEPT ![op[c].id] = op[c].version] \in Table
      BY <2>1 DEF Table
    <2> QED BY <1>5, <2>2 DEF Write, Goto
  <1>6. ASSUME NEW c \in Callers, List(c)
        PROVE  TypeOK'
    BY <1>6 DEF List, Goto
  <1>7. ASSUME NEW c \in Callers, ListFails(c)
        PROVE  TypeOK'
    BY <1>7 DEF ListFails, Goto
  <1>8. ASSUME NEW c \in Callers, Install(c)
        PROVE  TypeOK'
    BY <1>8 DEF Install, Goto, Installed
  <1> QED
    BY <1>1, <1>2, <1>3, <1>4, <1>5, <1>6, <1>7, <1>8 DEF Next

\* A list is taken of what the database holds.
LEMMA StoredStep ==
    ASSUME IInv, [Next]_vars
    PROVE  AllWereStored'
  <1> USE SyncAssumption DEF IInv, TypeOK
  <1>1. CASE UNCHANGED vars
    BY <1>1 DEF vars, AllWereStored
  <1>2. CASE Restart
    BY <1>2 DEF Restart, AllWereStored
  <1>3. ASSUME NEW c \in Callers, Begin(c)
        PROVE  AllWereStored'
    BY <1>3 DEF Begin, Goto, AllWereStored
  <1>4. ASSUME NEW c \in Callers, Refuse(c)
        PROVE  AllWereStored'
    BY <1>4 DEF Refuse, Goto, AllWereStored
  <1>5. ASSUME NEW c \in Callers, Write(c)
        PROVE  AllWereStored'
    BY <1>5 DEF Write, Goto, AllWereStored
  <1>6. ASSUME NEW c \in Callers, List(c)
        PROVE  AllWereStored'
    BY <1>6 DEF List, Goto, AllWereStored
  <1>7. ASSUME NEW c \in Callers, ListFails(c)
        PROVE  AllWereStored'
    BY <1>7 DEF ListFails, Goto, AllWereStored
  <1>8. ASSUME NEW c \in Callers, Install(c)
        PROVE  AllWereStored'
    BY <1>8 DEF Install, Goto, Installed, AllWereStored
  <1> QED
    BY <1>1, <1>2, <1>3, <1>4, <1>5, <1>6, <1>7, <1>8 DEF Next

\* Only whole lists are installed.
LEMMA EngineStep ==
    ASSUME IInv, [Next]_vars
    PROVE  EngineWasStored'
  <1> USE SyncAssumption DEF IInv, TypeOK
  <1>1. CASE UNCHANGED vars
    BY <1>1 DEF vars, EngineWasStored, AllWereStored
  <1>2. CASE Restart
    BY <1>2 DEF Restart, EngineWasStored, AllWereStored
  <1>3. ASSUME NEW c \in Callers, Begin(c)
        PROVE  EngineWasStored'
    BY <1>3 DEF Begin, Goto, EngineWasStored, AllWereStored
  <1>4. ASSUME NEW c \in Callers, Refuse(c)
        PROVE  EngineWasStored'
    BY <1>4 DEF Refuse, Goto, EngineWasStored, AllWereStored
  <1>5. ASSUME NEW c \in Callers, Write(c)
        PROVE  EngineWasStored'
    BY <1>5 DEF Write, Goto, EngineWasStored, AllWereStored
  <1>6. ASSUME NEW c \in Callers, List(c)
        PROVE  EngineWasStored'
    BY <1>6 DEF List, Goto, EngineWasStored, AllWereStored
  <1>7. ASSUME NEW c \in Callers, ListFails(c)
        PROVE  EngineWasStored'
    BY <1>7 DEF ListFails, Goto, EngineWasStored, AllWereStored
  <1>8. ASSUME NEW c \in Callers, Install(c)
        PROVE  EngineWasStored'
    BY <1>8 DEF Install, Goto, Installed, EngineWasStored, AllWereStored
  <1> QED
    BY <1>1, <1>2, <1>3, <1>4, <1>5, <1>6, <1>7, <1>8 DEF Next

\* A write that overtakes a list is a race; any other is followed by its list.
LEMMA OnItsWayStep ==
    ASSUME IInv, [Next]_vars
    PROVE  OnItsWay'
  <1> USE SyncAssumption DEF IInv, TypeOK
  <1>1. CASE UNCHANGED vars
    BY <1>1 DEF vars, OnItsWay
  <1>2. CASE Restart
    BY <1>2 DEF Restart, OnItsWay
  <1>3. ASSUME NEW c \in Callers, Begin(c)
        PROVE  OnItsWay'
    BY <1>3 DEF Begin, Goto, OnItsWay
  <1>4. ASSUME NEW c \in Callers, Refuse(c)
        PROVE  OnItsWay'
    BY <1>4 DEF Refuse, Goto, OnItsWay
  <1>5. ASSUME NEW c \in Callers, Write(c)
        PROVE  OnItsWay'
    BY <1>5 DEF Write, Goto, OnItsWay
  <1>6. ASSUME NEW c \in Callers, List(c)
        PROVE  OnItsWay'
    BY <1>6 DEF List, Goto, OnItsWay
  <1>7. ASSUME NEW c \in Callers, ListFails(c)
        PROVE  OnItsWay'
    BY <1>7 DEF ListFails, Goto, OnItsWay
  <1>8. ASSUME NEW c \in Callers, Install(c)
        PROVE  OnItsWay'
    BY <1>8 DEF Install, Goto, Installed, OnItsWay
  <1> QED
    BY <1>1, <1>2, <1>3, <1>4, <1>5, <1>6, <1>7, <1>8 DEF Next

\* IInv holds of every reachable state.
THEOREM InductiveInvariant == Spec => []IInv
  <1>1. IInv /\ [Next]_vars => IInv'
    BY TypeStep, StoredStep, EngineStep, OnItsWayStep DEF IInv
  <1> QED
    BY InitIInv, <1>1, PTL DEF Spec

\* The tables and the callers keep their type.
THEOREM TypeCorrect == Spec => []TypeOK
  <1>1. IInv => TypeOK
    BY DEF IInv
  <1> QED
    BY InductiveInvariant, <1>1, PTL

\* The engine's table is one the database held as a whole since the start.
THEOREM EngineWasStoredAlways == Spec => []EngineWasStored
  <1>1. IInv => EngineWasStored
    BY DEF IInv
  <1> QED
    BY InductiveInvariant, <1>1, PTL

\* Idle callers leave the engine behind only after a race or a failed listing.
THEOREM StaleNeedsRaceAlways == Spec => []StaleNeedsRace
  <1>1. IInv => StaleNeedsRace
    BY DEF IInv, OnItsWay, StaleNeedsRace, AllIdle
  <1> QED
    BY InductiveInvariant, <1>1, PTL

\* A command begins only when the one before it has returned.
OneByOne == \A c \in Callers : Begin(c) => AllIdle

\* One command is under way at most, so nothing is written behind a listing.
Serial ==
    /\ \A c, d \in Callers : pc[c] # "idle" /\ pc[d] # "idle" => c = d
    /\ ~raced

\* A write by a command that is alone finds no other about to install.
LEMMA SerialStep ==
    ASSUME IInv, Serial, [Next]_vars, [OneByOne]_vars
    PROVE  Serial'
  <1> USE DEF IInv, TypeOK
  <1>1. CASE UNCHANGED vars
    BY <1>1 DEF vars, Serial
  <1>2. CASE Restart
    BY <1>2 DEF Restart, Serial
  <1>3. ASSUME NEW c \in Callers, Begin(c)
        PROVE  Serial'
    <2>1. pc' = [pc EXCEPT ![c] = "writing"] /\ raced' = raced
      BY <1>3 DEF Begin, Goto
    <2>2. AllIdle
      BY <1>3, <2>1 DEF OneByOne, Begin, Goto, vars
    <2> QED BY <2>1, <2>2 DEF Serial, AllIdle
  <1>4. ASSUME NEW c \in Callers, Write(c)
        PROVE  Serial'
    <2>1. /\ pc[c] = "writing" /\ pc' = [pc EXCEPT ![c] = "listing"]
          /\ raced' = (raced \/ \E d \in Callers : pc[d] = "installing")
      BY <1>4 DEF Write, Goto
    <2>2. \A d \in Callers : pc[d] # "installing"
      BY <2>1 DEF Serial
    <2> QED BY <2>1, <2>2 DEF Serial
  <1>5. ASSUME NEW c \in Callers, Refuse(c) \/ List(c) \/ ListFails(c) \/ Install(c)
        PROVE  Serial'
    <2>1. pc[c] # "idle" /\ raced' = raced /\ \A d \in Callers \ {c} : pc'[d] = pc[d]
      BY <1>5 DEF Refuse, List, ListFails, Install, Goto
    <2> QED BY <2>1 DEF Serial
  <1> QED
    BY <1>1, <1>2, <1>3, <1>4, <1>5 DEF Next

\* "Save applies immediately" holds of commands that are given one by one: that
\* they overlap is the only reason for what SaveApplies is found violated by.
THEOREM SaveAppliesOneByOne == Spec /\ [][OneByOne]_vars => []SaveApplies
  <1>1. Init => Serial
    BY DEF Init, Serial
  <1>2. IInv /\ Serial => SaveApplies
    BY DEF IInv, OnItsWay, Serial, SaveApplies, AllIdle
  <1> QED
    BY <1>1, <1>2, SerialStep, InductiveInvariant, PTL DEF Spec
-----------------------------------------------------------------------------
\* A table in the order the walk relies on, with an id for each rule.
Sorted(t) ==
    /\ t \in Seq(Rule)
    /\ \A i, j \in DOMAIN t : i < j => Precedes(t[i], t[j]) /\ t[i].id # t[j].id

FoldTypeOK ==
    /\ Sorted(rules) /\ Sorted(table)
    /\ asked \in Question
    /\ walked \in 0..Len(table)
    /\ result \in [matched : Seq(Nat), rewrites : Seq(Nat), mock : SUBSET Rule, delay : SUBSET Nat]
    /\ merged \in 0..Len(result.rewrites)
    /\ merged # 0 => Walked

\* The places of the rules that hit among those visited, and of those that set
\* the header, the mock or the delay; and the last of such places.
Hit == {i \in 1..walked : table[i].enabled /\ Matches(table[i], asked.url, asked.status)}
Rewriting == {i \in Hit : Rewrites(table[i], asked.phase)}
Mocking == {i \in Hit : Mocks(table[i], asked.phase)}
Delaying == {i \in Hit : Delays(table[i])}
Final(places) == {i \in places : \A j \in places : j <= i}

\* The rules visited are reported each once and in the order of the table.
HitsInOrder ==
    /\ \A i \in Hit : \E m \in 1..Len(result.matched) : result.matched[m] = table[i].id
    /\ \A m \in 1..Len(result.matched) : \E i \in Hit : result.matched[m] = table[i].id
    /\ \A m, k \in 1..Len(result.matched), i, j \in Hit :
           m < k /\ result.matched[m] = table[i].id /\ result.matched[k] = table[j].id => i < j

\* Of the rules visited the last one that asks for something is followed.
LastOnePrevails ==
    /\ result.rewrites = <<>> => Rewriting = {}
    /\ result.rewrites # <<>> =>
           \E i \in Final(Rewriting) : result.rewrites[Len(result.rewrites)] = table[i].id
    /\ result.mock = {table[i] : i \in Final(Mocking)}
    /\ result.delay = {table[i].value : i \in Final(Delaying)}

\* The header is what the last rewrite applied made of it.
HeaderFollows == header = IF merged = 0 THEN {} ELSE {result.rewrites[merged]}

FoldInv == FoldTypeOK /\ HitsInOrder /\ LastOnePrevails /\ HeaderFollows

\* Rules of different ids are in a strict total order.
LEMMA PrecedesOrders ==
    ASSUME NEW p \in Rule, NEW q \in Rule
    PROVE  /\ p.id # q.id => Precedes(p, q) \/ Precedes(q, p)
           /\ ~(Precedes(p, q) /\ Precedes(q, p))
           /\ \A r \in Rule : Precedes(p, q) /\ Precedes(q, r) => Precedes(p, r)
  <1>1. \A r \in Rule : r.priority \in Int /\ r.id \in Nat
    BY DEF Rule
  <1> QED BY <1>1 DEF Precedes

\* The rules of a list differ in id, whatever their order.
Unique(loaded) == \A i, j \in DOMAIN loaded : loaded[i].id = loaded[j].id => i = j

\* Sorting loses no rule, repeats none, and puts each after those it follows:
\* its place is the number of rules up to it.
LEMMA SetRulesSorts ==
    ASSUME NEW n \in Nat, NEW loaded \in [1..n -> Rule], Unique(loaded)
    PROVE  Sorted(SetRules(loaded)) /\ ToSet(SetRules(loaded)) = ToSet(loaded)
  <1> DEFINE upto(i) == {j \in 1..n : j = i \/ Precedes(loaded[j], loaded[i])}
             Place(i) == Cardinality(upto(i))
             place == [i \in 1..n |-> Place(i)]
             s == SetRules(loaded)
  <1>1. DOMAIN loaded = 1..n /\ \A i \in 1..n : loaded[i] \in Rule
    OBVIOUS
  <1>2. IsFiniteSet(1..n) /\ Cardinality(1..n) = n
    BY FS_Interval
  <1>3. ASSUME NEW i \in 1..n
        PROVE  IsFiniteSet(upto(i)) /\ Place(i) \in 1..n
    <2>1. upto(i) \in SUBSET (1..n) /\ i \in upto(i)
      OBVIOUS
    <2>2. IsFiniteSet(upto(i)) /\ Place(i) <= n
      BY <1>2, <2>1, FS_Subset
    <2>3. Place(i) \in Nat /\ Place(i) # 0
      BY <2>1, <2>2, FS_CardinalityType, FS_EmptySet
    <2> QED BY <2>2, <2>3
  <1> HIDE DEF Place, upto
  <1>4. ASSUME NEW i \in 1..n, NEW j \in 1..n, Precedes(loaded[i], loaded[j])
        PROVE  Place(i) < Place(j)
    <2>1. loaded[i] \in Rule /\ loaded[j] \in Rule
      BY <1>1
    <2>2. ASSUME NEW k \in upto(i)
          PROVE  k \in upto(j)
      <3>1. loaded[k] \in Rule
        BY <1>1, <2>2 DEF upto
      <3>2. k \in 1..n /\ (k = i \/ Precedes(loaded[k], loaded[i]))
        BY <2>2 DEF upto
      <3> QED BY <1>4, <2>1, <3>1, <3>2, PrecedesOrders DEF upto
    <2>3. j \in upto(j) /\ j \notin upto(i)
      BY <1>4, <2>1, PrecedesOrders DEF upto
    <2>4. upto(i) \in SUBSET upto(j) /\ upto(i) # upto(j)
      BY <2>2, <2>3
    <2>5. IsFiniteSet(upto(j)) /\ Place(i) \in Nat /\ Place(j) \in Nat
      BY <1>3
    <2>6. Place(i) <= Place(j) /\ Place(i) # Place(j)
      BY <2>4, <2>5, FS_Subset DEF Place
    <2> QED BY <2>5, <2>6
  <1>5. ASSUME NEW i \in 1..n, NEW j \in 1..n, i # j
        PROVE  Precedes(loaded[i], loaded[j]) \/ Precedes(loaded[j], loaded[i])
    <2>1. loaded[i].id # loaded[j].id
      BY <1>1, <1>5 DEF Unique
    <2> QED BY <1>1, <2>1, PrecedesOrders
  <1>6. \A m \in 1..n : \E i \in 1..n : Place(i) = m
    <2>1. ASSUME NEW i \in 1..n, NEW j \in 1..n, Place(i) = Place(j)
          PROVE  i = j
      <3>1. Place(i) \in Nat
        BY <1>3
      <3>2. ~Precedes(loaded[i], loaded[j]) /\ ~Precedes(loaded[j], loaded[i])
        BY <1>4, <2>1, <3>1
      <3> QED BY <1>5, <3>2
    <2>2. place \in Injection(1..n, 1..n)
      BY <1>3, <2>1 DEF Injection, IsInjective
    <2>3. place \in Surjection(1..n, 1..n)
      BY <1>2, <2>2, FS_Injection
    <2> QED BY <2>3 DEF Surjection
  <1> DEFINE at == [m \in 1..n |-> CHOOSE i \in 1..n : Place(i) = m]
  <1>7. s = [m \in 1..n |-> loaded[at[m]]]
    BY <1>1 DEF SetRules, Place, upto
  <1> HIDE DEF s
  <1>8. at \in [1..n -> 1..n] /\ \A m \in 1..n : Place(at[m]) = m
    BY <1>6
  <1> HIDE DEF at
  <1>9. s \in Seq(Rule) /\ Len(s) = n /\ DOMAIN s = 1..n
    BY <1>1, <1>7, <1>8
  <1>10. ASSUME NEW m \in 1..n, NEW k \in 1..n, m < k
         PROVE  Precedes(s[m], s[k]) /\ s[m].id # s[k].id
    <2>1. at[m] # at[k] /\ Place(at[m]) = m /\ Place(at[k]) = k
      BY <1>8, <1>10
    <2>2. s[m] = loaded[at[m]] /\ s[k] = loaded[at[k]] /\ at[m] \in 1..n /\ at[k] \in 1..n
      BY <1>7, <1>8
    <2>3. ~Precedes(loaded[at[k]], loaded[at[m]])
      BY <1>4, <1>10, <2>1, <2>2
    <2>4. loaded[at[m]].id # loaded[at[k]].id
      BY <1>1, <2>1, <2>2 DEF Unique
    <2> QED BY <1>5, <2>1, <2>2, <2>3, <2>4
  <1>11. ASSUME NEW i \in 1..n
         PROVE  \E m \in 1..n : s[m] = loaded[i]
    <2>1. Place(i) \in 1..n
      BY <1>3
    <2>2. at[Place(i)] \in 1..n /\ Place(at[Place(i)]) = Place(i)
      BY <1>8, <2>1
    <2>3. at[Place(i)] = i
      <3>1. ~Precedes(loaded[i], loaded[at[Place(i)]]) /\ ~Precedes(loaded[at[Place(i)]], loaded[i])
        BY <1>4, <2>1, <2>2
      <3> QED BY <1>5, <2>2, <3>1
    <2> QED BY <1>7, <2>1, <2>3
  <1>12. ToSet(s) = ToSet(loaded)
    <2>1. \A m \in 1..n : \E i \in 1..n : s[m] = loaded[i]
      BY <1>7, <1>8
    <2>2. ToSet(s) = {s[m] : m \in 1..n} /\ ToSet(loaded) = {loaded[i] : i \in 1..n}
      BY <1>1, <1>9 DEF ToSet
    <2>3. \A i \in 1..n : \E m \in 1..n : s[m] = loaded[i]
      BY <1>11
    <2> HIDE DEF s
    <2>4. ToSet(s) \subseteq ToSet(loaded)
      BY <2>1, <2>2
    <2>5. ToSet(loaded) \subseteq ToSet(s)
      BY <2>2, <2>3
    <2> QED BY <2>4, <2>5
  <1> QED BY <1>9, <1>10, <1>12 DEF Sorted, s

\* What a listing of stored rules is sorted into is such a table.
LEMMA ListingSorts ==
    ASSUME NEW n \in Nat, NEW loaded \in [1..n -> Rule], Listing(loaded)
    PROVE  Sorted(SetRules(loaded))
  <1>1. Unique(loaded)
    BY DEF Unique, Listing
  <1> QED BY <1>1, SetRulesSorts

\* No pass has begun: the table is empty and nothing was found in it.
Fresh ==
    /\ Sorted(rules) /\ Sorted(table) /\ asked \in Question
    /\ walked = 0 /\ merged = 0 /\ result = Nothing /\ header = {}

LEMMA NothingFound == Fresh => FoldInv
  <1> SUFFICES ASSUME Fresh PROVE FoldInv
    OBVIOUS
  <1> USE DEF Fresh
  <1>1. Hit = {}
    BY DEF Hit
  <1>2. Rewriting = {} /\ Final(Mocking) = {} /\ Final(Delaying) = {}
    BY <1>1 DEF Rewriting, Mocking, Delaying, Final
  <1>3. /\ result = [matched |-> <<>>, rewrites |-> <<>>, mock |-> {}, delay |-> {}]
        /\ Len(result.matched) = 0 /\ Len(result.rewrites) = 0
    BY DEF Nothing
  <1>4. FoldTypeOK
    <2>1. <<>> \in Seq(Nat) /\ Len(table) \in Nat
      BY DEF Sorted
    <2> QED BY <1>3, <2>1 DEF FoldTypeOK
  <1>5. HitsInOrder
    BY <1>1, <1>3 DEF HitsInOrder
  <1>6. LastOnePrevails
    BY <1>2, <1>3 DEF LastOnePrevails
  <1>7. HeaderFollows
    BY DEF HeaderFollows
  <1> QED BY <1>4, <1>5, <1>6, <1>7 DEF FoldInv

\* The application starts with a sorted table.
LEMMA InitFoldInv == FoldInit => FoldInv
  <1> SUFFICES ASSUME FoldInit PROVE FoldInv
    OBVIOUS
  <1>1. PICK n \in 0..Cardinality(Ids(Pool)) : \E loaded \in [1..n -> Pool] :
            Listing(loaded) /\ rules = SetRules(loaded)
    BY DEF FoldInit
  <1>2. PICK loaded \in [1..n -> Pool] : Listing(loaded) /\ rules = SetRules(loaded)
    BY <1>1
  <1>3. n \in Nat /\ loaded \in [1..n -> Rule]
    BY PoolAssumption
  <1>4. Sorted(rules)
    BY <1>2, <1>3, ListingSorts
  <1>5. Sorted(<<>>)
    BY DEF Sorted
  <1> QED BY <1>4, <1>5, NothingFound DEF FoldInit, Fresh

\* However a table is replaced, the engine's is sorted, and a pass under way
\* keeps its copy.
LEMMA ReplaceKeeps ==
    ASSUME FoldInv, NEW stored, IsFiniteSet(stored), stored \subseteq Rule, Replace(stored)
    PROVE  FoldInv'
  <1>1. PICK loaded \in [1..Cardinality(stored) -> stored] :
            Listing(loaded) /\ rules' = SetRules(loaded)
    BY DEF Replace
  <1>2. Cardinality(stored) \in Nat /\ loaded \in [1..Cardinality(stored) -> Rule]
    BY FS_CardinalityType
  <1>3. Sorted(rules')
    BY <1>1, <1>2, ListingSorts
  <1>4. UNCHANGED passVars
    BY DEF Replace
  <1>5. FoldTypeOK'
    BY <1>3, <1>4 DEF FoldInv, FoldTypeOK, passVars, Sorted, Walked
  <1>6. Hit' = Hit /\ Rewriting' = Rewriting /\ Mocking' = Mocking /\ Delaying' = Delaying
    BY <1>4 DEF passVars, Hit, Rewriting, Mocking, Delaying
  <1>7. HitsInOrder' /\ LastOnePrevails' /\ HeaderFollows'
    BY <1>4, <1>6 DEF FoldInv, passVars, HitsInOrder, LastOnePrevails, HeaderFollows, Final
  <1> QED BY <1>5, <1>7 DEF FoldInv

\* The rules of a table are finitely many.
LEMMA OthersAreFinite ==
    ASSUME Sorted(rules), NEW id
    PROVE  IsFiniteSet(Others(id)) /\ Others(id) \subseteq Rule
  <1>1. rules \in [1..Len(rules) -> Rule] /\ Len(rules) \in Nat
    BY DEF Sorted
  <1>2. rules \in Surjection(1..Len(rules), ToSet(rules))
    BY <1>1 DEF ToSet, Surjection
  <1>3. IsFiniteSet(ToSet(rules))
    BY <1>1, <1>2, FS_Interval, FS_Surjection
  <1>4. Others(id) \in SUBSET ToSet(rules) /\ ToSet(rules) \subseteq Rule
    BY <1>1 DEF Others, ToSet
  <1> QED BY <1>3, <1>4, FS_Subset

\* Visiting a rule adds its place to those that hit, behind all others.
LEMMA VisitKeeps ==
    ASSUME FoldInv, VisitNext
    PROVE  FoldInv'
  <1> DEFINE n == walked + 1
             rule == table[n]
             hits == rule.enabled /\ Matches(rule, asked.url, asked.status)
  <1>1. /\ walked \in Nat /\ walked' = n /\ n \in 1..Len(table) /\ Len(table) \in Nat
        /\ UNCHANGED <<rules, table, asked, merged, header>>
        /\ result' = IF hits THEN Visit(rule, asked.phase) ELSE result
    BY DEF VisitNext, FoldInv, FoldTypeOK, Sorted, Walked
  <1>2. table \in Seq(Rule) /\ rule \in Rule /\ rule.id \in Nat /\ rule.value \in Nat
    <2>1. table \in Seq(Rule)
      BY DEF FoldInv, FoldTypeOK, Sorted
    <2>2. rule \in Rule
      BY <1>1, <2>1
    <2>3. \A r \in Rule : r.id \in Nat /\ r.value \in Nat
      BY DEF Rule
    <2> HIDE DEF rule
    <2> QED BY <2>1, <2>2, <2>3
  <1>3. /\ result.matched \in Seq(Nat) /\ result.rewrites \in Seq(Nat)
        /\ result.mock \subseteq Rule /\ result.delay \subseteq Nat
        /\ merged = 0 /\ asked \in Question
    BY DEF FoldInv, FoldTypeOK, VisitNext
  <1>4. \A i \in Hit : i \in 1..walked /\ i < n /\ table[i].id # rule.id
    <2>1. \A i \in Hit : i \in 1..walked
      BY DEF Hit
    <2> QED BY <1>1, <2>1 DEF FoldInv, FoldTypeOK, Sorted
  <1>5. Hit' = IF hits THEN Hit \cup {n} ELSE Hit
    <2>1. 1..n = (1..walked) \cup {n}
      BY <1>1
    <2> QED BY <1>1, <2>1 DEF Hit
  <1>6. CASE ~hits
    <2>1. result' = result /\ Hit' = Hit
      BY <1>1, <1>5, <1>6
    <2>2. Rewriting' = Rewriting /\ Mocking' = Mocking /\ Delaying' = Delaying
      BY <1>1, <2>1 DEF Rewriting, Mocking, Delaying
    <2>3. FoldTypeOK'
      BY <1>1, <1>3, <2>1 DEF FoldInv, FoldTypeOK, Sorted
    <2>4. HitsInOrder'
      <3>1. HitsInOrder /\ table' = table /\ result'.matched = result.matched
        BY <1>1, <2>1 DEF FoldInv
      <3> HIDE DEF n, rule, hits
      <3>2. \A i \in Hit' : \E m \in 1..Len(result'.matched) : result'.matched[m] = table'[i].id
        BY <2>1, <3>1 DEF HitsInOrder
      <3>3. \A m \in 1..Len(result'.matched) : \E i \in Hit' : result'.matched[m] = table'[i].id
        BY <2>1, <3>1 DEF HitsInOrder
      <3>4. ASSUME NEW m \in 1..Len(result'.matched), NEW k \in 1..Len(result'.matched),
                   NEW i \in Hit', NEW j \in Hit',
                   m < k, result'.matched[m] = table'[i].id, result'.matched[k] = table'[j].id
            PROVE  i < j
        BY <2>1, <3>1, <3>4 DEF HitsInOrder
      <3> QED BY <3>2, <3>3, <3>4 DEF HitsInOrder
    <2>5. LastOnePrevails'
      BY <1>1, <2>1, <2>2 DEF FoldInv, LastOnePrevails, Final
    <2>6. HeaderFollows'
      BY <1>1, <2>1 DEF FoldInv, HeaderFollows
    <2> QED BY <2>3, <2>4, <2>5, <2>6 DEF FoldInv
  <1>7. CASE hits
    <2> DEFINE rewrites == Rewrites(rule, asked.phase)
               mocks == Mocks(rule, asked.phase)
               delays == Delays(rule)
    <2>1. Hit' = Hit \cup {n}
      BY <1>5, <1>7
    <2>2. /\ result'.matched = Append(result.matched, rule.id)
          /\ result'.rewrites = IF rewrites THEN Append(result.rewrites, rule.id) ELSE result.rewrites
          /\ result'.mock = IF mocks THEN {rule} ELSE result.mock
          /\ result'.delay = IF delays THEN {rule.value} ELSE result.delay
          /\ result' \in [matched : Seq(Nat), rewrites : Seq(Nat), mock : SUBSET Rule,
                          delay : SUBSET Nat]
      BY <1>1, <1>2, <1>3, <1>7 DEF Visit, OrElse
    <2>3. /\ Rewriting' = IF rewrites THEN Rewriting \cup {n} ELSE Rewriting
          /\ Mocking' = IF mocks THEN Mocking \cup {n} ELSE Mocking
          /\ Delaying' = IF delays THEN Delaying \cup {n} ELSE Delaying
      BY <1>1, <2>1 DEF Rewriting, Mocking, Delaying
    <2>4. ASSUME NEW places \in SUBSET Hit
          PROVE  Final(places \cup {n}) = {n}
      BY <1>1, <1>4, <2>4 DEF Final
    <2>5. Rewriting \in SUBSET Hit /\ Mocking \in SUBSET Hit /\ Delaying \in SUBSET Hit
      BY DEF Rewriting, Mocking, Delaying
    <2>6. FoldTypeOK'
      BY <1>1, <1>3, <2>2 DEF FoldInv, FoldTypeOK, Sorted
    <2>7. HitsInOrder'
      <3> DEFINE old == Len(result.matched)
      <3>1. /\ old \in Nat /\ Len(result'.matched) = old + 1 /\ result'.matched[old + 1] = rule.id
            /\ \A m \in 1..old : result'.matched[m] = result.matched[m]
        <4> HIDE DEF rule
        <4> QED BY <1>2, <1>3, <2>2
      <3>2. \A m \in 1..(old + 1) : m \in 1..old \/ m = old + 1
        BY <3>1
      <3>3. table' = table /\ table[n] = rule
        BY <1>1
      <3>4. \A i \in Hit : \E m \in 1..old : result.matched[m] = table[i].id
        BY DEF FoldInv, HitsInOrder
      <3>5. \A m \in 1..old : \E i \in Hit : result.matched[m] = table[i].id
        BY DEF FoldInv, HitsInOrder
      <3>6. \A i \in Hit' : \E m \in 1..(old + 1) : result'.matched[m] = table[i].id
        <4> HIDE DEF rule
        <4> QED BY <2>1, <3>1, <3>3, <3>4
      <3>7. \A m \in 1..(old + 1) : \E i \in Hit' : result'.matched[m] = table[i].id
        <4> HIDE DEF rule
        <4> QED BY <2>1, <3>1, <3>2, <3>3, <3>5
      <3>8. ASSUME NEW m \in 1..(old + 1), NEW k \in 1..(old + 1), NEW i \in Hit', NEW j \in Hit',
                   m < k, result'.matched[m] = table[i].id, result'.matched[k] = table[j].id
            PROVE  i < j
        <4>1. m \in 1..old /\ result.matched[m] = table[i].id
          BY <3>1, <3>8
        <4>2. i \in Hit
          <5>1. \E h \in Hit : result.matched[m] = table[h].id
            BY <3>5, <4>1
          <5>2. table[i].id # rule.id
            BY <1>4, <4>1, <5>1
          <5> QED BY <2>1, <3>3, <3>8, <5>2
        <4>3. CASE k = old + 1
          <5>1. table[j].id = rule.id
            BY <3>1, <3>8, <4>3
          <5>2. j = n
            BY <1>4, <2>1, <3>8, <5>1
          <5> QED BY <1>4, <4>2, <5>2
        <4>4. CASE k \in 1..old
          <5>1. result.matched[k] = table[j].id
            BY <3>1, <3>8, <4>4
          <5>2. \E h \in Hit : result.matched[k] = table[h].id
            BY <3>5, <4>4
          <5>3. j \in Hit
            BY <1>4, <2>1, <3>3, <3>8, <5>1, <5>2
          <5> QED BY <3>8, <4>1, <4>2, <4>4, <5>1, <5>3 DEF FoldInv, HitsInOrder
        <4> QED BY <3>2, <4>3, <4>4
      <3>9. Len(result'.matched) = old + 1 /\ table' = table
        BY <3>1, <3>3
      <3> HIDE DEF old
      <3> QED BY <3>6, <3>7, <3>8, <3>9 DEF HitsInOrder
    <2>8. LastOnePrevails'
      <3>1. table' = table /\ table[n] = rule
        BY <1>1
      <3>2. /\ result'.rewrites = <<>> => Rewriting' = {}
            /\ result'.rewrites # <<>> =>
                   \E i \in Final(Rewriting)' : result'.rewrites[Len(result'.rewrites)] = table[i].id
        <4>1. CASE rewrites
          <5>1. /\ Len(result'.rewrites) = Len(result.rewrites) + 1
                /\ result'.rewrites[Len(result.rewrites) + 1] = rule.id
                /\ Len(result.rewrites) \in Nat
            BY <1>2, <1>3, <2>2, <4>1
          <5>2. result'.rewrites # <<>>
            BY <5>1
          <5>3. Final(Rewriting)' = {n}
            BY <2>3, <2>4, <2>5, <4>1 DEF Final
          <5> QED BY <3>1, <5>1, <5>2, <5>3
        <4>2. CASE ~rewrites
          BY <2>2, <2>3, <4>2 DEF FoldInv, LastOnePrevails, Final
        <4> QED BY <4>1, <4>2
      <3>3. result'.mock = {table[i] : i \in Final(Mocking)'}
        <4>1. CASE mocks
          <5>1. Final(Mocking)' = {n}
            BY <2>3, <2>4, <2>5, <4>1 DEF Final
          <5> QED BY <2>2, <3>1, <4>1, <5>1
        <4>2. CASE ~mocks
          BY <2>2, <2>3, <4>2 DEF FoldInv, LastOnePrevails, Final
        <4> QED BY <4>1, <4>2
      <3>4. result'.delay = {table[i].value : i \in Final(Delaying)'}
        <4>1. CASE delays
          <5>1. Final(Delaying)' = {n}
            BY <2>3, <2>4, <2>5, <4>1 DEF Final
          <5> QED BY <2>2, <3>1, <4>1, <5>1
        <4>2. CASE ~delays
          BY <2>2, <2>3, <4>2 DEF FoldInv, LastOnePrevails, Final
        <4> QED BY <4>1, <4>2
      <3> QED BY <3>1, <3>2, <3>3, <3>4 DEF LastOnePrevails
    <2>9. HeaderFollows'
      BY <1>1, <1>3 DEF FoldInv, HeaderFollows
    <2> QED BY <2>6, <2>7, <2>8, <2>9 DEF FoldInv
  <1> QED BY <1>6, <1>7

\* Applying a rewrite touches the header alone.
LEMMA MergeKeeps ==
    ASSUME FoldInv, MergeNext
    PROVE  FoldInv'
  <1>1. /\ merged' = merged + 1 /\ header' = {result.rewrites[merged + 1]}
        /\ UNCHANGED <<rules, table, asked, walked, result>> /\ Walked
    BY DEF MergeNext
  <1>2. merged' \in 0..Len(result.rewrites) /\ merged' # 0
    BY <1>1 DEF MergeNext, Merged, FoldInv, FoldTypeOK
  <1>3. FoldTypeOK'
    BY <1>1, <1>2 DEF FoldInv, FoldTypeOK, Sorted, Walked
  <1>4. Hit' = Hit /\ Rewriting' = Rewriting /\ Mocking' = Mocking /\ Delaying' = Delaying
    BY <1>1 DEF Hit, Rewriting, Mocking, Delaying
  <1>5. HitsInOrder' /\ LastOnePrevails' /\ HeaderFollows'
    BY <1>1, <1>2, <1>4 DEF FoldInv, HitsInOrder, LastOnePrevails, HeaderFollows, Final
  <1> QED BY <1>3, <1>5 DEF FoldInv

\* A pass begins with nothing found.
LEMMA BeginKeeps ==
    ASSUME FoldInv, BeginPass
    PROVE  FoldInv'
  <1>1. Sorted(rules)' /\ Sorted(table)'
    BY DEF BeginPass, FoldInv, FoldTypeOK, Sorted
  <1>2. walked' = 0 /\ merged' = 0 /\ result' = Nothing /\ header' = {} /\ asked' \in Question
    BY DEF BeginPass
  <1>3. Fresh'
    BY <1>1, <1>2 DEF Fresh
  <1>4. Fresh' => FoldInv'
    BY NothingFound, PTL
  <1> QED BY <1>3, <1>4

\* In a sorted table the rule the operators call the latest is the one in the
\* last place.
LEMMA LatestIsFinal ==
    ASSUME Sorted(table), NEW places \in SUBSET DOMAIN table
    PROVE  Latest({table[i] : i \in places}) = {table[i] : i \in Final(places)}
  <1>1. DOMAIN table \subseteq Nat /\ \A i \in DOMAIN table : table[i] \in Rule
    BY DEF Sorted
  <1>2. ASSUME NEW i \in places, NEW j \in places
        PROVE  j <= i <=> (table[j] = table[i] \/ Precedes(table[j], table[i]))
    <2>1. CASE i < j
      <3>1. Precedes(table[i], table[j]) /\ table[i].id # table[j].id
        BY <2>1 DEF Sorted
      <3>2. ~Precedes(table[j], table[i]) /\ table[j] # table[i]
        BY <1>1, <3>1, PrecedesOrders
      <3> QED BY <1>1, <2>1, <3>2
    <2>2. CASE j <= i
      BY <1>1, <2>2 DEF Sorted
    <2> QED BY <1>1, <2>1, <2>2
  <1>3. ASSUME NEW i \in places
        PROVE  table[i] \in Latest({table[j] : j \in places}) <=> i \in Final(places)
    <2>1. table[i] \in Latest({table[j] : j \in places}) <=>
              \A j \in places : table[j] = table[i] \/ Precedes(table[j], table[i])
      BY DEF Latest
    <2> QED BY <1>2, <2>1 DEF Final
  <1>4. Latest({table[i] : i \in places}) \subseteq {table[i] : i \in places}
    BY DEF Latest
  <1>5. Final(places) \subseteq places
    BY DEF Final
  <1> QED BY <1>3, <1>4, <1>5

\* At its end the walk has found what the operators say.
LEMMA WalkEnds ==
    ASSUME FoldInv
    PROVE  WalkIsPass
  <1> SUFFICES ASSUME Merged PROVE WalkIsPass
    BY DEF WalkIsPass
  <1> DEFINE hits == Hits(ToSet(table), asked.url, asked.status)
             prio(id) == (CHOOSE r \in ToSet(table) : r.id = id).priority
  <1>1. Sorted(table) /\ table \in Seq(Rule) /\ Len(table) \in Nat /\ DOMAIN table = 1..Len(table)
    BY DEF FoldInv, FoldTypeOK, Sorted
  <1>2. walked = Len(table) /\ merged = Len(result.rewrites)
    BY DEF Merged, Walked
  <1>3. hits = {table[i] : i \in Hit} /\ Hit \in SUBSET DOMAIN table
    BY <1>1, <1>2 DEF Hits, Hit, ToSet
  <1> HIDE DEF hits
  <1>4. result.matched \in Seq(Nat) /\ result.rewrites \in Seq(Nat)
    BY DEF FoldInv, FoldTypeOK
  <1>5. ToSet(result.matched) = Ids(hits)
    <2>1. Ids(hits) = {table[i].id : i \in Hit}
      BY <1>3 DEF Ids
    <2>2. ToSet(result.matched) = {result.matched[m] : m \in 1..Len(result.matched)}
      BY <1>4 DEF ToSet
    <2>3. \A i \in Hit : \E m \in 1..Len(result.matched) : result.matched[m] = table[i].id
      BY DEF FoldInv, HitsInOrder
    <2>4. \A m \in 1..Len(result.matched) : \E i \in Hit : result.matched[m] = table[i].id
      BY DEF FoldInv, HitsInOrder
    <2> QED BY <2>1, <2>2, <2>3, <2>4
  <1>6. ASSUME NEW i \in DOMAIN table
        PROVE  prio(table[i].id) = table[i].priority
    <2>1. table[i] \in ToSet(table)
      BY DEF ToSet
    <2>2. ASSUME NEW r \in ToSet(table), r.id = table[i].id
          PROVE  r = table[i]
      <3>1. PICK j \in DOMAIN table : r = table[j]
        BY DEF ToSet
      <3> QED BY <1>1, <2>2, <3>1 DEF Sorted
    <2> QED BY <2>1, <2>2
  <1> HIDE DEF prio
  <1>7. ASSUME NEW m \in 1..Len(result.matched), NEW k \in 1..Len(result.matched), m < k
        PROVE  /\ result.matched[m] # result.matched[k]
               /\ prio(result.matched[m]) <= prio(result.matched[k])
    <2>1. PICK i \in Hit : result.matched[m] = table[i].id
      BY DEF FoldInv, HitsInOrder
    <2>2. PICK j \in Hit : result.matched[k] = table[j].id
      BY DEF FoldInv, HitsInOrder
    <2>3. i < j /\ i \in DOMAIN table /\ j \in DOMAIN table
      BY <1>3, <1>7, <2>1, <2>2 DEF FoldInv, HitsInOrder
    <2>4. Precedes(table[i], table[j]) /\ table[i].id # table[j].id
      BY <1>1, <2>3 DEF Sorted
    <2>5. table[i].priority \in Int /\ table[j].priority \in Int
      <3>1. table[i] \in Rule /\ table[j] \in Rule
        BY <1>1, <2>3
      <3> QED BY <3>1 DEF Rule
    <2>6. table[i].priority <= table[j].priority
      BY <2>4, <2>5 DEF Precedes
    <2> QED BY <1>6, <2>1, <2>2, <2>3, <2>4, <2>6
  <1>8. header = Ids(Latest({r \in hits : Rewrites(r, asked.phase)}))
    <2>1. {r \in hits : Rewrites(r, asked.phase)} = {table[i] : i \in Rewriting}
      BY <1>3 DEF Rewriting
    <2>2. Rewriting \in SUBSET DOMAIN table
      BY <1>3 DEF Rewriting
    <2>3. Ids(Latest({r \in hits : Rewrites(r, asked.phase)})) = {table[i].id : i \in Final(Rewriting)}
      <3>1. Latest({r \in hits : Rewrites(r, asked.phase)}) = {table[i] : i \in Final(Rewriting)}
        BY <1>1, <2>1, <2>2, LatestIsFinal
      <3> QED BY <3>1 DEF Ids
    <2>4. \A i, j \in Final(Rewriting) : i = j
      BY <1>1, <2>2 DEF Final
    <2>5. CASE result.rewrites = <<>>
      <3>1. header = {} /\ Rewriting = {}
        BY <1>2, <2>5 DEF FoldInv, HeaderFollows, LastOnePrevails
      <3> QED BY <2>3, <3>1 DEF Final
    <2>6. CASE result.rewrites # <<>>
      <3>1. header = {result.rewrites[Len(result.rewrites)]}
        BY <1>2, <1>4, <2>6 DEF FoldInv, HeaderFollows
      <3>2. PICK i \in Final(Rewriting) : result.rewrites[Len(result.rewrites)] = table[i].id
        BY <2>6 DEF FoldInv, LastOnePrevails
      <3> QED BY <2>3, <2>4, <3>1, <3>2
    <2> QED BY <2>5, <2>6
  <1>9. result.mock = Latest({r \in hits : Mocks(r, asked.phase)})
    <2>1. {r \in hits : Mocks(r, asked.phase)} = {table[i] : i \in Mocking}
      BY <1>3 DEF Mocking
    <2>2. Mocking \in SUBSET DOMAIN table
      BY <1>3 DEF Mocking
    <2> QED BY <1>1, <2>1, <2>2, LatestIsFinal DEF FoldInv, LastOnePrevails
  <1>10. result.delay = {r.value : r \in Latest({q \in hits : Delays(q)})}
    <2>1. {q \in hits : Delays(q)} = {table[i] : i \in Delaying}
      BY <1>3 DEF Delaying
    <2>2. Delaying \in SUBSET DOMAIN table
      BY <1>3 DEF Delaying
    <2>3. Latest({q \in hits : Delays(q)}) = {table[i] : i \in Final(Delaying)}
      BY <1>1, <2>1, <2>2, LatestIsFinal
    <2> QED BY <2>3 DEF FoldInv, LastOnePrevails
  <1> QED BY <1>5, <1>7, <1>8, <1>9, <1>10 DEF WalkIsPass, Pass, hits, prio

\* A step of the engine keeps the invariant, and so does standing still.
LEMMA FoldKeeps ==
    ASSUME FoldInv, [FoldNext]_foldVars
    PROVE  FoldInv'
  <1>1. CASE UNCHANGED foldVars
    <2>1. UNCHANGED <<rules, table, asked, walked, result, merged, header>>
      BY <1>1 DEF foldVars, passVars
    <2>2. Hit' = Hit /\ Rewriting' = Rewriting /\ Mocking' = Mocking /\ Delaying' = Delaying
      BY <2>1 DEF Hit, Rewriting, Mocking, Delaying
    <2>3. FoldTypeOK'
      BY <2>1 DEF FoldInv, FoldTypeOK, Sorted, Walked
    <2>4. HitsInOrder'
      BY <2>1, <2>2 DEF FoldInv, HitsInOrder
    <2>5. LastOnePrevails' /\ HeaderFollows'
      BY <2>1, <2>2 DEF FoldInv, LastOnePrevails, HeaderFollows, Final
    <2> QED BY <2>3, <2>4, <2>5 DEF FoldInv
  <1>2. ASSUME NEW rule \in Pool, Save(rule)
        PROVE  FoldInv'
    <2>1. IsFiniteSet(Others(rule.id)) /\ Others(rule.id) \subseteq Rule
      BY OthersAreFinite DEF FoldInv, FoldTypeOK
    <2>2. IsFiniteSet(Others(rule.id) \cup {rule}) /\ Others(rule.id) \cup {rule} \subseteq Rule
      BY <2>1, PoolAssumption, FS_AddElement
    <2> QED BY <1>2, <2>2, ReplaceKeeps DEF Save
  <1>3. ASSUME NEW id, Delete(id)
        PROVE  FoldInv'
    <2>1. IsFiniteSet(Others(id)) /\ Others(id) \subseteq Rule
      BY OthersAreFinite DEF FoldInv, FoldTypeOK
    <2> QED BY <1>3, <2>1, ReplaceKeeps DEF Delete
  <1> QED BY <1>1, <1>2, <1>3, BeginKeeps, VisitKeeps, MergeKeeps DEF FoldNext

\* The table is sorted and the pass under way has found what it should so far.
THEOREM FoldInductive == FoldSpec => []FoldInv
  <1>1. FoldInv /\ [FoldNext]_foldVars => FoldInv'
    BY FoldKeeps
  <1> QED BY InitFoldInv, <1>1, PTL DEF FoldSpec

\* A pass comes to what the operators of RuleEngine say of the table it began
\* with, for any rules, whatever order they were listed in.
THEOREM WalkIsPassAlways == FoldSpec => []WalkIsPass
  <1>1. FoldInv => WalkIsPass
    BY WalkEnds
  <1> QED BY FoldInductive, <1>1, PTL
=============================================================================
