------------------------- MODULE ConnectTunnelProofs -------------------------
(***************************************************************************)
(* What CONNECT guarantees for any number of tunnels and of root CAs: no   *)
(* tunnel goes unrecorded and none is decrypted unasked, whenever the      *)
(* application ends; a root CA that is ready can sign and is the one the   *)
(* user was told of, short of a torn write; and the mutex is held by       *)
(* exactly those whose step needs it, so that it is never left behind      *)
(* (MutexIsInUse).                                                         *)
(***************************************************************************)
EXTENDS ConnectTunnel, TLAPS

\* How far the two files are at each step of ensure_root_ca.
FilesFollowStep ==
    CASE step \in {"idle", "loading"} -> key # Absent => key = cert /\ key \in Nat
      [] step = "generating" -> key = Absent
      [] step = "certificate" -> key = Absent
      [] step = "certified" -> key = Absent /\ cert = made
      [] step = "key" -> cert = made

\* Whoever was told of a CA was told of the one in the files.
ToldIsFiled ==
    told # {} => /\ step \in {"idle", "loading"}
                 /\ key # Absent
                 /\ told = {cert}

BundleIsFiled == Ready => bundle.cert = cert /\ bundle.key = key /\ key # Absent /\ step = "idle"

\* What is being written is a CA that was made.
MadeIsACa == step \in {"certificate", "certified", "key"} => made \in 1..MaxCas

\* Nothing is said of files whose writing broke off.
CaSound == MadeIsACa /\ (~torn => FilesFollowStep /\ ToldIsFiled /\ BundleIsFiled)

\* The record and the event come before the answer, and the answer before the task.
RecordedFirst ==
    \A x \in Tunnels :
        /\ pc[x] \in {"announcing", "replying", "done"} => recorded[x] # None
        /\ pc[x] \in {"replying", "done"} => x \in announced

\* The switch remembers that it was asked for.
SwitchWasChosen == enabled => chosen

IInv ==
    /\ TypeOK /\ CaSound
    /\ RecordedFirst /\ TunnelsAreRecorded
    /\ SwitchWasChosen /\ DecryptionWasChosen

\* The steps of ensure_root_ca keep the CA as it should be, and a bundle stays.
LEMMA EnsureKeeps ==
    ASSUME CaTypeOK, CaSound, EnsureStep
    PROVE  CaTypeOK' /\ CaSound' /\ (Ready => Ready')
  <1> USE CaAssumption DEF CaTypeOK, CaSound, MadeIsACa, FilesFollowStep, ToldIsFiled, BundleIsFiled, Ready,
                           At, Contents, Bundles
  <1>1. CASE Load
    <2>1. /\ cert # Absent /\ key # Absent /\ step = "loading" /\ step' = "idle"
          /\ bundle' = [cert |-> cert, key |-> key] /\ told' = told \cup {cert}
          /\ UNCHANGED <<cert, key, made, torn>>
      BY <1>1 DEF Load, FilesExist, Adopt
    <2>2. bundle' \in Bundles /\ bundle'.cert = cert /\ bundle'.key = key
      BY <2>1
    <2>3. CaTypeOK' /\ Ready'
      BY <2>1, <2>2
    <2>4. CaSound'
      BY <2>1, <2>2
    <2> QED BY <2>3, <2>4
  <1>2. CASE LoadNone
    BY <1>2 DEF LoadNone, FilesExist
  <1>3. CASE GenerateFails
    BY <1>3 DEF GenerateFails
  <1>4. CASE CreateCert
    <2>1. /\ step = "generating" /\ step' = "certificate" /\ made' = made + 1 /\ cert' = Cut
          /\ made < MaxCas /\ UNCHANGED <<key, bundle, torn, told>>
      BY <1>4 DEF CreateCert
    <2>2. CaTypeOK'
      BY <2>1
    <2>3. ~torn => key = Absent /\ told = {} /\ ~Ready
      BY <2>1
    <2>4. made' \in 1..MaxCas
      BY <2>1
    <2>5. CaSound'
      BY <2>1, <2>3, <2>4
    <2> QED BY <2>1, <2>2, <2>5
  <1>5. CASE FillCert
    <2>1. /\ step = "certificate" /\ step' = "certified" /\ cert' = made
          /\ UNCHANGED <<key, bundle, made, torn, told>>
      BY <1>5 DEF FillCert
    <2>2. ~torn => key = Absent /\ told = {} /\ ~Ready
      BY <2>1
    <2>3. CaTypeOK'
      BY <2>1
    <2>4. CaSound'
      BY <2>1, <2>2
    <2> QED BY <2>1, <2>3, <2>4
  <1>6. CASE CreateKey
    BY <1>6 DEF CreateKey
  <1>7. CASE FillKey
    <2>1. /\ step = "key" /\ step' = "idle" /\ key' = made
          /\ bundle' = [cert |-> made, key |-> made] /\ told' = told \cup {made}
          /\ UNCHANGED <<cert, made, torn>>
      BY <1>7 DEF FillKey, Adopt
    <2>2. ~torn => cert = made /\ told = {}
      BY <2>1
    <2>3. bundle' \in Bundles /\ bundle'.cert = made /\ bundle'.key = made
      BY <2>1
    <2>4. CaTypeOK' /\ Ready'
      BY <2>1, <2>3
    <2>5. CaSound'
      BY <2>1, <2>2, <2>3
    <2> QED BY <2>4, <2>5
  <1>8. CASE FillFails
    BY <1>8 DEF FillFails
  <1> QED
    BY <1>1, <1>2, <1>3, <1>4, <1>5, <1>6, <1>7, <1>8 DEF EnsureStep

\* So does the call, ...
LEMMA CallKeeps ==
    ASSUME CaTypeOK, CaSound, Ensure, UNCHANGED <<cert, key, bundle, made, torn, told>>
    PROVE  CaTypeOK' /\ CaSound'
  BY CaAssumption DEF CaTypeOK, CaSound, MadeIsACa, FilesFollowStep, ToldIsFiled, BundleIsFiled, Ready, Ensure

\* ... and the end of the process.
LEMMA LossKeeps ==
    ASSUME CaTypeOK, CaSound, LoseProcess
    PROVE  CaTypeOK' /\ CaSound'
  BY CaAssumption DEF CaTypeOK, CaSound, MadeIsACa, FilesFollowStep, ToldIsFiled, BundleIsFiled, Ready,
                      LoseProcess, Contents

\* The application starts with the invariant established.
LEMMA InitIInv == Init => IInv
  <1> SUFFICES ASSUME Init PROVE IInv
    OBVIOUS
  <1> USE DEF Init, CaInit
  <1>1. CaTypeOK
    <2>1. made \in 0..MaxCas
      BY CaAssumption
    <2> QED BY <2>1 DEF CaTypeOK, Contents
  <1>2. TypeOK
    <2>1. carried \in [Tunnels -> 0..MaxBytes]
      BY TunnelAssumption
    <2> QED BY <1>1, <2>1 DEF TypeOK, Jobs
  <1> USE CaAssumption, TunnelAssumption
  <1>3. CaSound
    BY DEF CaSound, MadeIsACa, FilesFollowStep, ToldIsFiled, BundleIsFiled, Ready
  <1>4. RecordedFirst /\ TunnelsAreRecorded
    BY DEF RecordedFirst, TunnelsAreRecorded
  <1>5. SwitchWasChosen /\ DecryptionWasChosen
    BY DEF Modes, SwitchWasChosen, DecryptionWasChosen
  <1> QED BY <1>2, <1>3, <1>4, <1>5 DEF IInv

\* Only the desktop's commands and the end of the process touch the CA.
LEMMA TunnelsKeepCa ==
    ASSUME NEW x \in Tunnels,
           Receive(x) \/ RejectTarget(x) \/ Hangup(x) \/ Handler(x) \/ Task(x)
    PROVE  UNCHANGED mitm
  <1> USE DEF mitm
  <1>1. CASE Receive(x) \/ RejectTarget(x) \/ Hangup(x)
    BY <1>1 DEF Receive, RejectTarget, Hangup
  <1>2. CASE Handler(x)
    BY <1>2 DEF Handler, Acquire, Decide, Store, StoreFails, Announce, Reply
  <1>3. CASE Task(x)
    BY <1>3 DEF Task, Upgraded, UpgradeFails, Connect, Carry, Resolve, Certify, Uncertified, End
  <1> QED BY <1>1, <1>2, <1>3

\* The CA stays sound through every step.
LEMMA CaStep ==
    ASSUME IInv, [Next]_vars
    PROVE  CaTypeOK' /\ CaSound'
  <1> USE DEF IInv, TypeOK
  <1>1. CASE UNCHANGED caVars
    BY <1>1 DEF caVars, CaTypeOK, CaSound, MadeIsACa, FilesFollowStep, ToldIsFiled,
               BundleIsFiled, Ready
  <1>2. CASE DesktopLocks
    <2>1. CASE Ensure
      BY <1>2, <2>1, CallKeeps DEF DesktopLocks
    <2>2. CASE UNCHANGED step
      BY <1>1, <1>2, <2>2 DEF DesktopLocks, caVars
    <2> QED BY <1>2, <2>1, <2>2 DEF DesktopLocks
  <1>3. CASE DesktopEnsures
    BY <1>3, EnsureKeeps DEF DesktopEnsures
  <1>4. CASE DesktopUnlocks
    BY <1>1, <1>4 DEF DesktopUnlocks
  <1>5. CASE Restart
    BY <1>5, LossKeeps DEF Restart
  <1>6. CASE \E x \in Tunnels : Receive(x) \/ RejectTarget(x) \/ Hangup(x) \/ Handler(x) \/ Task(x)
    BY <1>1, <1>6, TunnelsKeepCa DEF mitm
  <1>7. CASE UNCHANGED vars
    BY <1>1, <1>7 DEF vars
  <1> QED BY <1>2, <1>3, <1>4, <1>5, <1>6, <1>7 DEF Next

\* Every step keeps the types.
LEMMA TypeStep ==
    ASSUME IInv, [Next]_vars
    PROVE  TypeOK'
  <1> USE CaStep, TunnelAssumption DEF IInv, mitm
  <1>1. CASE UNCHANGED vars
    BY <1>1 DEF vars, TypeOK
  <1>2. CASE DesktopLocks
    BY <1>2 DEF DesktopLocks, tunnels, TypeOK
  <1>3. CASE DesktopEnsures
    BY <1>3 DEF DesktopEnsures, tunnels, TypeOK
  <1>4. CASE DesktopUnlocks
    BY <1>4 DEF DesktopUnlocks, Effect, tunnels, TypeOK
  <1>5. CASE Restart
    BY <1>5 DEF Restart, TypeOK
  <1>6. ASSUME NEW x \in Tunnels, Receive(x)
        PROVE  TypeOK'
    BY <1>6 DEF Receive, Goto, TypeOK
  <1>7. ASSUME NEW x \in Tunnels, RejectTarget(x)
        PROVE  TypeOK'
    BY <1>7 DEF RejectTarget, Goto, TypeOK
  <1>8. ASSUME NEW x \in Tunnels, Hangup(x)
        PROVE  TypeOK'
    BY <1>8 DEF Hangup, Goto, TypeOK
  <1>9. ASSUME NEW x \in Tunnels, Acquire(x)
        PROVE  TypeOK'
    BY <1>9 DEF Acquire, Goto, TypeOK
  <1>10. ASSUME NEW x \in Tunnels, Decide(x)
        PROVE  TypeOK'
    BY <1>10 DEF Decide, Goto, TaskGoto, Mode, Modes, UseMitm, TypeOK
  <1>11. ASSUME NEW x \in Tunnels, Store(x)
        PROVE  TypeOK'
    BY <1>11 DEF Store, Goto, TypeOK
  <1>12. ASSUME NEW x \in Tunnels, StoreFails(x)
        PROVE  TypeOK'
    BY <1>12 DEF StoreFails, Goto, TypeOK
  <1>13. ASSUME NEW x \in Tunnels, Announce(x)
        PROVE  TypeOK'
    BY <1>13 DEF Announce, Goto, TypeOK
  <1>14. ASSUME NEW x \in Tunnels, Reply(x)
        PROVE  TypeOK'
    BY <1>14 DEF Reply, Goto, TypeOK
  <1>15. ASSUME NEW x \in Tunnels, Upgraded(x)
        PROVE  TypeOK'
    BY <1>15 DEF Upgraded, MayStart, TaskGoto, TypeOK
  <1>16. ASSUME NEW x \in Tunnels, UpgradeFails(x)
        PROVE  TypeOK'
    BY <1>16 DEF UpgradeFails, TaskGoto, TypeOK
  <1>17. ASSUME NEW x \in Tunnels, Connect(x)
        PROVE  TypeOK'
    BY <1>17 DEF Connect, TaskGoto, TypeOK
  <1>18. ASSUME NEW x \in Tunnels, Carry(x)
        PROVE  TypeOK'
    BY <1>18 DEF Carry, TypeOK
  <1>19. ASSUME NEW x \in Tunnels, Resolve(x)
        PROVE  TypeOK'
    BY <1>19 DEF Resolve, TaskGoto, TypeOK
  <1>20. ASSUME NEW x \in Tunnels, Certify(x)
        PROVE  TypeOK'
    BY <1>20 DEF Certify, TaskGoto, TypeOK
  <1>21. ASSUME NEW x \in Tunnels, Uncertified(x)
        PROVE  TypeOK'
    BY <1>21 DEF Uncertified, TaskGoto, TypeOK
  <1>22. ASSUME NEW x \in Tunnels, End(x)
        PROVE  TypeOK'
    BY <1>22 DEF End, TypeOK
  <1> QED
    BY <1>1, <1>2, <1>3, <1>4, <1>5, <1>6, <1>7, <1>8, <1>9, <1>10, <1>11, <1>12, <1>13, <1>14, <1>15, <1>16, <1>17, <1>18, <1>19, <1>20, <1>21, <1>22 DEF Next, Handler, Task

\* A tunnel is recorded and announced before its task gets it.
LEMMA RecordStep ==
    ASSUME IInv, [Next]_vars
    PROVE  (RecordedFirst /\ TunnelsAreRecorded)'
  <1> USE TunnelAssumption DEF IInv, mitm
  <1>1. CASE UNCHANGED vars
    BY <1>1 DEF vars, RecordedFirst, TunnelsAreRecorded, TypeOK
  <1>2. CASE DesktopLocks
    BY <1>2 DEF DesktopLocks, tunnels, RecordedFirst, TunnelsAreRecorded
  <1>3. CASE DesktopEnsures
    BY <1>3 DEF DesktopEnsures, tunnels, RecordedFirst, TunnelsAreRecorded
  <1>4. CASE DesktopUnlocks
    BY <1>4 DEF DesktopUnlocks, tunnels, RecordedFirst, TunnelsAreRecorded
  <1>5. CASE Restart
    BY <1>5 DEF Restart, RecordedFirst, TunnelsAreRecorded, TypeOK
  <1>6. ASSUME NEW x \in Tunnels, Receive(x)
        PROVE  (RecordedFirst /\ TunnelsAreRecorded)'
    BY <1>6 DEF Receive, Goto, RecordedFirst, TunnelsAreRecorded, TypeOK
  <1>7. ASSUME NEW x \in Tunnels, RejectTarget(x)
        PROVE  (RecordedFirst /\ TunnelsAreRecorded)'
    BY <1>7 DEF RejectTarget, Goto, RecordedFirst, TunnelsAreRecorded, TypeOK
  <1>8. ASSUME NEW x \in Tunnels, Hangup(x)
        PROVE  (RecordedFirst /\ TunnelsAreRecorded)'
    BY <1>8 DEF Hangup, Goto, RecordedFirst, TunnelsAreRecorded, TypeOK
  <1>9. ASSUME NEW x \in Tunnels, Acquire(x)
        PROVE  (RecordedFirst /\ TunnelsAreRecorded)'
    BY <1>9 DEF Acquire, Goto, RecordedFirst, TunnelsAreRecorded, TypeOK
  <1>10. ASSUME NEW x \in Tunnels, Decide(x)
        PROVE  (RecordedFirst /\ TunnelsAreRecorded)'
    BY <1>10 DEF Decide, Goto, TaskGoto, Mode, UseMitm, RecordedFirst, TunnelsAreRecorded, TypeOK
  <1>11. ASSUME NEW x \in Tunnels, Store(x)
        PROVE  (RecordedFirst /\ TunnelsAreRecorded)'
    BY <1>11 DEF Store, Goto, RecordedFirst, TunnelsAreRecorded, TypeOK
  <1>12. ASSUME NEW x \in Tunnels, StoreFails(x)
        PROVE  (RecordedFirst /\ TunnelsAreRecorded)'
    BY <1>12 DEF StoreFails, Goto, RecordedFirst, TunnelsAreRecorded, TypeOK
  <1>13. ASSUME NEW x \in Tunnels, Announce(x)
        PROVE  (RecordedFirst /\ TunnelsAreRecorded)'
    BY <1>13 DEF Announce, Goto, RecordedFirst, TunnelsAreRecorded, TypeOK
  <1>14. ASSUME NEW x \in Tunnels, Reply(x)
        PROVE  (RecordedFirst /\ TunnelsAreRecorded)'
    BY <1>14 DEF Reply, Goto, RecordedFirst, TunnelsAreRecorded, TypeOK
  <1>15. ASSUME NEW x \in Tunnels, Upgraded(x)
        PROVE  (RecordedFirst /\ TunnelsAreRecorded)'
    BY <1>15 DEF Upgraded, MayStart, TaskGoto, RecordedFirst, TunnelsAreRecorded, TypeOK
  <1>16. ASSUME NEW x \in Tunnels, UpgradeFails(x)
        PROVE  (RecordedFirst /\ TunnelsAreRecorded)'
    BY <1>16 DEF UpgradeFails, TaskGoto, RecordedFirst, TunnelsAreRecorded, TypeOK
  <1>17. ASSUME NEW x \in Tunnels, Connect(x)
        PROVE  (RecordedFirst /\ TunnelsAreRecorded)'
    BY <1>17 DEF Connect, TaskGoto, RecordedFirst, TunnelsAreRecorded, TypeOK
  <1>18. ASSUME NEW x \in Tunnels, Carry(x)
        PROVE  (RecordedFirst /\ TunnelsAreRecorded)'
    BY <1>18 DEF Carry, RecordedFirst, TunnelsAreRecorded, TypeOK
  <1>19. ASSUME NEW x \in Tunnels, Resolve(x)
        PROVE  (RecordedFirst /\ TunnelsAreRecorded)'
    BY <1>19 DEF Resolve, TaskGoto, RecordedFirst, TunnelsAreRecorded, TypeOK
  <1>20. ASSUME NEW x \in Tunnels, Certify(x)
        PROVE  (RecordedFirst /\ TunnelsAreRecorded)'
    BY <1>20 DEF Certify, TaskGoto, RecordedFirst, TunnelsAreRecorded, TypeOK
  <1>21. ASSUME NEW x \in Tunnels, Uncertified(x)
        PROVE  (RecordedFirst /\ TunnelsAreRecorded)'
    BY <1>21 DEF Uncertified, TaskGoto, RecordedFirst, TunnelsAreRecorded, TypeOK
  <1>22. ASSUME NEW x \in Tunnels, End(x)
        PROVE  (RecordedFirst /\ TunnelsAreRecorded)'
    BY <1>22 DEF End, RecordedFirst, TunnelsAreRecorded, TypeOK
  <1> QED
    BY <1>1, <1>2, <1>3, <1>4, <1>5, <1>6, <1>7, <1>8, <1>9, <1>10, <1>11, <1>12, <1>13, <1>14, <1>15, <1>16, <1>17, <1>18, <1>19, <1>20, <1>21, <1>22 DEF Next, Handler, Task

\* The switch goes on by the user and with a root CA, and only then is a tunnel decrypted.
LEMMA ChoiceStep ==
    ASSUME IInv, [Next]_vars
    PROVE  (SwitchWasChosen /\ DecryptionWasChosen)'
  <1> USE DEF IInv
  <1>1. CASE UNCHANGED vars
    BY <1>1 DEF vars, caVars, Ready, SwitchWasChosen, DecryptionWasChosen
  <1>2. CASE DesktopLocks
    BY <1>2 DEF DesktopLocks, tunnels, Ready, SwitchWasChosen, DecryptionWasChosen
  <1>3. CASE DesktopEnsures
    <2>1. Ready => Ready'
      BY <1>3, EnsureKeeps DEF DesktopEnsures, TypeOK
    <2> QED BY <1>3, <2>1 DEF DesktopEnsures, tunnels, SwitchWasChosen, DecryptionWasChosen
  <1>4. CASE DesktopUnlocks
    BY <1>4 DEF DesktopUnlocks, Effect, caVars, tunnels, Ready, SwitchWasChosen, DecryptionWasChosen
  <1>5. CASE Restart
    BY <1>5, TunnelAssumption DEF Restart, Modes, SwitchWasChosen, DecryptionWasChosen
  <1>6. ASSUME NEW x \in Tunnels, Receive(x)
        PROVE  (SwitchWasChosen /\ DecryptionWasChosen)'
    BY <1>6, TunnelsKeepCa DEF Receive, Handler, Task, mitm, caVars, Ready, SwitchWasChosen, DecryptionWasChosen
  <1>7. ASSUME NEW x \in Tunnels, RejectTarget(x)
        PROVE  (SwitchWasChosen /\ DecryptionWasChosen)'
    BY <1>7, TunnelsKeepCa DEF RejectTarget, Handler, Task, mitm, caVars, Ready, SwitchWasChosen, DecryptionWasChosen
  <1>8. ASSUME NEW x \in Tunnels, Hangup(x)
        PROVE  (SwitchWasChosen /\ DecryptionWasChosen)'
    BY <1>8, TunnelsKeepCa DEF Hangup, Handler, Task, mitm, caVars, Ready, SwitchWasChosen, DecryptionWasChosen
  <1>9. ASSUME NEW x \in Tunnels, Acquire(x)
        PROVE  (SwitchWasChosen /\ DecryptionWasChosen)'
    BY <1>9, TunnelsKeepCa DEF Acquire, Handler, Task, mitm, caVars, Ready, SwitchWasChosen, DecryptionWasChosen
  <1>10. ASSUME NEW x \in Tunnels, Decide(x)
        PROVE  (SwitchWasChosen /\ DecryptionWasChosen)'
    <2>1. UNCHANGED <<enabled, chosen, bundle>>
      BY <1>10 DEF Decide, mitm, caVars
    <2>2. \A y \in Tunnels : mode'[y] = "mitm" => mode[y] = "mitm" \/ UseMitm
      BY <1>10 DEF Decide, Mode, TypeOK
    <2> QED BY <2>1, <2>2 DEF UseMitm, Ready, SwitchWasChosen, DecryptionWasChosen
  <1>11. ASSUME NEW x \in Tunnels, Store(x)
        PROVE  (SwitchWasChosen /\ DecryptionWasChosen)'
    BY <1>11, TunnelsKeepCa DEF Store, Handler, Task, mitm, caVars, Ready, SwitchWasChosen, DecryptionWasChosen
  <1>12. ASSUME NEW x \in Tunnels, StoreFails(x)
        PROVE  (SwitchWasChosen /\ DecryptionWasChosen)'
    BY <1>12, TunnelsKeepCa DEF StoreFails, Handler, Task, mitm, caVars, Ready, SwitchWasChosen, DecryptionWasChosen
  <1>13. ASSUME NEW x \in Tunnels, Announce(x)
        PROVE  (SwitchWasChosen /\ DecryptionWasChosen)'
    BY <1>13, TunnelsKeepCa DEF Announce, Handler, Task, mitm, caVars, Ready, SwitchWasChosen, DecryptionWasChosen
  <1>14. ASSUME NEW x \in Tunnels, Reply(x)
        PROVE  (SwitchWasChosen /\ DecryptionWasChosen)'
    BY <1>14, TunnelsKeepCa DEF Reply, Handler, Task, mitm, caVars, Ready, SwitchWasChosen, DecryptionWasChosen
  <1>15. ASSUME NEW x \in Tunnels, Upgraded(x)
        PROVE  (SwitchWasChosen /\ DecryptionWasChosen)'
    BY <1>15, TunnelsKeepCa DEF Upgraded, Handler, Task, mitm, caVars, Ready, SwitchWasChosen, DecryptionWasChosen
  <1>16. ASSUME NEW x \in Tunnels, UpgradeFails(x)
        PROVE  (SwitchWasChosen /\ DecryptionWasChosen)'
    BY <1>16, TunnelsKeepCa DEF UpgradeFails, Handler, Task, mitm, caVars, Ready, SwitchWasChosen, DecryptionWasChosen
  <1>17. ASSUME NEW x \in Tunnels, Connect(x)
        PROVE  (SwitchWasChosen /\ DecryptionWasChosen)'
    BY <1>17, TunnelsKeepCa DEF Connect, Handler, Task, mitm, caVars, Ready, SwitchWasChosen, DecryptionWasChosen
  <1>18. ASSUME NEW x \in Tunnels, Carry(x)
        PROVE  (SwitchWasChosen /\ DecryptionWasChosen)'
    BY <1>18, TunnelsKeepCa DEF Carry, Handler, Task, mitm, caVars, Ready, SwitchWasChosen, DecryptionWasChosen
  <1>19. ASSUME NEW x \in Tunnels, Resolve(x)
        PROVE  (SwitchWasChosen /\ DecryptionWasChosen)'
    BY <1>19, TunnelsKeepCa DEF Resolve, Handler, Task, mitm, caVars, Ready, SwitchWasChosen, DecryptionWasChosen
  <1>20. ASSUME NEW x \in Tunnels, Certify(x)
        PROVE  (SwitchWasChosen /\ DecryptionWasChosen)'
    BY <1>20, TunnelsKeepCa DEF Certify, Handler, Task, mitm, caVars, Ready, SwitchWasChosen, DecryptionWasChosen
  <1>21. ASSUME NEW x \in Tunnels, Uncertified(x)
        PROVE  (SwitchWasChosen /\ DecryptionWasChosen)'
    BY <1>21, TunnelsKeepCa DEF Uncertified, Handler, Task, mitm, caVars, Ready, SwitchWasChosen, DecryptionWasChosen
  <1>22. ASSUME NEW x \in Tunnels, End(x)
        PROVE  (SwitchWasChosen /\ DecryptionWasChosen)'
    BY <1>22, TunnelsKeepCa DEF End, Handler, Task, mitm, caVars, Ready, SwitchWasChosen, DecryptionWasChosen
  <1> QED
    BY <1>1, <1>2, <1>3, <1>4, <1>5, <1>6, <1>7, <1>8, <1>9, <1>10, <1>11, <1>12, <1>13, <1>14, <1>15, <1>16, <1>17, <1>18, <1>19, <1>20, <1>21, <1>22 DEF Next, Handler, Task

\* IInv holds of every reachable state.
THEOREM InductiveInvariant == Spec => []IInv
  <1>1. IInv /\ [Next]_vars => IInv'
    BY TypeStep, CaStep, RecordStep, ChoiceStep DEF IInv
  <1> QED
    BY InitIInv, <1>1, PTL DEF Spec

\* The tunnels, the switch and the CA keep their type.
THEOREM TypeCorrect == Spec => []TypeOK
  <1>1. IInv => TypeOK
    BY DEF IInv
  <1> QED
    BY InductiveInvariant, <1>1, PTL

\* No tunnel dials or decrypts before its session is stored and announced.
THEOREM TunnelsAreRecordedAlways == Spec => []TunnelsAreRecorded
  <1>1. IInv => TunnelsAreRecorded
    BY DEF IInv
  <1> QED
    BY InductiveInvariant, <1>1, PTL

\* No tunnel is decrypted unless the user asked for it since the start.
THEOREM DecryptionWasChosenAlways == Spec => []DecryptionWasChosen
  <1>1. IInv => DecryptionWasChosen
    BY DEF IInv
  <1> QED
    BY InductiveInvariant, <1>1, PTL

\* A root CA that is ready can sign, whenever the process ended before.
THEOREM ReadyIsUsableAlways == Spec => []ReadyIsUsable
  <1>1. IInv => ReadyIsUsable
    BY CaAssumption DEF IInv, CaSound, FilesFollowStep, BundleIsFiled, ReadyIsUsable, Usable
  <1> QED
    BY InductiveInvariant, <1>1, PTL

\* The user is told of one root CA only, over any number of starts.
THEOREM CaIsKeptAlways == Spec => []CaIsKept
  <1>1. IInv => CaIsKept
    BY DEF IInv, CaSound, ToldIsFiled, CaIsKept
  <1> QED
    BY InductiveInvariant, <1>1, PTL
-----------------------------------------------------------------------------
Holds(x) == pc[x] = "holding" \/ task[x] = "certifying"

\* The https_mitm mutex is held by whoever is at a step that needs it, alone, and
\* by nobody who is not: no handler waits for a mutex that will not be released,
\* and no root CA is read, written or signed with by two at once.
MutexIsInUse ==
    /\ \A x \in Tunnels : Holds(x) => holder = x
    /\ holder \in Tunnels => Holds(holder)
    /\ step # "idle" => holder = Desktop

\* A tunnel has no task before its handler has decided.
TasksComeLater == \A x \in Tunnels : pc[x] \in {"idle", "deciding", "holding"} => task[x] = "none"

\* A step that needs no mutex is not one of its holder's.
LEMMA MutexFrame ==
    ASSUME TypeOK, MutexIsInUse, NEW x \in Tunnels, UNCHANGED <<holder, step>>, ~Holds(x), ~Holds(x)',
           \A y \in Tunnels \ {x} : pc'[y] = pc[y] /\ task'[y] = task[y]
    PROVE  MutexIsInUse'
  <1>1. \A y \in Tunnels : Holds(y)' <=> Holds(y)
    BY DEF Holds
  <1> QED BY <1>1 DEF MutexIsInUse

\* The mutex passes from nobody to one and back.
LEMMA MutexStep ==
    ASSUME TypeOK, MutexIsInUse, TasksComeLater, [Next]_vars
    PROVE  MutexIsInUse' /\ TasksComeLater'
  <1> USE TunnelAssumption DEF mitm, caVars
  <1>1. CASE UNCHANGED vars
    BY <1>1 DEF vars, MutexIsInUse, TasksComeLater, Holds
  <1>2. CASE DesktopLocks \/ DesktopEnsures \/ DesktopUnlocks
    <2>1. UNCHANGED <<pc, task>>
      BY <1>2 DEF DesktopLocks, DesktopEnsures, DesktopUnlocks, tunnels
    <2>2. \A x \in Tunnels : ~Holds(x)
      BY <1>2 DEF DesktopLocks, DesktopEnsures, DesktopUnlocks, MutexIsInUse
    <2>3. holder' \in {Desktop, None} /\ (step' # "idle" => holder' = Desktop)
      BY <1>2 DEF DesktopLocks, DesktopEnsures, DesktopUnlocks, MutexIsInUse
    <2> QED BY <2>1, <2>2, <2>3 DEF MutexIsInUse, TasksComeLater, Holds
  <1>3. CASE Restart
    BY <1>3 DEF Restart, LoseProcess, MutexIsInUse, TasksComeLater, Holds, TypeOK
  <1>4. ASSUME NEW x \in Tunnels,
               \/ Receive(x) \/ RejectTarget(x) \/ Hangup(x)
               \/ Store(x) \/ StoreFails(x) \/ Announce(x) \/ Reply(x)
        PROVE  MutexIsInUse' /\ TasksComeLater'
    <2>1. /\ UNCHANGED <<holder, step, task>> /\ pc[x] # "holding" /\ pc'[x] # "holding"
          /\ \A y \in Tunnels \ {x} : pc'[y] = pc[y]
          /\ pc'[x] = "deciding" => pc[x] = "idle"
      BY <1>4 DEF Receive, RejectTarget, Hangup, Store, StoreFails, Announce, Reply, Goto, TypeOK
    <2>2. TasksComeLater'
      BY <1>4, <2>1 DEF Receive, RejectTarget, Hangup, Store, StoreFails, Announce, Reply, Goto, TasksComeLater, TypeOK
    <2>3. CASE task[x] # "certifying"
      BY <2>1, <2>2, <2>3, MutexFrame DEF Holds
    <2>4. CASE task[x] = "certifying"
      <3>1. \A y \in Tunnels : Holds(y)' <=> Holds(y)
        BY <2>1, <2>4 DEF Holds
      <3> QED BY <2>1, <2>2, <3>1 DEF MutexIsInUse
    <2> QED BY <2>3, <2>4
  <1>5. ASSUME NEW x \in Tunnels, Acquire(x)
        PROVE  MutexIsInUse' /\ TasksComeLater'
    <2>1. /\ holder = None /\ holder' = x /\ UNCHANGED <<step, task>>
          /\ pc[x] = "deciding" /\ pc' = [pc EXCEPT ![x] = "holding"]
      BY <1>5 DEF Acquire, Goto
    <2>2. \A y \in Tunnels : ~Holds(y)
      BY <2>1 DEF MutexIsInUse
    <2>3. \A y \in Tunnels : Holds(y)' <=> y = x
      BY <2>1, <2>2 DEF Holds, TypeOK
    <2>4. TasksComeLater'
      BY <2>1 DEF TasksComeLater, TypeOK
    <2> QED BY <2>1, <2>3, <2>4 DEF MutexIsInUse
  <1>6. ASSUME NEW x \in Tunnels, Decide(x)
        PROVE  MutexIsInUse' /\ TasksComeLater'
    <2>1. /\ holder' = None /\ UNCHANGED step
          /\ pc[x] = "holding" /\ pc' = [pc EXCEPT ![x] = "storing"]
          /\ task' = [task EXCEPT ![x] = "upgrading"]
      BY <1>6 DEF Decide, Goto, TaskGoto
    <2>2. holder = x /\ \A y \in Tunnels \ {x} : ~Holds(y)
      BY <2>1 DEF MutexIsInUse, Holds
    <2>3. \A y \in Tunnels : ~Holds(y)'
      BY <2>1, <2>2 DEF Holds, TypeOK
    <2>4. TasksComeLater'
      BY <2>1 DEF TasksComeLater, TypeOK
    <2> QED BY <2>1, <2>2, <2>3, <2>4 DEF MutexIsInUse
  <1>7. ASSUME NEW x \in Tunnels,
               \/ Upgraded(x) \/ UpgradeFails(x) \/ Connect(x) \/ Carry(x) \/ Uncertified(x) \/ End(x)
        PROVE  MutexIsInUse' /\ TasksComeLater'
    <2>1. /\ UNCHANGED <<holder, step, pc>> /\ task[x] \notin {"none", "certifying"} /\ task'[x] # "certifying"
          /\ \A y \in Tunnels \ {x} : task'[y] = task[y]
      BY <1>7 DEF Upgraded, UpgradeFails, Connect, Carry, Uncertified, End, TaskGoto, TypeOK
    <2>2. pc[x] # "holding"
      BY <2>1 DEF TasksComeLater
    <2>3. TasksComeLater'
      BY <2>1 DEF TasksComeLater
    <2> QED BY <2>1, <2>2, <2>3, MutexFrame DEF Holds
  <1>8. ASSUME NEW x \in Tunnels, Resolve(x)
        PROVE  MutexIsInUse' /\ TasksComeLater'
    <2>1. /\ holder = None /\ holder' = x /\ UNCHANGED <<step, pc>>
          /\ task[x] = "handshaking" /\ task' = [task EXCEPT ![x] = "certifying"]
      BY <1>8 DEF Resolve, Resolvable, TaskGoto
    <2>2. \A y \in Tunnels : ~Holds(y)
      BY <2>1 DEF MutexIsInUse
    <2>3. \A y \in Tunnels : Holds(y)' <=> y = x
      BY <2>1, <2>2 DEF Holds, TypeOK
    <2>4. TasksComeLater'
      BY <2>1 DEF TasksComeLater, TypeOK
    <2> QED BY <2>1, <2>3, <2>4 DEF MutexIsInUse
  <1>9. ASSUME NEW x \in Tunnels, Certify(x)
        PROVE  MutexIsInUse' /\ TasksComeLater'
    <2>1. /\ holder' = None /\ UNCHANGED <<step, pc>> /\ task[x] = "certifying"
          /\ \E to \in {"serving", "ended"} : task' = [task EXCEPT ![x] = to]
      BY <1>9 DEF Certify, TaskGoto
    <2>2. holder = x /\ pc[x] # "holding" /\ \A y \in Tunnels \ {x} : ~Holds(y)
      BY <2>1 DEF MutexIsInUse, TasksComeLater, Holds
    <2>3. \A y \in Tunnels : ~Holds(y)'
      BY <2>1, <2>2 DEF Holds, TypeOK
    <2>4. TasksComeLater'
      BY <2>1 DEF TasksComeLater, TypeOK
    <2> QED BY <2>1, <2>2, <2>3, <2>4 DEF MutexIsInUse
  <1> QED
    BY <1>1, <1>2, <1>3, <1>4, <1>5, <1>6, <1>7, <1>8, <1>9 DEF Next, Handler, Task

\* Whatever fails, and whenever the process ends, the mutex is never left behind.
THEOREM MutexIsInUseAlways == Spec => []MutexIsInUse
  <1>1. Init => MutexIsInUse /\ TasksComeLater
    BY TunnelAssumption DEF Init, CaInit, MutexIsInUse, TasksComeLater, Holds
  <1> QED
    BY <1>1, MutexStep, TypeCorrect, PTL DEF Spec
=============================================================================
