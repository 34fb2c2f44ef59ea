------------------------ MODULE NetworkAttack_proofs ------------------------
(***************************************************************************)
(* Proofs about NetworkAttack, for all executions, settings and faults:    *)
(* the inductive invariant IInv, the properties it implies, that the       *)
(* module implements NetworkSlot, with AgentInv that what the agent        *)
(* believes of an execution agrees with the list and the policies, and     *)
(* with EffectInv that executions which were stopped leave nothing behind. *)
(***************************************************************************)
EXTENDS NetworkAttack, SequenceTheorems, FiniteSetTheorems, TLAPS

\* On a list of equal entries, popActiveFw drops one entry if they are the one it
\* looks for, and leaves the list alone otherwise.
LEMMA PopOfEquals ==
  ASSUME NEW S, NEW s \in Seq(S), NEW x, \A i \in DOMAIN s : s[i] = s[1]
  PROVE  \/ /\ s # <<>> /\ s[1] = x
            /\ PopFirst(s, x) \in Seq(S)
            /\ Len(PopFirst(s, x)) = Len(s) - 1
            /\ \A i \in 1 .. Len(s) - 1 : PopFirst(s, x)[i] = x
         \/ /\ s = <<>> \/ s[1] # x
            /\ PopFirst(s, x) = s
<1>1. /\ Len(s) \in Nat
      /\ DOMAIN s = 1 .. Len(s)
      /\ \A i \in 1 .. Len(s) : s[i] \in S
      /\ s = <<>> <=> Len(s) = 0
  BY LenProperties, EmptySeq
<1> DEFINE hits == {i \in DOMAIN s : s[i] = x}
<1>2. CASE s # <<>> /\ s[1] = x
  <2> DEFINE right == SubSeq(s, 2, Len(s))
  <2>1. Min(hits) = 1 /\ 1 \in hits
    BY <1>1, <1>2 DEF Min
  <2>2. PopFirst(s, x) = SubSeq(s, 1, 0) \o right
    <3>1. PopFirst(s, x) = RemoveAt(s, Min(hits))
      BY <2>1 DEF PopFirst
    <3>2. RemoveAt(s, 1) = SubSeq(s, 1, 0) \o right
      BY DEF RemoveAt
    <3>3. QED
      BY <2>1, <3>1, <3>2
  <2>3. right \in Seq(S) /\ Len(right) = Len(s) - 1 /\ \A i \in 1 .. Len(s) - 1 : right[i] = s[i + 1]
    <3>1. \A i \in 2 .. Len(s) : s[i] \in S
      BY <1>1
    <3>2. /\ right \in Seq(S)
          /\ Len(right) = IF 2 <= Len(s) THEN Len(s) - 2 + 1 ELSE 0
          /\ \A i \in 1 .. Len(s) - 2 + 1 : right[i] = s[2 + i - 1]
      BY <1>1, <3>1, SubSeqProperties
    <3>3. QED
      BY <1>1, <1>2, <3>2
  <2>4. SubSeq(s, 1, 0) \o right = right
    BY <2>3, SubSeqEmpty, ConcatEmptySeq
  <2>5. PopFirst(s, x) = right
    BY <2>2, <2>4
  <2>6. \A i \in 1 .. Len(s) - 1 : right[i] = x
    BY <1>1, <1>2, <2>3
  <2> HIDE DEF right
  <2>7. QED
    BY <1>2, <2>3, <2>5, <2>6
<1>3. CASE s = <<>> \/ s[1] # x
  <2>1. hits = {}
    BY <1>1, <1>3
  <2>2. QED
    BY <1>3, <2>1 DEF PopFirst
<1>4. QED
  BY <1>2, <1>3

\* The names a script's commands use are names of policies.
LEMMA NextPolicyIsAPolicy ==
  ASSUME NEW h \in Handler, script[h] \in 1 .. Opts[h[1]].n
  PROVE  NextPolicy(h) \in AllPolicies
<1>1. h[1] \in Exec /\ Opts[h[1]].n - script[h] \in 0 .. Opts[h[1]].n - 1
  BY OptsAssumption DEF Handler
<1>2. QED
  BY <1>1 DEF NextPolicy, QoSCommands, Policy, Policies, AllPolicies

\* What a handler's settings are.
LEMMA HandlerFacts ==
  ASSUME NEW h \in Handler
  PROVE  /\ h[1] \in Exec /\ h[2] \in {"add", "del"}
         /\ Opts[h[1]].n \in Nat /\ Opts[h[1]].str \in Keys
BY OptsAssumption DEF Handler, Keys

\* Counting a fault keeps the count of faults one.
LEMMA InjectTyped ==
  ASSUME NEW kind, Inject(kind), faults \in [FaultKinds -> Nat]
  PROVE  faults' \in [FaultKinds -> Nat]
<1>1. faults' = [faults EXCEPT ![kind] = faults[kind] + 1]
  BY DEF Inject
<1>2. kind \in FaultKinds
  BY FaultsAssumption DEF Inject
<1>3. QED
  BY <1>1, <1>2

\* The end of the process keeps the invariant, whatever becomes of the scripts,
\* PowerShells and drivers it leaves behind.
LEMMA EndKeepsInvariant ==
  ASSUME IInv, MemoryLost,
         \/ UNCHANGED <<qosVars, winDivertVars>>
         \/ /\ script' = [h \in Handler |-> 0] /\ pending' = [h \in Handler |-> 0]
            /\ wdna' = {} /\ svc' = FALSE /\ UNCHANGED policies,
         faults' \in [FaultKinds -> Nat]
  PROVE  IInv'
<1> USE OwnerAssumption, HandlerFacts DEF qosVars, winDivertVars
<1>1. TypeOK'
  <2>1. activeFw' \in Seq(Keys)
    BY EmptySeq DEF MemoryLost
  <2>2. agent' \in [Exec -> {"prepared", "starting", "running", "failed", "stopping",
                             "stopped"}]
    BY DEF MemoryLost, IInv, TypeOK
  <2>3. pc' \in [Handler -> {"idle"}] /\ failed' \in [Handler -> BOOLEAN] /\ up' \in BOOLEAN
    BY DEF MemoryLost
  <2>4. script' \in [Handler -> Nat] /\ policies' \subseteq AllPolicies
    BY DEF IInv, TypeOK
  <2>5. pending' \in [Handler -> Nat] /\ wdna' \subseteq Exec
    BY DEF IInv, TypeOK
  <2>6. svc' \in BOOLEAN
    BY Zenon DEF IInv, TypeOK
  <2>7. QED
    BY <2>1, <2>2, <2>3, <2>4, <2>5, <2>6 DEF MemoryLost, IInv, TypeOK
<1>2. OneSettingAtATime'
  BY DEF MemoryLost, OneSettingAtATime
<1>3. LockInv'
  BY DEF MemoryLost, LockInv, Critical
<1>4. ScriptInv'
  BY DEF MemoryLost, IInv, TypeOK, ScriptInv
<1>5. CleanerInv'
  BY DEF MemoryLost, CleanerInv
<1>6. QED
  BY <1>1, <1>2, <1>3, <1>4, <1>5 DEF IInv

LEMMA InitInvariant == Init => IInv
<1> SUFFICES ASSUME Init PROVE IInv
  OBVIOUS
<1>1. TypeOK
  BY EmptySeq DEF Init, TypeOK
<1>2. QED
  BY <1>1, OwnerAssumption, OptsAssumption
  DEF Init, IInv, OneSettingAtATime, LockInv, Critical, ScriptInv, CleanerInv, Handler

LEMMA StepInvariant == IInv /\ [Next]_vars => IInv'
<1> SUFFICES ASSUME IInv, [Next]_vars PROVE IInv'
  OBVIOUS
<1> USE OwnerAssumption, HandlerFacts, InjectTyped DEF handlerVars, qosVars, winDivertVars, cleanerVars
<1>1. ASSUME NEW e \in Exec, StartCall(e) PROVE IInv'
  BY <1>1 DEF StartCall, Call, Handler, IInv, TypeOK, OneSettingAtATime, LockInv, Critical, ScriptInv, CleanerInv
<1>2. ASSUME NEW e \in Exec, FilterFileFails(e) PROVE IInv'
  BY <1>2 DEF FilterFileFails, IInv, TypeOK, OneSettingAtATime, LockInv, Critical, ScriptInv, CleanerInv
<1>3. ASSUME NEW e \in Exec, StopCall(e) PROVE IInv'
  BY <1>3 DEF StopCall, Call, Handler, IInv, TypeOK, OneSettingAtATime, LockInv, Critical, ScriptInv, CleanerInv
<1>4. ASSUME NEW e \in Exec, WdnaExpires(e) PROVE IInv'
  BY <1>4 DEF WdnaExpires, IInv, TypeOK, OneSettingAtATime, LockInv, Critical, ScriptInv, CleanerInv
<1>5. ASSUME NEW h \in Handler, GiveUp(h) PROVE IInv'
  BY <1>5 DEF GiveUp, IInv, TypeOK, OneSettingAtATime, LockInv, Critical, ScriptInv, CleanerInv
<1>6. ASSUME NEW h \in Handler, TakeLock(h) PROVE IInv'
  <2> DEFINE key == Opts[h[1]].str
             refused == h[2] = "add" /\ Refused(key)
  <2>1. /\ pc[h] = "lock" /\ lock = Free /\ lock' = h
        /\ UNCHANGED <<agent, cancelled, qosVars, winDivertVars, cleanerVars, up, faults>>
    BY <1>6 DEF TakeLock
  <2>2. pc' = [pc EXCEPT ![h] = "finish"] \/ pc' = [pc EXCEPT ![h] = "qos"]
    BY <1>6 DEF TakeLock
  <2>3. failed' = [failed EXCEPT ![h] = refused] /\ refused \in BOOLEAN
    BY <1>6 DEF TakeLock, Refused
  <2>4. /\ activeFw' \in Seq(Keys)
        /\ \A i, j \in DOMAIN activeFw' : activeFw'[i] = activeFw'[j]
    <3>1. CASE h[2] = "add" /\ ~refused
      <4>1. /\ activeFw' = Append(activeFw, key)
            /\ \A i \in DOMAIN activeFw : activeFw[i] = key
        BY <1>6, <3>1 DEF TakeLock, Refused
      <4>2. activeFw \in Seq(Keys) /\ key \in Keys
        BY DEF IInv, TypeOK
      <4>3. QED
        BY <4>1, <4>2, AppendProperties, LenProperties
    <3>2. CASE ~(h[2] = "add" /\ ~refused)
      BY <1>6, <3>2 DEF TakeLock, IInv, TypeOK, OneSettingAtATime
    <3>3. QED
      BY <3>1, <3>2
  <2> HIDE DEF key, refused
  <2>5. TypeOK' /\ OneSettingAtATime'
    <3>1. overtaken' \subseteq Exec
      BY <1>6 DEF TakeLock, IInv, TypeOK
    <3>2. QED
      BY <2>1, <2>2, <2>3, <2>4, <3>1 DEF IInv, TypeOK, OneSettingAtATime
  <2>6. LockInv'
    BY <2>1, <2>2 DEF IInv, TypeOK, LockInv, Critical
  <2>7. ScriptInv'
    BY <2>1, <2>2 DEF IInv, TypeOK, ScriptInv
  <2>8. CleanerInv'
    BY <2>1 DEF IInv, LockInv, CleanerInv
  <2>9. QED
    BY <2>5, <2>6, <2>7, <2>8 DEF IInv
<1>7. ASSUME NEW h \in Handler, RunQoS(h) PROVE IInv'
  <2>1. TypeOK'
    BY <1>7 DEF RunQoS, QoSCommands, IInv, TypeOK
  <2>2. OneSettingAtATime'
    BY <1>7 DEF RunQoS, QoSCommands, IInv, TypeOK, OneSettingAtATime
  <2>3. LockInv'
    BY <1>7 DEF RunQoS, QoSCommands, IInv, TypeOK, LockInv, Critical
  <2>4. ScriptInv'
    <3>1. \/ script' = script /\ pc[h] = "qos"
          \/ script' = [script EXCEPT ![h] = Opts[h[1]].n] /\ pc' = [pc EXCEPT ![h] = "qosrun"]
      BY <1>7 DEF RunQoS, QoSCommands
    <3>2. /\ pc \in [Handler -> {"idle", "lock"} \cup Critical] /\ script \in [Handler -> Nat]
          /\ up' = up /\ \A g \in Handler \ {h} : pc'[g] = pc[g]
      BY <1>7 DEF RunQoS, IInv, TypeOK, Critical
    <3>3. QED
      BY <3>1, <3>2 DEF IInv, ScriptInv
  <2>5. CleanerInv'
    BY <1>7 DEF RunQoS, QoSCommands, IInv, TypeOK, CleanerInv
  <2>6. QED
    BY <2>1, <2>2, <2>3, <2>4, <2>5 DEF IInv
<1>8. ASSUME NEW h \in Handler, QoSCommand(h) PROVE IInv'
  <2>1. TypeOK'
    <3>1. script' \in [Handler -> Nat]
      BY <1>8 DEF QoSCommand, IInv, TypeOK
    <3>2. policies' \subseteq AllPolicies
      BY <1>8, NextPolicyIsAPolicy DEF QoSCommand, IInv, TypeOK, ScriptInv
    <3>3. failed' \in [Handler -> BOOLEAN]
      BY <1>8, ZenonT(30) DEF QoSCommand, IInv, TypeOK
    <3>4. faults' \in [FaultKinds -> Nat]
      BY <1>8 DEF QoSCommand, IInv, TypeOK
    <3>5. QED
      BY <1>8, <3>1, <3>2, <3>3, <3>4 DEF QoSCommand, IInv, TypeOK
  <2>2. OneSettingAtATime'
    BY <1>8 DEF QoSCommand, IInv, TypeOK, OneSettingAtATime
  <2>3. LockInv'
    BY <1>8 DEF QoSCommand, IInv, TypeOK, LockInv, Critical
  <2>4. ScriptInv'
    BY <1>8 DEF QoSCommand, IInv, TypeOK, ScriptInv
  <2>5. CleanerInv'
    BY <1>8 DEF QoSCommand, IInv, TypeOK, CleanerInv
  <2>6. QED
    BY <2>1, <2>2, <2>3, <2>4, <2>5 DEF IInv
<1>9. ASSUME NEW h \in Handler, KillQoS(h) PROVE IInv'
  BY <1>9 DEF KillQoS, IInv, TypeOK, OneSettingAtATime, LockInv, Critical, ScriptInv, CleanerInv
<1>10. ASSUME NEW h \in Handler, QoSReturns(h) PROVE IInv'
  BY <1>10 DEF QoSReturns, IInv, TypeOK, OneSettingAtATime, LockInv, Critical, ScriptInv, CleanerInv
<1>11. ASSUME NEW h \in Handler, RunWinDivert(h) PROVE IInv'
  <2>1. TypeOK'
    <3>1. /\ pending' = pending \/ pending' = [pending EXCEPT ![h] = pending[h] + 1]
          /\ failed' = failed \/ failed' = [failed EXCEPT ![h] = TRUE]
          /\ pc' = [pc EXCEPT ![h] = "await"] \/ pc' = [pc EXCEPT ![h] = "finish"]
          /\ UNCHANGED <<agent, cancelled, lock, activeFw, script, policies, wdna, svc,
                         cleaner, todo, up, overtaken>>
      BY <1>11 DEF RunWinDivert
    <3>2. pending \in [Handler -> Nat]
      BY DEF IInv, TypeOK
    <3>3. pending' \in [Handler -> Nat]
      BY <3>1, <3>2
    <3>4. failed' \in [Handler -> BOOLEAN]
      BY <3>1 DEF IInv, TypeOK
    <3>5. TypeOK
      BY DEF IInv
    <3>6. pc' \in [Handler -> {"idle", "lock"} \cup Critical]
      BY <3>1, <3>5 DEF TypeOK, Critical
    <3>7. faults' \in [FaultKinds -> Nat]
      BY <1>11, <3>5 DEF RunWinDivert, TypeOK
    <3>8. QED
      BY <3>1, <3>3, <3>4, <3>5, <3>6, <3>7 DEF TypeOK, Critical
  <2>2. OneSettingAtATime'
    BY <1>11 DEF RunWinDivert, IInv, TypeOK, OneSettingAtATime
  <2>3. LockInv'
    BY <1>11 DEF RunWinDivert, IInv, TypeOK, LockInv, Critical
  <2>4. ScriptInv'
    BY <1>11 DEF RunWinDivert, IInv, TypeOK, ScriptInv
  <2>5. CleanerInv'
    BY <1>11 DEF RunWinDivert, IInv, TypeOK, CleanerInv
  <2>6. QED
    BY <2>1, <2>2, <2>3, <2>4, <2>5 DEF IInv
<1>12. ASSUME NEW h \in Handler, AwaitService(h) PROVE IInv'
  <2>1. TypeOK'
    <3>1. failed' \in [Handler -> BOOLEAN]
      BY <1>12 DEF AwaitService, IInv, TypeOK
    <3>2. faults' \in [FaultKinds -> Nat]
      BY <1>12 DEF AwaitService, IInv, TypeOK
    <3>3. QED
      BY <1>12, <3>1, <3>2 DEF AwaitService, IInv, TypeOK
  <2>2. OneSettingAtATime'
    BY <1>12 DEF AwaitService, IInv, TypeOK, OneSettingAtATime
  <2>3. LockInv'
    BY <1>12 DEF AwaitService, IInv, TypeOK, LockInv, Critical
  <2>4. ScriptInv'
    BY <1>12 DEF AwaitService, IInv, TypeOK, ScriptInv
  <2>5. CleanerInv'
    BY <1>12 DEF AwaitService, IInv, TypeOK, CleanerInv
  <2>6. QED
    BY <2>1, <2>2, <2>3, <2>4, <2>5 DEF IInv
<1>13. ASSUME NEW h \in Handler, Finish(h) PROVE IInv'
  <2>1. /\ activeFw' \in Seq(Keys)
        /\ \A i, j \in DOMAIN activeFw' : activeFw'[i] = activeFw'[j]
    <3>1. activeFw' = activeFw \/ activeFw' = PopFirst(activeFw, Opts[h[1]].str)
      BY <1>13 DEF Finish, Unlocked, Popped
    <3>2. activeFw \in Seq(Keys) /\ \A i \in DOMAIN activeFw : activeFw[i] = activeFw[1]
      BY LenProperties DEF IInv, TypeOK, OneSettingAtATime
    <3>3. QED
      BY <3>1, <3>2, PopOfEquals, LenProperties DEF IInv, OneSettingAtATime
  <2>2. agent' \in [Exec -> {"prepared", "starting", "running", "failed", "stopping",
                             "stopped"}]
    BY <1>13 DEF Finish, Unlocked, Answer, IInv, TypeOK
  <2>3. TypeOK' /\ OneSettingAtATime'
    BY <1>13, <2>1, <2>2 DEF Finish, Unlocked, IInv, TypeOK, OneSettingAtATime
  <2>4. lock = h
    BY <1>13 DEF Finish, Unlocked, IInv, LockInv, Critical
  <2>5. LockInv'
    BY <1>13, <2>4 DEF Finish, Unlocked, IInv, TypeOK, LockInv, Critical
  <2>6. ScriptInv'
    BY <1>13 DEF Finish, Unlocked, IInv, TypeOK, ScriptInv
  <2>7. CleanerInv'
    BY <1>13, <2>4 DEF Finish, Unlocked, IInv, LockInv, CleanerInv
  <2>8. QED
    BY <2>3, <2>5, <2>6, <2>7 DEF IInv
<1>14. ASSUME NEW h \in Handler, PowershellRuns(h) PROVE IInv'
  <2>1. TypeOK'
    <3>1. pending' \in [Handler -> Nat]
      BY <1>14 DEF PowershellRuns, IInv, TypeOK
    <3>2. wdna' \subseteq Exec
      <4>1. wdna' \in {wdna, wdna \cup {h[1]}, {}}
        BY <1>14 DEF PowershellRuns
      <4>2. h[1] \in Exec /\ wdna \subseteq Exec
        BY HandlerFacts DEF IInv, TypeOK
      <4>3. QED
        BY <4>1, <4>2
    <3>3. svc' \in BOOLEAN
      BY <1>14, Zenon DEF PowershellRuns, IInv, TypeOK
    <3>4. faults' \in [FaultKinds -> Nat]
      BY <1>14 DEF PowershellRuns, IInv, TypeOK
    <3>5. QED
      BY <1>14, <3>1, <3>2, <3>3, <3>4 DEF PowershellRuns, IInv, TypeOK
  <2>2. OneSettingAtATime'
    BY <1>14 DEF PowershellRuns, IInv, TypeOK, OneSettingAtATime
  <2>3. LockInv'
    BY <1>14 DEF PowershellRuns, IInv, TypeOK, LockInv, Critical
  <2>4. ScriptInv'
    BY <1>14 DEF PowershellRuns, IInv, TypeOK, ScriptInv
  <2>5. CleanerInv'
    BY <1>14 DEF PowershellRuns, IInv, TypeOK, CleanerInv
  <2>6. QED
    BY <2>1, <2>2, <2>3, <2>4, <2>5 DEF IInv
<1>15. CASE Tick
  BY <1>15 DEF Tick, IInv, TypeOK, OneSettingAtATime, LockInv, Critical, ScriptInv, CleanerInv
<1>16. CASE CleanerRemoves
  BY <1>16 DEF CleanerRemoves, IInv, TypeOK, OneSettingAtATime, LockInv, Critical, ScriptInv, CleanerInv
<1>17. CASE CleanerUnlocks
  BY <1>17 DEF CleanerUnlocks, IInv, TypeOK, OneSettingAtATime, LockInv, Critical, ScriptInv, CleanerInv
<1>18. CASE CleanerTakesLock
  <2>1. TypeOK'
    BY <1>18 DEF CleanerTakesLock, CleanerMayRun, Leftovers, IInv, TypeOK
  <2>2. OneSettingAtATime'
    BY <1>18 DEF CleanerTakesLock, CleanerMayRun, Leftovers, IInv, TypeOK, OneSettingAtATime
  <2>3. LockInv'
    BY <1>18 DEF CleanerTakesLock, CleanerMayRun, Leftovers, IInv, TypeOK, LockInv, Critical
  <2>4. ScriptInv'
    BY <1>18 DEF CleanerTakesLock, CleanerMayRun, Leftovers, IInv, TypeOK, ScriptInv
  <2>5. CleanerInv'
    BY <1>18 DEF CleanerTakesLock, CleanerMayRun, Leftovers, IInv, TypeOK, CleanerInv
  <2>6. QED
    BY <2>1, <2>2, <2>3, <2>4, <2>5 DEF IInv
<1>19. CASE Crash
  <2>1. faults' \in [FaultKinds -> Nat]
    BY <1>19 DEF Crash, IInv, TypeOK
  <2>2. QED
    BY <1>19, <2>1, EndKeepsInvariant DEF Crash
<1>20. CASE Restart
  BY <1>20 DEF Restart, IInv, TypeOK, OneSettingAtATime, LockInv, Critical, ScriptInv, CleanerInv
<1>21. CASE UNCHANGED vars
  BY <1>21 DEF vars, IInv, TypeOK, OneSettingAtATime, LockInv, Critical, ScriptInv, CleanerInv
<1>22. QED
  BY <1>1, <1>2, <1>3, <1>4, <1>5, <1>6, <1>7, <1>8, <1>9, <1>10, <1>11, <1>12, <1>13,
     <1>14, <1>15, <1>16, <1>17, <1>18, <1>19, <1>20, <1>21
  DEF Next, AgentCall, Work, HandlerStep, CleanerStep

\* Every reachable state satisfies the inductive invariant: runLock excludes, the
\* orphans of a crash are the only scripts outside it, the cleanup has work only while
\* no attack is active.
THEOREM Invariance == Spec => []IInv
BY InitInvariant, StepInvariant, PTL DEF Spec

\* Every variable keeps its type.
THEOREM TypeCorrect == Spec => []TypeOK
<1>1. IInv => TypeOK
  BY DEF IInv
<1>2. QED
  BY <1>1, Invariance, PTL

\* Attacks with different settings are never active together (pushActiveFw).
THEOREM OneSetting == Spec => []OneSettingAtATime
<1>1. IInv => OneSettingAtATime
  BY DEF IInv
<1>2. QED
  BY <1>1, Invariance, PTL

\* The inductive invariant leaves the cleanup no work beside an attack or a handler.
LEMMA CleanupAlone == IInv => CleanupRunsAlone
<1> SUFFICES ASSUME IInv, todo # {} PROVE CleanupRunsAlone
  BY DEF CleanupRunsAlone
<1>1. cleaner = "remove" /\ lock = Cleaner /\ up /\ activeFw = <<>>
  BY DEF IInv, CleanerInv, LockInv, TypeOK
<1>2. ASSUME NEW h \in Handler PROVE pc[h] \in {"idle", "lock"} /\ script[h] = 0
  <2>1. pc[h] \notin Critical
    BY <1>1, OwnerAssumption DEF IInv, LockInv
  <2>2. QED
    BY <1>1, <2>1 DEF IInv, TypeOK, ScriptInv, Critical
<1>3. QED
  BY <1>1, <1>2 DEF CleanupRunsAlone

\* CleanupQosPolicies removes policies only while no attack is active, no handler is
\* in its critical section and no script runs.
THEOREM CleanupSafe == Spec => []CleanupRunsAlone
BY CleanupAlone, Invariance, PTL

\* A step that leaves the list and the cleanup's work alone does not move the slot.
LEMMA SlotStutters ==
  UNCHANGED <<activeFw, todo, up>> => UNCHANGED Slot!slotVars
BY DEF Slot!slotVars

\* The end of the process frees the slot.
LEMMA EndResets == MemoryLost => Slot!Reset
BY EmptySeq DEF MemoryLost, Slot!Reset

\* Every step of the handlers and the cleanup is a step of the slot or leaves it alone.
LEMMA SlotStep == IInv /\ [Next]_vars => [Slot!SlotNext]_(Slot!slotVars)
<1> SUFFICES ASSUME IInv, [Next]_vars PROVE [Slot!SlotNext]_(Slot!slotVars)
  OBVIOUS
<1> DEFINE holder == IF activeFw = <<>> THEN Free ELSE activeFw[1]
<1>0. /\ activeFw \in Seq(Keys) /\ Len(activeFw) \in Nat /\ DOMAIN activeFw = 1 .. Len(activeFw)
      /\ activeFw = <<>> <=> Len(activeFw) = 0
      /\ \A i \in DOMAIN activeFw : activeFw[i] = activeFw[1]
      /\ activeFw # <<>> => activeFw[1] \in Keys
  BY LenProperties, EmptySeq DEF IInv, TypeOK, OneSettingAtATime
<1>1. ASSUME NEW h \in Handler, TakeLock(h) PROVE [Slot!SlotNext]_(Slot!slotVars)
  <2> DEFINE key == Opts[h[1]].str
  <2>1. CASE activeFw' = activeFw
    BY <1>1, <2>1, SlotStutters DEF TakeLock, cleanerVars
  <2>2. CASE activeFw' # activeFw
    <3>1. /\ activeFw' = Append(activeFw, key) /\ key \in Keys
          /\ \A i \in DOMAIN activeFw : activeFw[i] = key
      BY <1>1, <2>2, HandlerFacts DEF TakeLock, Refused
    <3>2. todo = {} /\ todo' = {}
      BY <1>1, OwnerAssumption DEF TakeLock, IInv, CleanerInv, LockInv, cleanerVars
    <3>3. /\ Len(activeFw') = Len(activeFw) + 1 /\ activeFw' # <<>>
          /\ activeFw'[1] = key
      BY <1>0, <3>1, AppendProperties
    <3>4. up /\ up' = up
      BY <1>1 DEF TakeLock, IInv, CleanerInv
    <3>5. Slot!Admit(key)
      BY <1>0, <3>1, <3>2, <3>3, <3>4 DEF Slot!Admit
    <3>6. QED
      BY <3>1, <3>5 DEF Slot!SlotNext
  <2>3. QED
    BY <2>1, <2>2
<1>2. ASSUME NEW h \in Handler, Finish(h) PROVE [Slot!SlotNext]_(Slot!slotVars)
  <2> DEFINE key == Opts[h[1]].str
  <2>1. CASE activeFw' = activeFw
    BY <1>2, <2>1, SlotStutters DEF Finish, Unlocked, cleanerVars
  <2>2. CASE activeFw' # activeFw
    <3>1. activeFw' = PopFirst(activeFw, key) /\ key \in Keys
      BY <1>2, <2>2, HandlerFacts DEF Finish, Unlocked, Popped
    <3>2. /\ activeFw # <<>> /\ activeFw[1] = key
          /\ activeFw' \in Seq(Keys) /\ Len(activeFw') = Len(activeFw) - 1
          /\ \A i \in 1 .. Len(activeFw) - 1 : activeFw'[i] = key
      BY <1>0, <2>2, <3>1, PopOfEquals
    <3>3. todo = {} /\ todo' = {}
      <4>1. lock = h
        BY <1>2 DEF Finish, Unlocked, IInv, LockInv, Critical
      <4>2. QED
        BY <1>2, <4>1, OwnerAssumption DEF Finish, Unlocked, IInv, CleanerInv, LockInv, cleanerVars
    <3>4. /\ activeFw' = <<>> <=> Len(activeFw) = 1
          /\ Len(activeFw) # 1 => activeFw'[1] = key
      BY <1>0, <3>2, EmptySeq
    <3>5. up /\ up' = up
      BY <1>2 DEF Finish, IInv, CleanerInv
    <3>6. Slot!Release(key)
      BY <1>0, <3>2, <3>3, <3>4, <3>5 DEF Slot!Release
    <3>7. QED
      BY <3>1, <3>6 DEF Slot!SlotNext
  <2>3. QED
    BY <2>1, <2>2
<1>3. ASSUME CleanerTakesLock \/ CleanerRemoves PROVE [Slot!SlotNext]_(Slot!slotVars)
  <2>1. UNCHANGED activeFw /\ up /\ up' = up
    BY <1>3 DEF CleanerTakesLock, CleanerRemoves, IInv, CleanerInv
  <2>2. CASE (todo = {}) = (todo' = {})
    BY <2>1, <2>2 DEF Slot!slotVars
  <2>3. CASE (todo = {}) # (todo' = {})
    <3>1. activeFw = <<>>
      BY <1>3, <2>3 DEF CleanerTakesLock, CleanerRemoves, Leftovers, IInv, CleanerInv
    <3>2. Slot!Sweep
      BY <2>1, <2>3, <3>1 DEF Slot!Sweep
    <3>3. QED
      BY <3>2 DEF Slot!SlotNext
  <2>4. QED
    BY <2>2, <2>3
<1>4. CASE Crash \/ Restart
  BY <1>4, EndResets DEF Crash, Restart, cleanerVars, Slot!SlotNext, Slot!Reboot
<1>5. ASSUME NEW e \in Exec, StartCall(e) \/ FilterFileFails(e) \/ StopCall(e) \/ WdnaExpires(e)
      PROVE  UNCHANGED Slot!slotVars
  BY <1>5, SlotStutters DEF StartCall, FilterFileFails, StopCall, WdnaExpires, cleanerVars
<1>6. ASSUME NEW h \in Handler,
             \/ GiveUp(h) \/ RunQoS(h) \/ QoSCommand(h) \/ KillQoS(h) \/ QoSReturns(h)
             \/ RunWinDivert(h) \/ AwaitService(h) \/ PowershellRuns(h)
      PROVE  UNCHANGED Slot!slotVars
  BY <1>6, SlotStutters
  DEF GiveUp, RunQoS, QoSCommand, KillQoS, QoSReturns, RunWinDivert, AwaitService,
      PowershellRuns, cleanerVars
<1>7. CASE Tick \/ CleanerUnlocks \/ UNCHANGED vars
  BY <1>7, SlotStutters DEF Tick, CleanerUnlocks, vars, cleanerVars
<1>8. QED
  BY <1>1, <1>2, <1>3, <1>4, <1>5, <1>6, <1>7 DEF Next, AgentCall, Work, HandlerStep, CleanerStep

\* NetworkAttack implements NetworkSlot: what is promised of the slot holds of the
\* entries of activeFirewall and the work of CleanupQosPolicies.
THEOREM ImplementsSlot == Spec => SlotSpec
<1>1. Init => Slot!SlotInit
  BY EmptySeq DEF Init, Slot!SlotInit
<1>2. QED
  BY <1>1, SlotStep, Invariance, PTL DEF Spec, SlotSpec, Slot!SlotSpec
-----------------------------------------------------------------------------
(***************************************************************************)
(* What the agent believes.  Undisturbed and Alone are the premises of     *)
(* RunningIsAdmitted and OnlyStopsEndAnAttack.                             *)
(***************************************************************************)
Undisturbed(e) == (\A f \in Exec : Opts[f] = Opts[e] => ~Ended(f)) /\ ~Seen("crash")
Alone(e) == (\A f \in Exec \ {e} : ~Ended(f)) /\ ~Seen("crash") /\ ~Seen("command")

\* Handlers run for the agent: the Revert of an execution that is being stopped, the
\* Apply of one that was started.
CallInv ==
  /\ ~Seen("crash") => up
  /\ \A e \in Exec :
       /\ pc[<<e, "del">>] # "idle" => Ended(e)
       /\ pc[<<e, "add">>] # "idle" => agent[e] # "prepared"
       /\ agent[e] = "running" => pc[<<e, "add">>] = "idle"
       /\ e \in overtaken => agent[e] # "prepared" /\ pc[<<e, "add">>] # "lock"

\* An execution is admitted from the push on, unless its Start fails.
Holds(e) ==
  \/ agent[e] = "running"
  \/ agent[e] = "starting" /\ pc[<<e, "add">>] \in Critical /\ ~failed[<<e, "add">>]
HoldInv ==
  \A e \in Exec : Holds(e) /\ Undisturbed(e) => activeFw # <<>> /\ activeFw[1] = Opts[e].str

\* The script of its Apply has made the policies it has come to.
Applied(e) ==
  \/ agent[e] = "running"
  \/ agent[e] = "starting" /\ pc[<<e, "add">>] \in Critical \ {"qos"} /\ ~failed[<<e, "add">>]
PolicyInv ==
  \A e \in Exec : Applied(e) /\ Alone(e) =>
    \A i \in 0 .. Opts[e].n - 1 - script[<<e, "add">>] : Policy(e, i) \in policies

\* Every entry of the list is owed to an execution whose Start had its turn and that
\* has not been stopped.
Started == {e \in Exec : agent[e] # "prepared"}
Owner(e) ==
  \/ e \in overtaken
  \/ agent[e] \notin {"prepared", "stopped"} /\ pc[<<e, "add">>] # "lock"
Owners == {e \in Exec : activeFw # <<>> /\ Opts[e].str = activeFw[1] /\ Owner(e)}
CountInv == IsFiniteSet(Started) /\ Len(activeFw) <= Cardinality(Owners)

AgentInv == CallInv /\ HoldInv /\ PolicyInv /\ CountInv

\* A fault that is injected is seen, and none is forgotten.
LEMMA InjectSeen ==
  ASSUME IInv, NEW kind, Inject(kind)
  PROVE  Seen(kind)' /\ \A k \in FaultKinds : Seen(k) => Seen(k)'
<1>1. faults' = [faults EXCEPT ![kind] = faults[kind] + 1] /\ faults \in [FaultKinds -> Nat]
  BY DEF Inject, IInv, TypeOK
<1>2. kind \in FaultKinds
  BY FaultsAssumption DEF Inject
<1> QED
  BY <1>1, <1>2 DEF Seen

\* A step inside the critical sections, of PowerShells or of the cleanup.
Working ==
  /\ UNCHANGED <<agent, activeFw, overtaken, up>>
  /\ \A h \in Handler : pc'[h] # pc[h] => pc[h] \in Critical /\ pc'[h] \in Critical
  /\ \A h \in Handler : failed[h] => failed'[h]
  /\ \A k \in FaultKinds : Seen(k) => Seen(k)'

\* Most steps are of that kind.
LEMMA Workings == ASSUME IInv, Work \/ Tick \/ UNCHANGED vars
  PROVE  Working \/ \E h \in Handler : GiveUp(h) \/ TakeLock(h) \/ Finish(h)
<1> USE InjectSeen DEF Working, handlerVars, qosVars, winDivertVars, cleanerVars, Critical
<1>0. pc \in [Handler -> {"idle", "lock", "qos", "qosrun", "windivert", "await", "finish"}]
      /\ failed \in [Handler -> BOOLEAN]
  BY DEF IInv, TypeOK
<1>1. ASSUME NEW e \in Exec, WdnaExpires(e) PROVE Working
  BY <1>1 DEF WdnaExpires, Seen
<1>2. ASSUME NEW h \in Handler, RunQoS(h) PROVE Working
  BY <1>0, <1>2 DEF RunQoS, Seen
<1>3. ASSUME NEW h \in Handler, QoSCommand(h) PROVE Working
  BY <1>0, <1>3, Zenon DEF QoSCommand, Seen
<1>4. ASSUME NEW h \in Handler, KillQoS(h) PROVE Working
  BY <1>0, <1>4 DEF KillQoS, Seen
<1>5. ASSUME NEW h \in Handler, QoSReturns(h) PROVE Working
  BY <1>0, <1>5 DEF QoSReturns, Seen
<1>6. ASSUME NEW h \in Handler, RunWinDivert(h) PROVE Working
  BY <1>0, <1>6 DEF RunWinDivert, Seen
<1>7. ASSUME NEW h \in Handler, AwaitService(h) PROVE Working
  BY <1>0, <1>7 DEF AwaitService, Seen
<1>8. ASSUME NEW h \in Handler, PowershellRuns(h) PROVE Working
  BY <1>8 DEF PowershellRuns, Seen
<1>9. CASE CleanerRemoves
  BY <1>9 DEF CleanerRemoves, Seen
<1>10. CASE CleanerUnlocks
  BY <1>10 DEF CleanerUnlocks, Seen
<1>11. CASE CleanerTakesLock
  BY <1>11 DEF CleanerTakesLock, Seen
<1>12. CASE Tick
  BY <1>12 DEF Tick, Seen
<1>13. CASE UNCHANGED vars
  BY <1>13 DEF vars, Seen
<1> HIDE DEF Working
<1> QED
  BY <1>1, <1>2, <1>3, <1>4, <1>5, <1>6, <1>7, <1>8, <1>9, <1>10, <1>11, <1>12, <1>13, Zenon
     DEF Work, HandlerStep, CleanerStep

\* So a property of the agent, the handlers and the list is kept by every step when these
\* keep it.
LEMMA AttackStepKinds == ASSUME IInv, [Next]_vars
  PROVE  \/ Working
         \/ \E e \in Exec : StartCall(e) \/ FilterFileFails(e) \/ StopCall(e)
         \/ \E h \in Handler : GiveUp(h) \/ TakeLock(h) \/ Finish(h)
         \/ Crash \/ Restart
  BY Workings, Zenon DEF Next, AgentCall

\* An execution that is being stopped is never run again, and faults are not forgotten.
LEMMA EndedStays == ASSUME IInv, [Next]_vars
  PROVE  /\ \A e \in Exec : Ended(e) => Ended(e)'
         /\ \A k \in FaultKinds : Seen(k) => Seen(k)'
<1> USE InjectSeen DEF Ended, Seen, handlerVars
<1>0. agent \in [Exec -> {"prepared", "starting", "running", "failed", "stopping", "stopped"}]
  BY DEF IInv, TypeOK
<1>1. CASE Working
  BY <1>1 DEF Working
<1>2. ASSUME NEW e \in Exec, StartCall(e) \/ FilterFileFails(e) \/ StopCall(e)
      PROVE  (\A f \in Exec : Ended(f) => Ended(f)') /\ \A k \in FaultKinds : Seen(k) => Seen(k)'
  BY <1>0, <1>2 DEF StartCall, FilterFileFails, StopCall
<1>3. ASSUME NEW h \in Handler, GiveUp(h)
      PROVE  (\A f \in Exec : Ended(f) => Ended(f)') /\ \A k \in FaultKinds : Seen(k) => Seen(k)'
  BY <1>0, <1>3 DEF GiveUp
<1>4. ASSUME NEW h \in Handler, TakeLock(h)
      PROVE  (\A f \in Exec : Ended(f) => Ended(f)') /\ \A k \in FaultKinds : Seen(k) => Seen(k)'
  BY <1>0, <1>4 DEF TakeLock
<1>5. ASSUME NEW h \in Handler, Finish(h)
      PROVE  (\A f \in Exec : Ended(f) => Ended(f)') /\ \A k \in FaultKinds : Seen(k) => Seen(k)'
  BY <1>0, <1>5, HandlerFacts DEF Finish, Answer
<1>6. CASE Crash
  BY <1>0, <1>6 DEF Crash, MemoryLost
<1>7. CASE Restart
  BY <1>7 DEF Restart
<1> QED
  BY <1>1, <1>2, <1>3, <1>4, <1>5, <1>6, <1>7, AttackStepKinds, Zenon

LEMMA CallInit == Init => CallInv
  BY DEF Init, CallInv, Seen, Handler

LEMMA CallStep == ASSUME IInv, CallInv, [Next]_vars PROVE CallInv'
<1> USE InjectSeen DEF CallInv, Ended, Seen, handlerVars, Critical
<1>0. /\ agent \in [Exec -> {"prepared", "starting", "running", "failed", "stopping", "stopped"}]
      /\ pc \in [Handler -> {"idle", "lock", "qos", "qosrun", "windivert", "await", "finish"}]
      /\ \A e \in Exec : <<e, "add">> \in Handler /\ <<e, "del">> \in Handler
  BY DEF IInv, TypeOK, Handler
<1>1. CASE Working
  BY <1>0, <1>1, EndedStays DEF Working, FaultKinds
<1>2. ASSUME NEW e \in Exec, StartCall(e) PROVE CallInv'
  BY <1>0, <1>2 DEF StartCall, Call
<1>3. ASSUME NEW e \in Exec, FilterFileFails(e) PROVE CallInv'
  BY <1>0, <1>3, EndedStays DEF FilterFileFails, FaultKinds
<1>4. ASSUME NEW e \in Exec, StopCall(e) PROVE CallInv'
  BY <1>0, <1>4 DEF StopCall, Call
<1>5. ASSUME NEW h \in Handler, GiveUp(h) PROVE CallInv'
  BY <1>0, <1>5, HandlerFacts, EndedStays DEF GiveUp, FaultKinds
<1>6. ASSUME NEW h \in Handler, TakeLock(h) PROVE CallInv'
  <2>0. h = <<h[1], h[2]>> /\ h[1] \in Exec
    BY DEF Handler
  <2>1. /\ pc[h] = "lock"
        /\ UNCHANGED <<agent, faults, up>>
        /\ pc' = [pc EXCEPT ![h] = "finish"] \/ pc' = [pc EXCEPT ![h] = "qos"]
        /\ \/ overtaken' = overtaken
           \/ /\ overtaken' = overtaken \cup {h[1]} /\ h[2] = "add"
              /\ agent[h[1]] \in {"stopping", "stopped"}
    BY <1>6 DEF TakeLock
  <2>2. \A e \in Exec : pc'[<<e, "del">>] # "idle" => Ended(e)
    BY <1>0, <2>0, <2>1
  <2>3. \A e \in Exec : pc'[<<e, "add">>] # "idle" => agent[e] # "prepared"
    BY <1>0, <2>0, <2>1
  <2>4. \A e \in Exec : agent[e] = "running" => pc'[<<e, "add">>] = "idle"
    BY <1>0, <2>0, <2>1
  <2>5. \A e \in Exec : e \in overtaken' => agent[e] # "prepared" /\ pc'[<<e, "add">>] # "lock"
    <3>1. CASE overtaken' = overtaken
      BY <1>0, <2>1, <3>1
    <3>2. CASE /\ overtaken' = overtaken \cup {h[1]} /\ h = <<h[1], "add">>
               /\ agent[h[1]] \in {"stopping", "stopped"}
      <4>1. pc'[h] # "lock" /\ \A g \in Handler : pc'[g] = "lock" => pc[g] = "lock"
        BY <1>0, <2>1
      <4>2. agent[h[1]] # "prepared" /\ pc'[<<h[1], "add">>] # "lock"
        BY <3>2, <4>1
      <4>3. QED
        BY <1>0, <3>2, <4>1, <4>2
    <3>3. QED
      BY <2>0, <2>1, <3>1, <3>2
  <2>6. QED
    BY <2>1, <2>2, <2>3, <2>4, <2>5
<1>7. ASSUME NEW h \in Handler, Finish(h) PROVE CallInv'
  BY <1>0, <1>7, HandlerFacts DEF Finish, Answer, Handler
<1>8. CASE Crash
  BY <1>0, <1>8 DEF Crash, MemoryLost
<1>9. CASE Restart
  BY <1>0, <1>9 DEF Restart
<1> QED
  BY <1>1, <1>2, <1>3, <1>4, <1>5, <1>6, <1>7, <1>8, <1>9, AttackStepKinds, Zenon

\* Equal settings have equal descriptions and the other way round.
LEMMA SameSettings == ASSUME NEW e \in Exec, NEW f \in Exec
  PROVE  Opts[e] = Opts[f] <=> Opts[e].str = Opts[f].str
  BY OptsAssumption

LEMMA HoldInit == Init => HoldInv
  BY DEF Init, HoldInv, Holds, Critical, Handler

\* The push admits the execution; only the Stop of a twin or the end of the process takes
\* its setting from the head of the list.
LEMMA HoldStep == ASSUME IInv, CallInv, HoldInv, [Next]_vars PROVE HoldInv'
<1> SUFFICES ASSUME NEW e \in Exec, Holds(e)', Undisturbed(e)'
             PROVE  activeFw' # <<>> /\ activeFw'[1] = Opts[e].str
  BY DEF HoldInv
<1> USE DEF Holds, Critical
<1> DEFINE add == <<e, "add">>
<1>0. /\ agent \in [Exec -> {"prepared", "starting", "running", "failed", "stopping", "stopped"}]
      /\ pc \in [Handler -> {"idle", "lock", "qos", "qosrun", "windivert", "await", "finish"}]
      /\ failed \in [Handler -> BOOLEAN]
      /\ add \in Handler /\ activeFw \in Seq(Keys)
  BY DEF IInv, TypeOK, Handler
<1>1. Undisturbed(e) /\ ~Seen("crash")' /\ ~Ended(e)'
  BY EndedStays DEF Undisturbed, FaultKinds
<1>2. Holds(e) => activeFw # <<>> /\ activeFw[1] = Opts[e].str
  BY <1>1 DEF HoldInv
<1>3. CASE Working
  BY <1>0, <1>2, <1>3 DEF Working
<1>4. ASSUME NEW f \in Exec, StartCall(f) PROVE activeFw' = activeFw /\ Holds(e)
  <2>1. /\ activeFw' = activeFw /\ failed' = failed
        /\ agent' = [agent EXCEPT ![f] = "starting"] /\ pc' = [pc EXCEPT ![<<f, "add">>] = "lock"]
    BY <1>4 DEF StartCall, Call
  <2>2. CASE e = f
    BY <1>0, <2>1, <2>2
  <2>3. CASE e # f
    BY <1>0, <2>1, <2>3
  <2> QED
    BY <2>1, <2>2, <2>3
<1>5. ASSUME NEW f \in Exec, FilterFileFails(f) \/ StopCall(f) PROVE activeFw' = activeFw /\ Holds(e)
  BY <1>0, <1>5 DEF FilterFileFails, StopCall, Call, handlerVars
<1>6. ASSUME NEW h \in Handler, GiveUp(h) PROVE activeFw' = activeFw /\ Holds(e)
  BY <1>0, <1>6 DEF GiveUp
<1>7. ASSUME NEW h \in Handler, TakeLock(h) PROVE activeFw' # <<>> /\ activeFw'[1] = Opts[e].str
  <2> DEFINE key == Opts[h[1]].str
             refused == h[2] = "add" /\ Refused(key)
  <2>1. /\ agent' = agent /\ failed' = [failed EXCEPT ![h] = refused]
        /\ pc' = [pc EXCEPT ![h] = IF refused THEN "finish" ELSE "qos"]
        /\ activeFw' = IF h[2] = "add" /\ ~refused THEN Append(activeFw, key) ELSE activeFw
    BY <1>7 DEF TakeLock
  <2>2. activeFw # <<>> => activeFw' # <<>> /\ activeFw'[1] = activeFw[1]
    BY <1>0, <2>1, HandlerFacts, AppendProperties, EmptySeq, LenProperties
  <2>3. CASE Holds(e)
    BY <1>2, <2>2, <2>3
  <2>4. CASE ~Holds(e)
    <3>1. h = add /\ ~refused
      BY <1>0, <2>1, <2>4
    <3>2. activeFw' = Append(activeFw, Opts[e].str) /\ \A i \in DOMAIN activeFw : activeFw[i] = Opts[e].str
      BY <2>1, <3>1 DEF Refused
    <3>3. QED
      BY <1>0, <3>2, HandlerFacts, AppendProperties, LenProperties DEF Keys
  <2> QED
    BY <2>3, <2>4
<1>8. ASSUME NEW h \in Handler, Finish(h) PROVE activeFw' # <<>> /\ activeFw'[1] = Opts[e].str
  <2>0. /\ h[1] \in Exec /\ h[2] \in {"add", "del"} /\ h = <<h[1], h[2]>>
        /\ pc[h] = "finish" /\ pc' = [pc EXCEPT ![h] = "idle"]
        /\ failed' = [failed EXCEPT ![h] = FALSE] /\ agent' = Answer(h)
    BY <1>8 DEF Finish, Handler
  <2>1. Holds(e)
    <3>1. CASE h = add
      BY <1>0, <2>0, <3>1 DEF Answer
    <3>2. CASE h # add
      <4>1. pc'[add] = pc[add] /\ failed'[add] = failed[add]
        BY <1>0, <2>0, <3>2
      <4>2. agent'[e] \in {agent[e], "stopped"}
        BY <1>0, <2>0, <3>2 DEF Answer
      <4>3. QED
        BY <4>1, <4>2
    <3>3. QED
      BY <3>1, <3>2
  <2>2. CASE h[2] = "add"
    BY <1>2, <1>8, <2>1, <2>2 DEF Finish, Popped
  <2>3. CASE h[2] = "del"
    <3>1. Ended(h[1]) /\ h[1] \in Exec
      <4>1. h = <<h[1], "del">> /\ pc[<<h[1], "del">>] # "idle"
        BY <2>0, <2>3
      <4>2. QED
        BY <2>0, <4>1 DEF CallInv
    <3>2. Opts[h[1]].str # activeFw[1]
      BY <1>1, <1>2, <2>1, <3>1, SameSettings DEF Undisturbed
    <3>3. PopFirst(activeFw, Opts[h[1]].str) = activeFw
      <4>1. \A i \in DOMAIN activeFw : activeFw[i] = activeFw[1]
        BY <1>0, <1>2, <2>1, LenProperties, EmptySeq DEF IInv, OneSettingAtATime
      <4>2. QED
        BY <1>0, <3>2, <4>1, PopOfEquals
    <3>4. QED
      BY <1>2, <1>8, <2>1, <2>3, <3>3 DEF Finish, Popped
  <2> QED
    BY <2>2, <2>3, HandlerFacts
<1>9. ~Crash
  BY <1>1, InjectSeen DEF Crash
<1>10. CASE Restart
  BY <1>2, <1>10 DEF Restart, handlerVars
<1> QED
  BY <1>2, <1>3, <1>4, <1>5, <1>6, <1>7, <1>8, <1>9, <1>10, AttackStepKinds, Zenon

LEMMA PolicyInit == Init => PolicyInv
  BY DEF Init, PolicyInv, Applied, Critical, Handler

\* The policies execution e has made so far.
Made(e) == \A i \in 0 .. Opts[e].n - 1 - script[<<e, "add">>] : Policy(e, i) \in policies

\* Only the Stop of the execution itself or the cleanup takes a policy from it, and the
\* cleanup stays away while it is admitted.
LEMMA PolicyStep == ASSUME IInv, CallInv, HoldInv, PolicyInv, [Next]_vars PROVE PolicyInv'
<1> SUFFICES ASSUME NEW e \in Exec, Applied(e)', Alone(e)'
             PROVE  Made(e)'
  BY Zenon DEF PolicyInv, Made
<1> DEFINE add == <<e, "add">>
<1> USE DEF Applied, Critical
<1>0. /\ agent \in [Exec -> {"prepared", "starting", "running", "failed", "stopping", "stopped"}]
      /\ pc \in [Handler -> {"idle", "lock", "qos", "qosrun", "windivert", "await", "finish"}]
      /\ failed \in [Handler -> BOOLEAN] /\ script \in [Handler -> Nat]
      /\ add \in Handler /\ Opts[e].n \in Nat
  BY OptsAssumption DEF IInv, TypeOK, Handler
<1>1. /\ Alone(e) /\ ~Seen("crash")' /\ ~Seen("command")' /\ ~Ended(e)'
      /\ ~Ended(e) /\ up
  BY <1>0, EndedStays DEF Alone, FaultKinds, Ended, CallInv
<1>2. Applied(e) => Made(e) /\ activeFw # <<>>
  <2>1. Applied(e) => Holds(e) /\ Undisturbed(e)
    BY <1>1 DEF Holds, Undisturbed, Alone
  <2>2. QED
    BY <1>1, <2>1 DEF PolicyInv, Made, HoldInv
<1>3. agent[e] = "running" => pc[add] = "idle"
  BY DEF CallInv
<1>4. \A kind : Inject(kind) => kind \notin {"command", "crash"}
  BY <1>1, InjectSeen
<1>5. ASSUME UNCHANGED <<script, policies>>, Applied(e) PROVE Made(e)'
  BY <1>2, <1>5 DEF Made
<1>6. ASSUME NEW h \in Handler, RunQoS(h) PROVE Made(e)'
  <2>1. CASE h = add
    BY <1>0, <1>3, <1>6, <2>1 DEF RunQoS, QoSCommands, WinDivert, Made, handlerVars
  <2>2. CASE h # add
    <3>1. pc'[add] = pc[add] /\ failed'[add] = failed[add] /\ script'[add] = script[add]
      BY <1>0, <1>6, <2>2 DEF RunQoS
    <3>2. agent' = agent /\ policies' = policies
      BY <1>6 DEF RunQoS
    <3>3. QED
      BY <1>2, <3>1, <3>2 DEF Made
  <2> QED
    BY <2>1, <2>2
<1>7. ASSUME NEW h \in Handler, QoSCommand(h) PROVE Made(e)'
  <2> DEFINE after == IF h[2] = "add" THEN policies \cup {NextPolicy(h)} ELSE policies \ {NextPolicy(h)}
  <2>1. /\ script[h] > 0 /\ script' = [script EXCEPT ![h] = script[h] - 1]
        /\ agent' = agent /\ pc' = pc /\ (failed[add] => failed'[add])
    BY <1>0, <1>7, Zenon DEF QoSCommand
  <2>2. policies' = after
    BY <1>4, <1>7 DEF QoSCommand
  <2>3. Applied(e)
    BY <2>1
  <2>4. pc[h] = "qosrun"
    BY <1>1, <2>1 DEF IInv, ScriptInv
  <2>5. h[2] = "add"
    <3>1. h = <<h[1], h[2]>> /\ h[1] \in Exec /\ h[2] \in {"add", "del"}
      BY DEF Handler
    <3>2. h[2] = "del" => Ended(h[1])
      BY <2>4, <3>1 DEF CallInv
    <3>3. QED
      BY <1>1, <3>1, <3>2 DEF Alone
  <2>6. CASE h # add
    BY <1>0, <1>2, <2>1, <2>2, <2>3, <2>5, <2>6 DEF Made
  <2>7. CASE h = add
    <3>1. NextPolicy(h) = Policy(e, Opts[e].n - script[add])
      BY <2>7 DEF NextPolicy, QoSCommands
    <3>2. script'[add] = script[add] - 1
      BY <1>0, <2>1, <2>7
    <3>3. ASSUME NEW i \in 0 .. Opts[e].n - 1 - script'[add] PROVE Policy(e, i) \in policies'
      <4>1. i = Opts[e].n - script[add] \/ i \in 0 .. Opts[e].n - 1 - script[add]
        BY <1>0, <2>1, <2>7, <3>2
      <4>2. QED
        BY <1>2, <2>2, <2>3, <2>5, <3>1, <4>1 DEF Made
    <3>4. QED
      BY <3>3 DEF Made
  <2> QED
    BY <2>6, <2>7
<1>8. ASSUME NEW h \in Handler, KillQoS(h) PROVE Made(e)'
  <2>1. h # add
    BY <1>0, <1>3, <1>8 DEF KillQoS
  <2>2. QED
    BY <1>0, <1>2, <1>8, <2>1 DEF KillQoS, Made
<1>9. ASSUME NEW h \in Handler, QoSReturns(h) \/ RunWinDivert(h) \/ AwaitService(h) \/ TakeLock(h)
      PROVE  UNCHANGED <<script, policies>> /\ Applied(e)
  <2>1. UNCHANGED <<script, policies, agent>>
    BY <1>9 DEF QoSReturns, RunWinDivert, AwaitService, TakeLock, qosVars
  <2>2. h # add => pc'[add] = pc[add] /\ failed'[add] = failed[add]
    BY <1>0, <1>9 DEF QoSReturns, RunWinDivert, AwaitService, TakeLock
  <2>3. h = add => pc[add] \in Critical \ {"qos"} /\ (failed[add] => failed'[add])
    <3>1. CASE QoSReturns(h)
      BY <1>0, <3>1 DEF QoSReturns
    <3>2. CASE RunWinDivert(h)
      BY <1>0, <1>4, <3>2 DEF RunWinDivert
    <3>3. CASE AwaitService(h)
      BY <1>0, <3>3 DEF AwaitService
    <3>4. CASE TakeLock(h)
      BY <1>0, <1>3, <2>1, <3>4 DEF TakeLock
    <3> QED
      BY <1>9, <3>1, <3>2, <3>3, <3>4
  <2> QED
    BY <1>3, <2>1, <2>2, <2>3
<1>10. ASSUME NEW h \in Handler, GiveUp(h)
       PROVE  UNCHANGED <<script, policies>> /\ Applied(e)
  BY <1>0, <1>10 DEF GiveUp, qosVars
<1>11. ASSUME NEW h \in Handler, Finish(h)
       PROVE  UNCHANGED <<script, policies>> /\ Applied(e)
  <2>1. h = <<h[1], h[2]>> /\ h[2] \in {"add", "del"}
    BY DEF Handler
  <2>2. UNCHANGED <<script, policies>>
    BY <1>11 DEF Finish, qosVars
  <2>3. CASE h = add
    BY <1>0, <1>11, <2>2, <2>3 DEF Finish, Answer
  <2>4. CASE h # add
    BY <1>0, <1>11, <2>1, <2>2, <2>4 DEF Finish, Answer
  <2> QED
    BY <2>3, <2>4
<1>12. ASSUME NEW f \in Exec, StartCall(f) \/ FilterFileFails(f) \/ StopCall(f)
       PROVE  UNCHANGED <<script, policies>> /\ Applied(e)
  <2>1. CASE StartCall(f)
    BY <1>0, <2>1 DEF StartCall, Call, qosVars
  <2>2. CASE FilterFileFails(f) \/ StopCall(f)
    BY <1>0, <2>2 DEF FilterFileFails, StopCall, Call, qosVars, handlerVars
  <2> QED
    BY <1>12, <2>1, <2>2
<1>13. CASE CleanerRemoves
  BY <1>2, <1>13 DEF CleanerRemoves, handlerVars, IInv, CleanerInv
<1>14. ASSUME NEW h \in Handler, PowershellRuns(h) PROVE UNCHANGED <<script, policies>> /\ Applied(e)
  BY <1>14 DEF PowershellRuns, handlerVars, qosVars
<1>15. ASSUME NEW f \in Exec, WdnaExpires(f) PROVE UNCHANGED <<script, policies>> /\ Applied(e)
  BY <1>15 DEF WdnaExpires, handlerVars, qosVars
<1>16. CASE Tick \/ CleanerUnlocks \/ CleanerTakesLock \/ Restart \/ UNCHANGED vars
  BY <1>5, <1>16 DEF Tick, CleanerUnlocks, CleanerTakesLock, Restart, vars, handlerVars, qosVars
<1>17. ~Crash
  BY <1>4 DEF Crash
<1> QED
  BY <1>5, <1>6, <1>7, <1>8, <1>9, <1>10, <1>11, <1>12, <1>13, <1>14, <1>15, <1>16, <1>17, Zenon
  DEF Next, AgentCall, Work, HandlerStep, CleanerStep

LEMMA CountInit == Init => CountInv
<1> SUFFICES ASSUME Init PROVE CountInv
  OBVIOUS
<1>1. Started = {} /\ Owners = {} /\ Len(activeFw) = 0
  BY EmptySeq DEF Init, Started, Owners
<1> QED
  BY <1>1, FS_EmptySet DEF CountInv

\* Owners have been started, so there are finitely many.
LEMMA OwnersStarted ==
  ASSUME CallInv, CountInv
  PROVE  Owners \subseteq Started /\ IsFiniteSet(Owners) /\ Cardinality(Owners) \in Nat
<1>1. Owners \subseteq Started
  BY DEF CallInv, Owners, Owner, Started
<1> QED
  BY <1>1, FS_Subset, FS_CardinalityType DEF CountInv

\* A step that starts at most one execution, leaves the list alone and takes no owner
\* away keeps the count.
LEMMA OwnersKept ==
  ASSUME CallInv, CallInv', CountInv, NEW e, Started' \subseteq Started \cup {e},
         activeFw' = activeFw, Owners \subseteq Owners'
  PROVE  CountInv'
<1>1. IsFiniteSet(Started')
  BY FS_AddElement, FS_Subset DEF CountInv
<1>2. Owners' \subseteq Started'
  BY DEF CallInv, Owners, Owner, Started
<1>3. IsFiniteSet(Owners') /\ Cardinality(Owners) <= Cardinality(Owners')
  BY <1>1, <1>2, FS_Subset
<1>4. Cardinality(Owners) \in Nat /\ Cardinality(Owners') \in Nat
  BY <1>3, OwnersStarted, FS_CardinalityType
<1> QED
  BY <1>1, <1>3, <1>4 DEF CountInv

\* Each push has an owner that comes with it, each Stop that takes an owner away pops one
\* entry.
LEMMA CountStep == ASSUME IInv, CallInv, CountInv, [Next]_vars PROVE CountInv'
<1> DEFINE key(h) == Opts[h[1]].str
<1>0. /\ agent \in [Exec -> {"prepared", "starting", "running", "failed", "stopping", "stopped"}]
      /\ pc \in [Handler -> {"idle", "lock", "qos", "qosrun", "windivert", "await", "finish"}]
      /\ activeFw \in Seq(Keys) /\ Len(activeFw) \in Nat
      /\ activeFw = <<>> <=> Len(activeFw) = 0
      /\ \A e \in Exec : <<e, "add">> \in Handler
  BY LenProperties, EmptySeq DEF IInv, TypeOK, Handler
<1>1. CallInv' /\ Owners \subseteq Started /\ IsFiniteSet(Owners) /\ Cardinality(Owners) \in Nat
  BY CallStep, OwnersStarted
<1>2. CASE Working
  <2>1. Started' = Started /\ activeFw' = activeFw
    BY <1>2 DEF Working, Started
  <2>2. \A e \in Exec : pc'[<<e, "add">>] = "lock" => pc[<<e, "add">>] = "lock"
    BY <1>0, <1>2 DEF Working, Critical
  <2>3. Owners \subseteq Owners'
    BY <1>2, <2>1, <2>2 DEF Working, Owners, Owner
  <2> QED
    BY <1>1, <2>1, <2>3, OwnersKept
<1>3. ASSUME NEW e \in Exec, StartCall(e) PROVE CountInv'
  <2>1. /\ agent' = [agent EXCEPT ![e] = "starting"] /\ agent[e] = "prepared"
        /\ pc' = [pc EXCEPT ![<<e, "add">>] = "lock"]
        /\ activeFw' = activeFw /\ overtaken' = overtaken
    BY <1>3 DEF StartCall, Call
  <2>2. Started' \subseteq Started \cup {e}
    BY <1>0, <2>1 DEF Started
  <2>3. e \notin Owners
    BY <2>1 DEF Owners, Owner, CallInv
  <2>4. Owners \subseteq Owners'
    BY <1>0, <2>1, <2>3 DEF Owners, Owner
  <2> QED
    BY <1>1, <2>1, <2>2, <2>4, OwnersKept
<1>4. ASSUME NEW e \in Exec, FilterFileFails(e) \/ StopCall(e) PROVE CountInv'
  <2>1. /\ activeFw' = activeFw /\ overtaken' = overtaken
        /\ agent' = [agent EXCEPT ![e] = "failed"] \/ agent' = [agent EXCEPT ![e] = "stopping"]
        /\ pc' = pc \/ pc' = [pc EXCEPT ![<<e, "del">>] = "lock"]
    BY <1>4 DEF FilterFileFails, StopCall, Call, handlerVars
  <2>2. Started' \subseteq Started \cup {e}
    BY <1>0, <2>1 DEF Started
  <2>3. \A f \in Exec : pc'[<<f, "add">>] = pc[<<f, "add">>]
    BY <1>0, <2>1
  <2>4. Owners \subseteq Owners'
    BY <1>0, <2>1, <2>3 DEF Owners, Owner
  <2> QED
    BY <1>1, <2>1, <2>2, <2>4, OwnersKept
<1>5. ASSUME NEW h \in Handler, GiveUp(h) PROVE CountInv'
  <2>1. /\ activeFw' = activeFw /\ overtaken' = overtaken /\ pc' = pc
        /\ agent' = agent \/ (agent[h[1]] = "starting" /\ agent' = [agent EXCEPT ![h[1]] = "failed"])
    BY <1>5 DEF GiveUp
  <2>2. Started' \subseteq Started \cup {h[1]} /\ Owners \subseteq Owners'
    BY <1>0, <2>1 DEF Owners, Owner, Started
  <2> QED
    BY <1>1, <2>1, <2>2, OwnersKept
<1>6. ASSUME NEW h \in Handler, TakeLock(h) PROVE CountInv'
  <2>0. h[1] \in Exec /\ h[2] \in {"add", "del"} /\ h = <<h[1], h[2]>>
    BY DEF Handler
  <2>1. /\ pc[h] = "lock" /\ agent' = agent /\ Started' = Started
        /\ pc' = [pc EXCEPT ![h] = "finish"] \/ pc' = [pc EXCEPT ![h] = "qos"]
        /\ overtaken' = IF h[2] = "add" /\ Ended(h[1]) THEN overtaken \cup {h[1]} ELSE overtaken
    BY <1>6 DEF TakeLock, Started, Ended
  <2>2. pc'[h] # "lock" /\ \A g \in Handler : pc'[g] = "lock" => pc[g] = "lock"
    BY <1>0, <2>1
  <2>3. \A e \in Exec : Owner(e) => Owner(e)'
    BY <1>0, <2>1, <2>2 DEF Owner
  <2>4. CASE activeFw' = activeFw
    <3>1. Owners \subseteq Owners'
      BY <2>3, <2>4 DEF Owners
    <3>2. QED
      BY <1>1, <2>1, <2>4, <3>1, OwnersKept
  <2>5. CASE activeFw' # activeFw
    <3>1. /\ h[2] = "add" /\ activeFw' = Append(activeFw, key(h))
          /\ \A i \in DOMAIN activeFw : activeFw[i] = key(h)
      BY <1>6, <2>5 DEF TakeLock, Refused
    <3>2. /\ Len(activeFw') = Len(activeFw) + 1 /\ activeFw' # <<>> /\ activeFw'[1] = key(h)
          /\ activeFw # <<>> => activeFw[1] = key(h)
      BY <1>0, <2>0, <3>1, HandlerFacts, AppendProperties, LenProperties, EmptySeq
    <3>3. Owner(h[1])' /\ ~Owner(h[1])
      <4>1. h = <<h[1], "add">> /\ agent[h[1]] # "prepared" /\ h[1] \notin overtaken
        BY <2>0, <2>1, <3>1 DEF CallInv
      <4>2. pc'[<<h[1], "add">>] # "lock" /\ pc[<<h[1], "add">>] = "lock"
        BY <2>1, <2>2, <4>1
      <4>3. QED
        BY <2>0, <2>1, <3>1, <4>1, <4>2 DEF Owner, Ended
    <3>4. Owners \cup {h[1]} \subseteq Owners' /\ h[1] \notin Owners
      BY <2>0, <2>3, <3>2, <3>3 DEF Owners
    <3>5. Owners' \subseteq Started'
      BY <1>1 DEF CallInv, Owners, Owner, Started
    <3>6. IsFiniteSet(Owners') /\ Cardinality(Owners') \in Nat
      BY <2>1, <3>5, FS_Subset, FS_CardinalityType DEF CountInv
    <3>7. Cardinality(Owners) + 1 <= Cardinality(Owners')
      <4>1. Cardinality(Owners \cup {h[1]}) = Cardinality(Owners) + 1
        BY <1>1, <3>4, FS_AddElement
      <4>2. Cardinality(Owners \cup {h[1]}) <= Cardinality(Owners')
        BY <3>4, <3>6, FS_Subset
      <4>3. QED
        BY <4>1, <4>2
    <3>8. QED
      BY <1>0, <1>1, <2>1, <3>2, <3>6, <3>7 DEF CountInv
  <2> QED
    BY <2>4, <2>5
<1>7. ASSUME NEW h \in Handler, Finish(h) PROVE CountInv'
  <2>0. h[1] \in Exec /\ h[2] \in {"add", "del"} /\ h = <<h[1], h[2]>>
    BY DEF Handler
  <2>1. /\ pc[h] = "finish" /\ pc' = [pc EXCEPT ![h] = "idle"] /\ overtaken' = overtaken
        /\ agent' = Answer(h) /\ activeFw' = Popped(h)
    BY <1>7 DEF Finish
  <2>2. \A g \in Handler : pc'[g] = "lock" => pc[g] = "lock"
    BY <1>0, <2>1
  <2>3. \A e \in Exec \ {h[1]} : Owner(e) => Owner(e)'
    BY <1>0, <2>1, <2>2 DEF Owner, Answer
  <2>4. Started' = Started
    <3>1. agent[h[1]] # "prepared"
      BY <2>0, <2>1 DEF CallInv, Ended
    <3>2. QED
      BY <1>0, <2>1, <3>1 DEF Started, Answer
  <2>5. CASE h[2] = "add"
    <3>1. Owner(h[1]) => Owner(h[1])'
      BY <1>0, <2>0, <2>1, <2>2, <2>5 DEF Owner, Answer
    <3>2. Owners \subseteq Owners' /\ activeFw' = activeFw
      BY <2>1, <2>3, <2>5, <3>1 DEF Owners, Popped
    <3>3. QED
      BY <1>1, <2>4, <3>2, OwnersKept
  <2>6. CASE h[2] = "del"
    <3>1. activeFw' = PopFirst(activeFw, key(h))
      BY <2>1, <2>6 DEF Popped
    <3>2. \A i \in DOMAIN activeFw : activeFw[i] = activeFw[1]
      BY <1>0, LenProperties DEF IInv, OneSettingAtATime
    <3>3. CASE activeFw # <<>> /\ activeFw[1] = key(h)
      <4>1. /\ Len(activeFw') = Len(activeFw) - 1 /\ activeFw' \in Seq(Keys)
            /\ \A i \in 1 .. Len(activeFw) - 1 : activeFw'[i] = key(h)
        BY <1>0, <3>1, <3>2, <3>3, PopOfEquals
      <4>2. IsFiniteSet(Owners') /\ Cardinality(Owners') \in Nat
        <5>1. Owners' \subseteq Started'
          BY <1>1 DEF CallInv, Owners, Owner, Started
        <5>2. QED
          BY <2>4, <5>1, FS_Subset, FS_CardinalityType DEF CountInv
      <4>3. CASE Len(activeFw') = 0
        BY <2>4, <4>2, <4>3 DEF CountInv
      <4>4. CASE Len(activeFw') # 0
        <5>1. activeFw' # <<>> /\ activeFw'[1] = key(h)
          BY <1>0, <4>1, <4>4, EmptySeq
        <5>2. Owners \ {h[1]} \subseteq Owners'
          BY <2>3, <3>3, <5>1 DEF Owners
        <5>3. Cardinality(Owners \ {h[1]}) <= Cardinality(Owners')
          BY <4>2, <5>2, FS_Subset
        <5>4. /\ Cardinality(Owners) - 1 <= Cardinality(Owners \ {h[1]})
              /\ Cardinality(Owners \ {h[1]}) \in Nat
          <6>1. IsFiniteSet(Owners \ {h[1]})
            BY <1>1, FS_RemoveElement
          <6>2. Cardinality(Owners \ {h[1]}) =
                IF h[1] \in Owners THEN Cardinality(Owners) - 1 ELSE Cardinality(Owners)
            BY <1>1, FS_RemoveElement
          <6>3. Cardinality(Owners \ {h[1]}) \in Nat
            BY <6>1, FS_CardinalityType
          <6>4. QED
            BY <1>1, <6>2, <6>3
        <5>5. QED
          BY <1>0, <1>1, <2>4, <4>1, <4>2, <5>3, <5>4 DEF CountInv
      <4> QED
        BY <4>3, <4>4
    <3>4. CASE ~(activeFw # <<>> /\ activeFw[1] = key(h))
      <4>1. activeFw' = activeFw
        BY <1>0, <3>1, <3>2, <3>4, PopOfEquals
      <4>2. Owners \subseteq Owners'
        BY <2>3, <3>4, <4>1 DEF Owners
      <4>3. QED
        BY <1>1, <2>4, <4>1, <4>2, OwnersKept
    <3> QED
      BY <3>3, <3>4
  <2> QED
    BY <2>0, <2>5, <2>6
<1>8. CASE Crash
  <2>1. activeFw' = <<>> /\ Started' = Started
    BY <1>0, <1>8 DEF Crash, MemoryLost, Started
  <2>2. Owners' = {} /\ Len(activeFw') = 0
    BY <2>1, EmptySeq DEF Owners
  <2> QED
    BY <2>1, <2>2, FS_EmptySet DEF CountInv
<1>9. CASE Restart
  BY <1>9 DEF Restart, handlerVars, CountInv, Started, Owners, Owner
<1> QED
  BY <1>2, <1>3, <1>4, <1>5, <1>6, <1>7, <1>8, <1>9, AttackStepKinds, Zenon

\* Every reachable state satisfies what the agent believes.
THEOREM AgentInvariance == Spec => []AgentInv
<1>1. Init => AgentInv
  BY CallInit, HoldInit, PolicyInit, CountInit DEF AgentInv
<1>2. IInv /\ AgentInv /\ [Next]_vars => AgentInv'
  BY CallStep, HoldStep, PolicyStep, CountStep DEF AgentInv
<1>3. QED
  BY <1>1, <1>2, Invariance, PTL DEF Spec

\* An attack the agent runs stays admitted until a twin is stopped or the process ends.
THEOREM RunningAdmitted == Spec => []RunningIsAdmitted
<1>1. AgentInv /\ IInv => RunningIsAdmitted
  <2> SUFFICES ASSUME AgentInv, IInv, NEW e \in Exec, agent[e] = "running", Undisturbed(e)
               PROVE  Contains(activeFw, Opts[e].str)
    BY DEF RunningIsAdmitted, Undisturbed
  <2>1. activeFw # <<>> /\ activeFw[1] = Opts[e].str
    BY DEF AgentInv, HoldInv, Holds
  <2>2. activeFw \in Seq(Keys)
    BY DEF IInv, TypeOK
  <2>3. Len(activeFw) \in Nat \ {0}
    BY <2>1, <2>2, LenProperties, EmptySeq
  <2>4. QED
    BY <2>1, <2>3 DEF Contains
<1>2. QED
  BY <1>1, Invariance, AgentInvariance, PTL

\* When every execution has been stopped and no Start came after its Stop, the slot is
\* free, whatever has failed.
THEOREM SlotFreed == Spec => []FinishedFreesTheSlot
<1>1. AgentInv /\ IInv => FinishedFreesTheSlot
  <2> SUFFICES ASSUME AgentInv, IInv, AllStopped, overtaken = {} PROVE activeFw = <<>>
    BY DEF FinishedFreesTheSlot
  <2>1. Owners = {}
    BY DEF AllStopped, Owners, Owner
  <2>2. Len(activeFw) <= 0
    BY <2>1, FS_EmptySet DEF AgentInv, CountInv
  <2>3. activeFw \in Seq(Keys)
    BY DEF IInv, TypeOK
  <2>4. QED
    BY <2>2, <2>3, LenProperties, EmptySeq
<1>2. QED
  BY <1>1, Invariance, AgentInvariance, PTL

\* A bandwidth limit the agent runs keeps its policies until an execution is stopped.
THEOREM AttackKept == Spec => []OnlyStopsEndAnAttack
<1>1. AgentInv /\ IInv => OnlyStopsEndAnAttack
  <2> SUFFICES ASSUME AgentInv, IInv, NEW e \in Exec, agent[e] = "running", Alone(e)
               PROVE  Policies(e) \subseteq policies
    BY DEF OnlyStopsEndAnAttack, Alone
  <2>1. pc[<<e, "add">>] = "idle" /\ up
    BY DEF AgentInv, CallInv, Alone
  <2>2. script[<<e, "add">>] = 0
    <3>1. <<e, "add">> \in Handler
      BY DEF Handler
    <3>2. \A h \in Handler : script[h] \in Nat /\ (script[h] > 0 /\ up => pc[h] = "qosrun")
      BY DEF IInv, TypeOK, ScriptInv
    <3>3. QED
      BY <2>1, <3>1, <3>2
  <2>3. Opts[e].n \in Nat
    BY OptsAssumption
  <2>4. \A i \in 0 .. Opts[e].n - 1 : Policy(e, i) \in policies
    BY <2>2, <2>3 DEF AgentInv, PolicyInv, Applied
  <2>5. QED
    BY <2>4 DEF Policies
<1>2. QED
  BY <1>1, Invariance, AgentInvariance, PTL
-----------------------------------------------------------------------------
(***************************************************************************)
(* What is left behind.  Without a fault every policy and every running    *)
(* driver belongs to an execution that has not been stopped yet.           *)
(***************************************************************************)
\* A handler that still has commands to start or to wait for has met no error; a WinDivert
\* attack, and no other, gets to those of WinDivert.
CommandsInv ==
  \A h \in Handler : /\ pc[h] \in {"qos", "windivert", "await"} => ~failed[h]
                     /\ pc[h] \in {"windivert", "await"} => WinDivert(h[1])
                     /\ pc[h] = "qosrun" => ~WinDivert(h[1])

\* The agent waits for what it has called.
TurnInv ==
  /\ cancelled = {}
  /\ \A e \in Exec : /\ pc[<<e, "add">>] # "idle" => agent[e] = "starting"
                     /\ pc[<<e, "del">>] # "idle" => agent[e] = "stopping"

Underway(e) == agent[e] \notin {"prepared", "stopped"}

\* Every policy is one of an execution underway; a Revert has removed those its script has
\* come to, and all at its end.
Removed(e) ==
  /\ pc[<<e, "del">>] = "qosrun" =>
       \A i \in 0 .. Opts[e].n - 1 :
         i < Opts[e].n - script[<<e, "del">>] => Policy(e, i) \notin policies
  /\ pc[<<e, "del">>] = "finish" => Policies(e) \cap policies = {}
LimitInv ==
  /\ \A p \in policies : \E e \in Exec : Underway(e) /\ p \in Policies(e)
  /\ \A e \in Exec : Removed(e)

\* The service runs for the WinDivert attack that is admitted, from the script of its Apply
\* on; the Apply waits for that script, and a Revert for one that stops the service.
Diverting(e) ==
  /\ WinDivert(e) /\ Underway(e)
  /\ activeFw # <<>> /\ activeFw[1] = Opts[e].str
  /\ pc[<<e, "add">>] \notin {"lock", "qos", "windivert"}
Awaited(e) ==
  /\ pending[<<e, "add">>] > 0 =>
       pc[<<e, "add">>] = "await" /\ pending[<<e, "add">>] = 1 /\ ~svc
  /\ pc[<<e, "del">>] = "await" => pending[<<e, "del">>] > 0 \/ ~svc
  /\ pc[<<e, "del">>] = "finish" /\ WinDivert(e) => ~svc
DivertInv ==
  /\ wdna # {} => svc
  /\ svc => \E e \in Exec : Diverting(e)
  /\ \A e \in Exec : Awaited(e)

EffectInv ==
  /\ CommandsInv
  /\ NoFault => TurnInv /\ LimitInv /\ (DivertersDiffer => DivertInv)

\* A step after which no fault has been seen injects none.
LEMMA StepWithoutFault == ASSUME IInv, CallInv, [Next]_vars, NoFault'
  PROVE  /\ NoFault /\ up
         /\ \A kind : ~Inject(kind)
         /\ \A h \in Handler : ~GiveUp(h)
         /\ \A e \in Exec : ~FilterFileFails(e)
         /\ ~Crash /\ ~Restart
<1>1. NoFault
  BY EndedStays DEF NoFault
<1>2. \A kind : ~Inject(kind)
  <2>1. \A kind : Inject(kind) => kind \in FaultKinds
    BY FaultsAssumption DEF Inject
  <2> QED
    BY <2>1, InjectSeen DEF NoFault
<1>3. up
  BY <1>1 DEF NoFault, CallInv, FaultKinds
<1> QED
  BY <1>1, <1>2, <1>3 DEF GiveUp, FilterFileFails, Crash, Restart

LEMMA CommandsStep == ASSUME IInv, CommandsInv, [Next]_vars PROVE CommandsInv'
<1> USE DEF CommandsInv, WinDivert, handlerVars
<1>0. /\ pc \in [Handler -> {"idle", "lock", "qos", "qosrun", "windivert", "await", "finish"}]
      /\ failed \in [Handler -> BOOLEAN]
  BY DEF IInv, TypeOK
<1>1. ASSUME NEW h \in Handler, TakeLock(h) PROVE CommandsInv'
  <2>1. \A g \in Handler \ {h} : pc'[g] = pc[g] /\ failed'[g] = failed[g]
    BY <1>0, <1>1 DEF TakeLock
  <2>2. pc'[h] \in {"qos", "finish"} /\ (failed'[h] => pc'[h] = "finish")
    BY <1>0, <1>1 DEF TakeLock
  <2> QED
    BY <2>1, <2>2
<1>2. ASSUME NEW h \in Handler, RunQoS(h) PROVE CommandsInv'
  BY <1>0, <1>2 DEF RunQoS
<1>3. ASSUME NEW h \in Handler, QoSCommand(h) PROVE CommandsInv'
  <2>1. pc' = pc /\ \A g \in Handler \ {h} : failed'[g] = failed[g]
    BY <1>0, <1>3 DEF QoSCommand
  <2>2. failed'[h] => failed[h] \/ pc[h] = "qosrun"
    BY <1>0, <1>3, Zenon DEF QoSCommand
  <2> QED
    BY <2>1, <2>2
<1>4. ASSUME NEW h \in Handler, KillQoS(h) \/ QoSReturns(h) PROVE CommandsInv'
  BY <1>0, <1>4 DEF KillQoS, QoSReturns
<1>5. ASSUME NEW h \in Handler, RunWinDivert(h) PROVE CommandsInv'
  BY <1>0, <1>5 DEF RunWinDivert
<1>6. ASSUME NEW h \in Handler, AwaitService(h) PROVE CommandsInv'
  BY <1>0, <1>6 DEF AwaitService
<1>7. ASSUME NEW h \in Handler, Finish(h) PROVE CommandsInv'
  BY <1>0, <1>7 DEF Finish
<1>8. ASSUME NEW h \in Handler, GiveUp(h) \/ PowershellRuns(h) PROVE CommandsInv'
  BY <1>8 DEF GiveUp, PowershellRuns
<1>9. ASSUME NEW e \in Exec, StartCall(e) \/ FilterFileFails(e) \/ StopCall(e) \/ WdnaExpires(e)
      PROVE  CommandsInv'
  BY <1>0, <1>9 DEF StartCall, FilterFileFails, StopCall, WdnaExpires, Call
<1>10. CASE CleanerRemoves \/ CleanerUnlocks \/ CleanerTakesLock \/ Tick \/ Restart \/ UNCHANGED vars
  BY <1>10 DEF CleanerRemoves, CleanerUnlocks, CleanerTakesLock, Tick, Restart, vars
<1>11. CASE Crash
  BY <1>11 DEF Crash, MemoryLost
<1> QED
  BY <1>1, <1>2, <1>3, <1>4, <1>5, <1>6, <1>7, <1>8, <1>9, <1>10, <1>11, Zenon
  DEF Next, AgentCall, Work, HandlerStep, CleanerStep

\* Without a fault the agent hears every answer, so a handler only runs while its call is
\* open.
LEMMA TurnStep == ASSUME IInv, CallInv, TurnInv, [Next]_vars, NoFault' PROVE TurnInv'
<1> USE HandlerFacts DEF TurnInv, handlerVars
<1>0. /\ agent \in [Exec -> {"prepared", "starting", "running", "failed", "stopping", "stopped"}]
      /\ pc \in [Handler -> {"idle", "lock", "qos", "qosrun", "windivert", "await", "finish"}]
      /\ \A e \in Exec : <<e, "add">> \in Handler /\ <<e, "del">> \in Handler
  BY DEF IInv, TypeOK, Handler
<1>1. /\ \A h \in Handler : ~GiveUp(h)
      /\ \A e \in Exec : ~FilterFileFails(e)
      /\ ~Crash /\ ~Restart
  BY StepWithoutFault
<1>2. ASSUME NEW e \in Exec, StartCall(e) PROVE TurnInv'
  <2>1. /\ agent[e] = "prepared" /\ agent' = [agent EXCEPT ![e] = "starting"]
        /\ pc' = [pc EXCEPT ![<<e, "add">>] = "lock"] /\ cancelled' = cancelled
    BY <1>2 DEF StartCall, Call
  <2> QED
    BY <1>0, <2>1
<1>3. ASSUME NEW e \in Exec, StopCall(e) PROVE TurnInv'
  <2>1. /\ agent[e] # "starting" /\ agent' = [agent EXCEPT ![e] = "stopping"]
        /\ pc' = [pc EXCEPT ![<<e, "del">>] = "lock"] /\ cancelled' = cancelled
    BY <1>0, <1>3 DEF StopCall, Call
  <2> QED
    BY <1>0, <2>1
<1>4. ASSUME NEW h \in Handler, Finish(h) PROVE TurnInv'
  <2>0. h = <<h[1], h[2]>>
    BY DEF Handler
  <2>1. /\ pc[h] = "finish" /\ pc' = [pc EXCEPT ![h] = "idle"] /\ cancelled' = {}
        /\ \A e \in Exec \ {h[1]} : agent'[e] = agent[e]
    BY <1>0, <1>4 DEF Finish, Answer
  <2>2. \A e \in Exec \ {h[1]} : /\ pc'[<<e, "add">>] = pc[<<e, "add">>]
                                 /\ pc'[<<e, "del">>] = pc[<<e, "del">>]
    <3>1. \A e \in Exec \ {h[1]} : <<e, "add">> # h /\ <<e, "del">> # h
      BY <2>0
    <3> QED
      BY <1>0, <2>1, <3>1
  <2>3. pc'[<<h[1], "add">>] = "idle" /\ pc'[<<h[1], "del">>] = "idle"
    BY <1>0, <2>0, <2>1
  <2> QED
    BY <2>1, <2>2, <2>3
<1>5. ASSUME UNCHANGED <<agent, cancelled>>, NEW h \in Handler, pc[h] # "idle",
             \A g \in Handler \ {h} : pc'[g] = pc[g]
      PROVE  TurnInv'
  BY <1>0, <1>5
<1>6. ASSUME NEW h \in Handler,
             \/ TakeLock(h) \/ RunQoS(h) \/ KillQoS(h) \/ QoSReturns(h) \/ QoSCommand(h)
             \/ RunWinDivert(h) \/ AwaitService(h)
      PROVE  TurnInv'
  <2>1. CASE QoSCommand(h)
    BY <2>1 DEF QoSCommand
  <2>2. CASE ~QoSCommand(h)
    <3>1. UNCHANGED <<agent, cancelled>> /\ pc[h] # "idle" /\ \A g \in Handler \ {h} : pc'[g] = pc[g]
      BY <1>0, <1>6, <2>2 DEF TakeLock, RunQoS, KillQoS, QoSReturns, RunWinDivert, AwaitService
    <3> QED
      BY <1>5, <3>1
  <2> QED
    BY <2>1, <2>2
<1>7. ASSUME \/ \E h \in Handler : PowershellRuns(h)
             \/ \E e \in Exec : WdnaExpires(e)
             \/ CleanerRemoves \/ CleanerUnlocks \/ CleanerTakesLock \/ Tick \/ UNCHANGED vars
      PROVE  TurnInv'
  BY <1>7 DEF PowershellRuns, WdnaExpires, CleanerRemoves, CleanerUnlocks, CleanerTakesLock, Tick, vars
<1> QED
  BY <1>1, <1>2, <1>3, <1>4, <1>6, <1>7, Zenon DEF Next, AgentCall, Work, HandlerStep, CleanerStep

\* What keeps the ownership of policies: no policy comes, what was underway stays so
\* unless its policies are gone, and a Revert under way has not changed its place.
LEMMA LimitKept ==
  ASSUME LimitInv, policies' \subseteq policies,
         \A e \in Exec : Underway(e) => Underway(e)' \/ Policies(e) \cap policies = {},
         \A e \in Exec : Removed(e)'
  PROVE  LimitInv'
  BY DEF LimitInv, Policies, Policy

\* Only the script of the handler that holds the lock makes policies, those of an
\* execution that is being started; the script of a Revert leaves none of its own.
LEMMA LimitStep ==
  ASSUME IInv, CallInv, CommandsInv, TurnInv, LimitInv, [Next]_vars, NoFault'
  PROVE  LimitInv'
<1> USE HandlerFacts DEF handlerVars, qosVars, Underway, Policies
<1>0. /\ agent \in [Exec -> {"prepared", "starting", "running", "failed", "stopping", "stopped"}]
      /\ pc \in [Handler -> {"idle", "lock", "qos", "qosrun", "windivert", "await", "finish"}]
      /\ script \in [Handler -> Nat]
      /\ \A e \in Exec : /\ <<e, "add">> \in Handler /\ <<e, "del">> \in Handler
                         /\ Opts[e].n \in Nat
  BY OptsAssumption DEF IInv, TypeOK, Handler
<1>1. /\ \A h \in Handler : ~GiveUp(h)
      /\ \A e \in Exec : ~FilterFileFails(e)
      /\ ~Crash /\ ~Restart /\ up
      /\ \A kind : ~Inject(kind)
      /\ cancelled = {}
  BY StepWithoutFault DEF TurnInv
<1>2. \A g, h \in Handler : pc[g] \in Critical /\ pc[h] \in Critical => g = h
  BY DEF IInv, LockInv
<1>3. \A e \in Exec : Removed(e)
  BY DEF LimitInv
<1>4. ASSUME NEW e \in Exec, StartCall(e) \/ StopCall(e) PROVE LimitInv'
  <2>1. UNCHANGED qosVars
    BY <1>4 DEF StartCall, StopCall
  <2>2. \A f \in Exec : Underway(f) => Underway(f)'
    BY <1>0, <1>4 DEF StartCall, StopCall
  <2>3. \A f \in Exec : pc'[<<f, "del">>] \in {"qosrun", "finish"} => pc'[<<f, "del">>] = pc[<<f, "del">>]
    BY <1>0, <1>4 DEF StartCall, StopCall, Call
  <2>4. \A f \in Exec : Removed(f)'
    BY <1>3, <2>1, <2>3 DEF Removed, Policy
  <2> QED
    BY <2>1, <2>2, <2>4, LimitKept
<1>5. ASSUME NEW h \in Handler, TakeLock(h) PROVE LimitInv'
  <2>1. UNCHANGED <<qosVars, agent>>
    BY <1>5 DEF TakeLock
  <2>2. \A f \in Exec : pc'[<<f, "del">>] \in {"qosrun", "finish"} => pc'[<<f, "del">>] = pc[<<f, "del">>]
    BY <1>0, <1>5 DEF TakeLock
  <2>3. \A f \in Exec : Removed(f)'
    BY <1>3, <2>1, <2>2 DEF Removed, Policy
  <2> QED
    BY <2>1, <2>3, LimitKept
<1>6. ASSUME NEW h \in Handler, RunQoS(h) PROVE LimitInv'
  <2>1. UNCHANGED <<policies, agent>>
    BY <1>6 DEF RunQoS
  <2>2. /\ \/ pc' = [pc EXCEPT ![h] = "windivert"] /\ script' = script
           \/ pc' = [pc EXCEPT ![h] = "qosrun"] /\ script' = [script EXCEPT ![h] = Opts[h[1]].n]
    BY <1>1, <1>6 DEF RunQoS, QoSCommands
  <2>3. ASSUME NEW f \in Exec PROVE Removed(f)'
    <3>1. CASE h # <<f, "del">>
      BY <1>0, <1>3, <2>1, <2>2, <3>1 DEF Removed, Policy
    <3>2. CASE h = <<f, "del">>
      BY <1>0, <2>2, <3>2 DEF Removed
    <3> QED
      BY <3>1, <3>2
  <2> QED
    BY <2>1, <2>3, LimitKept
<1>7. ASSUME NEW h \in Handler, QoSReturns(h) PROVE LimitInv'
  <2>1. UNCHANGED <<qosVars, agent>> /\ pc' = [pc EXCEPT ![h] = "finish"]
        /\ pc[h] = "qosrun" /\ script[h] = 0
    BY <1>7 DEF QoSReturns
  <2>2. ASSUME NEW f \in Exec PROVE Removed(f)'
    <3>1. CASE h # <<f, "del">>
      BY <1>0, <1>3, <2>1, <3>1 DEF Removed, Policy
    <3>2. CASE h = <<f, "del">>
      <4>1. \A i \in 0 .. Opts[f].n - 1 : Policy(f, i) \notin policies
        BY <1>0, <1>3, <2>1, <3>2 DEF Removed
      <4>2. pc'[<<f, "del">>] = "finish"
        BY <1>0, <2>1, <3>2
      <4> QED
        BY <2>1, <4>1, <4>2 DEF Removed, Policy
    <3> QED
      BY <3>1, <3>2
  <2> QED
    BY <2>1, <2>2, LimitKept
<1>8. ASSUME NEW h \in Handler, QoSCommand(h) PROVE LimitInv'
  <2> DEFINE p == NextPolicy(h)
             k == Opts[h[1]].n - script[h]
  <2>1. /\ script[h] > 0 /\ script' = [script EXCEPT ![h] = script[h] - 1]
        /\ UNCHANGED <<agent, pc>>
        /\ policies' = IF h[2] = "add" THEN policies \cup {p} ELSE policies \ {p}
    BY <1>1, <1>8 DEF QoSCommand
  <2>2. /\ pc[h] = "qosrun" /\ script[h] \in 1 .. Opts[h[1]].n
        /\ k \in 0 .. Opts[h[1]].n - 1 /\ p = Policy(h[1], k)
    BY <1>0, <1>1, <2>1 DEF IInv, ScriptInv, NextPolicy, QoSCommands
  <2> HIDE DEF p
  <2>3. CASE h[2] = "add"
    <3>0. h = <<h[1], "add">> /\ policies' = policies \cup {p}
      BY <2>1, <2>3 DEF Handler
    <3>1. Underway(h[1]) /\ p \in Policies(h[1])
      BY <2>2, <3>0 DEF TurnInv
    <3>2. \A q \in policies' : \E f \in Exec : Underway(f)' /\ q \in Policies(f)
      BY <2>1, <3>0, <3>1 DEF LimitInv
    <3>3. \A f \in Exec : pc[<<f, "del">>] \notin {"qosrun", "finish"}
      <4>1. \A f \in Exec : <<f, "del">> # h
        BY <3>0
      <4> QED
        BY <1>0, <1>2, <2>2, <4>1 DEF Critical
    <3>4. \A f \in Exec : Removed(f)'
      BY <2>1, <3>3 DEF Removed
    <3> QED
      BY <3>2, <3>4 DEF LimitInv, Policy
  <2>4. CASE h[2] = "del"
    <3>0. h = <<h[1], "del">> /\ policies' = policies \ {p}
      BY <2>1, <2>4 DEF Handler
    <3>1. ASSUME NEW f \in Exec PROVE Removed(f)'
      <4>1. CASE f = h[1]
        <5>1. \A i \in 0 .. Opts[f].n - 1 : i < k => Policy(f, i) \notin policies
          BY <1>3, <2>2, <3>0, <4>1 DEF Removed
        <5>2. Policy(f, k) \notin policies'
          BY <2>2, <3>0, <4>1
        <5>3. \A i \in 0 .. Opts[f].n - 1 : i < k + 1 => Policy(f, i) \notin policies'
          <6>1. k \in Int
            BY <2>2
          <6> HIDE DEF k
          <6>2. \A i \in 0 .. Opts[f].n - 1 : i < k + 1 => i < k \/ i = k
            BY <1>0, <6>1
          <6> QED
            BY <3>0, <5>1, <5>2, <6>2
        <5>4. script'[<<f, "del">>] = script[h] - 1 /\ pc'[<<f, "del">>] = "qosrun"
          BY <1>0, <2>1, <2>2, <3>0, <4>1
        <5>5. Opts[f].n - script'[<<f, "del">>] = k + 1
          BY <1>0, <4>1, <5>4
        <5> QED
          BY <5>3, <5>4, <5>5 DEF Removed, Policy
      <4>2. CASE f # h[1]
        <5>1. pc'[<<f, "del">>] \notin {"qosrun", "finish"}
          BY <1>0, <1>2, <2>1, <2>2, <3>0, <4>2 DEF Critical
        <5> QED
          BY <5>1 DEF Removed
      <4> QED
        BY <4>1, <4>2
    <3> QED
      BY <2>1, <3>0, <3>1, LimitKept
  <2> QED
    BY <2>3, <2>4
<1>9. ASSUME NEW h \in Handler, RunWinDivert(h) \/ AwaitService(h) PROVE LimitInv'
  <2>1. /\ UNCHANGED <<qosVars, agent>>
        /\ pc[h] \in {"windivert", "await"} /\ pc'[h] \in {"await", "finish"}
        /\ \A g \in Handler \ {h} : pc'[g] = pc[g]
    BY <1>0, <1>9 DEF RunWinDivert, AwaitService
  <2>2. ASSUME NEW f \in Exec PROVE Removed(f)'
    <3>1. CASE h # <<f, "del">>
      BY <1>0, <1>3, <2>1, <3>1 DEF Removed, Policy
    <3>2. CASE h = <<f, "del">>
      <4>1. Policies(f) = {}
        <5>1. Opts[f].n = 0
          <6>1. h[1] = f
            BY <3>2
          <6>2. WinDivert(h[1])
            BY <2>1 DEF CommandsInv
          <6> QED
            BY <6>1, <6>2 DEF WinDivert
        <5>2. 0 .. Opts[f].n - 1 = {}
          BY <5>1
        <5> QED
          BY <5>2
      <4> QED
        BY <1>0, <2>1, <3>2, <4>1 DEF Removed
    <3> QED
      BY <3>1, <3>2
  <2> QED
    BY <2>1, <2>2, LimitKept
<1>10. ASSUME NEW h \in Handler, Finish(h) PROVE LimitInv'
  <2>1. UNCHANGED qosVars /\ pc[h] = "finish" /\ pc' = [pc EXCEPT ![h] = "idle"]
        /\ agent' = Answer(h)
    BY <1>10 DEF Finish
  <2>2. \A f \in Exec : Removed(f)'
    BY <1>0, <1>3, <2>1 DEF Removed, Policy
  <2>3. \A f \in Exec : Underway(f) => Underway(f)' \/ Policies(f) \cap policies = {}
    <3>1. CASE h[2] = "add"
      BY <1>0, <2>1, <3>1 DEF Answer
    <3>2. CASE h[2] = "del"
      <4>1. Policies(h[1]) \cap policies = {}
        <5>1. h = <<h[1], "del">>
          BY <3>2 DEF Handler
        <5> QED
          BY <1>3, <2>1, <5>1 DEF Removed
      <4>2. \A f \in Exec \ {h[1]} : agent'[f] = agent[f]
        BY <1>0, <2>1, <3>2 DEF Answer
      <4> QED
        BY <4>1, <4>2
    <3> QED
      BY <3>1, <3>2
  <2> QED
    BY <2>1, <2>2, <2>3, LimitKept
<1>11. CASE CleanerRemoves
  <2>1. UNCHANGED <<agent, pc, script>> /\ policies' \subseteq policies
    BY <1>11 DEF CleanerRemoves
  <2>2. \A f \in Exec : Removed(f)'
    BY <1>3, <2>1 DEF Removed, Policy
  <2> QED
    BY <2>1, <2>2, LimitKept
<1>12. ASSUME \/ \E h \in Handler : PowershellRuns(h)
              \/ \E e \in Exec : WdnaExpires(e)
              \/ CleanerUnlocks \/ CleanerTakesLock \/ Tick \/ UNCHANGED vars
       PROVE  LimitInv'
  <2>1. UNCHANGED <<agent, pc, script, policies>>
    BY <1>12 DEF PowershellRuns, WdnaExpires, CleanerUnlocks, CleanerTakesLock, Tick, vars
  <2>2. \A f \in Exec : Removed(f)'
    BY <1>3, <2>1 DEF Removed, Policy
  <2> QED
    BY <2>1, <2>2, LimitKept
<1>13. \A h \in Handler : ~KillQoS(h)
  BY <1>1 DEF KillQoS
<1> QED
  BY <1>1, <1>4, <1>5, <1>6, <1>7, <1>8, <1>9, <1>10, <1>11, <1>12, <1>13, Zenon
  DEF Next, AgentCall, Work, HandlerStep, CleanerStep

\* A diverter's attack has the list to itself.
LEMMA OneDiverter ==
  ASSUME DivertersDiffer, NEW e \in Exec, NEW f \in Exec, WinDivert(e) \/ WinDivert(f),
         Opts[e].str = Opts[f].str
  PROVE  e = f
  BY SameSettings DEF DivertersDiffer, WinDivert

\* A step that leaves the WinDivert side alone and keeps what is underway admitted.
LEMMA DivertKept ==
  ASSUME DivertInv, wdna' = wdna, svc' = svc,
         \A e \in Exec : Diverting(e) => Diverting(e)',
         \A e \in Exec : Awaited(e)'
  PROVE  DivertInv'
  BY Zenon DEF DivertInv

\* An Apply gets to its script only after the service was stopped, and leaves it only when
\* the service runs; the script of a Revert is followed by none of an Apply.
LEMMA DivertStep ==
  ASSUME IInv, CallInv, HoldInv, CommandsInv, TurnInv, DivertersDiffer, DivertInv,
         [Next]_vars, NoFault'
  PROVE  DivertInv'
<1> USE HandlerFacts DEF handlerVars, winDivertVars, Underway
<1>0. /\ agent \in [Exec -> {"prepared", "starting", "running", "failed", "stopping", "stopped"}]
      /\ pc \in [Handler -> {"idle", "lock", "qos", "qosrun", "windivert", "await", "finish"}]
      /\ pending \in [Handler -> Nat] /\ svc \in BOOLEAN
      /\ \A e \in Exec : <<e, "add">> \in Handler /\ <<e, "del">> \in Handler
  BY DEF IInv, TypeOK, Handler
<1>1. /\ \A h \in Handler : ~GiveUp(h)
      /\ \A e \in Exec : ~FilterFileFails(e)
      /\ ~Crash /\ ~Restart /\ NoFault
      /\ \A kind : ~Inject(kind)
      /\ cancelled = {}
  BY StepWithoutFault DEF TurnInv
<1>2. \A g, h \in Handler : pc[g] \in Critical /\ pc[h] \in Critical => g = h
  BY DEF IInv, LockInv
<1>3. \A e \in Exec : Awaited(e)
  BY DEF DivertInv
\* No script of an Apply is left when the lock is held by another handler.
<1>4. \A e \in Exec, h \in Handler :
        pc[h] \in Critical /\ h # <<e, "add">> => pending[<<e, "add">>] = 0
  <2> SUFFICES ASSUME NEW e \in Exec, NEW h \in Handler, pc[h] \in Critical, h # <<e, "add">>
               PROVE  pending[<<e, "add">>] = 0
    OBVIOUS
  <2>1. pc[<<e, "add">>] \notin Critical
    BY <1>0, <1>2
  <2>2. ~(pending[<<e, "add">>] > 0)
    BY <1>3, <2>1 DEF Awaited, Critical
  <2>3. pending[<<e, "add">>] \in Nat
    BY <1>0
  <2> QED
    BY <2>2, <2>3
\* The Apply in its turn is admitted.
<1>5. \A e \in Exec : pc[<<e, "add">>] \in {"qos", "windivert", "await"} /\ WinDivert(e)
        => Underway(e) /\ activeFw # <<>> /\ activeFw[1] = Opts[e].str
  <2> SUFFICES ASSUME NEW e \in Exec, pc[<<e, "add">>] \in {"qos", "windivert", "await"}, WinDivert(e)
               PROVE  Underway(e) /\ activeFw # <<>> /\ activeFw[1] = Opts[e].str
    OBVIOUS
  <2>1. agent[e] = "starting" /\ ~failed[<<e, "add">>]
    BY <1>0 DEF TurnInv, CommandsInv
  <2>2. Holds(e)
    BY <2>1 DEF Holds, Critical
  <2>3. \A f \in Exec : Opts[f] = Opts[e] => f = e
    BY OneDiverter
  <2>4. Undisturbed(e)
    BY <1>1, <2>1, <2>3 DEF Undisturbed, Ended, NoFault, FaultKinds
  <2> QED
    BY <2>1, <2>2, <2>4 DEF HoldInv
<1>6. ASSUME NEW e \in Exec, StartCall(e) \/ StopCall(e) PROVE DivertInv'
  <2>1. UNCHANGED <<activeFw, pending, wdna, svc>>
    BY <1>6 DEF StartCall, StopCall
  <2>2. /\ \A f \in Exec : Underway(f) => agent'[f] = agent[f] \/ agent'[f] = "stopping"
        /\ \A f \in Exec : agent[f] # "prepared" => pc'[<<f, "add">>] = pc[<<f, "add">>]
        /\ \A h \in Handler : pc'[h] # pc[h] => pc[h] = "idle" /\ pc'[h] = "lock"
    BY <1>0, <1>6 DEF StartCall, StopCall, Call
  <2>3. \A f \in Exec : Diverting(f) => Diverting(f)'
    BY <2>1, <2>2 DEF Diverting
  <2>4. \A f \in Exec : Awaited(f)'
    BY <1>0, <1>3, <2>1, <2>2 DEF Awaited
  <2> QED
    BY <2>1, <2>3, <2>4, DivertKept
<1>7. ASSUME NEW h \in Handler, TakeLock(h) PROVE DivertInv'
  <2>1. /\ UNCHANGED <<agent, pending, wdna, svc>>
        /\ pc[h] = "lock" /\ lock = Free
        /\ pc' = [pc EXCEPT ![h] = "finish"] \/ pc' = [pc EXCEPT ![h] = "qos"]
        /\ h[2] = "del" => pc' = [pc EXCEPT ![h] = "qos"]
    BY <1>7 DEF TakeLock
  <2>2. activeFw # <<>> => activeFw' # <<>> /\ activeFw'[1] = activeFw[1]
    <3>1. activeFw' = activeFw \/ activeFw' = Append(activeFw, Opts[h[1]].str)
      BY <1>7 DEF TakeLock
    <3>2. activeFw \in Seq(Keys) /\ Opts[h[1]].str \in Keys
      BY DEF IInv, TypeOK
    <3> QED
      BY <3>1, <3>2, AppendProperties, LenProperties, EmptySeq
  <2>3. \A f \in Exec : Diverting(f) => Diverting(f)'
    BY <1>0, <2>1, <2>2 DEF Diverting
  <2>4. \A f \in Exec : <<f, "del">> = h => pc'[<<f, "del">>] = "qos"
    BY <1>0, <2>1
  <2>5. \A f \in Exec : Awaited(f)'
    BY <1>0, <1>3, <2>1, <2>4 DEF Awaited
  <2> QED
    BY <2>1, <2>3, <2>5, DivertKept
<1>8. ASSUME NEW h \in Handler, RunQoS(h) \/ QoSReturns(h) \/ QoSCommand(h) PROVE DivertInv'
  <2>1. UNCHANGED <<agent, activeFw, pending, wdna, svc>>
    BY <1>8 DEF RunQoS, QoSReturns, QoSCommand
  <2>2. \/ pc' = pc
        \/ pc[h] = "qos" /\ pc' = [pc EXCEPT ![h] = "windivert"]
        \/ pc[h] = "qos" /\ pc' = [pc EXCEPT ![h] = "qosrun"] /\ ~WinDivert(h[1])
        \/ pc[h] = "qosrun" /\ pc' = [pc EXCEPT ![h] = "finish"]
    BY <1>1, <1>8 DEF RunQoS, QoSReturns, QoSCommand
  <2>3. \A f \in Exec : Diverting(f) => Diverting(f)'
    BY <1>0, <2>1, <2>2 DEF Diverting
  <2>4. \A f \in Exec : Awaited(f)'
    <3>1. \A f \in Exec : WinDivert(f) => pc[<<f, "del">>] # "qosrun"
      <4>1. \A f \in Exec : <<f, "del">>[1] = f
        OBVIOUS
      <4> QED
        BY <1>0, <4>1 DEF CommandsInv
    <3> QED
      BY <1>0, <1>3, <2>1, <2>2, <3>1 DEF Awaited
  <2> QED
    BY <2>1, <2>3, <2>4, DivertKept
<1>9. ASSUME NEW h \in Handler, RunWinDivert(h) PROVE DivertInv'
  <2>1. /\ UNCHANGED <<agent, activeFw, wdna, svc>>
        /\ pc[h] = "windivert" /\ pc' = [pc EXCEPT ![h] = "await"]
        /\ pending' = [pending EXCEPT ![h] = pending[h] + 1]
    BY <1>1, <1>9 DEF RunWinDivert
  <2>2. WinDivert(h[1])
    BY <2>1 DEF CommandsInv
  <2>3. \A f \in Exec : Diverting(f) => Diverting(f)'
    BY <1>0, <2>1 DEF Diverting
  <2>4. ASSUME NEW f \in Exec PROVE Awaited(f)'
    <3>1. CASE h = <<f, "add">>
      <4>1. activeFw # <<>> /\ activeFw[1] = Opts[f].str
        BY <1>5, <2>1, <2>2, <3>1
      <4>2. ~svc
        <5>1. \A g \in Exec : Diverting(g) => g = f
          BY <2>2, <3>1, <4>1, OneDiverter DEF Diverting
        <5>2. ~Diverting(f)
          BY <2>1, <3>1 DEF Diverting
        <5> QED
          BY <5>1, <5>2 DEF DivertInv
      <4>3. pending[<<f, "add">>] = 0
        <5>1. ~(pending[<<f, "add">>] > 0)
          BY <1>3, <2>1, <3>1 DEF Awaited
        <5>2. pending[<<f, "add">>] \in Nat
          BY <1>0
        <5> QED
          BY <5>1, <5>2
      <4>4. pc'[<<f, "add">>] = "await" /\ pending'[<<f, "add">>] = 1
        BY <1>0, <2>1, <3>1, <4>3
      <4>5. pc'[<<f, "del">>] \notin {"await", "finish"}
        BY <1>0, <1>2, <2>1, <3>1 DEF Critical
      <4> QED
        BY <2>1, <4>2, <4>4, <4>5 DEF Awaited
    <3>2. CASE h = <<f, "del">>
      <4>1. pending'[<<f, "add">>] = 0
        BY <1>0, <1>4, <2>1, <3>2 DEF Critical
      <4>2. pc'[<<f, "del">>] = "await" /\ pending'[<<f, "del">>] > 0
        BY <1>0, <2>1, <3>2
      <4> QED
        BY <4>1, <4>2 DEF Awaited
    <3>3. CASE h # <<f, "add">> /\ h # <<f, "del">>
      BY <1>0, <1>3, <2>1, <3>3 DEF Awaited
    <3> QED
      BY <3>1, <3>2, <3>3
  <2> QED
    BY <2>1, <2>3, <2>4, DivertKept
<1>10. ASSUME NEW h \in Handler, AwaitService(h) PROVE DivertInv'
  <2>1. /\ UNCHANGED <<agent, activeFw, pending, wdna, svc>>
        /\ pc[h] = "await" /\ pc' = [pc EXCEPT ![h] = "finish"]
    BY <1>10 DEF AwaitService
  <2>2. svc = (h[2] = "add") \/ \A g \in Handler : pending[g] = 0
    BY <1>0, <1>1, <1>10 DEF AwaitService
  <2>3. \A f \in Exec : Diverting(f) => Diverting(f)'
    BY <1>0, <2>1 DEF Diverting
  <2>4. ASSUME NEW f \in Exec PROVE Awaited(f)'
    <3>1. CASE h = <<f, "add">>
      <4>1. pending[<<f, "add">>] = 0
        <5>1. ~(pending[<<f, "add">>] > 0)
          <6>1. h[2] = "add"
            BY <3>1
          <6>2. svc \/ pending[<<f, "add">>] = 0
            BY <1>0, <2>2, <6>1
          <6>3. pending[<<f, "add">>] > 0 => ~svc
            BY <1>3 DEF Awaited
          <6> QED
            BY <6>2, <6>3
        <5>2. pending[<<f, "add">>] \in Nat
          BY <1>0
        <5> QED
          BY <5>1, <5>2
      <4>2. pc'[<<f, "del">>] \notin {"await", "finish"}
        BY <1>0, <1>2, <2>1, <3>1 DEF Critical
      <4> QED
        BY <2>1, <4>1, <4>2 DEF Awaited
    <3>2. CASE h = <<f, "del">>
      <4>1. pending[<<f, "add">>] = 0
        BY <1>4, <2>1, <3>2 DEF Critical
      <4>2. ~svc
        BY <1>0, <1>3, <2>1, <2>2, <3>2 DEF Awaited
      <4> QED
        BY <2>1, <4>1, <4>2 DEF Awaited
    <3>3. CASE h # <<f, "add">> /\ h # <<f, "del">>
      BY <1>0, <1>3, <2>1, <3>3 DEF Awaited
    <3> QED
      BY <3>1, <3>2, <3>3
  <2> QED
    BY <2>1, <2>3, <2>4, DivertKept
<1>11. ASSUME NEW h \in Handler, Finish(h) PROVE DivertInv'
  <2>1. /\ UNCHANGED <<pending, wdna, svc>>
        /\ pc[h] = "finish" /\ pc' = [pc EXCEPT ![h] = "idle"]
        /\ agent' = Answer(h) /\ activeFw' = Popped(h)
    BY <1>11 DEF Finish
  <2>2. \A f \in Exec : Awaited(f)'
    BY <1>0, <1>3, <2>1 DEF Awaited
  <2>3. CASE h[2] = "add"
    <3>1. activeFw' = activeFw /\ \A f \in Exec : Underway(f) => Underway(f)'
      BY <1>0, <2>1, <2>3 DEF Popped, Answer
    <3>2. \A f \in Exec : Diverting(f) => Diverting(f)'
      BY <1>0, <2>1, <3>1 DEF Diverting
    <3> QED
      BY <2>1, <2>2, <3>2, DivertKept
  <2>4. CASE h[2] = "del" /\ ~svc
    BY <2>1, <2>2, <2>4 DEF DivertInv
  <2>5. CASE h[2] = "del" /\ svc
    <3>0. h = <<h[1], "del">>
      BY <2>5 DEF Handler
    <3>1. ~WinDivert(h[1])
      BY <1>3, <2>1, <2>5, <3>0 DEF Awaited
    <3>2. ASSUME NEW f \in Exec, Diverting(f) PROVE Diverting(f)'
      <4>1. f # h[1] /\ activeFw # <<>> /\ activeFw[1] # Opts[h[1]].str
        BY <3>1, <3>2, OneDiverter DEF Diverting
      <4>2. activeFw' = activeFw
        <5>1. activeFw \in Seq(Keys) /\ \A i \in DOMAIN activeFw : activeFw[i] = activeFw[1]
          BY <4>1, LenProperties, EmptySeq DEF IInv, TypeOK, OneSettingAtATime
        <5> QED
          BY <2>1, <2>5, <4>1, <5>1, PopOfEquals DEF Popped
      <4>3. agent'[f] = agent[f]
        BY <1>0, <2>1, <4>1 DEF Answer
      <4> QED
        BY <1>0, <2>1, <3>2, <4>2, <4>3 DEF Diverting
    <3> QED
      BY <2>1, <2>2, <3>2, DivertKept
  <2> QED
    BY <2>3, <2>4, <2>5
<1>12. ASSUME NEW h \in Handler, PowershellRuns(h) PROVE DivertInv'
  <2>1. /\ UNCHANGED <<agent, pc, activeFw>>
        /\ pending[h] > 0 /\ pending' = [pending EXCEPT ![h] = pending[h] - 1]
        /\ wdna' = IF h[2] = "add" THEN wdna \cup {h[1]} ELSE {}
        /\ svc' = (h[2] = "add")
    BY <1>1, <1>12 DEF PowershellRuns
  <2>2. CASE h[2] = "add"
    <3>0. h = <<h[1], "add">>
      BY <2>2 DEF Handler
    <3>5. svc'
      BY <2>1, <2>2
    <3>1. pc[h] = "await" /\ pending[h] = 1
      BY <1>3, <2>1, <3>0 DEF Awaited
    <3>2. Diverting(h[1])'
      BY <1>5, <2>1, <3>0, <3>1 DEF Diverting, CommandsInv
    <3>3. \A f \in Exec : pending'[<<f, "add">>] = 0
      <4>1. \A f \in Exec : <<f, "add">> # h => pending[<<f, "add">>] = 0
        BY <1>4, <3>1 DEF Critical
      <4>2. /\ pending'[h] = 0
            /\ \A g \in Handler \ {h} : pending'[g] = pending[g]
        BY <1>0, <2>1, <3>1
      <4> QED
        BY <1>0, <4>1, <4>2
    <3>4. \A f \in Exec : pc'[<<f, "del">>] \notin {"await", "finish"}
      <4>1. \A f \in Exec : <<f, "del">> # h
        BY <3>0
      <4> QED
        BY <1>0, <1>2, <2>1, <3>1, <4>1 DEF Critical
    <3> QED
      BY <3>5, <3>2, <3>3, <3>4 DEF DivertInv, Awaited
  <2>3. CASE h[2] = "del"
    <3>1. wdna' = {} /\ ~svc'
      BY <2>1, <2>3
    <3>2. \A f \in Exec : pending'[<<f, "add">>] = pending[<<f, "add">>]
      BY <1>0, <2>1, <2>3
    <3>3. \A f \in Exec : Awaited(f)'
      BY <1>3, <2>1, <3>1, <3>2 DEF Awaited
    <3> QED
      BY <3>1, <3>3 DEF DivertInv
  <2> QED
    BY <2>2, <2>3
<1>13. ASSUME NEW e \in Exec, WdnaExpires(e) PROVE DivertInv'
  <2>1. /\ UNCHANGED <<agent, pc, activeFw, pending>> /\ wdna' = wdna \ {e}
        /\ svc' = svc \/ (svc' = (svc /\ wdna # {e}))
    BY <1>13 DEF WdnaExpires
  <2>2. (wdna' # {} => svc') /\ (svc' => svc)
    BY <1>0, <2>1 DEF DivertInv
  <2>3. \A f \in Exec : Awaited(f)'
    BY <1>3, <2>1, <2>2 DEF Awaited
  <2>4. svc' => \E f \in Exec : Diverting(f)'
    BY <2>1, <2>2 DEF DivertInv, Diverting
  <2> QED
    BY <2>2, <2>3, <2>4 DEF DivertInv
<1>14. CASE CleanerRemoves \/ CleanerUnlocks \/ CleanerTakesLock \/ Tick \/ UNCHANGED vars
  <2>1. UNCHANGED <<agent, pc, activeFw, pending, wdna, svc>>
    BY <1>14 DEF CleanerRemoves, CleanerUnlocks, CleanerTakesLock, Tick, vars
  <2> QED
    BY <2>1 DEF DivertInv, Awaited, Diverting
<1>15. \A h \in Handler : ~KillQoS(h)
  BY <1>1 DEF KillQoS
<1> QED
  BY <1>1, <1>6, <1>7, <1>8, <1>9, <1>10, <1>11, <1>12, <1>13, <1>14, <1>15, Zenon
  DEF Next, AgentCall, Work, HandlerStep, CleanerStep

\* Without a fault, policies and running drivers belong to executions underway.
THEOREM EffectInvariance == Spec => []EffectInv
<1>1. Init => EffectInv
  <2> SUFFICES ASSUME Init PROVE EffectInv
    OBVIOUS
  <2>1. CommandsInv /\ TurnInv /\ LimitInv /\ DivertInv
    BY DEF Init, CommandsInv, TurnInv, LimitInv, Removed, DivertInv, Awaited, Handler
  <2> QED
    BY <2>1 DEF EffectInv
<1>2. IInv /\ AgentInv /\ EffectInv /\ [Next]_vars => EffectInv'
  <2> SUFFICES ASSUME IInv, AgentInv, EffectInv, [Next]_vars PROVE EffectInv'
    OBVIOUS
  <2>1. CommandsInv'
    BY CommandsStep DEF EffectInv
  <2>2. ASSUME NoFault' PROVE TurnInv' /\ LimitInv' /\ (DivertersDiffer => DivertInv')
    <3>1. CallInv /\ HoldInv /\ CommandsInv /\ TurnInv /\ LimitInv /\ (DivertersDiffer => DivertInv)
      BY <2>2, StepWithoutFault DEF AgentInv, EffectInv
    <3> QED
      BY <2>2, <3>1, TurnStep, LimitStep, DivertStep
  <2> QED
    BY <2>1, <2>2 DEF EffectInv, DivertersDiffer
<1>3. QED
  BY <1>1, <1>2, Invariance, AgentInvariance, PTL DEF Spec

\* When every execution has been stopped without a fault, no policy is left and, if no two
\* diverters are alike, no wdna.exe diverts packets.
THEOREM NoEffectLeft == Spec => []FinishedLeavesNoEffect
<1>1. EffectInv => FinishedLeavesNoEffect
  <2> SUFFICES ASSUME EffectInv, AllStopped, NoFault
               PROVE  policies = {} /\ (DivertersDiffer => wdna = {})
    BY DEF FinishedLeavesNoEffect
  <2>1. \A e \in Exec : ~Underway(e)
    BY DEF AllStopped, Underway
  <2>2. policies = {}
    BY <2>1 DEF EffectInv, LimitInv
  <2>3. DivertersDiffer => wdna = {}
    BY <2>1 DEF EffectInv, DivertInv, Diverting
  <2> QED
    BY <2>2, <2>3
<1>2. QED
  BY <1>1, EffectInvariance, PTL
=============================================================================
