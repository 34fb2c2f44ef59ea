------------------------ MODULE ProcessStopper_proofs ------------------------
(* Parallel stop-process attacks are told apart, and an attack with a delay is    *)
(* quiet after its end: proved for any executions, filters and processes.         *)
EXTENDS ProcessStopper, TLAPS

\* Initially nothing is stored, found or reported.
LEMMA InitInvariant == Init => IInv
  BY DEF Init, IInv, TypeOK, OwnStopper, OwnProcesses, LoadsAStopper, ReportsOwnFailure,
         Handling, Idle

\* Every step of a handler, the goroutine or the environment keeps the invariant.
LEMMA StepInvariant == IInv /\ [Next]_vars => IInv'
<1> SUFFICES ASSUME IInv, [Next]_vars PROVE IInv'
  OBVIOUS
<1> USE StopperAssumption DEF IInv, TypeOK, OwnStopper, OwnProcesses, LoadsAStopper,
                             ReportsOwnFailure, Handling, Idle, Key, Cancelled
<1>1. ASSUME NEW e \in Exec, Start(e) PROVE IInv'
  BY <1>1 DEF Start, roundVars
<1>2. ASSUME NEW e \in Exec, Status(e) PROVE IInv'
  BY <1>2 DEF Status, roundVars
<1>3. ASSUME NEW e \in Exec, StopCancels(e) PROVE IInv'
  <2>1. TypeOK'
    <3>1. CASE stopper[e] = None
      BY <1>3, <3>1 DEF StopCancels, roundVars
    <3>2. CASE stopper[e] # None
      <4>1. agent' \in [Exec -> {"prepared", "running", "stopping", "stopped"}]
        BY <1>3, <3>2 DEF StopCancels
      <4>2. stop' = [stop EXCEPT ![e] = [at |-> "delete", of |-> stopper[e]]]
        BY <1>3, <3>2 DEF StopCancels
      <4>3. [at |-> "delete", of |-> stopper[e]] \in Handling
        OBVIOUS
      <4>4. stop' \in [Exec -> Handling]
        BY <4>2, <4>3
      <4>5. ctx' \in [Exec -> {"live", "expired", "cancelled"}]
        BY <1>3, <3>2 DEF StopCancels
      <4> QED
        BY <1>3, <4>1, <4>4, <4>5 DEF StopCancels, roundVars
    <3> QED
      BY <3>1, <3>2
  <2>2. OwnStopper'
    BY <1>3 DEF StopCancels, roundVars
  <2>3. OwnProcesses' /\ LoadsAStopper'
    BY <1>3 DEF StopCancels, roundVars
  <2>4. ReportsOwnFailure'
    BY <1>3 DEF StopCancels, roundVars
  <2> QED
    BY <2>1, <2>2, <2>3, <2>4
<1>4. ASSUME NEW e \in Exec, StopDeletes(e) PROVE IInv'
  BY <1>4 DEF StopDeletes, roundVars
<1>5. ASSUME NEW e \in Exec, StopReports(e) PROVE IInv'
  <2>1. TypeOK'
    BY <1>5 DEF StopReports, roundVars
  <2>2. OwnStopper' /\ OwnProcesses' /\ LoadsAStopper'
    BY <1>5 DEF StopReports, roundVars
  <2>3. ReportsOwnFailure'
    BY <1>5 DEF StopReports, roundVars
  <2> QED
    BY <2>1, <2>2, <2>3
<1>6. ASSUME NEW e \in Exec, Select(e) PROVE IInv'
  <2>1. TypeOK'
    BY <1>6 DEF Select, AfterDone, handlerVars, roundVars
  <2>2. OwnStopper' /\ OwnProcesses' /\ LoadsAStopper'
    BY <1>6 DEF Select, AfterDone, handlerVars, roundVars
  <2>3. ReportsOwnFailure'
    BY <1>6 DEF Select, AfterDone, handlerVars, roundVars
  <2> QED
    BY <2>1, <2>2, <2>3
<1>7. ASSUME NEW e \in Exec, TimerFires(e) PROVE IInv'
  BY <1>7 DEF TimerFires, handlerVars, roundVars
<1>8. ASSUME NEW e \in Exec, DoneWakes(e) PROVE IInv'
  BY <1>8 DEF DoneWakes, AfterDone, handlerVars, roundVars
<1>9. ASSUME NEW e \in Exec, Find(e) PROVE IInv'
  BY <1>9 DEF Find, handlerVars
<1>10. ASSUME NEW e \in Exec, Kill(e) PROVE IInv'
  BY <1>10 DEF Kill, Rest, handlerVars
<1>11. ASSUME NEW e \in Exec, RoundEnds(e) PROVE IInv'
  BY <1>11 DEF RoundEnds, AfterRound, handlerVars, roundVars
<1>12. ASSUME NEW e \in Exec, Expire(e) PROVE IInv'
  BY <1>12 DEF Expire, handlerVars, roundVars
<1>13. ASSUME NEW p \in Pid, Respawn(p) PROVE IInv'
  BY <1>13 DEF Respawn, handlerVars, roundVars
<1>14. CASE UNCHANGED vars
  BY <1>14 DEF vars, handlerVars, roundVars
<1> QED
  BY <1>1, <1>2, <1>3, <1>4, <1>5, <1>6, <1>7, <1>8, <1>9, <1>10, <1>11, <1>12, <1>13,
     <1>14 DEF Next, StopSteps, Goroutine

\* Handlers meet only their own stopper, rounds only processes of their filter.
THEOREM StopperInvariance == Spec => []IInv
<1>1. Init => IInv
  BY InitInvariant
<1>2. IInv /\ [Next]_vars => IInv'
  BY StepInvariant
<1> QED
  BY <1>1, <1>2, PTL DEF Spec

\* The error an execution reports names only processes its own filter matches.
THEOREM OwnFailure == Spec => []ReportsOwnFailure
<1>1. IInv => ReportsOwnFailure
  BY DEF IInv
<1> QED
  BY <1>1, StopperInvariance, PTL

\* Once its context has ended, an execution with a delay starts no further round.
THEOREM Quiet == Spec => QuietAfterDone
<1>1. ASSUME TypeOK, Next, NEW f \in Exec \ NoDelay PROVE StartsNoRound(f)
  <2>1. ASSUME NEW e \in Exec, pc' = [pc EXCEPT ![e] = "find"], ctx[e] = "live" \/ e \in NoDelay
        PROVE StartsNoRound(f)
    BY <1>1, <2>1 DEF TypeOK, StartsNoRound
  <2>2. ASSUME NEW e \in Exec, NEW step, step # "find", pc' = [pc EXCEPT ![e] = step]
        PROVE StartsNoRound(f)
    BY <1>1, <2>2 DEF TypeOK, StartsNoRound
  <2>3. ASSUME UNCHANGED pc PROVE StartsNoRound(f)
    BY <2>3 DEF StartsNoRound
  <2>4. ASSUME NEW e \in Exec, Select(e) PROVE StartsNoRound(f)
    BY <2>1, <2>2, <2>4 DEF Select, AfterDone, TimerReady
  <2>5. ASSUME NEW e \in Exec, TimerFires(e) PROVE StartsNoRound(f)
    BY <2>1, <2>5 DEF TimerFires
  <2>6. ASSUME NEW e \in Exec, RoundEnds(e) PROVE StartsNoRound(f)
    BY <2>2, <2>6 DEF RoundEnds, AfterRound
  <2>7. ASSUME NEW e \in Exec, Start(e) \/ DoneWakes(e) \/ Find(e) PROVE StartsNoRound(f)
    BY <2>2, <2>7 DEF Start, DoneWakes, AfterDone, Find
  <2>8. ASSUME NEW e \in Exec, \/ Status(e) \/ StopCancels(e) \/ StopSteps(e)
                               \/ Kill(e) \/ Expire(e)
        PROVE StartsNoRound(f)
    BY <2>3, <2>8 DEF Status, StopCancels, StopSteps, StopDeletes, StopReports, Kill, Expire
  <2>9. ASSUME NEW p \in Pid, Respawn(p) PROVE StartsNoRound(f)
    BY <2>3, <2>9 DEF Respawn
  <2> QED
    BY <1>1, <2>4, <2>5, <2>6, <2>7, <2>8, <2>9 DEF Next, Goroutine
<1>2. TypeOK /\ [Next]_vars => [OnlyLiveOnesStart]_vars
  BY <1>1 DEF OnlyLiveOnesStart
<1>3. IInv => TypeOK
  BY DEF IInv
<1> QED
  BY <1>2, <1>3, StopperInvariance, PTL DEF Spec, QuietAfterDone
=============================================================================
