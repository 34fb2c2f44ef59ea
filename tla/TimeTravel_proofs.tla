-------------------------- MODULE TimeTravel_proofs --------------------------
(* The clock is right and the time service runs when every time travel has been  *)
(* stopped: proved for any number of executions, faults and calls of Stop.       *)
EXTENDS TimeTravel, FiniteSetTheorems, TLAPS

\* In the initial state nobody has touched the clock.
LEMMA InitInvariant == Init => IInv
  BY TimeAssumption, FS_EmptySet DEF Init, IInv, TypeOK, HandlerInv, ClockIsOwned,
                     ServiceIsOwned, StartSteps, StopSteps, Handler

\* Every command, whether it succeeds or fails and whether its answer is awaited or not,
\* keeps an owner for a clock that is wrong.
LEMMA StepInvariant == IInv /\ [Next]_vars => IInv'
<1> SUFFICES ASSUME IInv, [Next]_vars PROVE IInv'
  OBVIOUS
<1> USE TimeAssumption DEF IInv, TypeOK, HandlerInv, ServiceIsOwned, StartSteps, StopSteps, Goto,
                          Agent, Handler
<1>a. ASSUME UNCHANGED <<shift, lost, late>>,
             \A x \in Exec : OwesResync(x) => OwesResync(x)'
      PROVE ClockIsOwned'
  BY <1>a DEF ClockIsOwned
<1>b. ASSUME Corrected PROVE ClockIsOwned'
  BY <1>b, FS_EmptySet DEF Corrected, ClockIsOwned
<1>1. ASSUME NEW e \in Exec, StartCall(e) PROVE IInv'
  <2>1. TypeOK' /\ HandlerInv' /\ ServiceIsOwned'
    BY <1>1 DEF StartCall, FirstOfStart
  <2>2. ClockIsOwned'
    BY <1>1, <1>a DEF StartCall, OwesResync
  <2> QED
    BY <2>1, <2>2
<1>2. ASSUME NEW e \in Exec, StopCall(e) PROVE IInv'
  <2>1. TypeOK' /\ ServiceIsOwned'
    BY <1>2 DEF StopCall, SkipsRevert, FirstOfStop
  <2>2. HandlerInv'
    BY <1>2 DEF StopCall, SkipsRevert, FirstOfStop
  <2>3. ClockIsOwned'
    BY <1>2, <1>a DEF StopCall, SkipsRevert, OwesResync
  <2> QED
    BY <2>1, <2>2, <2>3
<1>3. ASSUME NEW e \in Exec, GiveUp(e) PROVE IInv'
  <2>1. TypeOK' /\ HandlerInv' /\ ServiceIsOwned'
    BY <1>3 DEF GiveUp, Inject
  <2>2. ClockIsOwned'
    BY <1>3, <1>a DEF GiveUp, OwesResync
  <2> QED
    BY <2>1, <2>2
<1>4. ASSUME NEW h \in Handler, CommandFails(h) PROVE IInv'
  <2>1. TypeOK' /\ HandlerInv' /\ ServiceIsOwned'
    BY <1>4 DEF CommandFails, Inject, Answer, Heard
  <2>2. ClockIsOwned'
    BY <1>4, <1>a DEF CommandFails, Answer, Heard, OwesResync
  <2> QED
    BY <2>1, <2>2
<1>5. ASSUME NEW h \in Handler, StopNtp(h) PROVE IInv'
  <2>1. h = <<h[1], 0>> /\ h[1] \in DisableNtp /\ ~applied[h[1]]
    BY <1>5 DEF StopNtp
  <2>2. TypeOK' /\ ServiceIsOwned'
    BY <1>5, <2>1 DEF StopNtp
  <2>3. HandlerInv'
    BY <1>5, <2>1 DEF StopNtp
  <2>4. ClockIsOwned'
    BY <1>5, <1>a DEF StopNtp, OwesResync
  <2> QED
    BY <2>2, <2>3, <2>4
<1>6. ASSUME NEW h \in Handler, SetDate(h) PROVE IInv'
  <2>1. h = <<h[1], 0>> /\ h[1] \in Exec /\ ~applied[h[1]] /\ h \notin lost
    BY <1>6 DEF SetDate
  <2>2. CASE Heard(h)
    <3>1. agent[h[1]] = "starting" /\ agent' = [agent EXCEPT ![h[1]] = "running"]
      BY <1>6, <2>1, <2>2 DEF SetDate, Heard, Answer
    <3>2. applied' = [applied EXCEPT ![h[1]] = TRUE] /\ UNCHANGED <<lost, late>>
      BY <1>6, <2>2 DEF SetDate, Applied
    <3>3. applied' \in [Exec -> BOOLEAN]
      BY <3>2, <2>1, Zenon
    <3>4. TypeOK' /\ HandlerInv' /\ ServiceIsOwned'
      BY <1>6, <2>1, <3>1, <3>2, <3>3 DEF SetDate
    <3>5. OwesResync(h[1])'
      BY <2>1, <3>1, <3>2 DEF OwesResync
    <3>6. ClockIsOwned'
      BY <2>1, <3>2, <3>5 DEF ClockIsOwned
    <3> QED
      BY <3>4, <3>6
  <2>3. CASE ~Heard(h)
    <3>1. UNCHANGED <<agent, applied, late>> /\ lost' = lost \cup {h} /\ shift' = shift + 1
      BY <1>6, <2>3 DEF SetDate, Answer
    <3>2. TypeOK' /\ HandlerInv' /\ ServiceIsOwned'
      BY <1>6, <2>1, <3>1 DEF SetDate
    <3>3. IsFiniteSet(lost') /\ Cardinality(lost') = Cardinality(lost) + 1
      BY <2>1, <3>1, FS_AddElement DEF ClockIsOwned
    <3>4. Cardinality(lost) \in Nat /\ Cardinality(late) \in Nat
      BY FS_CardinalityType DEF ClockIsOwned
    <3>5. \A x \in Exec : OwesResync(x) => OwesResync(x)'
      BY <3>1 DEF OwesResync
    <3>6. ClockIsOwned'
      BY <3>1, <3>3, <3>4, <3>5 DEF ClockIsOwned
    <3> QED
      BY <3>2, <3>6
  <2> QED
    BY <2>2, <2>3
<1>7. ASSUME NEW h \in Handler, StartNtp(h) PROVE IInv'
  <2>1. TypeOK' /\ HandlerInv' /\ ServiceIsOwned'
    BY <1>7 DEF StartNtp
  <2>2. ClockIsOwned'
    BY <1>7, <1>a DEF StartNtp, OwesResync
  <2> QED
    BY <2>1, <2>2
<1>8. ASSUME NEW h \in Handler, ResetDate(h) PROVE IInv'
  <2>1. h[1] \in Exec /\ applied[h[1]] /\ h[2] # 0 /\ h[2] <= stops[h[1]] /\ h \notin late
    BY <1>8 DEF ResetDate
  <2>2. TypeOK' /\ HandlerInv' /\ ServiceIsOwned'
    BY <1>8, <2>1 DEF ResetDate
  <2>3. \A x \in Exec : OwesResync(x) => OwesResync(x)'
    BY <1>8 DEF ResetDate, OwesResync
  <2>4. CASE Heard(h)
    <3>1. OwesResync(h[1])
      BY <2>1, <2>4 DEF Heard, OwesResync
    <3> QED
      BY <1>8, <2>1, <2>2, <2>3, <2>4, <3>1 DEF ResetDate, ClockIsOwned
  <2>5. CASE ~Heard(h)
    <3>1. late' = late \cup {h} /\ UNCHANGED lost /\ shift' = shift - 1
      BY <1>8, <2>5 DEF ResetDate
    <3>2. IsFiniteSet(late') /\ Cardinality(late') = Cardinality(late) + 1
      BY <2>1, <3>1, FS_AddElement DEF ClockIsOwned
    <3>3. Cardinality(lost) \in Nat /\ Cardinality(late) \in Nat
      BY FS_CardinalityType DEF ClockIsOwned
    <3>4. ClockIsOwned'
      BY <2>3, <3>1, <3>2, <3>3 DEF ClockIsOwned
    <3> QED
      BY <2>2, <3>4
  <2> QED
    BY <2>4, <2>5
<1>9. ASSUME NEW h \in Handler, Resync(h) PROVE IInv'
  <2>1. TypeOK' /\ HandlerInv' /\ ServiceIsOwned'
    BY <1>9 DEF Resync, Corrected, Answer, Heard
  <2> QED
    BY <1>9, <1>b, <2>1 DEF Resync
<1>10. CASE NtpSync
  <2>1. TypeOK' /\ HandlerInv' /\ ServiceIsOwned'
    BY <1>10 DEF NtpSync, Corrected
  <2> QED
    BY <1>10, <1>b, <2>1 DEF NtpSync
<1>11. CASE UNCHANGED vars
  <2>1. TypeOK' /\ HandlerInv' /\ ServiceIsOwned'
    BY <1>11 DEF vars
  <2>2. ClockIsOwned'
    BY <1>11, <1>a DEF vars, OwesResync
  <2> QED
    BY <2>1, <2>2
<1> QED
  BY <1>1, <1>2, <1>3, <1>4, <1>5, <1>6, <1>7, <1>8, <1>9, <1>10, <1>11 DEF Next

\* A wrong clock always has an execution that still owes its resync.
THEOREM TimeInvariance == Spec => []IInv
<1>1. Init => IInv
  BY InitInvariant
<1>2. IInv /\ [Next]_vars => IInv'
  BY StepInvariant
<1> QED
  BY <1>1, <1>2, PTL DEF Spec

\* When every execution is stopped, the clock is wrong at most by what calls have done that
\* the agent had given up, since it was corrected last.
THEOREM ClockRestored == Spec => []StoppedClockIsRight
<1>1. IInv => StoppedClockIsRight
  BY DEF IInv, ClockIsOwned, OwesResync, StoppedClockIsRight, AllStopped
<1> QED
  BY <1>1, TimeInvariance, PTL

\* When every execution is stopped, the time service runs, unless a Start that has
\* disabled it failed or was given up.
THEOREM ServiceRestored == Spec => []StoppedServiceRuns
<1>1. IInv => StoppedServiceRuns
  BY TimeAssumption DEF IInv, ServiceIsOwned, StoppedServiceRuns, AllStopped
<1> QED
  BY <1>1, TimeInvariance, PTL
=============================================================================
