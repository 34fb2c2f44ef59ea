----------------------- MODULE ExtensionService_proofs -----------------------
(***************************************************************************)
(* Proofs about ExtensionService, for all executions, settings, faults and *)
(* stops.  A step of the composition is a step of NetworkAttack, the end   *)
(* of the process, or leaves the variables of NetworkAttack alone, so the  *)
(* lemmas of NetworkAttack_proofs carry over; what the composition adds is *)
(* RoutineInv.                                                             *)
(***************************************************************************)
EXTENDS ExtensionService, NetworkAttack_proofs

\* The actions that end the process, and what they do to the rest of the host.
ProcessEnd ==
  Exit \/ BootFails \/ ProcessCrashes \/ (HostDown /\ up)

\* Every step of the composition is one of the three kinds for the network attacks.
LEMMA StepKinds ==
  ServiceIInv /\ [ServiceNext]_serviceVars =>
    \/ [Next]_vars
    \/ ProcessEnd
    \/ UNCHANGED <<activeFw, todo, up>> /\ IInv'
<1> SUFFICES ASSUME ServiceIInv, [ServiceNext]_serviceVars
             PROVE  \/ [Next]_vars
                    \/ ProcessEnd
                    \/ UNCHANGED <<activeFw, todo, up>> /\ IInv'
  OBVIOUS
<1> USE DEF handlerVars, qosVars, winDivertVars, cleanerVars
<1>1. CASE SetUp \/ Unlist
  <2>1. /\ UNCHANGED <<agent, handlerVars, lock, activeFw, qosVars, winDivertVars,
                       cleanerVars, up, overtaken>>
        /\ faults' \in [FaultKinds -> Nat]
    BY <1>1, InjectTyped DEF SetUp, Unlist, ServiceIInv, IInv, TypeOK
  <2>2. IInv'
    BY <2>1 DEF ServiceIInv, IInv, TypeOK, OneSettingAtATime, LockInv, Critical, ScriptInv,
                CleanerInv
  <2>3. QED
    BY <2>1, <2>2
<1>2. CASE Listen \/ Run \/ StopRequest \/ HandOver \/ CloseServer \/ ShutdownCall
  BY <1>2 DEF Listen, Run, StopRequest, HandOver, CloseServer, ShutdownCall
<1>3. CASE HostDown
  <2>1. CASE up
    BY <1>3, <2>1 DEF ProcessEnd
  <2>2. CASE ~up
    <3>1. /\ UNCHANGED <<agent, handlerVars, lock, activeFw, cleanerVars, up, overtaken,
                         policies, faults>>
          /\ script' = [h \in Handler |-> 0] /\ pending' = [h \in Handler |-> 0]
          /\ wdna' = {} /\ svc' = FALSE
      BY <1>3, <2>2 DEF HostDown, memoryVars
    <3>2. IInv'
      <4>1. TypeOK'
        BY <3>1 DEF ServiceIInv, IInv, TypeOK
      <4>2. OneSettingAtATime' /\ LockInv' /\ CleanerInv'
        BY <3>1 DEF ServiceIInv, IInv, OneSettingAtATime, LockInv, CleanerInv
      <4>3. ScriptInv'
        BY <3>1, HandlerFacts DEF ScriptInv
      <4>4. QED
        BY <4>1, <4>2, <4>3 DEF IInv
    <3>3. QED
      BY <3>1, <3>2
  <2>3. QED
    BY <2>1, <2>2
<1>4. CASE NetworkStep
  BY <1>4 DEF NetworkStep, Next
<1>5. CASE Exit \/ BootFails \/ ProcessCrashes
  BY <1>5 DEF ProcessEnd
<1>6. CASE UNCHANGED serviceVars
  BY <1>6 DEF serviceVars
<1>7. QED
  BY <1>1, <1>2, <1>3, <1>4, <1>5, <1>6 DEF ServiceNext, LifeStep

LEMMA ProcessEndFacts ==
  ASSUME ServiceIInv, ProcessEnd
  PROVE  MemoryLost /\ IInv' /\ Fresh' /\ ~up'
<1>1. MemoryLost /\ Fresh' /\ ~up'
  BY DEF ProcessEnd, Exit, BootFails, ProcessCrashes, HostDown, Ends, MemoryLost, Fresh
<1>2. faults' \in [FaultKinds -> Nat]
  BY InjectTyped
  DEF ProcessEnd, Exit, BootFails, ProcessCrashes, Crash, HostDown, ServiceIInv, IInv, TypeOK
<1>3. \/ UNCHANGED <<qosVars, winDivertVars>>
      \/ /\ script' = [h \in Handler |-> 0] /\ pending' = [h \in Handler |-> 0]
         /\ wdna' = {} /\ svc' = FALSE /\ UNCHANGED policies
  BY DEF ProcessEnd, Exit, BootFails, ProcessCrashes, Crash, HostDown
<1>4. QED
  BY <1>1, <1>2, <1>3, EndKeepsInvariant DEF ServiceIInv

LEMMA ServiceTypes == ServiceIInv /\ [ServiceNext]_serviceVars => ServiceTypeOK'
<1> SUFFICES ASSUME ServiceIInv, [ServiceNext]_serviceVars PROVE ServiceTypeOK'
  OBVIOUS
<1> USE DEF ServiceIInv, ServiceTypeOK, lifeVars, hostVars
<1>1. CASE SetUp
  BY <1>1, Zenon DEF SetUp
<1>2. CASE Unlist
  BY <1>2, Zenon DEF Unlist, Unlisted
<1>3. CASE Listen \/ Run \/ HandOver \/ CloseServer
  BY <1>3 DEF Listen, Run, HandOver, CloseServer
<1>4. CASE StopRequest \/ ShutdownCall
  <2>1. stops' \in Nat
    BY <1>4 DEF StopRequest, ShutdownCall
  <2>2. QED
    BY <1>4, <2>1, Zenon DEF StopRequest, ShutdownCall
<1>5. CASE HostDown
  BY <1>5 DEF HostDown, Ends, memoryVars
<1>6. CASE Exit \/ BootFails \/ ProcessCrashes
  BY <1>6 DEF Exit, BootFails, ProcessCrashes, Ends
<1>7. CASE NetworkStep \/ UNCHANGED serviceVars
  BY <1>7 DEF NetworkStep, serviceVars
<1>8. QED
  BY <1>1, <1>2, <1>3, <1>4, <1>5, <1>6, <1>7 DEF ServiceNext, LifeStep

LEMMA RoutineStep == ServiceIInv /\ [ServiceNext]_serviceVars => RoutineInv'
<1> SUFFICES ASSUME ServiceIInv, [ServiceNext]_serviceVars PROVE RoutineInv'
  OBVIOUS
<1> USE DEF RoutineInv, Fresh, lifeVars, hostVars
<1>0. RoutineInv /\ ServiceTypeOK /\ IInv
  BY DEF ServiceIInv
<1>1. CASE LifeStep \/ StopRequest \/ HandOver \/ ShutdownCall
  <2>1. CASE SetUp \/ Unlist
    <3>1. /\ UNCHANGED <<routine, cleaner, up>> /\ up
          /\ service' = service \/ (service = "unlist" /\ service' = "handover")
      BY <2>1, Zenon DEF SetUp, Unlist, cleanerVars
    <3>2. QED
      BY <1>0, <3>1
  <2>2. CASE Listen \/ Run \/ StopRequest \/ CloseServer \/ ShutdownCall
    BY <1>0, <2>2 DEF Listen, Run, StopRequest, CloseServer, ShutdownCall, vars, cleanerVars
  <2>3. CASE HandOver
    BY <1>0, <2>3 DEF HandOver, MayHandOver, vars, cleanerVars
  <2>4. CASE Exit
    BY <2>4, ProcessEndFacts DEF Exit, Ends, MemoryLost
  <2>5. QED
    BY <1>1, <2>1, <2>2, <2>3, <2>4 DEF LifeStep
<1>2. CASE BootFails \/ ProcessCrashes \/ (HostDown /\ up)
  BY <1>2 DEF BootFails, ProcessCrashes, HostDown, Ends, MemoryLost
<1>3. CASE HostDown /\ ~up
  BY <1>0, <1>3 DEF HostDown, memoryVars, cleanerVars
<1>4. CASE NetworkStep
  <2>1. UNCHANGED <<main, service, routine>>
    BY <1>4 DEF NetworkStep
  <2>2. CASE UNCHANGED <<cleaner, up>>
    BY <1>0, <2>1, <2>2
  <2>3. CASE routine /\ Tick
    BY <1>0, <2>1, <2>3 DEF Tick
  <2>4. CASE Restart
    BY <1>0, <2>1, <2>4 DEF Restart, cleanerVars
  <2>5. CASE \E e \in Exec : AgentCall(e)
    BY <1>0, <2>1, <2>5 DEF AgentCall, StartCall, FilterFileFails, StopCall, cleanerVars
  <2>6. CASE Work
    <3>1. CASE CleanerTakesLock \/ CleanerUnlocks
      <4>1. cleaner # "idle" /\ up' = up
        BY <3>1 DEF CleanerTakesLock, CleanerUnlocks
      <4>2. QED
        BY <1>0, <2>1, <4>1 DEF IInv, CleanerInv
    <3>2. CASE CleanerRemoves
      BY <1>0, <2>1, <3>2 DEF CleanerRemoves
    <3>3. CASE \E e \in Exec : WdnaExpires(e)
      BY <1>0, <2>1, <3>3 DEF WdnaExpires, cleanerVars
    <3>4. ASSUME NEW h \in Handler,
                 GiveUp(h) \/ TakeLock(h) \/ HandlerStep(h) \/ PowershellRuns(h)
          PROVE  UNCHANGED <<cleaner, up>>
      BY <3>4
      DEF GiveUp, TakeLock, HandlerStep, RunQoS, QoSCommand, KillQoS, QoSReturns,
          RunWinDivert, AwaitService, Finish, PowershellRuns, cleanerVars
    <3>5. QED
      BY <2>2, <2>6, <3>1, <3>2, <3>3, <3>4 DEF Work, CleanerStep
  <2>7. QED
    BY <1>4, <2>3, <2>4, <2>5, <2>6 DEF NetworkStep
<1>5. CASE UNCHANGED serviceVars
  BY <1>0, <1>5 DEF serviceVars, vars, cleanerVars
<1>6. QED
  BY <1>1, <1>2, <1>3, <1>4, <1>5 DEF ServiceNext

\* Every reachable state of the composition satisfies the invariant of the attacks and
\* that of the routine.
THEOREM ServiceInvariance == ServiceSpec => []ServiceIInv
<1>1. ServiceInit => ServiceIInv
  <2> SUFFICES ASSUME ServiceInit PROVE ServiceIInv
    OBVIOUS
  <2>1. IInv
    BY InitInvariant DEF ServiceInit
  <2>2. ServiceTypeOK
    BY DEF ServiceInit, ServiceTypeOK, Fresh
  <2>3. RoutineInv
    BY DEF ServiceInit, RoutineInv, Fresh, Init
  <2>4. QED
    BY <2>1, <2>2, <2>3 DEF ServiceIInv
<1>2. ServiceIInv /\ [ServiceNext]_serviceVars => ServiceIInv'
  <2> SUFFICES ASSUME ServiceIInv, [ServiceNext]_serviceVars PROVE ServiceIInv'
    OBVIOUS
  <2>1. IInv'
    BY StepKinds, StepInvariant, ProcessEndFacts DEF ServiceIInv
  <2>2. QED
    BY <2>1, ServiceTypes, RoutineStep DEF ServiceIInv
<1>3. QED
  BY <1>1, <1>2, PTL DEF ServiceSpec

\* The stop of the service does not cut a cleanup short (RegisterQosPolicyCleanup).
THEOREM StopWaitsForCleanup == ServiceSpec => []CleanupNotCutShort
<1>1. ServiceIInv => CleanupNotCutShort
  BY DEF ServiceIInv, IInv, CleanerInv, RoutineInv, CleanupNotCutShort
<1>2. QED
  BY <1>1, ServiceInvariance, PTL

\* CleanupQosPolicies runs alone in the whole extension too, whenever it is stopped.
THEOREM ServiceCleanupSafe == ServiceSpec => []CleanupRunsAlone
<1>1. ServiceIInv => CleanupRunsAlone
  BY CleanupAlone DEF ServiceIInv
<1>2. QED
  BY <1>1, ServiceInvariance, PTL

\* The whole extension implements NetworkSlot: stopping the service, a failed start
\* and taking the host down are Resets of the slot, nothing else of them moves it.
THEOREM ServiceImplementsSlot == ServiceSpec => SlotSpec
<1>1. ServiceInit => Slot!SlotInit
  BY EmptySeq DEF ServiceInit, Init, Slot!SlotInit
<1>2. ServiceIInv /\ [ServiceNext]_serviceVars => [Slot!SlotNext]_(Slot!slotVars)
  <2> SUFFICES ASSUME ServiceIInv, [ServiceNext]_serviceVars
               PROVE  [Slot!SlotNext]_(Slot!slotVars)
    OBVIOUS
  <2>1. CASE [Next]_vars
    BY <2>1, SlotStep DEF ServiceIInv
  <2>2. CASE ProcessEnd
    BY <2>2, ProcessEndFacts, EndResets DEF Slot!SlotNext
  <2>3. CASE UNCHANGED <<activeFw, todo, up>>
    BY <2>3, SlotStutters
  <2>4. QED
    BY <2>1, <2>2, <2>3, StepKinds
<1>3. QED
  BY <1>1, <1>2, ServiceInvariance, PTL DEF ServiceSpec, SlotSpec, Slot!SlotSpec

\* A fault that was injected shows.
LEMMA InjectShows ==
  ASSUME NEW kind, Inject(kind), faults \in [FaultKinds -> Nat]
  PROVE  ~NoFault'
<1>1. kind \in FaultKinds /\ faults' = [faults EXCEPT ![kind] = faults[kind] + 1]
  BY FaultsAssumption DEF Inject
<1>2. faults'[kind] > 0
  BY <1>1
<1>3. QED
  BY <1>1, <1>2 DEF NoFault, Seen

\* A step of the network attacks after which no fault shows injected none.
LEMMA NoFaultInStep ==
  ASSUME IInv, NetworkStep, NoFault'
  PROVE  NoFault /\ (up => up')
<1> USE DEF NoFault, Seen
<1>0. faults \in [FaultKinds -> Nat]
  BY DEF IInv, TypeOK
<1>1. SUFFICES (UNCHANGED faults \/ \E kind : Inject(kind)) /\ (up => up')
  BY <1>0, InjectShows
<1>2. CASE \E e \in Exec : AgentCall(e) \/ WdnaExpires(e)
  BY <1>2 DEF AgentCall, StartCall, FilterFileFails, StopCall, WdnaExpires
<1>3. CASE Tick \/ CleanerTakesLock \/ CleanerStep \/ Restart
  BY <1>3 DEF Tick, CleanerTakesLock, CleanerStep, CleanerRemoves, CleanerUnlocks, Restart
<1>4. ASSUME NEW h \in Handler, GiveUp(h) \/ TakeLock(h) \/ PowershellRuns(h)
      PROVE  (UNCHANGED faults \/ \E kind : Inject(kind)) /\ (up => up')
  BY <1>4 DEF GiveUp, TakeLock, PowershellRuns
<1>5. ASSUME NEW h \in Handler, HandlerStep(h)
      PROVE  (UNCHANGED faults \/ \E kind : Inject(kind)) /\ (up => up')
  <2>1. CASE QoSCommand(h)
    <3>1. up' = up
      BY <2>1 DEF QoSCommand
    <3>2. UNCHANGED faults \/ Inject("command")
      BY <2>1, Zenon DEF QoSCommand
    <3>3. QED
      BY <3>1, <3>2
  <2>2. CASE RunQoS(h) \/ KillQoS(h) \/ QoSReturns(h) \/ RunWinDivert(h) \/ Finish(h)
    BY <2>2 DEF RunQoS, KillQoS, QoSReturns, RunWinDivert, Finish
  <2>3. CASE AwaitService(h)
    BY <2>3, Zenon DEF AwaitService
  <2>4. QED
    BY <1>5, <2>1, <2>2, <2>3 DEF HandlerStep
<1>6. QED
  BY <1>2, <1>3, <1>4, <1>5 DEF NetworkStep, Work

\* Without faults no stop leaves a key behind it that it could have removed, and no key
\* outlives its process: the agent is not led to an extension that does not serve.
Unserved == key /\ ~stray /\ NoFault /\ (~up \/ service \in {"handover", "close", "closed"})
THEOREM ListedServed == ServiceSpec => []ListedIsServed
<1>1. ServiceInit => ~Unserved
  BY DEF ServiceInit, Unserved
<1>2. ServiceIInv /\ ~Unserved /\ [ServiceNext]_serviceVars => ~Unserved'
  <2> SUFFICES ASSUME ServiceIInv, ~Unserved, [ServiceNext]_serviceVars, Unserved'
               PROVE  FALSE
    OBVIOUS
  <2> USE DEF Unserved, lifeVars, hostVars
  <2>0. IInv /\ faults \in [FaultKinds -> Nat] /\ ServiceTypeOK
    BY DEF ServiceIInv, IInv, TypeOK
  <2>1. ~Inject("command") /\ ~Inject("crash")
    BY <2>0, InjectShows
  <2>2. CASE SetUp
    <3>1. up' = up /\ up /\ service' = service
          /\ stray' = (service \notin {"starting", "running", "unlist"})
      BY <2>2 DEF SetUp
    <3>2. service \in {"starting", "running", "unlist"}
      BY <3>1
    <3>3. QED
      BY <3>1, <3>2
  <2>3. CASE Unlist
    BY <2>1, <2>3, Zenon DEF Unlist, Unlisted
  <2>4. CASE Listen \/ Run \/ StopRequest \/ CloseServer \/ HandOver \/ ShutdownCall
    BY <2>4 DEF Listen, Run, StopRequest, CloseServer, HandOver, ShutdownCall, vars, NoFault, Seen
  <2>5. CASE Exit
    BY <2>5 DEF Exit, NoFault, Seen
  <2>6. CASE BootFails \/ ProcessCrashes
    BY <2>1, <2>6 DEF BootFails, ProcessCrashes, Crash
  <2>7. CASE HostDown
    BY <2>7 DEF HostDown
  <2>8. CASE NetworkStep
    BY <2>0, <2>8, NoFaultInStep DEF NetworkStep, IInv, TypeOK
  <2>9. CASE UNCHANGED serviceVars
    BY <2>9 DEF serviceVars, vars, NoFault, Seen
  <2>10. QED
    BY <2>2, <2>3, <2>4, <2>5, <2>6, <2>7, <2>8, <2>9 DEF ServiceNext, LifeStep
<1>3. ~Unserved => ListedIsServed
  BY DEF Unserved, ListedIsServed
<1>4. QED
  BY <1>1, <1>2, <1>3, ServiceInvariance, PTL DEF ServiceSpec
=============================================================================
