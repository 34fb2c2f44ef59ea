-------------------------- MODULE ExtensionService --------------------------
(***************************************************************************)
(* The life of the extension process around the network attacks: main sets *)
(* up the local discovery in the registry and listens; the goroutine of    *)
(* ActivateWindowsServiceHandler answers the service manager and, at Stop  *)
(* or Shutdown, removes the registry key, hands over to the routine of     *)
(* RegisterQosPolicyCleanup, closes the server and ends the process; the   *)
(* shutdown action takes the whole host down.                              *)
(***************************************************************************)
EXTENDS NetworkAttack

CONSTANT MaxStops  \* how often the service manager stops the service or an attack
                   \* shuts the host down

ASSUME StopsAssumption == MaxStops \in Nat

VARIABLES
  main,      \* where main is
  service,   \* where the goroutine of the service is
  routine,   \* the goroutine of RegisterQosPolicyCleanup is alive
  key,       \* the registry key of the local discovery exists
  stray,     \* no stop will remove the key: it was made after the stop had tried to
             \* remove it, or the host went down before
  goingDown, \* shutdown.exe has been run
  stops      \* stops and shutdowns so far

lifeVars == <<main, service, routine>>
hostVars == <<key, stray, goingDown, stops>>
serviceVars == <<vars, lifeVars, hostVars>>

ServiceTypeOK ==
  /\ main \in {"boot", "setup", "listen"}
  /\ service \in {"starting", "running", "unlist", "handover", "close", "closed"}
  /\ routine \in BOOLEAN
  /\ key \in BOOLEAN
  /\ stray \in BOOLEAN
  /\ goingDown \in BOOLEAN
  /\ stops \in Nat

\* A new process: main has started the routine and the service's goroutine.
Fresh == main = "boot" /\ service = "starting" /\ routine = TRUE

ServiceInit ==
  Init /\ Fresh /\ key = FALSE /\ stray = FALSE /\ goingDown = FALSE /\ stops = 0

\* The server takes calls.
Serving == main = "listen" /\ service # "closed"

-----------------------------------------------------------------------------
(* main *)

\* SetupLocalDiscovery creates the key and writes its values; an error is logged, the
\* key may exist all the same.
SetUp ==
  /\ up /\ main = "boot"
  /\ main' = "setup"
  /\ \/ key' = TRUE /\ UNCHANGED faults
     \/ Inject("command") /\ key' \in {key, TRUE}
  /\ stray' = (service \notin {"starting", "running", "unlist"})
  /\ UNCHANGED <<agent, handlerVars, lock, activeFw, qosVars, winDivertVars, cleanerVars,
                 up, overtaken, service, routine, goingDown, stops>>

Listen ==
  /\ up /\ main = "setup"
  /\ main' = "listen"
  /\ UNCHANGED <<vars, service, routine, hostVars>>

-----------------------------------------------------------------------------
(* The goroutine of ActivateWindowsServiceHandler *)

\* The event log and the log file are open, Execute reports Running.
Run ==
  /\ up /\ service = "starting"
  /\ service' = "running"
  /\ UNCHANGED <<vars, main, routine, hostVars>>

\* Execute takes Stop, or Shutdown when the host goes down.
StopRequest ==
  /\ up /\ service = "running"
  /\ \/ stops < MaxStops /\ stops' = stops + 1
     \/ goingDown /\ UNCHANGED stops
  /\ service' = "unlist"
  /\ UNCHANGED <<vars, main, routine, key, stray, goingDown>>

UnlistNever == key

\* What is left of the key when RemoveLocalDiscovery succeeds.
Unlisted == FALSE

\* RemoveLocalDiscovery; an error is logged, the stop goes on.
Unlist ==
  /\ up /\ service = "unlist"
  /\ service' = "handover"
  /\ \/ key' = Unlisted /\ UNCHANGED faults
     \/ key /\ Inject("command") /\ UNCHANGED key
  /\ UNCHANGED <<agent, handlerVars, lock, activeFw, qosVars, winDivertVars, cleanerVars,
                 up, overtaken, main, routine, stray, goingDown, stops>>

MayHandOverAlways == TRUE
MayHandOverUnattacked == cleaner = "idle" /\ activeFw = <<>>

\* The channel is unbuffered: the routine receives when it is back in its select.
MayHandOver == cleaner = "idle"

HandOver ==
  /\ up /\ service = "handover"
  /\ MayHandOver
  /\ service' = "close"
  /\ routine' = FALSE
  /\ UNCHANGED <<vars, main, hostVars>>

\* StopListen: no call comes in any more.
CloseServer ==
  /\ up /\ service = "close"
  /\ service' = "closed"
  /\ UNCHANGED <<vars, main, routine, hostVars>>

-----------------------------------------------------------------------------
(* The process and the host *)

\* The next process finds the variables of this one as a new process has them.
Ends ==
  /\ MemoryLost
  /\ main' = "boot" /\ service' = "starting" /\ routine' = TRUE

\* main returns from Listen, or Execute has reported Stopped and calls log.Fatal.
Exit ==
  /\ service = "closed"
  /\ Ends
  /\ UNCHANGED <<qosVars, winDivertVars, faults, hostVars>>

\* ParseConfiguration or newExtensionService fails and calls log.Fatal.
BootFails ==
  /\ main = "boot" \/ service = "starting"
  /\ Inject("command")
  /\ Ends
  /\ UNCHANGED <<qosVars, winDivertVars, hostVars>>

ProcessCrashes == Crash /\ Ends /\ UNCHANGED hostVars

\* The shutdown action runs shutdown.exe.
ShutdownCall ==
  /\ up /\ Serving /\ ~goingDown
  /\ stops < MaxStops
  /\ stops' = stops + 1
  /\ goingDown' = TRUE
  /\ UNCHANGED <<vars, lifeVars, key, stray>>

memoryVars == <<agent, handlerVars, lock, activeFw, cleanerVars, up, overtaken, lifeVars>>

\* The host goes down, with whatever still runs on it.  The policies and the registry
\* are on its disk.
HostDown ==
  /\ goingDown
  /\ IF up THEN Ends ELSE UNCHANGED memoryVars
  /\ goingDown' = FALSE
  /\ stray' = TRUE
  /\ script' = [h \in Handler |-> 0]
  /\ pending' = [h \in Handler |-> 0]
  /\ wdna' = {}
  /\ svc' = FALSE
  /\ UNCHANGED <<policies, faults, key, stops>>

-----------------------------------------------------------------------------
LifeStep == SetUp \/ Listen \/ Run \/ Unlist \/ CloseServer \/ Exit

\* A step of the network attacks: calls need the server, ticks the routine; the
\* service is not started again on a host that goes down.
NetworkStep ==
  /\ \/ Serving /\ \E e \in Exec : AgentCall(e)
     \/ Work
     \/ routine /\ Tick
     \/ ~goingDown /\ Restart
  /\ UNCHANGED <<lifeVars, hostVars>>

ServiceNext ==
  \/ LifeStep \/ StopRequest \/ HandOver \/ BootFails \/ ProcessCrashes
  \/ ShutdownCall \/ HostDown
  \/ NetworkStep

ServiceSpec == ServiceInit /\ [][ServiceNext]_serviceVars

\* As in NetworkAttack.  main and the service go on, the service is started again, and
\* so is a host that went down.  The select of the routine picks at random among the
\* ticker and the hand-over, hence strong fairness for the hand-over.
ServiceFairness ==
  /\ WorkFairness
  /\ WF_vars(routine /\ Tick) /\ WF_vars(~goingDown /\ Restart)
  /\ WF_serviceVars(LifeStep) /\ WF_serviceVars(HostDown) /\ SF_serviceVars(HandOver)

FairServiceSpec == ServiceSpec /\ ServiceFairness

-----------------------------------------------------------------------------
(* Properties *)

\* A stop of the service never ends the process in the middle of a cleanup: the
\* hand-over to the routine waits for the cleanup under way, and no other begins.
CleanupNotCutShort == service \in {"close", "closed"} => cleaner = "idle" /\ todo = {}

\* The inductive invariant behind it and behind the slot: the routine is gone exactly
\* when it took the hand-over, it was idle then, and a process that has ended leaves
\* nothing of itself to the next one.
RoutineInv ==
  /\ service \in {"close", "closed"} <=> ~routine
  /\ ~routine => cleaner = "idle"
  /\ ~up => Fresh
ServiceIInv == IInv /\ ServiceTypeOK /\ RoutineInv

\* Without faults, a key in the registry leads the agent to a process that takes
\* calls or is about to: a stop removes the key before it closes the server and ends
\* the process.  (Apart from a stray key.)
ListedIsServed == key /\ ~stray /\ NoFault => up /\ service \notin {"handover", "close", "closed"}

\* Every stop ends the process, whatever handlers hold runLock and however often the
\* cleanup begins before the hand-over.
StopEndsProcess == service = "unlist" ~> ~up
=============================================================================
