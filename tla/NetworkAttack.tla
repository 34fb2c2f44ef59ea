--------------------------- MODULE NetworkAttack ---------------------------
(***************************************************************************)
(* The network attacks of exthostwindows/network: Apply and Revert under   *)
(* runLock, the list activeFirewall that admits one attack setting at a    *)
(* time, the QoS policies and WinDivert processes the commands create and  *)
(* remove, and the routine that removes leftover QoS policies every        *)
(* minute.  The agent that calls Start and Stop, PowerShell, wdna.exe and  *)
(* the service manager are the environment.                                *)
(***************************************************************************)
EXTENDS Integers, FiniteSets, SequencesExt

CONSTANTS
  Exec,      \* executions of network actions prepared by the agent
  Opts,      \* Exec -> settings [str, bw, n]: str is opts.String(); n > 0 is a
             \* bandwidth limit bw on n CIDRs, n = 0 is a WinDivert attack
  Faults,    \* which faults the environment may inject, of FaultKinds
  MaxFaults, \* how many of them altogether
  Cleaner,   \* the routine of RegisterQosPolicyCleanup, as owner of runLock
  Free       \* runLock is not held; also the slot nobody holds

FaultKinds == {"crash", "command", "timeout", "giveup"}
Handler == Exec \X {"add", "del"}   \* a call of generateAndRunCommands
Keys == {Opts[e].str : e \in Exec}
WinDivert(e) == Opts[e].n = 0
Policy(e, i) == <<Opts[e].bw, i>>
Policies(e) == {Policy(e, i) : i \in 0 .. Opts[e].n - 1}
AllPolicies == UNION {Policies(e) : e \in Exec}

\* Equal descriptions mean equal commands: String() writes the bandwidth and every
\* CIDR of a limit and names the kind of a WinDivert attack.
ASSUME OptsAssumption ==
  /\ Opts \in [Exec -> [str : STRING, bw : STRING, n : Nat]]
  /\ \A e, f \in Exec : Opts[e].str = Opts[f].str => Opts[e] = Opts[f]
ASSUME FaultsAssumption == Faults \subseteq FaultKinds /\ MaxFaults \in Nat
ASSUME OwnerAssumption ==
  /\ Cleaner \notin Handler /\ Free \notin Handler \cup Keys
  /\ Cleaner # Free

VARIABLES
  agent,     \* what the agent knows of each execution
  pc,        \* where each handler is
  failed,    \* the error the handler has joined so far is not nil
  cancelled, \* handlers whose request context is cancelled
  lock,      \* owner of runLock["windows"]
  activeFw,  \* activeFirewall["windows"], as the opts.String() of its entries
  script,    \* QoS commands a handler's PowerShell still has to run
  policies,  \* names of the STEADYBIT_QOS_* policies of the host
  pending,   \* WinDivert PowerShells started and not run yet, per handler
  wdna,      \* executions whose wdna.exe diverts packets
  svc,       \* the windivert service is running (else it is stopped)
  cleaner,   \* where the cleanup routine is
  todo,      \* policies removeQoSPolicies still has to remove
  up,        \* the extension process is running
  overtaken, \* executions whose Start took the lock after their Stop was called
  faults     \* how often each fault was injected

handlerVars == <<pc, failed, cancelled>>
qosVars == <<script, policies>>
winDivertVars == <<pending, wdna, svc>>
cleanerVars == <<cleaner, todo>>
vars == <<agent, handlerVars, lock, activeFw, qosVars, winDivertVars, cleanerVars,
          up, overtaken, faults>>

TypeOK ==
  /\ agent \in [Exec -> {"prepared", "starting", "running", "failed", "stopping",
                         "stopped"}]
  /\ pc \in [Handler -> {"idle", "lock", "qos", "qosrun", "windivert", "await",
                         "finish"}]
  /\ failed \in [Handler -> BOOLEAN]
  /\ cancelled \subseteq Handler
  /\ lock \in Handler \cup {Cleaner, Free}
  /\ activeFw \in Seq(Keys)
  /\ script \in [Handler -> Nat]
  /\ policies \subseteq AllPolicies
  /\ pending \in [Handler -> Nat]
  /\ wdna \subseteq Exec
  /\ svc \in BOOLEAN
  /\ cleaner \in {"idle", "lock", "remove"}
  /\ todo \subseteq AllPolicies
  /\ up \in BOOLEAN
  /\ overtaken \subseteq Exec
  /\ faults \in [FaultKinds -> Nat]

Init ==
  /\ agent = [e \in Exec |-> "prepared"]
  /\ pc = [h \in Handler |-> "idle"]
  /\ failed = [h \in Handler |-> FALSE]
  /\ cancelled = {}
  /\ lock = Free
  /\ activeFw = <<>>
  /\ script = [h \in Handler |-> 0]
  /\ policies = {}
  /\ pending = [h \in Handler |-> 0]
  /\ wdna = {}
  /\ svc = FALSE
  /\ cleaner = "idle"
  /\ todo = {}
  /\ up = TRUE
  /\ overtaken = {}
  /\ faults = [kind \in FaultKinds |-> 0]

Injected == faults["crash"] + faults["command"] + faults["timeout"] + faults["giveup"]

Inject(kind) ==
  /\ kind \in Faults
  /\ Injected < MaxFaults
  /\ faults' = [faults EXCEPT ![kind] = @ + 1]

-----------------------------------------------------------------------------
(* The agent *)

\* Both calls reach generateAndRunCommands, which builds the commands and then
\* waits for runLock.
Call(h) == pc[h] = "idle" /\ pc' = [pc EXCEPT ![h] = "lock"]

StartCall(e) ==
  /\ up
  /\ agent[e] = "prepared"
  /\ agent' = [agent EXCEPT ![e] = "starting"]
  /\ Call(<<e, "add">>)
  /\ UNCHANGED <<failed, cancelled, lock, activeFw, qosVars, winDivertVars, cleanerVars,
                 up, faults, overtaken>>

\* buildWinDivertFilterFile fails: Start returns before it takes the lock.
FilterFileFails(e) ==
  /\ up
  /\ agent[e] = "prepared"
  /\ WinDivert(e)
  /\ Inject("command")
  /\ agent' = [agent EXCEPT ![e] = "failed"]
  /\ UNCHANGED <<handlerVars, lock, activeFw, qosVars, winDivertVars, cleanerVars, up,
                 overtaken>>

\* Stop is called after a failed Start too, and again after a failed Stop.
StopCall(e) ==
  /\ up
  /\ agent[e] \in {"running", "failed", "stopping"}
  /\ agent' = [agent EXCEPT ![e] = "stopping"]
  /\ Call(<<e, "del">>)
  /\ UNCHANGED <<failed, cancelled, lock, activeFw, qosVars, winDivertVars, cleanerVars,
                 up, faults, overtaken>>

\* The agent stops waiting for an answer: the request context is cancelled, the
\* handler goes on.
GiveUp(h) ==
  /\ pc[h] # "idle" /\ h \notin cancelled
  /\ Inject("giveup")
  /\ cancelled' = cancelled \cup {h}
  /\ agent' = IF h[2] = "add" /\ agent[h[1]] = "starting"
              THEN [agent EXCEPT ![h[1]] = "failed"] ELSE agent
  /\ UNCHANGED <<pc, failed, lock, activeFw, qosVars, winDivertVars, cleanerVars, up,
                 overtaken>>

-----------------------------------------------------------------------------
(* generateAndRunCommands *)

\* (Bug variants, each named for its bug, stand before the definition they vary.)
RefusedNever(key) == FALSE

\* pushActiveFw refuses the attack when another setting is active.
Refused(key) == \E i \in DOMAIN activeFw : activeFw[i] # key

\* runLock.LockKey, then pushActiveFw for an Apply.
TakeLock(h) ==
  LET key == Opts[h[1]].str
      refused == h[2] = "add" /\ Refused(key)
  IN
  /\ pc[h] = "lock"
  /\ lock = Free
  /\ lock' = h
  /\ pc' = [pc EXCEPT ![h] = IF refused THEN "finish" ELSE "qos"]
  /\ failed' = [failed EXCEPT ![h] = refused]
  /\ activeFw' = IF h[2] = "add" /\ ~refused THEN Append(activeFw, key) ELSE activeFw
  /\ overtaken' = IF h[2] = "add" /\ agent[h[1]] \in {"stopping", "stopped"}
                  THEN overtaken \cup {h[1]} ELSE overtaken
  /\ UNCHANGED <<agent, cancelled, qosVars, winDivertVars, cleanerVars, up, faults>>

QoSCommandsOneMore(h) == Opts[h[1]].n + 1
QoSCommandsFewerDeletes(h) == IF h[2] = "del" THEN Opts[h[1]].n - 1 ELSE Opts[h[1]].n

\* QoSCommands makes one command per CIDR.
QoSCommands(h) == Opts[h[1]].n

\* executeQoSCommands starts one PowerShell for all commands, unless there are none
\* (a WinDivert attack) or the context is already cancelled.
RunQoS(h) ==
  /\ pc[h] = "qos"
  /\ IF WinDivert(h[1])
     THEN pc' = [pc EXCEPT ![h] = "windivert"] /\ UNCHANGED <<failed, script>>
     ELSE IF h \in cancelled
     THEN /\ pc' = [pc EXCEPT ![h] = "finish"]
          /\ failed' = [failed EXCEPT ![h] = TRUE]
          /\ UNCHANGED script
     ELSE /\ pc' = [pc EXCEPT ![h] = "qosrun"]
          /\ script' = [script EXCEPT ![h] = QoSCommands(h)]
          /\ UNCHANGED failed
  /\ UNCHANGED <<agent, cancelled, lock, activeFw, policies, winDivertVars, cleanerVars,
                 up, faults, overtaken>>

\* The policy the next command of a script names.
NextPolicy(h) == Policy(h[1], QoSCommands(h) - script[h])

\* New-NetQosPolicy and Remove-NetQosPolicy; a name that is taken or missing may be
\* an error.  Only the last command of a script decides its exit code.  The script
\* goes on after a crash of the extension.
QoSCommand(h) ==
  LET p == NextPolicy(h)
      after == IF h[2] = "add" THEN policies \cup {p} ELSE policies \ {p}
  IN
  /\ script[h] > 0
  /\ script' = [script EXCEPT ![h] = @ - 1]
  /\ \E error \in BOOLEAN :
       /\ IF ~error THEN policies' = after /\ UNCHANGED faults
          ELSE /\ policies' = policies
               /\ IF after = policies THEN UNCHANGED faults ELSE Inject("command")
       /\ failed' = [failed EXCEPT ![h] =
                       @ \/ (error /\ script[h] = 1 /\ pc[h] = "qosrun")]
  /\ UNCHANGED <<agent, pc, cancelled, lock, activeFw, winDivertVars, cleanerVars, up,
                 overtaken>>

\* exec.CommandContext kills PowerShell when the request context is cancelled.
KillQoS(h) ==
  /\ h \in cancelled /\ pc[h] = "qosrun" /\ script[h] > 0
  /\ script' = [script EXCEPT ![h] = 0]
  /\ failed' = [failed EXCEPT ![h] = TRUE]
  /\ UNCHANGED <<agent, pc, cancelled, lock, activeFw, policies, winDivertVars,
                 cleanerVars, up, faults, overtaken>>

\* PowerShell has ended; a bandwidth limit has no WinDivert commands.
QoSReturns(h) ==
  /\ pc[h] = "qosrun" /\ script[h] = 0
  /\ pc' = [pc EXCEPT ![h] = "finish"]
  /\ UNCHANGED <<agent, failed, cancelled, lock, activeFw, qosVars, winDivertVars,
                 cleanerVars, up, faults, overtaken>>

\* executeWinDivertCommands starts a PowerShell and does not wait for it.
RunWinDivert(h) ==
  /\ pc[h] = "windivert"
  /\ \/ /\ pc' = [pc EXCEPT ![h] = "await"]
        /\ pending' = [pending EXCEPT ![h] = @ + 1]
        /\ UNCHANGED <<failed, faults>>
     \/ /\ Inject("command")
        /\ pc' = [pc EXCEPT ![h] = "finish"]
        /\ failed' = [failed EXCEPT ![h] = TRUE]
        /\ UNCHANGED pending
  /\ UNCHANGED <<agent, cancelled, lock, activeFw, qosVars, wdna, svc, cleanerVars, up,
                 overtaken>>

\* awaitWinDivertServiceStatus polls for Running after an Apply, Stopped after a
\* Revert, and gives up after 15s.  Giving up is a fault only while some script may
\* still bring the service there.
AwaitService(h) ==
  /\ pc[h] = "await"
  /\ \/ svc = (h[2] = "add") /\ UNCHANGED <<failed, faults>>
     \/ /\ svc # (h[2] = "add")
        /\ failed' = [failed EXCEPT ![h] = TRUE]
        /\ IF \E g \in Handler : pending[g] > 0
           THEN Inject("timeout") ELSE UNCHANGED faults
  /\ pc' = [pc EXCEPT ![h] = "finish"]
  /\ UNCHANGED <<agent, cancelled, lock, activeFw, qosVars, winDivertVars, cleanerVars,
                 up, overtaken>>

PopAll(fw, key) == SelectSeq(fw, LAMBDA k : k # key)

\* popActiveFw drops the first entry with that description.
PopFirst(fw, key) ==
  LET hits == {i \in DOMAIN fw : fw[i] = key}
  IN IF hits = {} THEN fw ELSE RemoveAt(fw, Min(hits))

PoppedNever(h) == activeFw
PoppedInBothModes(h) == PopFirst(activeFw, Opts[h[1]].str)

\* A Revert pops its entry whatever its commands did, an Apply never.
Popped(h) == IF h[2] = "del" THEN PopFirst(activeFw, Opts[h[1]].str) ELSE activeFw

\* The answer to the agent.  Nobody hears it when the agent has given up.
Answer(h) ==
  LET e == h[1] IN
  CASE h[2] = "add" /\ agent[e] = "starting" ->
         [agent EXCEPT ![e] = IF failed[h] THEN "failed" ELSE "running"]
    [] h[2] = "del" /\ ~failed[h] /\ h \notin cancelled ->
         [agent EXCEPT ![e] = "stopped"]
    [] OTHER -> agent

UnlockedUnlessFailed(h) == IF failed[h] THEN h ELSE Free

\* The deferred UnlockKey runs on every path.
Unlocked(h) == Free

Finish(h) ==
  /\ pc[h] = "finish"
  /\ pc' = [pc EXCEPT ![h] = "idle"]
  /\ lock' = Unlocked(h)
  /\ activeFw' = Popped(h)
  /\ agent' = Answer(h)
  /\ failed' = [failed EXCEPT ![h] = FALSE]
  /\ cancelled' = cancelled \ {h}
  /\ UNCHANGED <<qosVars, winDivertVars, cleanerVars, up, faults, overtaken>>

-----------------------------------------------------------------------------
(* WinDivert *)

\* A started PowerShell runs: wdna.exe opens the driver, or wdna_shutdown ends
\* every wdna.exe and sc stops the service.  Or it fails without effect.
PowershellRuns(h) ==
  /\ pending[h] > 0
  /\ pending' = [pending EXCEPT ![h] = @ - 1]
  /\ \/ /\ wdna' = IF h[2] = "add" THEN wdna \cup {h[1]} ELSE {}
        /\ svc' = (h[2] = "add")
        /\ UNCHANGED faults
     \/ Inject("command") /\ UNCHANGED <<wdna, svc>>
  /\ UNCHANGED <<agent, handlerVars, lock, activeFw, qosVars, cleanerVars, up,
                 overtaken>>

\* wdna.exe ends by itself after --duration; Windows may unload the driver when no
\* handle is left.
WdnaExpires(e) ==
  /\ e \in wdna
  /\ wdna' = wdna \ {e}
  /\ svc' \in {svc, svc /\ wdna # {e}}
  /\ UNCHANGED <<agent, handlerVars, lock, activeFw, qosVars, pending, cleanerVars, up,
                 faults, overtaken>>

-----------------------------------------------------------------------------
(* RegisterQosPolicyCleanup and CleanupQosPolicies *)

Tick ==
  /\ up /\ cleaner = "idle"
  /\ cleaner' = "lock"
  /\ UNCHANGED <<agent, handlerVars, lock, activeFw, qosVars, winDivertVars, todo, up,
                 faults, overtaken>>

CleanerIgnoresLock == TRUE
LeftoversAlways == policies

\* The lock is free for the cleanup, and what it will remove: every policy that
\* carries the prefix, if no attack is active.
CleanerMayRun == lock = Free
Leftovers == IF activeFw = <<>> THEN policies ELSE {}

CleanerTakesLock ==
  /\ cleaner = "lock"
  /\ CleanerMayRun
  /\ lock' = Cleaner
  /\ cleaner' = "remove"
  /\ \/ todo' = Leftovers /\ UNCHANGED faults
     \/ activeFw = <<>> /\ Inject("command") /\ todo' = {}   \* listing them fails
  /\ UNCHANGED <<agent, handlerVars, activeFw, qosVars, winDivertVars, up, overtaken>>

CleanerRemoves ==
  /\ cleaner = "remove"
  /\ \E p \in todo :
       /\ todo' = todo \ {p}
       /\ \/ policies' = policies \ {p} /\ UNCHANGED faults
          \/ Inject("command") /\ UNCHANGED policies
  /\ UNCHANGED <<agent, handlerVars, lock, activeFw, script, winDivertVars, cleaner, up,
                 overtaken>>

CleanerUnlocks ==
  /\ cleaner = "remove" /\ todo = {}
  /\ lock' = Free
  /\ cleaner' = "idle"
  /\ UNCHANGED <<agent, handlerVars, activeFw, qosVars, winDivertVars, todo, up, faults,
                 overtaken>>

-----------------------------------------------------------------------------
(* The extension process *)

\* The process ends: its memory is gone and the agent sees its open calls fail.
MemoryLost ==
  /\ up
  /\ up' = FALSE
  /\ agent' = [e \in Exec |-> IF agent[e] = "starting" THEN "failed" ELSE agent[e]]
  /\ pc' = [h \in Handler |-> "idle"]
  /\ failed' = [h \in Handler |-> FALSE]
  /\ cancelled' = {}
  /\ lock' = Free
  /\ activeFw' = <<>>
  /\ cleaner' = "idle"
  /\ todo' = {}
  /\ UNCHANGED overtaken

\* The PowerShells, the policies and the driver outlive a crash.
Crash ==
  /\ MemoryLost
  /\ Inject("crash")
  /\ UNCHANGED <<qosVars, winDivertVars>>

\* It is started again, later than the orphaned QoS scripts take.
Restart ==
  /\ ~up
  /\ \A h \in Handler : script[h] = 0
  /\ up' = TRUE
  /\ UNCHANGED <<agent, handlerVars, lock, activeFw, qosVars, winDivertVars,
                 cleanerVars,
                 faults, overtaken>>

-----------------------------------------------------------------------------
HandlerStep(h) ==
  \/ RunQoS(h) \/ QoSCommand(h) \/ KillQoS(h) \/ QoSReturns(h)
  \/ RunWinDivert(h) \/ AwaitService(h) \/ Finish(h)

CleanerStep == CleanerRemoves \/ CleanerUnlocks

AgentCall(e) == StartCall(e) \/ FilterFileFails(e) \/ StopCall(e)

\* What goes on without a new call, tick or end of the process.
Work ==
  \/ \E e \in Exec : WdnaExpires(e)
  \/ \E h \in Handler : GiveUp(h) \/ TakeLock(h) \/ HandlerStep(h) \/ PowershellRuns(h)
  \/ CleanerStep \/ CleanerTakesLock

Next == (\E e \in Exec : AgentCall(e)) \/ Work \/ Tick \/ Crash \/ Restart

Spec == Init /\ [][Next]_vars

\* Handlers and PowerShells run on, timers fire, durations end, the service is
\* restarted.  Go's mutex hands itself to a waiter that starves, hence strong
\* fairness for taking the lock.  The agent owes nothing here.
WorkFairness ==
  /\ WF_vars(\E h \in Handler : HandlerStep(h))
  /\ WF_vars(\E h \in Handler : PowershellRuns(h)) /\ WF_vars(\E e \in Exec : WdnaExpires(e))
  /\ \A e \in Exec : SF_vars(TakeLock(<<e, "del">>))
  /\ WF_vars(CleanerStep) /\ SF_vars(CleanerTakesLock)

Fairness == WorkFairness /\ WF_vars(Tick) /\ WF_vars(Restart)

FairSpec == Spec /\ Fairness

-----------------------------------------------------------------------------
(* Properties *)

\* Two attacks with different settings are never active together: pushActiveFw
\* checks and appends under runLock, and no path skips it.
OneSettingAtATime == \A i, j \in DOMAIN activeFw : activeFw[i] = activeFw[j]

\* While the cleanup has a policy left to remove, no attack is active, no handler
\* is between taking and releasing runLock and no PowerShell adds or removes policies.
CleanupRunsAlone ==
  todo # {} => /\ activeFw = <<>>
               /\ \A h \in Handler : pc[h] \in {"idle", "lock"} /\ script[h] = 0

\* The inductive invariant behind the two above.  The lock is held by the handler or
\* routine that is in its critical section; QoS commands are run by such a handler or
\* are orphans of a crashed process; the cleanup has work only under the lock, while
\* no attack is active; nothing of it goes on in a process that has ended.
Critical == {"qos", "qosrun", "windivert", "await", "finish"}
LockInv ==
  /\ \A h \in Handler : pc[h] \in Critical <=> lock = h
  /\ cleaner = "remove" <=> lock = Cleaner
ScriptInv ==
  \A h \in Handler : /\ script[h] <= Opts[h[1]].n
                     /\ script[h] > 0 /\ up => pc[h] = "qosrun"
CleanerInv ==
  /\ todo # {} => cleaner = "remove" /\ activeFw = <<>>
  /\ ~up => cleaner = "idle" /\ \A h \in Handler : pc[h] = "idle"
IInv == TypeOK /\ OneSettingAtATime /\ LockInv /\ ScriptInv /\ CleanerInv

\* The slot the rest of the extension relies on: NetworkSlot, with the entries of
\* activeFirewall as its holders and the cleanup as its sweep.
Slot == INSTANCE NetworkSlot WITH
          NoKey <- Free,
          holder <- IF activeFw = <<>> THEN Free ELSE activeFw[1],
          count <- Len(activeFw),
          sweeping <- todo # {},
          running <- up
SlotSpec == Slot!SlotSpec

Seen(kind) == faults[kind] > 0
NoFault == \A kind \in FaultKinds : ~Seen(kind)
AllStopped == \A e \in Exec : agent[e] = "stopped"
Ended(f) == agent[f] \in {"stopping", "stopped"}

\* A bandwidth limit the agent runs keeps all its policies as long as no other
\* execution is being stopped: not the cleanup, the refused or given-up Start or a
\* timeout of another execution takes one away.  (A policy that was never made, for
\* the exit code of PowerShell does not tell, and the end of the process are apart.)
OnlyStopsEndAnAttack ==
  \A e \in Exec :
    /\ agent[e] = "running" /\ \A f \in Exec \ {e} : ~Ended(f)
    /\ ~Seen("crash") /\ ~Seen("command")
    => Policies(e) \subseteq policies

\* An attack the agent runs is still admitted, so that no other setting can start and
\* the cleanup stays away, unless a twin was stopped or the process ended: Start
\* answers after the push, and the Stop of a refused attack pops nothing.
RunningIsAdmitted ==
  \A e \in Exec :
    /\ agent[e] = "running" /\ \A f \in Exec : Opts[f] = Opts[e] => ~Ended(f)
    /\ ~Seen("crash")
    => Contains(activeFw, Opts[e].str)

\* When every execution has been stopped, the slot is free for the next attack,
\* whatever has failed, unless a Start the agent had given up took the lock after its
\* own Stop.
FinishedFreesTheSlot == AllStopped /\ overtaken = {} => activeFw = <<>>

\* No two executions have the same WinDivert settings.
DivertersDiffer ==
  \A e, f \in Exec : WinDivert(e) /\ Opts[e] = Opts[f] => e = f

\* When every execution has been stopped, no packet is dropped, delayed or throttled any
\* more, unless a fault came in between, and no script still to run changes that.  Start
\* and Stop wait for the driver, not for their own script: with a WinDivert twin, whose
\* driver runs or is stopped already, the script of a Start may run after that of its Stop.
FinishedLeavesNoEffect ==
  AllStopped /\ NoFault => policies = {} /\ (DivertersDiffer => wdna = {})

\* A Stop waiting for runLock ends, whatever the other handlers and the cleanup do:
\* every path out of the critical section releases the lock.
StopReturns ==
  \A e \in Exec : pc[<<e, "del">>] = "lock" ~> pc[<<e, "del">>] = "idle"

\* Once all experiments have finished, leftover policies are removed for good
\* (network_test.go:28), with commands failing and the extension crashing on the way.
FinishedLeavesNoPolicies ==
  <>[]AllStopped => <>[](policies = {})
=============================================================================
