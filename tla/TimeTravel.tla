----------------------------- MODULE TimeTravel -----------------------------
(***************************************************************************)
(* The time travel attack (exthostwindows/action_timetravel.go).  Start    *)
(* stops the Windows time service and shifts the clock, Stop undoes it.    *)
(* Nothing serialises two executions, or two calls for one of them: the    *)
(* agent may give up a call and repeat Stop while the handler goes on.     *)
(* The state of an action travels with the agent: the answer to Start      *)
(* carries OffsetApplied back, that to Stop does not.                      *)
(***************************************************************************)
EXTENDS Integers, FiniteSets

CONSTANTS
  Exec,       \* executions of the action
  DisableNtp, \* those prepared with disableNtp
  Env,        \* what may go wrong or interfere, of EnvKinds
  MaxFaults,  \* how many commands may fail and calls be given up
  MaxStops    \* how often the agent calls Stop of an execution at most

EnvKinds == {"command", \* a PowerShell command fails without effect
             "timeout", \* the agent gives up a call before its answer comes
             "sync"}    \* the time service corrects the clock on its own

ASSUME TimeAssumption ==
  /\ DisableNtp \subseteq Exec /\ Env \subseteq EnvKinds
  /\ MaxFaults \in Nat /\ MaxStops \in Nat

\* A handler is <<e, 0>>, the Start of an execution, or <<e, i>>, its i-th Stop.
Handler == Exec \X (0 .. MaxStops)

VARIABLES
  agent,   \* what the agent knows of each execution
  pc,      \* next command of each handler
  applied, \* the agent's copy of state.OffsetApplied
  shift,   \* how far the host clock is ahead of true time, in offsets
  ntp,     \* the w32time service runs
  stops,   \* calls of Stop made
  lost,    \* Starts that were given up and have shifted the clock since its last correction
  late,    \* Stops that were given up and have set it back since then
  faults

vars == <<agent, pc, applied, shift, ntp, stops, lost, late, faults>>

StartSteps == {"stopNtp", "setDate"}
StopSteps == {"startNtp", "resetDate", "resync"}

TypeOK ==
  /\ agent \in [Exec -> {"prepared", "starting", "running", "failed", "stopping",
                         "stopped"}]
  /\ pc \in [Handler -> {"idle"} \cup StartSteps \cup StopSteps]
  /\ applied \in [Exec -> BOOLEAN]
  /\ shift \in Int /\ ntp \in BOOLEAN
  /\ stops \in [Exec -> 0 .. MaxStops]
  /\ lost \subseteq Handler /\ late \subseteq Handler /\ faults \in Nat

Init ==
  /\ agent = [e \in Exec |-> "prepared"]
  /\ pc = [h \in Handler |-> "idle"]
  /\ applied = [e \in Exec |-> FALSE]
  /\ shift = 0
  /\ ntp = TRUE
  /\ stops = [e \in Exec |-> 0]
  /\ lost = {} /\ late = {}
  /\ faults = 0

Inject(kind) == kind \in Env /\ faults < MaxFaults /\ faults' = faults + 1
Goto(h, step) == pc' = [pc EXCEPT ![h] = step]
Agent(e, status) == agent' = [agent EXCEPT ![e] = status]

\* The agent waits for the answer of the last call it has made, unless it has given it up.
Heard(h) == agent[h[1]] \in {"starting", "stopping"} /\ stops[h[1]] = h[2]
Answer(h, status) == IF Heard(h) THEN Agent(h[1], status) ELSE UNCHANGED agent

GiveUp(e) ==
  /\ agent[e] \in {"starting", "stopping"}
  /\ Inject("timeout")
  /\ Agent(e, "failed")
  /\ UNCHANGED <<pc, applied, shift, ntp, stops, lost, late>>

\* A command fails, as w32tm /resync does without the service: the handler returns
\* the error, whatever came before stays.
CommandFails(h) ==
  /\ pc[h] # "idle"
  /\ IF pc[h] = "resync" /\ ~ntp THEN UNCHANGED faults ELSE Inject("command")
  /\ Goto(h, "idle")
  /\ Answer(h, "failed")
  /\ UNCHANGED <<applied, shift, ntp, stops, lost, late>>

-----------------------------------------------------------------------------
(* Start *)

\* The first command of Start and of Stop.
FirstOfStart(e) == IF e \in DisableNtp THEN "stopNtp" ELSE "setDate"
FirstOfStop(e) == IF e \in DisableNtp THEN "startNtp" ELSE "resetDate"

StartCall(e) ==
  /\ agent[e] = "prepared"
  /\ Agent(e, "starting")
  /\ Goto(<<e, 0>>, FirstOfStart(e))
  /\ UNCHANGED <<applied, shift, ntp, stops, lost, late, faults>>

StopNtp(h) ==
  /\ pc[h] = "stopNtp"
  /\ ntp' = FALSE
  /\ Goto(h, "setDate")
  /\ UNCHANGED <<agent, applied, shift, stops, lost, late, faults>>

\* (Bug variants, each named for its bug, stand before the definition they vary.)
AppliedNever(e) == applied
Applied(e) == [applied EXCEPT ![e] = TRUE]

\* Set-Date, then OffsetApplied, which reaches the agent with the answer.
SetDate(h) ==
  /\ pc[h] = "setDate"
  /\ shift' = shift + 1
  /\ Goto(h, "idle")
  /\ Answer(h, "running")
  /\ IF Heard(h) THEN applied' = Applied(h[1]) /\ UNCHANGED lost
                 ELSE lost' = lost \cup {h} /\ UNCHANGED applied
  /\ UNCHANGED <<ntp, stops, late, faults>>

-----------------------------------------------------------------------------
(* Stop *)

SkipsRevertAlways(e) == TRUE

\* Stop returns at once when no offset is recorded as applied.
SkipsRevert(e) == ~applied[e]

\* Also after a call that was given up, whose handler may still be at work.
StopCall(e) ==
  /\ agent[e] \in {"running", "failed"}
  /\ stops[e] < MaxStops
  /\ stops' = [stops EXCEPT ![e] = @ + 1]
  /\ IF SkipsRevert(e)
     THEN Agent(e, "stopped") /\ UNCHANGED pc
     ELSE Agent(e, "stopping") /\ Goto(<<e, stops[e] + 1>>, FirstOfStop(e))
  /\ UNCHANGED <<applied, shift, ntp, lost, late, faults>>

StartNtp(h) ==
  /\ pc[h] = "startNtp"
  /\ ntp' = TRUE
  /\ Goto(h, "resetDate")
  /\ UNCHANGED <<agent, applied, shift, stops, lost, late, faults>>

ResetDate(h) ==
  /\ pc[h] = "resetDate"
  /\ shift' = shift - 1
  /\ Goto(h, "resync")
  /\ late' = IF Heard(h) THEN late ELSE late \cup {h}
  /\ UNCHANGED <<agent, applied, ntp, stops, lost, faults>>

Corrected == shift' = 0 /\ lost' = {} /\ late' = {}

Resync(h) ==
  /\ pc[h] = "resync" /\ ntp
  /\ Corrected
  /\ Goto(h, "idle")
  /\ Answer(h, "stopped")
  /\ UNCHANGED <<applied, ntp, stops, faults>>

\* The running time service corrects the clock by itself.
NtpSync ==
  /\ "sync" \in Env
  /\ ntp /\ shift # 0
  /\ Corrected
  /\ UNCHANGED <<agent, pc, applied, ntp, stops, faults>>

Next ==
  \/ \E e \in Exec : StartCall(e) \/ StopCall(e) \/ GiveUp(e)
  \/ \E h \in Handler : \/ CommandFails(h)
                        \/ StopNtp(h) \/ SetDate(h)
                        \/ StartNtp(h) \/ ResetDate(h) \/ Resync(h)
  \/ NtpSync

Spec == Init /\ [][Next]_vars

-----------------------------------------------------------------------------
(* Properties *)

AllStopped == \A e \in Exec : agent[e] = "stopped"

\* When every execution has been stopped the clock is right, although commands fail
\* half-way through Start or Stop and Stop is repeated: a Start that fails has not
\* shifted it, a Stop that succeeds has resynchronised it.  Only calls that the agent has
\* given up and that go on escape this, each by one offset: a Start forwards, a Stop
\* backwards, until the next time the clock is corrected.
StoppedClockIsRight == AllStopped => shift \in -Cardinality(late) .. Cardinality(lost)

\* The inductive invariant behind it: whenever the clock is wrong by anything else, the
\* agent holds an execution that will not be reported as stopped before a resync has
\* succeeded.
HandlerInv ==
  /\ \A e \in Exec :
       /\ agent[e] = "prepared" => pc[<<e, 0>>] = "idle" /\ stops[e] = 0
       /\ agent[e] = "starting" => stops[e] = 0 /\ ~applied[e]
       /\ agent[e] \in {"running", "stopping"} => applied[e]
       /\ pc[<<e, 0>>] # "idle" => ~applied[e] /\ <<e, 0>> \notin lost
       /\ agent[e] = "prepared" => ~applied[e] /\ <<e, 0>> \notin lost
  /\ \A h \in Handler :
       /\ pc[h] \in StartSteps => h[2] = 0
       /\ pc[h] = "stopNtp" => h[1] \in DisableNtp
       /\ pc[h] \in StopSteps => h[2] \in 1 .. stops[h[1]] /\ applied[h[1]]
       /\ h \in late => h[2] \in 1 .. stops[h[1]] /\ pc[h] \in {"resync", "idle"}
OwesResync(e) == applied[e] /\ agent[e] \in {"running", "failed", "stopping"}
ClockIsOwned ==
  /\ IsFiniteSet(lost) /\ IsFiniteSet(late)
  /\ shift \in -Cardinality(late) .. Cardinality(lost) \/ \E e \in Exec : OwesResync(e)

\* A time service that does not run will be started by an execution that has disabled it
\* and is not stopped yet, unless the agent does not know that it has.
ServiceIsOwned == ntp \/ \E e \in DisableNtp : agent[e] # "stopped" \/ ~applied[e]
IInv == TypeOK /\ HandlerInv /\ ClockIsOwned /\ ServiceIsOwned

\* When every execution has been stopped the time service runs again, in whatever order
\* they stop and start it, although commands of their Stops fail and Stops overlap.  Only a
\* Start that has disabled it and then failed, or was given up, escapes this.
StoppedServiceRuns == AllStopped => ntp \/ \E e \in DisableNtp : ~applied[e]

\* Stop is called even if Start did not complete successfully (action_timetravel.go:164),
\* so whatever Start did to the time service is undone when everything is stopped.
StopUndoesFailedStart == AllStopped => ntp

\* Repeating Stop is harmless (action_timetravel.go:165): the clock is never set back
\* further than it was set forward.
StopIsRepeatable == shift >= 0
=============================================================================
