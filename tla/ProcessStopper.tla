--------------------------- MODULE ProcessStopper ---------------------------
(***************************************************************************)
(* The stop-process attack (exthostwindows/action_stop_process.go and      *)
(* process/process_util.go).  Each execution starts a goroutine that, in   *)
(* rounds, finds the processes its filter matches and runs taskkill on     *)
(* each, until its context ends or a round fails.  The handlers meet the   *)
(* goroutine only through the map processStoppers, the context and the     *)
(* error it stores.  Processes come back: services are restarted.          *)
(***************************************************************************)
EXTENDS FiniteSets

CONSTANTS
  Exec,      \* executions of the action
  Pid,       \* processes of the host
  Match,     \* Exec -> the processes the filter of an execution matches
  Protected, \* processes taskkill may not end
  Graceful,  \* executions without /F: a process may ignore the request
  NoDelay,   \* executions with delay 0, whose timer may fire at once
  Unheard,   \* executions whose answer to Stop may not reach the agent
  None       \* no stopper stored under a key

ASSUME StopperAssumption ==
  /\ Match \in [Exec -> SUBSET Pid]
  /\ Graceful \subseteq Exec /\ NoDelay \subseteq Exec /\ Unheard \subseteq Exec
  /\ None \notin Exec

VARIABLES
  agent,    \* what the agent knows of each execution
  stopper,  \* processStoppers: key -> the execution whose stopper it holds
  ctx,      \* context of each stopper: live, expired or cancelled
  err,      \* error stored in each stopper, as the processes it names
  pc,       \* where each goroutine is
  found,    \* processes its round still has to stop
  failures, \* processes its round could not stop
  stop,     \* where the Stop handler is, and the stopper it has loaded
  reported, \* the error each execution has reported to the agent
  alive     \* running processes

handlerVars == <<agent, stopper, stop, reported>>
roundVars == <<found, failures>>
vars == <<handlerVars, ctx, err, pc, roundVars, alive>>

Handling == [at : {"idle", "delete", "load"}, of : Exec \cup {None}]
Idle == [at |-> "idle", of |-> None]

TypeOK ==
  /\ agent \in [Exec -> {"prepared", "running", "stopping", "stopped"}]
  /\ stopper \in [Exec -> Exec \cup {None}]
  /\ ctx \in [Exec -> {"live", "expired", "cancelled"}]
  /\ err \in [Exec -> SUBSET Pid]
  /\ pc \in [Exec -> {"none", "select", "wait", "find", "kill", "done"}]
  /\ found \in [Exec -> SUBSET Pid]
  /\ failures \in [Exec -> SUBSET Pid]
  /\ stop \in [Exec -> Handling]
  /\ reported \in [Exec -> SUBSET Pid]
  /\ alive \subseteq Pid

Init ==
  /\ agent = [e \in Exec |-> "prepared"]
  /\ stopper = [e \in Exec |-> None]
  /\ ctx = [e \in Exec |-> "live"]
  /\ err = [e \in Exec |-> {}]
  /\ pc = [e \in Exec |-> "none"]
  /\ found = [e \in Exec |-> {}]
  /\ failures = [e \in Exec |-> {}]
  /\ stop = [e \in Exec |-> Idle]
  /\ reported = [e \in Exec |-> {}]
  /\ alive = Pid

\* (Bug variants, each named for its bug, stand before the definition they vary.)
KeyShared(e) == CHOOSE k \in Exec : TRUE

\* The key of an execution's stopper in processStoppers: its ExecutionId.
Key(e) == e

Cancelled(s) == [ctx EXCEPT ![s] = IF @ = "live" THEN "cancelled" ELSE @]

-----------------------------------------------------------------------------
(* Start, Status and Stop *)

\* The context's timeout runs from here; the goroutine is started.
Start(e) ==
  /\ agent[e] = "prepared"
  /\ agent' = [agent EXCEPT ![e] = "running"]
  /\ stopper' = [stopper EXCEPT ![Key(e)] = e]
  /\ pc' = [pc EXCEPT ![e] = "select"]
  /\ UNCHANGED <<ctx, err, roundVars, stop, reported, alive>>

\* Status reports an error the goroutine has stored; otherwise nothing changes.
Status(e) ==
  LET s == stopper[Key(e)] IN
  /\ agent[e] = "running"
  /\ s # None
  /\ err[s] # {}
  /\ reported' = [reported EXCEPT ![e] = err[s]]
  /\ UNCHANGED <<agent, stopper, stop, ctx, err, pc, roundVars, alive>>

\* Stop, first step: load the stopper and cancel its context.  Without a stopper, as
\* in a repeated Stop, it returns at once.
StopCancels(e) ==
  LET s == stopper[Key(e)] IN
  /\ agent[e] = "running" \/ (agent[e] = "stopping" /\ stop[e] = Idle)
  /\ IF s = None
     THEN agent' = [agent EXCEPT ![e] = "stopped"] /\ UNCHANGED <<stop, ctx>>
     ELSE /\ agent' = [agent EXCEPT ![e] = "stopping"]
          /\ stop' = [stop EXCEPT ![e] = [at |-> "delete", of |-> s]]
          /\ ctx' = Cancelled(s)
  /\ UNCHANGED <<stopper, reported, err, pc, roundVars, alive>>

StopDeletes(e) ==
  /\ stop[e].at = "delete"
  /\ stop' = [stop EXCEPT ![e].at = "load"]
  /\ stopper' = [stopper EXCEPT ![Key(e)] = None]
  /\ UNCHANGED <<agent, reported, ctx, err, pc, roundVars, alive>>

\* Stop, last step: report the error stored so far.  The agent repeats a Stop whose
\* answer it has not heard.
StopReports(e) ==
  /\ stop[e].at = "load"
  /\ stop' = [stop EXCEPT ![e] = Idle]
  /\ \/ /\ reported' = [reported EXCEPT ![e] = @ \cup err[stop[e].of]]
        /\ agent' = [agent EXCEPT ![e] = "stopped"]
     \/ e \in Unheard /\ UNCHANGED <<reported, agent>>
  /\ UNCHANGED <<stopper, ctx, err, pc, roundVars, alive>>

-----------------------------------------------------------------------------
(* The goroutine *)

AfterDoneBreaks(e) == "select"

\* Where the goroutine goes when it sees ctx.Done: it returns.
AfterDone(e) == "done"

TimerReadyTicker(e) == TRUE

\* The timer is made for this select: only without delay can it have fired already.
TimerReady(e) == e \in NoDelay

\* select: a context that has ended is seen at once, but a timer that has fired too
\* may be preferred.
Select(e) ==
  /\ pc[e] = "select"
  /\ \/ ctx[e] # "live" /\ pc' = [pc EXCEPT ![e] = AfterDone(e)]
     \/ TimerReady(e) /\ pc' = [pc EXCEPT ![e] = "find"]
     \/ ctx[e] = "live" /\ pc' = [pc EXCEPT ![e] = "wait"]
  /\ UNCHANGED <<handlerVars, ctx, err, roundVars, alive>>

\* Blocked in select, the goroutine is woken by what happens first: the timer ...
TimerFires(e) ==
  /\ pc[e] = "wait" /\ ctx[e] = "live"
  /\ pc' = [pc EXCEPT ![e] = "find"]
  /\ UNCHANGED <<handlerVars, ctx, err, roundVars, alive>>

\* ... or the end of its context.
DoneWakes(e) ==
  /\ pc[e] = "wait" /\ ctx[e] # "live"
  /\ pc' = [pc EXCEPT ![e] = AfterDone(e)]
  /\ UNCHANGED <<handlerVars, ctx, err, roundVars, alive>>

\* FindProcessIds; listing the processes may fail, which finds none.
Find(e) ==
  /\ pc[e] = "find"
  /\ pc' = [pc EXCEPT ![e] = "kill"]
  /\ \/ found' = [found EXCEPT ![e] = alive \cap Match[e]]
     \/ found' = [found EXCEPT ![e] = {}]
  /\ failures' = [failures EXCEPT ![e] = {}]
  /\ UNCHANGED <<handlerVars, ctx, err, alive>>

RestNoneAfterFailure(e, p, failed) == IF failed THEN {} ELSE found[e] \ {p}

\* A process that cannot be stopped does not keep the round from the others.
Rest(e, p, failed) == found[e] \ {p}

\* StopProcesses takes one process: one that is gone is skipped, taskkill stops it or
\* fails.  A request without /F may be ignored.
Kill(e) ==
  /\ pc[e] = "kill"
  /\ \E p \in found[e] :
       LET failed == p \in alive \cap Protected IN
       /\ found' = [found EXCEPT ![e] = Rest(e, p, failed)]
       /\ failures' = [failures EXCEPT ![e] = IF failed THEN @ \cup {p} ELSE @]
       /\ \/ alive' = alive \ ({p} \ Protected)
          \/ e \in Graceful /\ UNCHANGED alive
  /\ UNCHANGED <<handlerVars, ctx, err, pc>>

AfterRoundReturns(e) == "done"

\* After a round without failures the goroutine selects again.
AfterRound(e) == IF failures[e] # {} THEN "done" ELSE "select"

RoundEnds(e) ==
  /\ pc[e] = "kill" /\ found[e] = {}
  /\ pc' = [pc EXCEPT ![e] = AfterRound(e)]
  /\ err' = [err EXCEPT ![e] = IF failures[e] # {} THEN failures[e] ELSE @]
  /\ ctx' = IF AfterRound(e) = "done" THEN Cancelled(e) ELSE ctx
  /\ UNCHANGED <<handlerVars, roundVars, alive>>

-----------------------------------------------------------------------------
(* The environment *)

\* The duration has passed.
Expire(e) ==
  /\ pc[e] # "none" /\ ctx[e] = "live"
  /\ ctx' = [ctx EXCEPT ![e] = "expired"]
  /\ UNCHANGED <<handlerVars, err, pc, roundVars, alive>>

\* A process is started again (a service, a scheduled task, a user).
Respawn(p) ==
  /\ p \notin alive
  /\ alive' = alive \cup {p}
  /\ UNCHANGED <<handlerVars, ctx, err, pc, roundVars>>

-----------------------------------------------------------------------------
Goroutine(e) == TimerFires(e) \/ DoneWakes(e) \/ Kill(e) \/ RoundEnds(e)
StopSteps(e) == StopDeletes(e) \/ StopReports(e)
SeesDone(e) == Select(e) /\ ctx[e] # "live" /\ pc'[e] = AfterDone(e)
FindsAll(e) == Find(e) /\ found'[e] = alive \cap Match[e]

Next ==
  \/ \E e \in Exec : \/ Start(e) \/ Status(e) \/ StopCancels(e)
                     \/ StopSteps(e)
                     \/ Goroutine(e) \/ Select(e) \/ Find(e)
                     \/ Expire(e)
  \/ \E p \in Pid : Respawn(p)

Spec == Init /\ [][Next]_vars

\* The goroutine runs on and its timer fires; Stop ends.  select chooses at random
\* among what is ready, so it sees ctx.Done sooner or later (strong fairness), and
\* listing processes does not fail for ever.  Nothing is owed by the agent, by
\* the clock that ends the duration or by the processes.
Fairness ==
  \A e \in Exec : /\ WF_vars(Goroutine(e)) /\ WF_vars(StopSteps(e))
                  /\ WF_vars(Select(e)) /\ SF_vars(SeesDone(e))
                  /\ WF_vars(Find(e)) /\ SF_vars(FindsAll(e))

FairSpec == Spec /\ Fairness

-----------------------------------------------------------------------------
(* Properties *)

\* Parallel executions are told apart by their ID (CHANGELOG.md:45): the error an
\* execution reports names only processes its own filter matches.
ReportsOwnFailure == \A e \in Exec : reported[e] \subseteq Match[e]

\* The inductive invariant behind it: handlers meet only the stopper of their own
\* execution, and what a round finds, fails to stop and stores stays within its filter.
OwnStopper == \A e \in Exec : stopper[e] \in {e, None} /\ stop[e].of \in {e, None}
OwnProcesses == \A e \in Exec : found[e] \cup failures[e] \cup err[e] \subseteq Match[e]
LoadsAStopper == \A e \in Exec : stop[e].at # "idle" => stop[e].of # None
IInv == TypeOK /\ OwnStopper /\ OwnProcesses /\ LoadsAStopper /\ ReportsOwnFailure

\* An execution that waits between its rounds starts no round once its context has
\* ended; at most the round under way is carried on.
StartsNoRound(e) == ctx[e] # "live" /\ pc[e] # "find" => pc'[e] # "find"
OnlyLiveOnesStart == \A e \in Exec \ NoDelay : StartsNoRound(e)
QuietAfterDone == [][OnlyLiveOnesStart]_vars

\* The goroutine of a stopped execution ends: no goroutine leaks, whatever it was
\* doing when Stop came.
GoroutineEnds == \A e \in Exec : agent[e] = "stopped" ~> pc[e] \in {"none", "done"}

\* A matching process does not survive an execution that stays running: it is stopped
\* although others are started again, unless the duration ends or a process cannot be
\* stopped.
MatchedProcessesDie ==
  \A e \in Exec \ Graceful : \A p \in Match[e] \ Protected :
    agent[e] = "running" /\ p \in alive ~>
      p \notin alive \/ agent[e] # "running" \/ ctx[e] = "expired" \/ err[e] # {}

\* Every process a round has found is stopped in it, even if others cannot be.
FoundProcessesDie ==
  \A e \in Exec \ Graceful : \A p \in Match[e] \ Protected :
    p \in found[e] ~> p \notin alive

\* The action reports an error if stopping the process is unsuccessful
\* (CHANGELOG.md:44).
FailureIsReported ==
  \A e \in Exec : agent[e] = "stopped" /\ pc[e] = "done" /\ err[e] # {} => reported[e] # {}
=============================================================================
