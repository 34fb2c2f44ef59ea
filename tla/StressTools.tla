----------------------------- MODULE StressTools -----------------------------
(***************************************************************************)
(* The attacks that run a helper process: stress CPU, stress IO, fill      *)
(* memory (one tool each) and fill disk, with fsutil at once or with the   *)
(* pipeline devzero | dd over time.  Start launches the tools in a         *)
(* goroutine; Stop finds and ends processes by their NAME                  *)
(* (utils.StopProcess), so executions of the same tool share their fate.   *)
(* The agent may give up a call of Stop and repeat it while the handler of *)
(* the first one goes on: nothing serialises them.                         *)
(***************************************************************************)
EXTENDS Integers, Sequences, Functions

CONSTANTS
  Exec,      \* executions
  Tool,      \* Exec -> the process its goroutine launches: "fsutil" and
             \* "coreutils" fill the disk, any other name is a stress tool
  Faults,    \* faults the environment may inject, of FaultKinds
  MaxFaults, \* how many of them
  MaxLate    \* how many Stops of one execution may go on after they have been given up

FaultKinds == {"start",   \* a tool is not operational or does not start
               "list",    \* Get-Process fails
               "kill",    \* Stop-Process fails
               "timeout", \* the agent gives up a Stop before its answer comes
               "crash"}   \* the extension ends

ASSUME ToolsAssumption ==
  /\ Tool \in [Exec -> STRING \ {"devzero"}]
  /\ Faults \subseteq FaultKinds /\ MaxFaults \in Nat /\ MaxLate \in Nat

\* The handlers of Stop: <<e, 0>> is the one whose answer the agent awaits, the others
\* are those it has given up.
Handler == Exec \X (0 .. MaxLate)

VARIABLES
  agent,   \* what the agent knows of each execution
  pc,      \* where the goroutine of each execution is
  procs,   \* running processes, as <<execution, name>>
  file,    \* the file of each execution
  stop,    \* where each handler is
  names,   \* process names it still has to stop
  ran,     \* what the awaited Stop of an execution names and ran when it was called
  masked,  \* executions whose last Stop has taken a failure for success
  faults

vars == <<agent, pc, procs, file, stop, names, ran, masked, faults>>

OverTime(e) == Tool[e] = "coreutils"
FillsDisk(e) == Tool[e] \in {"fsutil", "coreutils"}
Names == {Tool[e] : e \in Exec} \cup {"coreutils", "devzero"}
Running(name) == {q \in procs : q[2] = name}

TypeOK ==
  /\ agent \in [Exec -> {"prepared", "running", "failed", "completed", "stopping",
                       "stopped"}]
  /\ pc \in [Exec -> {"none", "launch", "launchdd", "nodevzero", "wait", "starved", "ended",
                     "reap", "panic", "done"}]
  /\ procs \subseteq Exec \X Names
  /\ file \in [Exec -> {"absent", "present", "removed"}]
  /\ stop \in [Handler -> {"idle", "remove", "list", "kill", "answer"}]
  /\ names \in [Handler -> {<<>>} \cup {<<n>> : n \in Names} \cup {<<"coreutils", "devzero">>}]
  /\ ran \in [Exec -> SUBSET (Exec \X Names)]
  /\ masked \subseteq Exec /\ faults \in Nat

Init ==
  /\ agent = [e \in Exec |-> "prepared"]
  /\ pc = [e \in Exec |-> "none"]
  /\ procs = {}
  /\ file = [e \in Exec |-> "absent"]
  /\ stop = [h \in Handler |-> "idle"]
  /\ names = [h \in Handler |-> <<>>]
  /\ ran = [e \in Exec |-> {}]
  /\ masked = {}
  /\ faults = 0

Inject(kind) == kind \in Faults /\ faults < MaxFaults /\ faults' = faults + 1
Goto(e, place) == pc' = [pc EXCEPT ![e] = place]
handlerVars == <<agent, stop, names, ran, masked>>

-----------------------------------------------------------------------------
(* Start and its goroutine *)

\* IsExecutableOperational runs the tool once; the goroutine launches it later.
StartCall(e) ==
  /\ agent[e] = "prepared"
  /\ \/ /\ agent' = [agent EXCEPT ![e] = "running"]
        /\ Goto(e, "launch")
        /\ UNCHANGED faults
     \/ /\ Inject("start")
        /\ agent' = [agent EXCEPT ![e] = "failed"]
        /\ UNCHANGED pc
  /\ UNCHANGED <<procs, file, stop, names, ran, masked>>

\* The goroutine starts its process; over time, devzero first and then dd, whether devzero
\* has started or not.
Launch(e) ==
  /\ pc[e] = "launch"
  /\ \/ /\ procs' = procs \cup {<<e, IF OverTime(e) THEN "devzero" ELSE Tool[e]>>}
        /\ Goto(e, IF OverTime(e) THEN "launchdd" ELSE "wait")
        /\ UNCHANGED faults
     \/ /\ Inject("start")
        /\ Goto(e, IF OverTime(e) THEN "nodevzero" ELSE "done")
        /\ UNCHANGED procs
  /\ UNCHANGED <<handlerVars, file>>

\* Without devzero nothing is ever written to the pipe; without dd, Wait returns at once.
\* When both are missing, the Kill of devzero's nil process is a panic.
LaunchDD(e) ==
  /\ pc[e] \in {"launchdd", "nodevzero"}
  /\ \/ /\ procs' = procs \cup {<<e, "coreutils">>}
        /\ Goto(e, IF pc[e] = "launchdd" THEN "wait" ELSE "starved")
        /\ UNCHANGED faults
     \/ /\ Inject("start")
        /\ Goto(e, IF pc[e] = "launchdd" THEN "ended" ELSE "panic")
        /\ UNCHANGED procs
  /\ UNCHANGED <<handlerVars, file>>

\* fsutil and dd create their file.
CreateFile(e) ==
  /\ FillsDisk(e) /\ <<e, Tool[e]>> \in procs
  /\ file[e] = "absent"
  /\ file' = [file EXCEPT ![e] = "present"]
  /\ UNCHANGED <<handlerVars, pc, procs, faults>>

\* What a tool's arguments let it end by: its duration is over, or the file is full,
\* which takes dd its input, or the end of it, when the extension has gone with the pipe.
Ends(e) ==
  /\ FillsDisk(e) => file[e] # "absent"
  /\ OverTime(e) => pc[e] = "done" \/ <<e, "devzero">> \in procs

ToolEnds(e) ==
  /\ <<e, Tool[e]>> \in procs /\ Ends(e)
  /\ procs' = procs \ {<<e, Tool[e]>>}
  /\ UNCHANGED <<handlerVars, pc, file, faults>>

\* dd has consumed what devzero wrote before it ended: the goroutine that copies the
\* pipe into dd's stdin is blocked reading, and the writing end stays open.
Starve(e) ==
  /\ OverTime(e) /\ pc[e] = "wait"
  /\ <<e, "devzero">> \notin procs /\ <<e, "coreutils">> \in procs
  /\ Goto(e, "starved")
  /\ UNCHANGED <<handlerVars, procs, file, faults>>

\* Wait returns when the process has ended and its stdin has been copied: a copier
\* that still has data fails on the next write, one that is starved never returns.
WaitReturns(e) ==
  /\ pc[e] = "wait" /\ <<e, Tool[e]>> \notin procs
  /\ Goto(e, IF OverTime(e) THEN "ended" ELSE "done")
  /\ UNCHANGED <<handlerVars, procs, file, faults>>

KilledNone(e) == procs
Killed(e) == procs \ {<<e, "devzero">>}

\* devzeroCmd.Process.Kill
KillDevzero(e) ==
  /\ pc[e] = "ended"
  /\ procs' = Killed(e)
  /\ Goto(e, "reap")
  /\ UNCHANGED <<handlerVars, file, faults>>

\* devzeroCmd.Wait returns only when the goroutine that copies devzero's output has not
\* been left with data: the pipe is closed after Wait, so nobody takes it any more.
Reap(e) ==
  /\ pc[e] = "reap"
  /\ Goto(e, "done")
  /\ UNCHANGED <<handlerVars, procs, file, faults>>

\* The extension ends, with its handlers and goroutines, and is started again; the
\* processes it has launched stay.
EndOfExtension ==
  /\ pc' = [e \in Exec |-> IF pc[e] = "none" THEN "none" ELSE "done"]
  /\ stop' = [h \in Handler |-> "idle"]
  /\ names' = [h \in Handler |-> <<>>]
  /\ ran' = [e \in Exec |-> {}]
  /\ UNCHANGED <<agent, procs, file, masked>>

Crash == Inject("crash") /\ EndOfExtension
Panic(e) == pc[e] = "panic" /\ EndOfExtension /\ UNCHANGED faults

\* devzero ends when the pipe it writes to is broken.
DevzeroEnds(e) ==
  /\ pc[e] = "done" /\ <<e, "devzero">> \in procs
  /\ procs' = procs \ {<<e, "devzero">>}
  /\ UNCHANGED <<handlerVars, pc, file, faults>>

-----------------------------------------------------------------------------
(* Status.  (Bug variants, each named for its bug, stand before the definition they      *)
(* vary.)                                                                                *)

FoundInverted(name) == Running(name) = {}
Found(name) == Running(name) # {}

\* IsProcessRunning, and the agent that asks until the attack is completed, or its error
\* ends it; a fill of the disk has no Status.
StatusCall(e) ==
  /\ agent[e] = "running" /\ ~FillsDisk(e)
  /\ \/ /\ agent' = [agent EXCEPT ![e] = IF Found(Tool[e]) THEN @ ELSE "completed"]
        /\ UNCHANGED faults
     \/ Inject("list") /\ agent' \in {agent, [agent EXCEPT ![e] = "failed"]}
  /\ UNCHANGED <<pc, procs, file, stop, names, ran, masked>>

-----------------------------------------------------------------------------
(* Stop and utils.StopProcess *)

\* The processes Stop ends, by name and in this order.
StopNames(e) == IF FillsDisk(e) THEN <<"coreutils", "devzero">> ELSE <<Tool[e]>>

StopCall(e) ==
  /\ agent[e] \in {"running", "failed", "completed", "stopping"} /\ stop[<<e, 0>>] = "idle"
  /\ agent' = [agent EXCEPT ![e] = "stopping"]
  /\ stop' = [stop EXCEPT ![<<e, 0>>] = IF FillsDisk(e) THEN "remove" ELSE "list"]
  /\ names' = [names EXCEPT ![<<e, 0>>] = StopNames(e)]
  /\ ran' = [ran EXCEPT ![e] = {q \in procs : q[2] \in Range(StopNames(e))}]
  /\ masked' = masked \ {e}
  /\ UNCHANGED <<pc, procs, file, faults>>

\* The handler goes on, the agent repeats the Stop.
GiveUp(e) ==
  /\ stop[<<e, 0>>] # "idle"
  /\ Inject("timeout")
  /\ \E i \in 1 .. MaxLate :
       /\ stop[<<e, i>>] = "idle"
       /\ stop' = [stop EXCEPT ![<<e, i>>] = stop[<<e, 0>>], ![<<e, 0>>] = "idle"]
       /\ names' = [names EXCEPT ![<<e, i>>] = names[<<e, 0>>], ![<<e, 0>>] = <<>>]
  /\ ran' = [ran EXCEPT ![e] = {}]
  /\ UNCHANGED <<agent, pc, procs, file, masked>>

\* The handler ends; after an error the agent repeats the Stop.
Returns(h) ==
  /\ stop' = [stop EXCEPT ![h] = "idle"]
  /\ names' = [names EXCEPT ![h] = <<>>]
  /\ ran' = IF h[2] = 0 THEN [ran EXCEPT ![h[1]] = {}] ELSE ran

RemovedNever(e) == file
Removed(e) == [file EXCEPT ![e] = "removed"]

\* dd shares its open file for deletion, fsutil does not.
Removable(e) == file[e] = "present" /\ <<e, "fsutil">> \notin procs

\* os.Remove fails when there is no file; Stop then returns its error.
RemoveFile(h) ==
  /\ stop[h] = "remove"
  /\ IF Removable(h[1])
     THEN /\ file' = Removed(h[1])
          /\ stop' = [stop EXCEPT ![h] = "list"]
          /\ UNCHANGED <<names, ran>>
     ELSE Returns(h) /\ UNCHANGED file
  /\ UNCHANGED <<agent, pc, procs, masked, faults>>

\* StopProcess is through with a name: on to the next, or to the answer.
NextName(h) ==
  /\ names' = [names EXCEPT ![h] = Tail(@)]
  /\ stop' = [stop EXCEPT ![h] = IF Len(names[h]) = 1 THEN "answer" ELSE "list"]
  /\ UNCHANGED ran

\* IsProcessRunning
ListProcess(h) ==
  /\ stop[h] = "list"
  /\ \/ /\ Found(Head(names[h]))
        /\ stop' = [stop EXCEPT ![h] = "kill"]
        /\ UNCHANGED <<names, ran, faults>>
     \/ ~Found(Head(names[h])) /\ NextName(h) /\ UNCHANGED faults
     \/ Inject("list") /\ Returns(h)
  /\ UNCHANGED <<agent, pc, procs, file, masked>>

\* Stop-Process -Name -Force.  Only the failure that means the processes are gone is
\* returned; any other failure counts as success.
KillProcess(h) ==
  LET name == Head(names[h]) IN
  /\ stop[h] = "kill"
  /\ \/ Running(name) = {} /\ Returns(h) /\ UNCHANGED <<procs, masked, faults>>
     \/ /\ Running(name) # {}
        /\ procs' = procs \ Running(name)
        /\ NextName(h)
        /\ UNCHANGED <<masked, faults>>
     \/ /\ Running(name) # {} /\ Inject("kill")
        /\ NextName(h)
        /\ masked' = IF h[2] = 0 THEN masked \cup {h[1]} ELSE masked
        /\ UNCHANGED procs
  /\ UNCHANGED <<agent, pc, file>>

\* Stop returns; a goroutine may have launched a tool since StopProcess looked for it.
Answer(h) ==
  /\ stop[h] = "answer"
  /\ Returns(h)
  /\ agent' = IF h[2] = 0 THEN [agent EXCEPT ![h[1]] = "stopped"] ELSE agent
  /\ UNCHANGED <<pc, procs, file, masked, faults>>

-----------------------------------------------------------------------------
Goroutine(e) ==
  Launch(e) \/ LaunchDD(e) \/ WaitReturns(e) \/ KillDevzero(e) \/ Panic(e)
HandlerStep(h) == RemoveFile(h) \/ ListProcess(h) \/ KillProcess(h) \/ Answer(h)
Process(e) == CreateFile(e) \/ ToolEnds(e) \/ Starve(e) \/ DevzeroEnds(e)

Next == \/ \E e \in Exec : \/ StartCall(e) \/ StatusCall(e) \/ StopCall(e) \/ GiveUp(e)
                           \/ Goroutine(e) \/ Reap(e) \/ Process(e)
        \/ \E h \in Handler : HandlerStep(h)
        \/ Crash

Spec == Init /\ [][Next]_vars

\* Goroutines, handlers and processes run on (devzeroCmd.Wait may not); a tool ends when
\* its duration is over, its file is full or its pipe broken; the agent keeps asking for
\* the status and repeats a Stop that has failed or that it has given up.
Fairness ==
  /\ \A e \in Exec : /\ WF_vars(Goroutine(e)) /\ WF_vars(CreateFile(e)) /\ WF_vars(ToolEnds(e))
                     /\ WF_vars(Starve(e)) /\ WF_vars(DevzeroEnds(e)) /\ WF_vars(StatusCall(e))
                     /\ WF_vars(StopCall(e) /\ agent[e] = "stopping")
  /\ \A h \in Handler : WF_vars(HandlerStep(h))

FairSpec == Spec /\ Fairness

-----------------------------------------------------------------------------
(* Properties *)

\* A disk-fill whose Stop has succeeded occupies no space: its file is gone and nothing
\* writes to it any more, unless Stop has masked a failure.  Start is asynchronous, but
\* Stop cannot succeed before the file is there.
StoppedFillIsGone ==
  \A e \in Exec : FillsDisk(e) /\ agent[e] = "stopped" =>
     /\ file[e] = "removed"
     /\ e \notin masked => <<e, Tool[e]>> \notin procs

\* The inductive invariant behind it: a file is removed once and for all, StopProcess
\* goes through the names in order, and whatever ran when the awaited Stop was called and
\* runs still bears a name that this Stop has yet to come to.
Met(e, n) == <<e, n>> \in procs \/ \E x \in Exec : <<e, n>> \in ran[x]
LaunchInv ==
  \A e \in Exec :
    /\ agent[e] = "prepared" => pc[e] = "none"
    /\ pc[e] \in {"launchdd", "nodevzero"} => OverTime(e)
    /\ pc[e] \in {"none", "launch", "launchdd", "nodevzero"} => file[e] = "absent"
    /\ file[e] = "removed" => <<e, "fsutil">> \notin procs
    /\ \A n \in Names : Met(e, n) => /\ pc[e] \notin {"none", "launch"}
                                     /\ pc[e] \in {"launchdd", "nodevzero"} => n = "devzero"
StopInv ==
  /\ \A h \in Handler :
       /\ stop[h] \in {"idle", "answer"} => names[h] = <<>>
       /\ stop[h] = "remove" => FillsDisk(h[1]) /\ names[h] = <<"coreutils", "devzero">>
       /\ stop[h] \in {"list", "kill"} =>
            names[h] = StopNames(h[1]) \/ (FillsDisk(h[1]) /\ names[h] = <<"devzero">>)
       /\ stop[h] \in {"list", "kill", "answer"} /\ FillsDisk(h[1]) => file[h[1]] = "removed"
  /\ \A e \in Exec : stop[<<e, 0>>] # "idle" =>
       /\ agent[e] = "stopping"
       /\ e \notin masked => \A q \in ran[e] \cap procs : q[2] \in Range(names[<<e, 0>>])
       /\ stop[<<e, 0>>] # "remove" /\ FillsDisk(e) /\ e \notin masked =>
            "coreutils" \in Range(names[<<e, 0>>]) \/ <<e, "coreutils">> \notin procs
IInv == TypeOK /\ LaunchInv /\ StopInv /\ StoppedFillIsGone

\* A Stop that answers "Canceled stress host" (action_stress_cpu.go:322), or the like,
\* has ended whatever it names and ran when it was called, whoever started it.  What is
\* launched while StopProcess is at work, or after it, need not be ended ...
StopIsTrue(e) ==
  agent[e] # "stopped" /\ agent'[e] = "stopped" => ran[e] \cap procs' = {}
CanceledMeansEnded == [][\A e \in Exec : StopIsTrue(e)]_vars

\* ... as far as it has not masked a failure.
UnmaskedStopsAreTrue == \A e \in Exec \ masked : StopIsTrue(e)
UnmaskedMeansEnded == [][UnmaskedStopsAreTrue]_vars

\* Whatever Stop misses ends by itself: an attack that stays stopped, or whose Stop fails
\* again and again at a file that is already removed, is over for good, although its tool
\* may have been launched after Stop had looked for it, a failure was masked or the
\* extension has crashed.  Only a dd without its devzero that Stop has missed survives.
OverForGood(e) == {q \in procs : q[1] = e} = {} /\ file[e] # "present"
Survives(e) == pc[e] = "starved" /\ (e \in masked \/ agent[e] = "stopping")
StoppedEndsForGood ==
  \A e \in Exec : <>[](agent[e] \in {"stopping", "stopped"})
                    => <>[](OverForGood(e) \/ Survives(e))

\* However dd ends -- by its file, by a Stop, by not starting at all or with the
\* extension -- devzero, which would write for ever, ends with it.
Piped(e) == OverTime(e) /\ pc[e] \notin {"none", "launch", "launchdd", "nodevzero"}
DevzeroEndsWithDD ==
  \A e \in Exec : Piped(e) /\ <<e, "coreutils">> \notin procs ~> <<e, "devzero">> \notin procs

\* The end of a stress attack is noticed: the agent does not wait for ever.
CompletionIsReported ==
  \A e \in Exec : ~FillsDisk(e) /\ agent[e] = "running" ~> agent[e] # "running"

\* The Stop of a stress tool, repeated as often as it fails, succeeds: a tool that ends
\* between the search and the kill only costs a repetition.
StopSucceeds ==
  \A e \in Exec : ~FillsDisk(e) /\ agent[e] = "stopping" ~> agent[e] = "stopped"
=============================================================================
