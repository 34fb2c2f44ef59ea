------------------------------ MODULE StressCpu ------------------------------
(***************************************************************************)
(* The CPU stress from its parameters to its end: Prepare of the extension *)
(* (exthostwindows/action_stress_cpu.go) checks and completes them, the    *)
(* tool steadybit-stress-cpu parses them again, binds itself to processors *)
(* and keeps one thread busy per core until its main thread tells them to  *)
(* stop.  StressTools has the tool as one process among others.            *)
(***************************************************************************)
EXTENDS Integers

CONSTANTS
  Processors, \* of the host, in one group
  IntBits,    \* bits of an int of the tool, 32
  PtrBits,    \* bits of an affinity mask, 64
  MaxInt,     \* the largest int, 2^31 - 1
  Second,     \* in milliseconds, 1000
  Stresses    \* parameters of the attack

ASSUME CpuAssumption ==
  /\ PtrBits \in Nat /\ IntBits \in 2 .. PtrBits /\ Processors \in 1 .. PtrBits
  /\ MaxInt \in Nat /\ Second \in Nat \ {0}
  /\ Stresses \subseteq [ms : Nat, cores : Int, load : Int, priority : STRING]

VARIABLES
  main,     \* where the attack and the main thread of its tool are
  stress,   \* its parameters
  cores,    \* CpuStressOpts.Cores
  affinity, \* processors the tool is bound to
  sleeps,   \* milliseconds its main thread sleeps
  threads,  \* what each of its threads does
  joined,   \* how many the main thread has joined
  done      \* ExecutionDone

cpuVars == <<main, stress, cores, affinity, sleeps, threads, joined, done>>

Cpus == 0 .. Processors - 1

CpuInit ==
  /\ main = "new"
  /\ stress \in Stresses
  /\ cores = 0 /\ affinity = {} /\ sleeps = 0
  /\ threads = [i \in Cpus |-> "none"]
  /\ joined = 0
  /\ done = FALSE

-----------------------------------------------------------------------------
(* Prepare of the extension.  (Bug variants, each named for its bug, stand before the    *)
(* definition they vary.)                                                                *)

LongEnoughUnchecked(r) == TRUE
LongEnough(r) == r.ms >= Second

Priorities == {"Normal", "AboveNormal", "High", "RealTime"}

PrepareStress ==
  /\ main = "new"
  /\ IF /\ LongEnough(stress) /\ stress.cores <= Processors
        /\ stress.load \in 1 .. 100 /\ stress.priority \in Priorities
     THEN /\ main' = "prepared"
          /\ cores' = IF stress.cores <= 0 THEN Processors ELSE stress.cores
     ELSE main' = "rejected" /\ UNCHANGED cores
  /\ UNCHANGED <<stress, affinity, sleeps, threads, joined, done>>

-----------------------------------------------------------------------------
(* The tool: arguments, priority and affinity *)

\* Args passes whole seconds.
Seconds == stress.ms \div Second

\* The validators of the options; a number that is no int does not parse.
Valid ==
  /\ Seconds \in 1 .. MaxInt
  /\ stress.load \in 1 .. 100 /\ cores \in 1 .. Processors
  /\ stress.priority \in Priorities \cup {"Idle", "BelowNormal"}

\* Bits of the mask that 1 << i sets: an int shifts by i modulo its width, and its highest
\* bit is its sign, which the wider mask is filled up with.
Shifted(i) ==
  LET b == i % IntBits IN IF b = IntBits - 1 THEN b .. PtrBits - 1 ELSE {b}

Mask == UNION {Shifted(i) : i \in 0 .. cores - 1}

\* The tool ends with an error when it does not accept its options, or the system the mask.
RunTool ==
  /\ main = "prepared"
  /\ IF Valid /\ Mask \subseteq Cpus
     THEN main' = "launching" /\ affinity' = Mask
     ELSE main' = "refused" /\ UNCHANGED affinity
  /\ UNCHANGED <<stress, cores, sleeps, threads, joined, done>>

-----------------------------------------------------------------------------
(* The tool: CpuStress.Stress in its main thread *)

LaunchedButOne == 0 .. cores - 2
Launched == 0 .. cores - 1

LaunchThread ==
  /\ main = "launching"
  /\ \E i \in Launched :
       /\ threads[i] = "none" /\ \A j \in 0 .. i - 1 : threads[j] # "none"
       /\ threads' = [threads EXCEPT ![i] = "check"]
  /\ UNCHANGED <<main, stress, cores, affinity, sleeps, joined, done>>

\* An int that has overflowed.
Wrapped(n) ==
  LET m == n % (2 * (MaxInt + 1)) IN IF m > MaxInt THEN m - 2 * (MaxInt + 1) ELSE m

\* Thread.Sleep of a negative number throws, and leaves the threads behind.  (-1, which
\* would mean for ever, is no multiple of 1000.)
Sleep ==
  /\ main = "launching" /\ \A i \in Launched : threads[i] # "none"
  /\ sleeps' = Wrapped(Seconds * Second)
  /\ main' = IF sleeps' < 0 THEN "thrown" ELSE "asleep"
  /\ UNCHANGED <<stress, cores, affinity, threads, joined, done>>

WakeUp ==
  /\ main = "asleep"
  /\ done' = TRUE
  /\ main' = "joining"
  /\ UNCHANGED <<stress, cores, affinity, sleeps, threads, joined>>

Join ==
  /\ main = "joining"
  /\ \/ /\ joined < cores /\ threads[joined] = "over"
        /\ joined' = joined + 1
        /\ UNCHANGED main
     \/ joined = cores /\ main' = "ended" /\ UNCHANGED joined
  /\ UNCHANGED <<stress, cores, affinity, sleeps, threads, done>>

-----------------------------------------------------------------------------
(* The tool: CoreStress in each thread *)

Thread(i, from, to) ==
  /\ threads[i] = from
  /\ threads' = [threads EXCEPT ![i] = to]
  /\ UNCHANGED <<main, stress, cores, affinity, sleeps, joined, done>>

SeesDoneNever == FALSE
SeesDone == done

\* Look at ExecutionDone, spin for load % of an interval, sleep for the rest if there is
\* any.
Check(i) == Thread(i, "check", IF SeesDone THEN "over" ELSE "spin")
Spin(i) == Thread(i, "spin", IF stress.load < 100 THEN "rest" ELSE "check")
Rest(i) == Thread(i, "rest", "check")
CoreStress(i) == Check(i) \/ Spin(i) \/ Rest(i)

-----------------------------------------------------------------------------
\* Stop of the extension ends the process with its threads.
KillTool ==
  /\ main \in {"launching", "asleep", "joining", "thrown"}
  /\ main' = "killed"
  /\ threads' = [i \in Cpus |-> "none"]
  /\ UNCHANGED <<stress, cores, affinity, sleeps, joined, done>>

Tool == RunTool \/ LaunchThread \/ Sleep \/ WakeUp \/ Join

CpuNext == PrepareStress \/ Tool \/ (\E i \in Cpus : CoreStress(i)) \/ KillTool

CpuSpec == CpuInit /\ [][CpuNext]_cpuVars

\* The threads of a process run on, and a sleep ends.  Nobody has to stop the attack.
CpuFairness == WF_cpuVars(Tool) /\ \A i \in Cpus : WF_cpuVars(CoreStress(i))

-----------------------------------------------------------------------------
(* Properties *)

CpuTypeOK ==
  /\ main \in {"new", "rejected", "prepared", "refused", "launching", "asleep", "joining",
               "thrown", "ended", "killed"}
  /\ stress \in Stresses /\ cores \in 0 .. Processors /\ affinity \subseteq Cpus
  /\ sleeps \in Int /\ joined \in 0 .. cores /\ done \in BOOLEAN
  /\ threads \in [Cpus -> {"none", "check", "spin", "rest", "over"}]

\* As long as the main thread sleeps, all the cores asked for are kept busy: no thread is
\* missing or gives up early, and none is left behind when the tool has ended.
Busy == {i \in Cpus : threads[i] \in {"check", "spin", "rest"}}
CoresAreBusy ==
  /\ main = "asleep" => Busy = 0 .. cores - 1
  /\ main = "ended" => Busy = {}

\* The inductive invariant behind it: the tool runs with what Prepare has accepted, its
\* threads are launched before the main thread sleeps, run until it says that they are done,
\* and are joined one after the other.
Running == {"launching", "asleep", "joining", "thrown", "ended"}
AcceptedInv ==
  /\ main \notin {"new", "rejected"} =>
       LongEnough(stress) /\ stress.load \in 1 .. 100 /\ stress.priority \in Priorities
         /\ cores \in 1 .. Processors
  /\ main = "refused" => ~(Valid /\ Mask \subseteq Cpus)
  /\ main \in Running => affinity = Mask
  /\ main \in {"asleep", "joining", "thrown", "ended"} => sleeps = Wrapped(Seconds * Second)
  /\ main = "thrown" => sleeps < 0
ThreadInv ==
  /\ main \in {"joining", "ended"} => done
  /\ done => main \in {"joining", "ended", "killed"}
  /\ \A i \in Cpus :
       /\ threads[i] # "none" => main \in Running /\ i < cores
       /\ threads[i] = "over" => done
       /\ main \in Running \ {"launching"} /\ i < cores => threads[i] # "none"
       /\ main \in {"joining", "ended"} /\ i < joined => threads[i] = "over"
  /\ joined # 0 => main \in {"joining", "ended", "killed"}
  /\ main = "ended" => joined = cores
CpuInv == CpuTypeOK /\ AcceptedInv /\ ThreadInv /\ CoresAreBusy

\* Parameters the tool's ints can hold: fewer cores than an int has bits, and less than
\* 25 days in milliseconds.
Fitting == cores < IntBits /\ stress.ms <= MaxInt

\* An attack that Prepare accepts is not refused by the tool, which checks the same
\* parameters in its own way: it runs on as many processors as asked for and lasts as long
\* as asked for, rounded down to seconds.
AcceptedStressRuns ==
  Fitting =>
    /\ main \notin {"refused", "thrown"}
    /\ main \in {"launching", "asleep", "joining", "ended"} => affinity = 0 .. cores - 1
    /\ main \in {"asleep", "joining", "ended"} => stress.ms - sleeps \in 0 .. Second - 1

\* The tool ends by itself: the main thread waits for every thread, and every thread
\* notices that the time is over, wherever it is in its interval.
StressEnds == stress.ms <= MaxInt /\ main = "launching" ~> main \in {"ended", "killed"}
=============================================================================
