-------------------------- MODULE StressCpu_proofs --------------------------
(* For every host, width of the ints and request: the CPU stress keeps the cores   *)
(* busy that it is asked for, and the tool accepts what the extension accepts.     *)
EXTENDS StressCpu, TLAPS

\* Milliseconds are rounded down to seconds.
LEMMA WholeSeconds ==
  ASSUME NEW a \in Nat, NEW b \in Nat \ {0}
  PROVE  /\ a \div b \in Nat
         /\ a - (a \div b) * b \in 0 .. b - 1
         /\ (a \div b) * b \in 0 .. a
         /\ a >= b => a \div b >= 1
         /\ a \div b <= a
<1>1. a \div b \in Nat /\ (a \div b) * b <= a /\ a < ((a \div b) + 1) * b
  BY SMTT(30)
<1> DEFINE q == a \div b
           p == q * b
<1>2. q \in Nat /\ p \in Nat /\ p <= a /\ (q + 1) * b = p + b
  BY <1>1, SMTT(30)
<1>3. a < p + b
  BY <1>1, <1>2
<1>4. q <= p
  BY <1>2, SMTT(30)
<1>5. q = 0 => p = 0
  BY <1>2
<1> HIDE DEF q, p
<1>6. a - p \in 0 .. b - 1 /\ p \in 0 .. a /\ q <= a /\ (a >= b => q >= 1)
  BY <1>2, <1>3, <1>4, <1>5
<1> QED
  BY <1>2, <1>6 DEF q, p

\* An int that has not overflowed is what it was.
LEMMA NoOverflow == ASSUME NEW n \in 0 .. MaxInt PROVE Wrapped(n) = n
<1> DEFINE M == 2 * (MaxInt + 1)
<1>1. M \in Nat \ {0} /\ n \in Nat /\ n < M
  BY CpuAssumption
<1> HIDE DEF M
<1>2. n % M = n
  BY <1>1, SMTT(30)
<1> QED
  BY <1>2, CpuAssumption DEF Wrapped, M

\* An int is an integer, whatever it has been computed from.
LEMMA WrappedInt == ASSUME NEW n \in Int PROVE Wrapped(n) \in Int
<1> DEFINE M == 2 * (MaxInt + 1)
<1>1. M \in Nat \ {0}
  BY CpuAssumption
<1> HIDE DEF M
<1>2. n % M \in Int
  BY <1>1
<1> QED
  BY <1>2, CpuAssumption DEF Wrapped, M

\* Below the width of an int, the mask has one bit for each core.
LEMMA MaskExact == ASSUME cores \in Nat, cores < IntBits PROVE Mask = 0 .. cores - 1
<1>1. ASSUME NEW i \in 0 .. cores - 1 PROVE Shifted(i) = {i}
  <2>1. IntBits \in Nat \ {0} /\ i \in Nat /\ i < IntBits - 1
    BY CpuAssumption
  <2>2. i % IntBits = i
    BY <2>1, SMTT(30)
  <2> QED
    BY <2>1, <2>2 DEF Shifted
<1> QED
  BY <1>1 DEF Mask

\* What is accepted is valid for the tool, as long as its int holds the seconds.
LEMMA AcceptedIsValid ==
  ASSUME CpuTypeOK, stress.ms <= MaxInt, LongEnough(stress), stress.load \in 1 .. 100,
         stress.priority \in Priorities, cores \in 1 .. Processors
  PROVE  Valid
<1>1. stress.ms \in Nat /\ Second \in Nat \ {0} /\ MaxInt \in Nat
  BY CpuAssumption DEF CpuTypeOK
<1>2. Seconds \in Nat /\ Seconds >= 1 /\ Seconds <= stress.ms
  BY <1>1, WholeSeconds DEF Seconds, LongEnough
<1>3. Seconds \in 1 .. MaxInt
  BY <1>1, <1>2
<1> QED
  BY <1>3 DEF Valid

\* At first nothing runs.
LEMMA CpuInitInvariant == CpuInit => CpuInv
<1> SUFFICES ASSUME CpuInit PROVE CpuInv
  OBVIOUS
<1> USE CpuAssumption DEF CpuInit
<1>1. CpuTypeOK
  <2>1. /\ main = "new" /\ stress \in Stresses /\ affinity \subseteq Cpus /\ done \in BOOLEAN
        /\ cores \in 0 .. Processors /\ joined \in 0 .. cores /\ sleeps \in Int
    <3>1. cores \in 0 .. Processors
      OBVIOUS
    <3>2. joined \in 0 .. cores
      OBVIOUS
    <3>3. sleeps \in Int /\ affinity \subseteq Cpus
      OBVIOUS
    <3>4. main = "new" /\ stress \in Stresses /\ done \in BOOLEAN
      BY Zenon
    <3> QED
      BY <3>1, <3>2, <3>3, <3>4, Zenon
  <2>2. threads \in [Cpus -> {"none", "check", "spin", "rest", "over"}]
    OBVIOUS
  <2> QED
    BY <2>1, <2>2, Zenon DEF CpuTypeOK
<1>2. AcceptedInv
  BY DEF AcceptedInv, Running
<1>3. ThreadInv /\ CoresAreBusy
  BY DEF ThreadInv, CoresAreBusy, Running
<1> QED
  BY <1>1, <1>2, <1>3 DEF CpuInv

\* The facts that the main thread and the threads share follow from the rest of the
\* invariant.
LEMMA BusyFollows == CpuTypeOK /\ ThreadInv => CoresAreBusy
<1> SUFFICES ASSUME CpuTypeOK, ThreadInv PROVE CoresAreBusy
  OBVIOUS
<1> USE CpuAssumption DEF CpuTypeOK, ThreadInv, CoresAreBusy, Busy, Running, Cpus
<1>1. main = "asleep" => Busy = 0 .. cores - 1
  <2> SUFFICES ASSUME main = "asleep" PROVE Busy = 0 .. cores - 1
    OBVIOUS
  <2>1. \A i \in Cpus : threads[i] \in {"check", "spin", "rest"} <=> i < cores
    OBVIOUS
  <2> QED
    BY <2>1
<1>2. main = "ended" => Busy = {}
  OBVIOUS
<1> QED
  BY <1>1, <1>2

\* What the tool has accepted stays so as long as the parameters do.
LEMMA AcceptedStays ==
  ASSUME AcceptedInv, UNCHANGED <<stress, cores, affinity, sleeps>>,
         \/ main' = main
         \/ main' \in {"joining", "ended"} /\ main \in {"asleep", "joining"}
         \/ main' = "killed" /\ main \in Running
  PROVE  AcceptedInv'
<1>1. Seconds' = Seconds /\ Mask' = Mask /\ (Valid' <=> Valid) /\ (LongEnough(stress)' <=> LongEnough(stress))
  BY DEF Seconds, Mask, Valid, LongEnough
<1> QED
  BY <1>1 DEF AcceptedInv, Running

\* Every step keeps the invariant.
LEMMA CpuStepInvariant == CpuInv /\ [CpuNext]_cpuVars => CpuInv'
<1> SUFFICES ASSUME CpuInv, [CpuNext]_cpuVars PROVE CpuInv'
  OBVIOUS
<1>0. CpuTypeOK /\ AcceptedInv /\ ThreadInv
  BY DEF CpuInv
<1> USE CpuAssumption
<1>1. ASSUME PrepareStress PROVE (CpuTypeOK /\ AcceptedInv /\ ThreadInv)'
  <2>1. main = "new" /\ stress \in [ms : Nat, cores : Int, load : Int, priority : STRING] /\ joined = 0
    BY <1>0, <1>1 DEF PrepareStress, CpuTypeOK, ThreadInv
  <2>2. CASE main' = "rejected" /\ UNCHANGED cores
    BY <1>0, <1>1, <2>1, <2>2 DEF PrepareStress, CpuTypeOK, AcceptedInv, ThreadInv, Running
  <2>3. CASE /\ LongEnough(stress) /\ stress.cores <= Processors
             /\ stress.load \in 1 .. 100 /\ stress.priority \in Priorities
             /\ main' = "prepared" /\ cores' = IF stress.cores <= 0 THEN Processors ELSE stress.cores
    <3>1. cores' \in 1 .. Processors /\ UNCHANGED <<stress, affinity, sleeps, threads, joined, done>>
      BY <1>1, <2>1, <2>3 DEF PrepareStress
    <3>2. CpuTypeOK'
      BY <1>0, <2>1, <2>3, <3>1 DEF CpuTypeOK
    <3>3. AcceptedInv'
      BY <1>0, <2>3, <3>1 DEF AcceptedInv, Running, LongEnough
    <3>4. ThreadInv'
      BY <1>0, <2>1, <2>3, <3>1 DEF ThreadInv, Running
    <3> QED
      BY <3>2, <3>3, <3>4
  <2> QED
    BY <1>1, <2>2, <2>3 DEF PrepareStress
<1>2. ASSUME RunTool PROVE (CpuTypeOK /\ AcceptedInv /\ ThreadInv)'
  BY <1>0, <1>2 DEF RunTool, CpuTypeOK, AcceptedInv, ThreadInv, Running, LongEnough, Valid, Mask, Seconds
<1>3. ASSUME LaunchThread PROVE (CpuTypeOK /\ AcceptedInv /\ ThreadInv)'
  <2>1. AcceptedInv'
    BY <1>0, <1>3, AcceptedStays DEF Running, LaunchThread
  <2>2. CpuTypeOK' /\ ThreadInv'
    BY <1>0, <1>3 DEF LaunchThread, Launched, CpuTypeOK, ThreadInv, Running, Cpus
  <2> QED
    BY <2>1, <2>2
<1>4. ASSUME Sleep PROVE (CpuTypeOK /\ AcceptedInv /\ ThreadInv)'
  <2>1. /\ main = "launching" /\ main' \in {"thrown", "asleep"} /\ (main' = "thrown" => sleeps' < 0)
        /\ sleeps' = Wrapped(Seconds * Second) /\ \A i \in 0 .. cores - 1 : threads[i] # "none"
        /\ UNCHANGED <<stress, cores, affinity, threads, joined, done>>
    BY <1>4 DEF Sleep, Launched
  <2>2. Seconds' = Seconds /\ Mask' = Mask /\ (LongEnough(stress)' <=> LongEnough(stress))
    BY <2>1 DEF Seconds, Mask, LongEnough
  <2>3. sleeps' \in Int
    <3>1. stress.ms \in Nat /\ Second \in Nat \ {0}
      BY <1>0 DEF CpuTypeOK
    <3>2. Seconds \in Nat
      BY <3>1, WholeSeconds DEF Seconds
    <3>3. Seconds * Second \in Int
      BY <3>1, <3>2
    <3> QED
      BY <2>1, <3>3, WrappedInt
  <2>4. AcceptedInv'
    BY <1>0, <2>1, <2>2 DEF AcceptedInv, Running
  <2>5. CpuTypeOK' /\ ThreadInv'
    BY <1>0, <2>1, <2>3 DEF CpuTypeOK, ThreadInv, Running, Cpus
  <2> QED
    BY <2>4, <2>5
<1>5. ASSUME WakeUp PROVE (CpuTypeOK /\ AcceptedInv /\ ThreadInv)'
  <2>1. AcceptedInv'
    BY <1>0, <1>5, AcceptedStays DEF Running, WakeUp
  <2>2. CpuTypeOK' /\ joined = 0
    BY <1>0, <1>5 DEF WakeUp, CpuTypeOK, ThreadInv
  <2>3. ThreadInv'
    BY <1>0, <1>5, <2>2 DEF WakeUp, CpuTypeOK, ThreadInv, Running, Cpus
  <2> QED
    BY <2>1, <2>2, <2>3
<1>6. ASSUME Join PROVE (CpuTypeOK /\ AcceptedInv /\ ThreadInv)'
  <2>1. AcceptedInv'
    BY <1>0, <1>6, AcceptedStays DEF Running, Join
  <2>2. CpuTypeOK' /\ ThreadInv'
    BY <1>0, <1>6 DEF Join, CpuTypeOK, ThreadInv, Running, Cpus
  <2> QED
    BY <2>1, <2>2
<1>7. ASSUME NEW i \in Cpus, CoreStress(i) PROVE (CpuTypeOK /\ AcceptedInv /\ ThreadInv)'
  <2>1. PICK to \in {"check", "spin", "rest", "over"} :
          /\ threads' = [threads EXCEPT ![i] = to]
          /\ to = "over" => done
    BY <1>7 DEF CoreStress, Check, Spin, Rest, Thread, SeesDone
  <2>2. threads[i] \in {"check", "spin", "rest"} /\ UNCHANGED <<main, stress, cores, affinity, sleeps, joined, done>>
    BY <1>7 DEF CoreStress, Check, Spin, Rest, Thread
  <2>3. AcceptedInv'
    BY <1>0, <2>2, AcceptedStays DEF Running
  <2>4. CpuTypeOK'
    BY <1>0, <2>1, <2>2 DEF CpuTypeOK
  <2>5. ThreadInv'
    BY <1>0, <2>1, <2>2 DEF CpuTypeOK, ThreadInv, Running
  <2> QED
    BY <2>3, <2>4, <2>5
<1>8. ASSUME KillTool PROVE (CpuTypeOK /\ AcceptedInv /\ ThreadInv)'
  <2>1. AcceptedInv'
    BY <1>0, <1>8, AcceptedStays DEF KillTool, Running
  <2>2. CpuTypeOK' /\ ThreadInv'
    BY <1>0, <1>8 DEF KillTool, CpuTypeOK, ThreadInv, Running
  <2> QED
    BY <2>1, <2>2
<1>9. ASSUME UNCHANGED cpuVars PROVE (CpuTypeOK /\ AcceptedInv /\ ThreadInv)'
  <2>1. AcceptedInv'
    BY <1>0, <1>9, AcceptedStays DEF Running, cpuVars
  <2>2. CpuTypeOK' /\ ThreadInv'
    BY <1>0, <1>9 DEF cpuVars, CpuTypeOK, ThreadInv
  <2> QED
    BY <2>1, <2>2
<1>10. (CpuTypeOK /\ AcceptedInv /\ ThreadInv)'
  BY <1>1, <1>2, <1>3, <1>4, <1>5, <1>6, <1>7, <1>8, <1>9, Zenon DEF CpuNext, Tool
<1>11. CoresAreBusy'
  BY <1>10, BusyFollows, PTL
<1> QED
  BY <1>10, <1>11 DEF CpuInv

\* The cores asked for are busy until the time is over, and nothing is left behind.
THEOREM CpuInvariance == CpuSpec => []CpuInv
<1> QED
  BY CpuInitInvariant, CpuStepInvariant, PTL DEF CpuSpec

\* The tool accepts what the extension accepts, on the processors and for the time that
\* the parameters say.
THEOREM AcceptedRuns == CpuSpec => []AcceptedStressRuns
<1>1. CpuInv => AcceptedStressRuns
  <2> SUFFICES ASSUME CpuInv, Fitting PROVE
        /\ main \notin {"refused", "thrown"}
        /\ main \in {"launching", "asleep", "joining", "ended"} => affinity = 0 .. cores - 1
        /\ main \in {"asleep", "joining", "ended"} => stress.ms - sleeps \in 0 .. Second - 1
    BY DEF AcceptedStressRuns
  <2>1. /\ stress.ms \in Nat /\ stress.ms <= MaxInt /\ Second \in Nat \ {0} /\ MaxInt \in Nat
        /\ cores \in Nat /\ cores < IntBits /\ cores <= Processors
    BY CpuAssumption DEF CpuInv, CpuTypeOK, Fitting
  <2>2. Mask = 0 .. cores - 1
    BY <2>1, MaskExact
  <2>3. Mask \subseteq Cpus
    BY <2>1, <2>2, CpuAssumption DEF Cpus
  <2>4. Seconds * Second \in 0 .. MaxInt /\ stress.ms - Seconds * Second \in 0 .. Second - 1
    <3>1. /\ Seconds * Second \in 0 .. stress.ms
          /\ stress.ms - Seconds * Second \in 0 .. Second - 1
      BY <2>1, WholeSeconds, Zenon DEF Seconds
    <3> DEFINE n == Seconds * Second
    <3> HIDE DEF n
    <3>2. n \in 0 .. stress.ms => n \in 0 .. MaxInt
      BY <2>1
    <3> QED
      BY <3>1, <3>2 DEF n
  <2>5. Wrapped(Seconds * Second) = Seconds * Second
    BY <2>4, NoOverflow
  <2>6. main # "refused"
    BY <2>1, <2>3, AcceptedIsValid DEF CpuInv, AcceptedInv
  <2>7. main # "thrown"
    BY <2>1, <2>4, <2>5 DEF CpuInv, AcceptedInv
  <2> QED
    BY <2>2, <2>4, <2>5, <2>6, <2>7 DEF CpuInv, AcceptedInv, Running
<1> QED
  BY <1>1, CpuInvariance, PTL
=============================================================================
