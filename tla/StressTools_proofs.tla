-------------------------- MODULE StressTools_proofs --------------------------
(* A disk-fill that has been stopped occupies no space, for any mix of executions,  *)
(* as far as Stop has not masked a failure of Stop-Process.                         *)
EXTENDS StressTools, TLAPS

\* Initially nothing is launched and nothing is to be stopped.
LEMMA InitInvariant == Init => IInv
  BY ToolsAssumption DEF Init, IInv, TypeOK, LaunchInv, StopInv, StoppedFillIsGone, Handler, Met

\* The lists of names that StopProcess goes through.
LEMMA Lists ==
  /\ Len(<<"coreutils", "devzero">>) = 2 /\ Head(<<"coreutils", "devzero">>) = "coreutils"
  /\ Tail(<<"coreutils", "devzero">>) = <<"devzero">>
  /\ Range(<<"coreutils", "devzero">>) = {"coreutils", "devzero"}
  /\ \A n : Len(<<n>>) = 1 /\ Head(<<n>>) = n /\ Tail(<<n>>) = <<>> /\ Range(<<n>>) = {n}
  /\ Range(<<>>) = {}
<1>1. /\ Len(<<"coreutils", "devzero">>) = 2 /\ Head(<<"coreutils", "devzero">>) = "coreutils"
      /\ Tail(<<"coreutils", "devzero">>) = <<"devzero">>
  OBVIOUS
<1>2. Range(<<"coreutils", "devzero">>) = {"coreutils", "devzero"}
  BY DEF Range
<1>3. ASSUME NEW n PROVE Len(<<n>>) = 1 /\ Head(<<n>>) = n /\ Tail(<<n>>) = <<>> /\ Range(<<n>>) = {n}
  BY DEF Range
<1>4. Range(<<>>) = {}
  BY DEF Range
<1> QED
  BY <1>1, <1>2, <1>3, <1>4

\* A list of names that is left to go through is one of three.
LEMMA NamesLeft ==
  ASSUME IInv, NEW h \in Handler, stop[h] \in {"list", "kill"}
  PROVE  \/ FillsDisk(h[1]) /\ names[h] = <<"coreutils", "devzero">>
         \/ FillsDisk(h[1]) /\ names[h] = <<"devzero">>
         \/ ~FillsDisk(h[1]) /\ names[h] = <<Tool[h[1]]>>
  BY Zenon DEF IInv, StopInv, StopNames

\* When StopProcess is through with a name, no process of that name is left or a failure
\* is masked: the invariant holds for the next name and for the answer.
LEMMA NameDone ==
  ASSUME IInv, NEW h \in Handler, stop[h] \in {"list", "kill"}, NextName(h),
         procs' \subseteq procs, masked \subseteq masked', masked' \subseteq Exec,
         h[2] = 0 => h[1] \in masked' \/ \A q \in procs' : q[2] # Head(names[h]),
         faults' \in Nat, UNCHANGED <<agent, pc, file>>
  PROVE  IInv'
<1> DEFINE e == h[1]
<1>0. h = <<e, h[2]>> /\ e \in Exec /\ h[2] \in 0 .. MaxLate
  BY DEF Handler
<1>1. names'[h] = Tail(names[h]) /\ stop'[h] = IF Len(names[h]) = 1 THEN "answer" ELSE "list"
  BY DEF NextName, IInv, TypeOK
<1>2. \A g \in Handler \ {h} : names'[g] = names[g] /\ stop'[g] = stop[g]
  BY DEF NextName, IInv, TypeOK
<1>3. /\ DOMAIN names' = Handler /\ DOMAIN stop' = Handler
      /\ names' = [g \in Handler |-> names'[g]] /\ stop' = [g \in Handler |-> stop'[g]]
      /\ UNCHANGED ran
  BY DEF NextName, IInv, TypeOK
<1>4. \/ FillsDisk(e) /\ names[h] = <<"coreutils", "devzero">> /\ names'[h] = <<"devzero">>
         /\ stop'[h] = "list" /\ Head(names[h]) = "coreutils"
      \/ FillsDisk(e) /\ names[h] = <<"devzero">> /\ names'[h] = <<>> /\ stop'[h] = "answer"
         /\ Head(names[h]) = "devzero"
      \/ ~FillsDisk(e) /\ names[h] = <<Tool[e]>> /\ names'[h] = <<>> /\ stop'[h] = "answer"
         /\ Head(names[h]) = Tool[e]
  <2>1. CASE FillsDisk(e) /\ names[h] = <<"coreutils", "devzero">>
    <3>1. Len(names[h]) = 2 /\ Head(names[h]) = "coreutils" /\ Tail(names[h]) = <<"devzero">>
      BY <2>1, Lists, Zenon
    <3> QED
      BY <1>1, <2>1, <3>1
  <2>2. ASSUME NEW n, names[h] = <<n>>
        PROVE  names'[h] = <<>> /\ stop'[h] = "answer" /\ Head(names[h]) = n
    <3>1. Len(names[h]) = 1 /\ Head(names[h]) = n /\ Tail(names[h]) = <<>>
      BY <2>2, Lists, Zenon
    <3> QED
      BY <1>1, <3>1
  <2> QED
    BY <2>1, <2>2, NamesLeft, Zenon
<1>5. Range(names[h]) \subseteq Range(names'[h]) \cup {Head(names[h])}
  BY <1>4, Lists
<1>6. TypeOK'
  <2>1. names'[h] \in {<<>>} \cup {<<n>> : n \in Names}
    BY <1>4 DEF Names
  <2>2. \A g \in Handler : names'[g] \in {<<>>} \cup {<<n>> : n \in Names} \cup {<<"coreutils", "devzero">>}
    BY <1>2, <2>1 DEF IInv, TypeOK
  <2>3. names' \in [Handler -> {<<>>} \cup {<<n>> : n \in Names} \cup {<<"coreutils", "devzero">>}]
    BY <1>3, <2>2
  <2>4. \A g \in Handler : stop'[g] \in {"idle", "remove", "list", "kill", "answer"}
    BY <1>2, <1>4 DEF IInv, TypeOK
  <2>5. stop' \in [Handler -> {"idle", "remove", "list", "kill", "answer"}]
    BY <1>3, <2>4
  <2> QED
    BY <1>3, <2>3, <2>5 DEF IInv, TypeOK
<1>7. LaunchInv'
  BY <1>3 DEF IInv, TypeOK, LaunchInv, OverTime, Met
<1>8. StopInv'
  <2>1. ASSUME NEW g \in Handler PROVE StopInv!1!(g)'
    BY <1>2, <1>4 DEF IInv, StopInv, FillsDisk, StopNames
  <2>2. ASSUME NEW x \in Exec PROVE StopInv!2!(x)'
    <3>1. CASE <<x, 0>> = h
      <4>1. x = e /\ h[2] = 0 /\ stop[<<x, 0>>] \in {"list", "kill"}
        BY <3>1
      <4>2. e \notin masked' =>
              /\ \A q \in ran[e] \cap procs : q[2] \in Range(names[h])
              /\ FillsDisk(e) => "coreutils" \in Range(names[h]) \/ <<e, "coreutils">> \notin procs
        BY <3>1, <4>1 DEF IInv, StopInv
      <4>3. e \notin masked' => \A q \in ran'[e] \cap procs' : q[2] \in Range(names'[h])
        BY <1>3, <1>5, <4>1, <4>2
      <4>4. e \notin masked' /\ FillsDisk(e) =>
              "coreutils" \in Range(names'[h]) \/ <<e, "coreutils">> \notin procs'
        BY <1>5, <4>1, <4>2
      <4>5. agent'[e] = "stopping"
        BY <3>1, <4>1 DEF IInv, StopInv
      <4> QED
        BY <3>1, <4>1, <4>3, <4>4, <4>5 DEF FillsDisk
    <3>2. CASE <<x, 0>> # h
      <4>1. <<x, 0>> \in Handler \ {h}
        BY <3>2, ToolsAssumption DEF Handler
      <4> QED
        BY <1>2, <1>3, <4>1 DEF IInv, StopInv, FillsDisk
    <3> QED
      BY <3>1, <3>2
  <2> QED
    BY <2>1, <2>2 DEF StopInv
<1>9. StoppedFillIsGone'
  BY DEF IInv, StoppedFillIsGone, FillsDisk
<1> QED
  BY <1>6, <1>7, <1>8, <1>9 DEF IInv

\* A handler that returns leaves an idle one; with an answer, nothing it was to end is left.
LEMMA HandlerReturns ==
  ASSUME IInv, NEW h \in Handler, stop[h] # "idle", Returns(h),
         agent' = agent \/ (stop[h] = "answer" /\ agent' = [agent EXCEPT ![h[1]] = "stopped"]),
         h[2] # 0 => agent' = agent,
         faults' \in Nat, UNCHANGED <<pc, file, procs, masked>>
  PROVE  IInv'
<1> DEFINE e == h[1]
<1>0. h = <<e, h[2]>> /\ e \in Exec /\ h[2] \in 0 .. MaxLate
  BY DEF Handler
<1>1. names'[h] = <<>> /\ stop'[h] = "idle"
  BY DEF Returns, IInv, TypeOK
<1>2. \A g \in Handler \ {h} : names'[g] = names[g] /\ stop'[g] = stop[g]
  BY DEF Returns, IInv, TypeOK
<1>3. \A x \in Exec : ran'[x] \subseteq ran[x] /\ (x # e => ran'[x] = ran[x])
  BY DEF Returns, IInv, TypeOK
<1>4. TypeOK'
  <2>1. agent' \in [Exec -> {"prepared", "running", "failed", "completed", "stopping", "stopped"}]
    BY <1>0 DEF IInv, TypeOK
  <2> QED
    BY <1>0, <2>1 DEF Returns, IInv, TypeOK
<1>5. LaunchInv'
  <2>1. \A x \in Exec : agent'[x] = "prepared" => agent[x] = "prepared"
    BY <1>0 DEF IInv, TypeOK
  <2> QED
    BY <1>3, <2>1 DEF IInv, LaunchInv, OverTime, Met
<1>6. StopInv'
  <2>1. ASSUME NEW g \in Handler PROVE StopInv!1!(g)'
    BY <1>1, <1>2 DEF IInv, StopInv, FillsDisk, StopNames
  <2>2. ASSUME NEW x \in Exec PROVE StopInv!2!(x)'
    <3>1. CASE <<x, 0>> = h
      BY <1>1, <3>1
    <3>2. CASE <<x, 0>> # h
      <4>1. <<x, 0>> \in Handler \ {h}
        BY <3>2, ToolsAssumption DEF Handler
      <4>2. agent'[x] = agent[x]
        BY <1>0, <3>2 DEF IInv, TypeOK
      <4> QED
        BY <1>2, <1>3, <4>1, <4>2 DEF IInv, StopInv, FillsDisk
    <3> QED
      BY <3>1, <3>2
  <2> QED
    BY <2>1, <2>2 DEF StopInv
<1>7. StoppedFillIsGone'
  <2> SUFFICES ASSUME NEW x \in Exec, FillsDisk(x), agent'[x] = "stopped"
               PROVE  file[x] = "removed" /\ (x \notin masked => <<x, Tool[x]>> \notin procs)
    BY DEF StoppedFillIsGone, FillsDisk
  <2>1. CASE agent[x] = "stopped"
    BY <2>1 DEF IInv, StoppedFillIsGone
  <2>2. CASE agent[x] # "stopped"
    <3>1. h = <<x, 0>> /\ stop[h] = "answer"
      BY <1>0, <2>2 DEF IInv, TypeOK
    <3>2. names[h] = <<>> /\ file[x] = "removed"
      BY <3>1 DEF IInv, StopInv
    <3>3. x \notin masked => <<x, "coreutils">> \notin procs
      BY <3>1, <3>2, Lists DEF IInv, StopInv
    <3>4. <<x, "fsutil">> \notin procs
      BY <3>2 DEF IInv, LaunchInv
    <3> QED
      BY <3>2, <3>3, <3>4 DEF FillsDisk
  <2> QED
    BY <2>1, <2>2
<1> QED
  BY <1>4, <1>5, <1>6, <1>7 DEF IInv

\* A goroutine that launches a process adds one that no Stop has met yet.
LEMMA Launches ==
  ASSUME IInv, NEW e \in Exec, NEW p \in Names, UNCHANGED <<handlerVars, file>>,
         procs' = procs \cup {<<e, p>>} \/ procs' = procs, faults' \in Nat,
         NEW place \in {"launchdd", "nodevzero", "wait", "starved", "ended", "panic", "done"},
         Goto(e, place), place \in {"launchdd", "nodevzero"} => OverTime(e) /\ p = "devzero",
         \/ pc[e] = "launch" /\ p = IF OverTime(e) THEN "devzero" ELSE Tool[e]
         \/ pc[e] \in {"launchdd", "nodevzero"} /\ p = "coreutils" /\ OverTime(e)
  PROVE  IInv'
<1>1. /\ UNCHANGED <<agent, stop, names, ran, masked, file>>
      /\ pc' = [pc EXCEPT ![e] = place]
      /\ file[e] = "absent" /\ \A x \in Exec : <<e, p>> \notin ran[x]
  BY DEF handlerVars, Goto, IInv, LaunchInv, TypeOK, Met
<1>2. TypeOK'
  BY <1>1 DEF IInv, TypeOK
<1>3. LaunchInv'
  <2>1. ASSUME NEW x \in Exec PROVE LaunchInv!(x)!1' /\ LaunchInv!(x)!2' /\ LaunchInv!(x)!3' /\ LaunchInv!(x)!4'
    BY <1>1 DEF IInv, TypeOK, LaunchInv, OverTime
  <2>2. ASSUME NEW x \in Exec PROVE LaunchInv!(x)!5'
    <3> SUFFICES ASSUME NEW n \in Names, Met(x, n)'
                 PROVE  /\ pc'[x] \notin {"none", "launch"}
                        /\ pc'[x] \in {"launchdd", "nodevzero"} => n = "devzero"
      BY Zenon
    <3>1. Met(x, n) \/ (x = e /\ n = p)
      BY <1>1 DEF Met
    <3>2. Met(x, n) => /\ pc[x] \notin {"none", "launch"}
                       /\ pc[x] \in {"launchdd", "nodevzero"} => n = "devzero"
      BY DEF IInv, LaunchInv
    <3>3. pc'[x] = IF x = e THEN place ELSE pc[x]
      BY <1>1 DEF IInv, TypeOK
    <3> QED
      BY <3>1, <3>2, <3>3
  <2> QED
    BY <2>1, <2>2 DEF LaunchInv
<1>4. StopInv'
  <2>1. ASSUME NEW h \in Handler PROVE StopInv!1!(h)'
    BY <1>1 DEF IInv, StopInv, FillsDisk, StopNames
  <2>2. ASSUME NEW x \in Exec PROVE StopInv!2!(x)'
    <3>1. stop[<<x, 0>>] \notin {"idle", "remove"} /\ FillsDisk(x) => file[x] = "removed"
      BY ToolsAssumption DEF IInv, TypeOK, StopInv, Handler
    <3>2. \A q \in ran[x] \cap procs' : q \in ran[x] \cap procs
      BY <1>1
    <3>3. x # e => (<<x, "coreutils">> \in procs' => <<x, "coreutils">> \in procs)
      BY <1>1
    <3> QED
      BY <1>1, <3>1, <3>2, <3>3 DEF IInv, StopInv, FillsDisk
  <2> QED
    BY <2>1, <2>2 DEF StopInv
<1>5. StoppedFillIsGone'
  BY <1>1 DEF IInv, TypeOK, StoppedFillIsGone, FillsDisk, OverTime
<1> QED
  BY <1>2, <1>3, <1>4, <1>5 DEF IInv

\* A process that ends, or is not touched, and a goroutine that goes on without launching.
LEMMA Ending ==
  ASSUME IInv, procs' \subseteq procs, UNCHANGED <<handlerVars, file, faults>>,
         UNCHANGED pc \/ \E e \in Exec : /\ pc[e] \in {"wait", "ended", "reap"}
                                        /\ \E place \in {"ended", "reap", "starved", "done"} : Goto(e, place)
  PROVE  IInv'
<1>1. UNCHANGED <<agent, stop, names, ran, masked, file, faults>>
  BY DEF handlerVars
<1>2. TypeOK'
  BY <1>1 DEF IInv, TypeOK, Goto
<1>3. \A x \in Exec : pc'[x] = pc[x] \/ (pc[x] \notin {"none", "launch", "launchdd", "nodevzero"}
                                        /\ pc'[x] \notin {"none", "launch", "launchdd", "nodevzero"})
  BY DEF IInv, TypeOK, Goto
<1>4. LaunchInv'
  BY <1>1, <1>3 DEF IInv, TypeOK, LaunchInv, OverTime, Met
<1>5. StopInv'
  BY <1>1, ToolsAssumption DEF IInv, TypeOK, StopInv, FillsDisk, StopNames
<1>6. StoppedFillIsGone'
  BY <1>1 DEF IInv, StoppedFillIsGone, FillsDisk
<1> QED
  BY <1>2, <1>4, <1>5, <1>6 DEF IInv

\* The end of the extension takes handlers and goroutines with it, the processes stay.
LEMMA ExtensionEnds == ASSUME IInv, EndOfExtension, faults' \in Nat PROVE IInv'
  BY ToolsAssumption DEF EndOfExtension, IInv, TypeOK, LaunchInv, StopInv, StoppedFillIsGone,
                         Handler, FillsDisk, OverTime, Met

\* A call of Stop starts with all the names and everything of these that runs.
LEMMA StopCalled == ASSUME IInv, NEW e \in Exec, StopCall(e) PROVE IInv'
<1> DEFINE h == <<e, 0>>
<1>0. h \in Handler
  BY ToolsAssumption DEF Handler
<1>1. names' = [names EXCEPT ![h] = StopNames(e)] /\ UNCHANGED <<pc, procs, file, faults>>
  BY DEF StopCall
<1>2. /\ agent'[e] = "stopping" /\ masked' = masked \ {e} /\ names'[h] = StopNames(e)
      /\ stop'[h] = IF FillsDisk(e) THEN "remove" ELSE "list"
      /\ ran'[e] \subseteq procs /\ \A q \in ran'[e] : q[2] \in Range(names'[h])
  BY <1>0 DEF StopCall, IInv, TypeOK
<1>3. /\ \A g \in Handler \ {h} : names'[g] = names[g] /\ stop'[g] = stop[g]
      /\ \A x \in Exec \ {e} : ran'[x] = ran[x] /\ agent'[x] = agent[x]
  BY DEF StopCall, IInv, TypeOK
<1>4. TypeOK'
  <2>1. StopNames(e) \in {<<>>} \cup {<<n>> : n \in Names} \cup {<<"coreutils", "devzero">>}
    BY DEF StopNames, Names
  <2>2. names' \in [Handler -> {<<>>} \cup {<<n>> : n \in Names} \cup {<<"coreutils", "devzero">>}]
    BY <1>0, <1>1, <2>1 DEF IInv, TypeOK
  <2> QED
    BY <1>0, <2>2 DEF StopCall, IInv, TypeOK
<1>5. LaunchInv'
  <2>1. \A x \in Exec, n \in Names : Met(x, n)' => Met(x, n)
    BY <1>1, <1>2, <1>3 DEF Met
  <2> QED
    BY <1>1, <1>2, <1>3, <2>1 DEF IInv, LaunchInv, OverTime
<1>6. StopInv'
  <2>1. ASSUME NEW g \in Handler PROVE StopInv!1!(g)'
    BY <1>1, <1>2, <1>3 DEF IInv, StopInv, FillsDisk, StopNames
  <2>2. ASSUME NEW x \in Exec PROVE StopInv!2!(x)'
    <3>1. CASE x = e
      BY <1>2, <3>1 DEF FillsDisk
    <3>2. CASE x # e
      <4>1. <<x, 0>> \in Handler \ {h}
        BY <3>2, ToolsAssumption DEF Handler
      <4> QED
        BY <1>1, <1>2, <1>3, <3>2, <4>1 DEF IInv, StopInv, FillsDisk
    <3> QED
      BY <3>1, <3>2
  <2> QED
    BY <2>1, <2>2 DEF StopInv
<1>7. StoppedFillIsGone'
  BY <1>1, <1>2, <1>3 DEF IInv, StoppedFillIsGone, FillsDisk
<1> QED
  BY <1>4, <1>5, <1>6, <1>7 DEF IInv

\* A Stop that is given up goes on, nobody awaits its answer.
LEMMA GivenUp == ASSUME IInv, NEW e \in Exec, GiveUp(e) PROVE IInv'
<1>1. PICK i \in 1 .. MaxLate :
        /\ stop' = [stop EXCEPT ![<<e, i>>] = stop[<<e, 0>>], ![<<e, 0>>] = "idle"]
        /\ names' = [names EXCEPT ![<<e, i>>] = names[<<e, 0>>], ![<<e, 0>>] = <<>>]
  BY DEF GiveUp
<1>2. UNCHANGED <<agent, pc, procs, file, masked>> /\ faults' \in Nat /\ ran' = [ran EXCEPT ![e] = {}]
  BY DEF GiveUp, Inject, IInv, TypeOK
<1>3. <<e, 0>> \in Handler /\ <<e, i>> \in Handler /\ i # 0
  BY ToolsAssumption DEF Handler
<1>4. \A g \in Handler : \/ g = <<e, 0>> /\ stop'[g] = "idle" /\ names'[g] = <<>>
                         \/ g = <<e, i>> /\ stop'[g] = stop[<<e, 0>>] /\ names'[g] = names[<<e, 0>>]
                         \/ g \notin {<<e, 0>>, <<e, i>>} /\ stop'[g] = stop[g] /\ names'[g] = names[g]
  BY <1>1, <1>3 DEF IInv, TypeOK
<1>5. TypeOK'
  BY <1>1, <1>2, <1>3 DEF IInv, TypeOK
<1>6. LaunchInv'
  BY <1>2 DEF IInv, TypeOK, LaunchInv, OverTime, Met
<1>7. StopInv'
  <2>1. ASSUME NEW g \in Handler PROVE StopInv!1!(g)'
    <3>1. \E f \in Handler : f[1] = g[1] /\ \/ stop'[g] = stop[f] /\ names'[g] = names[f]
                                            \/ stop'[g] = "idle" /\ names'[g] = <<>>
      BY <1>3, <1>4
    <3> QED
      BY <1>2, <3>1 DEF IInv, StopInv, FillsDisk, StopNames
  <2>2. ASSUME NEW x \in Exec PROVE StopInv!2!(x)'
    <3>1. CASE x = e
      BY <1>3, <1>4, <3>1
    <3>2. CASE x # e
      <4>1. <<x, 0>> \in Handler /\ <<x, 0>> # <<e, 0>> /\ <<x, 0>> # <<e, i>>
        BY <3>2, ToolsAssumption DEF Handler
      <4>2. stop'[<<x, 0>>] = stop[<<x, 0>>] /\ names'[<<x, 0>>] = names[<<x, 0>>] /\ ran'[x] = ran[x]
        BY <1>2, <1>4, <3>2, <4>1 DEF IInv, TypeOK
      <4> QED
        BY <1>2, <4>1, <4>2 DEF IInv, StopInv, FillsDisk
    <3> QED
      BY <3>1, <3>2
  <2> QED
    BY <2>1, <2>2 DEF StopInv
<1>8. StoppedFillIsGone'
  BY <1>2 DEF IInv, StoppedFillIsGone, FillsDisk
<1> QED
  BY <1>5, <1>6, <1>7, <1>8 DEF IInv

\* A handler that goes on to another step with its names as they are.
LEMMA SameNames ==
  ASSUME IInv, NEW h \in Handler, UNCHANGED <<agent, pc, procs, names, ran, masked, faults>>,
         \/ stop[h] = "list" /\ stop' = [stop EXCEPT ![h] = "kill"] /\ UNCHANGED file
         \/ stop[h] = "remove" /\ stop' = [stop EXCEPT ![h] = "list"] /\ Removable(h[1]) /\ file' = Removed(h[1])
  PROVE  IInv'
<1> DEFINE e == h[1]
<1>0. h = <<e, h[2]>> /\ e \in Exec /\ h[2] \in 0 .. MaxLate
  BY DEF Handler
<1>1. /\ \A x \in Exec : file'[x] = file[x] \/ file'[x] = "removed"
      /\ \A x \in Exec : file'[x] # file[x] => <<x, "fsutil">> \notin procs /\ file[x] = "present"
      /\ stop[h] = "remove" => file'[e] = "removed"
  BY <1>0 DEF IInv, TypeOK, Removable, Removed
<1>2. /\ \A g \in Handler \ {h} : stop'[g] = stop[g]
      /\ stop'[h] \in {"list", "kill"} /\ stop[h] \in {"list", "remove"}
  BY DEF IInv, TypeOK
<1>3. TypeOK'
  BY <1>0 DEF IInv, TypeOK, Removed
<1>4. LaunchInv'
  <2>1. \A x \in Exec, n \in Names : Met(x, n)' => Met(x, n)
    BY DEF Met
  <2> QED
    BY <1>1, <2>1 DEF IInv, LaunchInv, OverTime
<1>5. StopInv'
  <2>1. ASSUME NEW g \in Handler PROVE StopInv!1!(g)'
    <3>1. g[1] \in Exec
      BY DEF Handler
    <3>2. StopInv!1!(g)
      BY DEF IInv, StopInv
    <3>3. CASE g # h
      BY <1>1, <1>2, <3>1, <3>2, <3>3 DEF FillsDisk, StopNames
    <3>4. CASE g = h
      BY <1>1, <1>2, <3>1, <3>2, <3>4 DEF FillsDisk, StopNames
    <3> QED
      BY <3>3, <3>4
  <2>2. ASSUME NEW x \in Exec PROVE StopInv!2!(x)'
    <3>1. <<x, 0>> \in Handler
      BY ToolsAssumption DEF Handler
    <3>2. stop[<<x, 0>>] = "remove" => "coreutils" \in Range(names[<<x, 0>>])
      BY <3>1, Lists DEF IInv, StopInv
    <3>3. StopInv!2!(x)
      BY DEF IInv, StopInv
    <3> QED
      BY <1>2, <3>1, <3>2, <3>3 DEF FillsDisk
  <2> QED
    BY <2>1, <2>2 DEF StopInv
<1>6. StoppedFillIsGone'
  BY <1>1 DEF IInv, StoppedFillIsGone, FillsDisk
<1> QED
  BY <1>3, <1>4, <1>5, <1>6 DEF IInv

\* Every step of a handler keeps the invariant.
LEMMA HandlerSteps == ASSUME IInv, NEW h \in Handler, HandlerStep(h) PROVE IInv'
<1>0. faults \in Nat /\ masked \subseteq Exec /\ h[1] \in Exec
  BY DEF IInv, TypeOK, Handler
<1>1. CASE RemoveFile(h)
  <2>1. CASE Removable(h[1])
    BY <1>1, <2>1, SameNames DEF RemoveFile
  <2>2. CASE ~Removable(h[1])
    BY <1>0, <1>1, <2>2, HandlerReturns DEF RemoveFile
  <2> QED
    BY <2>1, <2>2
<1>2. CASE ListProcess(h)
  <2>1. CASE stop' = [stop EXCEPT ![h] = "kill"] /\ UNCHANGED <<names, ran, faults>>
    BY <1>2, <2>1, SameNames DEF ListProcess
  <2>2. CASE ~Found(Head(names[h])) /\ NextName(h) /\ UNCHANGED faults
    BY <1>0, <1>2, <2>2, NameDone DEF ListProcess, Found, Running
  <2>3. CASE Inject("list") /\ Returns(h)
    <3>1. faults' \in Nat
      BY <1>0, <2>3 DEF Inject
    <3> QED
      BY <1>2, <2>3, <3>1, HandlerReturns DEF ListProcess
  <2> QED
    BY <1>2, <2>1, <2>2, <2>3, Zenon DEF ListProcess
<1>3. CASE KillProcess(h)
  <2> DEFINE name == Head(names[h])
  <2>0. stop[h] = "kill" /\ UNCHANGED <<agent, pc, file>>
    BY <1>3 DEF KillProcess
  <2>1. CASE Returns(h) /\ UNCHANGED <<procs, masked, faults>>
    BY <1>0, <2>0, <2>1, HandlerReturns
  <2>2. CASE procs' = procs \ Running(name) /\ NextName(h) /\ UNCHANGED <<masked, faults>>
    BY <1>0, <2>0, <2>2, NameDone DEF Running
  <2>3. CASE /\ Inject("kill") /\ NextName(h) /\ UNCHANGED procs
             /\ masked' = IF h[2] = 0 THEN masked \cup {h[1]} ELSE masked
    <3>1. faults' \in Nat /\ masked \subseteq masked' /\ masked' \subseteq Exec
          /\ (h[2] = 0 => h[1] \in masked')
      BY <1>0, <2>3 DEF Inject
    <3> QED
      BY <2>0, <2>3, <3>1, NameDone
  <2> QED
    BY <1>3, <2>1, <2>2, <2>3, Zenon DEF KillProcess
<1>4. CASE Answer(h)
  BY <1>0, <1>4, HandlerReturns DEF Answer
<1> QED
  BY <1>1, <1>2, <1>3, <1>4 DEF HandlerStep

\* Every step keeps the invariant.
LEMMA StepInvariant == IInv /\ [Next]_vars => IInv'
<1> SUFFICES ASSUME IInv, [Next]_vars PROVE IInv'
  OBVIOUS
<1>0. faults \in Nat /\ \A kind : Inject(kind) => faults' \in Nat
  BY DEF IInv, TypeOK, Inject
<1>1. ASSUME NEW e \in Exec, StartCall(e) PROVE IInv'
  BY <1>0, <1>1 DEF StartCall, Goto, IInv, TypeOK, LaunchInv, StopInv, StoppedFillIsGone, OverTime,
                    FillsDisk, StopNames, Met
<1>2. ASSUME NEW e \in Exec, Launch(e) PROVE IInv'
  <2> DEFINE p == IF OverTime(e) THEN "devzero" ELSE Tool[e]
  <2>1. p \in Names
    BY DEF Names
  <2>2. PICK place \in {"launchdd", "nodevzero", "wait", "done"} :
          Goto(e, place) /\ (place \in {"launchdd", "nodevzero"} => OverTime(e))
    BY <1>2 DEF Launch
  <2>3. faults' \in Nat /\ UNCHANGED <<handlerVars, file>> /\ pc[e] = "launch"
        /\ (procs' = procs \cup {<<e, p>>} \/ procs' = procs)
    BY <1>0, <1>2 DEF Launch
  <2> QED
    BY <2>1, <2>2, <2>3, Launches
<1>3. ASSUME NEW e \in Exec, LaunchDD(e) PROVE IInv'
  <2>1. "coreutils" \in Names /\ OverTime(e)
    BY <1>3 DEF Names, LaunchDD, IInv, LaunchInv
  <2>2. PICK place \in {"wait", "starved", "ended", "panic"} : Goto(e, place)
    BY <1>3 DEF LaunchDD
  <2>3. faults' \in Nat /\ UNCHANGED <<handlerVars, file>> /\ pc[e] \in {"launchdd", "nodevzero"}
        /\ (procs' = procs \cup {<<e, "coreutils">>} \/ procs' = procs)
    BY <1>0, <1>3 DEF LaunchDD
  <2> QED
    BY <2>1, <2>2, <2>3, Launches
<1>4. ASSUME NEW e \in Exec, CreateFile(e) PROVE IInv'
  BY <1>4 DEF CreateFile, handlerVars, IInv, TypeOK, LaunchInv, StopInv, StoppedFillIsGone, OverTime,
              FillsDisk, StopNames, Met, Handler, Names
<1>5. ASSUME NEW e \in Exec, ToolEnds(e) \/ DevzeroEnds(e) PROVE IInv'
  BY <1>5, Ending DEF ToolEnds, DevzeroEnds
<1>6. ASSUME NEW e \in Exec, Starve(e) \/ WaitReturns(e) \/ KillDevzero(e) \/ Reap(e) PROVE IInv'
  BY <1>6, Ending DEF Starve, WaitReturns, KillDevzero, Killed, Reap
<1>7. ASSUME NEW e \in Exec, StatusCall(e) PROVE IInv'
  BY <1>0, <1>7 DEF StatusCall, IInv, TypeOK, LaunchInv, StopInv, StoppedFillIsGone, OverTime,
                    FillsDisk, StopNames, Met
<1>8. ASSUME NEW e \in Exec, Panic(e) PROVE IInv'
  BY <1>0, <1>8, ExtensionEnds DEF Panic
<1>9. CASE Crash
  BY <1>0, <1>9, ExtensionEnds DEF Crash
<1>10. CASE UNCHANGED vars
  BY <1>10 DEF vars, IInv, TypeOK, LaunchInv, StopInv, StoppedFillIsGone, OverTime, FillsDisk,
               StopNames, Met
<1>11. ASSUME NEW e \in Exec, Goroutine(e) \/ Process(e) PROVE IInv'
  BY <1>2, <1>3, <1>4, <1>5, <1>6, <1>8, <1>11, Zenon DEF Goroutine, Process
<1> QED
  BY <1>1, <1>6, <1>7, <1>9, <1>10, <1>11, StopCalled, GivenUp, HandlerSteps, Zenon DEF Next

\* The inductive invariant of the launched tools and their Stops.
THEOREM ToolsInvariance == Spec => []IInv
<1>1. Init => IInv
  BY InitInvariant
<1>2. IInv /\ [Next]_vars => IInv'
  BY StepInvariant
<1> QED
  BY <1>1, <1>2, PTL DEF Spec

\* A disk-fill whose Stop has succeeded has no file, and no writer unless a failure
\* was masked.
THEOREM FillGone == Spec => []StoppedFillIsGone
<1>1. IInv => StoppedFillIsGone
  BY DEF IInv
<1> QED
  BY <1>1, ToolsInvariance, PTL

\* Only the answer of the awaited handler lets the agent believe that an attack is stopped.
LEMMA OnlyAnswersStop ==
  ASSUME IInv, Next, NEW e \in Exec, agent[e] # "stopped", agent'[e] = "stopped"
  PROVE  stop[<<e, 0>>] = "answer" /\ UNCHANGED procs
<1> USE DEF IInv, TypeOK, handlerVars
<1>1. ASSUME NEW f \in Exec, StartCall(f) \/ StatusCall(f) \/ StopCall(f)
      PROVE  agent'[e] # "stopped"
  BY <1>1 DEF StartCall, StatusCall, StopCall
<1>2. ASSUME NEW f \in Exec, GiveUp(f) \/ Goroutine(f) \/ Reap(f) \/ Process(f)
      PROVE  UNCHANGED agent
  BY <1>2 DEF GiveUp, Goroutine, Launch, LaunchDD, WaitReturns, KillDevzero, Panic, EndOfExtension,
              Reap, Process, CreateFile, ToolEnds, Starve, DevzeroEnds
<1>3. ASSUME NEW h \in Handler, RemoveFile(h) \/ ListProcess(h) \/ KillProcess(h)
      PROVE  UNCHANGED agent
  BY <1>3 DEF RemoveFile, ListProcess, KillProcess
<1>4. ASSUME NEW h \in Handler, Answer(h) PROVE h = <<e, 0>> /\ UNCHANGED procs
  BY <1>4 DEF Answer, Handler
<1>5. ASSUME Crash PROVE UNCHANGED agent
  BY <1>5 DEF Crash, EndOfExtension
<1> HIDE DEF IInv
<1>6. PICK h \in Handler : Answer(h)
  <2>1. agent' # agent
    OBVIOUS
  <2> QED
    BY <1>1, <1>2, <1>3, <1>5, <2>1, Zenon DEF Next, HandlerStep
<1> QED
  BY <1>4, <1>6 DEF Answer

\* An answer that has masked no failure comes when all names are done, so that nothing is
\* left of what ran when Stop was called.
LEMMA StopsAreTrue == ASSUME IInv, Next PROVE UnmaskedStopsAreTrue
<1> SUFFICES ASSUME NEW e \in Exec, e \notin masked, agent[e] # "stopped", agent'[e] = "stopped"
             PROVE  ran[e] \cap procs' = {}
  BY DEF UnmaskedStopsAreTrue, StopIsTrue
<1>1. stop[<<e, 0>>] = "answer" /\ procs' = procs
  BY OnlyAnswersStop
<1>2. names[<<e, 0>>] = <<>>
  BY <1>1, ToolsAssumption DEF IInv, StopInv, Handler
<1>3. \A q \in ran[e] \cap procs : q[2] \in Range(<<>>)
  BY <1>1, <1>2 DEF IInv, StopInv
<1> QED
  BY <1>1, <1>3, Lists

\* A Stop that has masked no failure has ended whatever it names and ran when it was called,
\* although other executions and its own launch and end processes of these names meanwhile.
THEOREM UnmaskedEnded == Spec => UnmaskedMeansEnded
<1>1. IInv /\ [Next]_vars => [UnmaskedStopsAreTrue]_vars
  BY StopsAreTrue
<1> QED
  BY <1>1, ToolsInvariance, PTL DEF Spec, UnmaskedMeansEnded
=============================================================================
