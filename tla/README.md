# Formal models of steadybit/extension-host-windows

This directory holds TLA+ models of the extension, the TLC configurations that check them on
small instances, and theorems about them whose proofs TLAPS checks. Everything is translated
from the source under `src/`; `PROJECT.json` maps each definition to the lines it stands for.

Contents: [1 the system](#1-the-system), [2 the modules](#2-the-modules),
[3 the runs](#3-the-runs), [4 fairness](#4-fairness), [5 the proofs](#5-the-proofs),
[6 assumptions](#6-assumptions-about-what-is-not-in-the-source),
[7 disagreements](#7-where-the-code-and-its-documentation-disagree),
[8 what is not modelled](#8-what-is-not-modelled), [9 plan](#9-plan), [10 usage](#10-usage).

## 1 The system

The extension is a Windows service. The steadybit agent calls it over HTTP: it asks for the
host (discovery) and runs *actions* on it. An action is `Prepare`, `Start`, sometimes `Status`,
and `Stop`; its state travels with the agent, which sends it with every call. The agent may
give up a call, repeat a `Stop`, and stop an action whose `Start` failed
(comment at `action_timetravel.go:164`). Several executions may run at once, each call in a
goroutine of its own.

| Component | State | Operations | Meets | What makes it hard, what makes it correct |
|---|---|---|---|---|
| Network attacks (`network/`, `action_network*.go`) | `runLock`, `activeFirewall`; QoS policies and `wdna.exe` processes of the host | `Apply`, `Revert` = `generateAndRunCommands` | the cleanup through lock and list; PowerShell, WinDivert service | Interleaved calls, a half-run PowerShell, WinDivert commands nobody waits for, crashes. One setting at a time; the slot follows the executions; nothing is left behind. |
| QoS cleanup (`common.go:92`, `qospolicies.go`) | none of its own | every minute `CleanupQosPolicies` | lock, list, policies | Works through a list that was read before. Never removes a policy of a running attack; removes every leftover. |
| Network filter (`Prepare` of `action_network*.go`, `windivert.go`, `utils/network.go`) | none | from parameters and restricted endpoints to a filter or QoS policies; condensing to 500 | WinDivert evaluates the text, Windows the policies | Condensing with stale candidates, two families, ranges, directions, policies that cannot exclude. Never touches the agent or other extensions; otherwise hits what was asked for. |
| Time travel (`action_timetravel.go`) | `OffsetApplied` (held by the agent); clock and `w32time` of the host | `Start`, `Stop` | executions meet in clock and service | Multi-step handlers without a lock, failing commands, repeated Stops. The clock is right at the end. |
| Stop process (`action_stop_process.go`, `process/`) | map `processStoppers`; per execution a context, an error, a goroutine | `Start`, `Status`, `Stop`, rounds of the goroutine | map, context and error link handlers and goroutine | `select` with two ready cases, a `Stop` in the middle of a round. Errors go to the right execution; the goroutine ends; processes die. |
| Stress CPU/IO, fill memory, fill disk (`action_stress_*.go`, `action_fill_*.go`, `utils/powershell.go`) | goroutine and tool processes; file of a disk fill | `Start`, `Status`, `Stop` = `StopProcess` by name | executions share process names | Launch after `Stop`, ends between listing and killing, a pipe between two processes. A stopped attack is over. |
| Fill disk amount (`action_fill_disk.go:85-253`) | amount and block size (held by the agent); the file | amount, block size, arguments of `dd` | free and total space, other users of the drive | Units, boundaries, an amount that is computed before it is written. Not more than asked for, not more than a block too little, up to what floats lose. |
| Stress CPU: its tool (`action_stress_cpu.go:44-138`, `steadybit-stress-cpu/`) | options, affinity mask, threads, `ExecutionDone` | `Prepare`, options of the tool, `Stress`, `CoreStress` | the tool parses again what `Prepare` has accepted; the threads meet in one flag | Two validations of the same parameters, ints that are too small, threads that are launched and joined one by one. What is accepted runs as asked for, on all cores, and ends. |
| Life cycle (`main.go`, `service.go`, `extension_registry.go`), shutdown action | status of the service, registry key, cleanup routine, HTTP server | start-up, stop of the service, `shutdown.exe` | hands over to the cleanup on an unbuffered channel; ends all other components | Stop during start-up, stop while the cleanup waits for the lock or works, end of the process or the host in the middle of an attack. A stop ends the process, cuts no cleanup short and leaves no key. |
| Discovery, labels, parsing, configuration, packaging | none worth a model | | | See section 8. |

The hazards of this code, each at its line and with the properties that guard it, are listed in
`PROJECT.json` under `hazards`.

## 2 The modules

### NetworkAttack, NetworkSlot

`NetworkAttack` models `network.go`, `qospolicies.go`, the commands of `bandwidth.go` and the
waiting of `windivert.go`. A *handler* `<<e, "add">>` or `<<e, "del">>` is one call of
`generateAndRunCommands`; `pc` says which of its blocking steps comes next:

| `pc` | code | action |
|---|---|---|
| `lock` | `runLock.LockKey`, then `pushActiveFw` (:55-62) | `TakeLock` |
| `qos`, `qosrun` | `executeQoSCommands`: one PowerShell that runs all commands | `RunQoS`, `QoSCommand` (one per command), `KillQoS`, `QoSReturns` |
| `windivert`, `await` | `executeWinDivertCommands` starts a PowerShell, then polls the service | `RunWinDivert`, `AwaitService`; the script itself is `PowershellRuns` |
| `finish` | `popActiveFw` after a Revert, answer, deferred unlock | `Finish` |

`activeFw` is `activeFirewall["windows"]` reduced to the descriptions the code compares;
`policies`, `wdna` and `svc` are the host. A PowerShell outlives the extension (`script` and
`pending` survive `Crash`), memory does not. `Tick`, `CleanerTakesLock`, `CleanerRemoves` and
`CleanerUnlocks` are the cleanup. `StartCall`, `StopCall` and `GiveUp` are the agent. `faults` counts
the faults by kind, and `overtaken` remembers a Start that got the lock after the agent, which had
given it up, had called Stop; both only say in the properties what a state may be blamed on.

A repeated `Stop` whose predecessor still goes on waits for `runLock`, so the model lets it begin
when that one has finished.

`NetworkSlot` is the abstract promise: a slot that attacks of one setting hold together, swept
only while it is free, lost when the process ends. `SlotSpec` in `NetworkAttack` is the
refinement: the holder is the first entry of the list, the count its length, sweeping is
having policies left to remove.

### ExtensionService

`NetworkAttack` as a part of its process. `main` is where main is (`boot`, `setup` after the registry
key was made, `listen`), `service` where the goroutine of `ActivateWindowsServiceHandler` is:
`StopRequest` is a Stop or Shutdown that `Execute` takes, `Unlist`, `HandOver` and `CloseServer` are the
three calls of the stop handler (`main.go:36-43`), `Exit` is the end by `log.Fatal`. `HandOver` needs the
routine in its `select` (`MayHandOver`), for the channel is unbuffered. `BootFails`, `ProcessCrashes` and
`HostDown` end the process in other ways; `ShutdownCall` is the shutdown action. In `NetworkStep` the
actions of `NetworkAttack` go on: calls need the server, ticks the routine. The policies and the registry
key are the host's and outlive all of this.

### CondenseNets, NetworkFilter

`CondenseNets` is `CondenseNetWithPortRange`. A network is an interval of addresses with a range
of ports; `Merge` (the smallest network around two) and `Before` (`Compare`) belong to the
library `action_kit_commons`. One step is one iteration of the loop: take the most specific
candidate, `Skip` it if it is stale, else `Replace` what it contains and look for new
candidates where it was inserted. The candidates are a bag, since a network may be found twice
and then replaces itself; they are taken by the length of their mask (`PrefixLen`) whatever the
family, with a free choice among equals. The copy is made before the argument is sorted (:54-56), so
`result` keeps the given order, and in a list that is not sorted the binary search may land anywhere
(`Positions`).

`NetworkFilter` extends it with the six attacks. `Blackhole`, `Delay`, `CorruptPackages` and
`PackageLoss` take the condensed list as excludes (`BuildFilter`, `MapToNetworkFilter`).
`BlockDns` has no excludes. `LimitBandwidth` creates QoS policies, which cannot exclude: it is
rejected (the action is not enabled, nothing is prepared) when it overlaps a restricted
endpoint. A policy is described by the same record as a filter without excludes. `Affects(f, p)`
is the text of `buildWinDivertFilter` as WinDivert evaluates it for packet `p`, one operator per
writer of the code. A test of a field the packet does not have (`tcp.DstPort` of a UDP packet,
`ip.DstAddr` of an IPv6 packet) fails.

### TimeTravel

A *handler* `<<e, 0>>` is the `Start` of an execution, `<<e, i>>` its i-th `Stop`, with one action per
PowerShell command: `StopNtp`, `SetDate`; `StartNtp`, `ResetDate`, `Resync`; and `CommandFails` for each of
them. The agent may `GiveUp` any call at any time and go on to `StopCall`; as neither a lock nor a context
stops the commands of `action_timetravel.go:167-208`, the handler it has given up continues next to the new
one (`Heard` says whose answer still counts). `shift` counts by how many offsets the clock is ahead.
`applied` is the agent's copy of `OffsetApplied`: it changes only when the answer to `Start` arrives.
`w32tm /resync` and the service itself (`NtpSync`) correct the clock (`Corrected`). `lost` and `late` are
ghosts: the given-up Starts and Stops that have moved the clock since it was corrected last.

### ProcessStopper

`Start`, `Status`, the three steps of `Stop` (load and cancel, delete, report) and the goroutine:
`Select` is the entry of `select`, `TimerFires` and `DoneWakes` what wakes it, `Find`, `Kill`
(one process each) and `RoundEnds` a round. `stopper` is the map, `ctx` and `err` what a stopper
holds. A timer that is made for a `select` can be ready at once only if the delay is 0.

### StressTools

`StatusCall` is `IsProcessRunning` asked by the agent, or its error, which may end the asking. `Launch`, `LaunchDD`, `WaitReturns`, `KillDevzero`
and `Reap` are the goroutine of `Start`, which goes on to dd whether devzero has started or not;
`RemoveFile`, `ListProcess`, `KillProcess` and `Answer` the steps of `Stop`, over the `names` of processes
still to stop: one per PowerShell and one for what the handler does with the result, so that a goroutine
may launch its tool between any two of them; `CreateFile`, `ToolEnds`, `Starve` and `DevzeroEnds` the tools. `Crash` and `Panic` end the
extension with its goroutines, while the tools go on. `Tool` gives every execution its
process: `fsutil`, `coreutils` (the pipeline `devzero | dd`) or a stress tool.
Each `Stop` is a handler: `<<e, 0>>` is the one whose answer the agent awaits, and `GiveUp` makes it one of
those that go on unheard (at most `MaxLate` per execution) while the agent repeats the call.
`masked` remembers a `Stop` that took a failed `Stop-Process` for success (`powershell.go:40`); the ghost
`ran` is what the awaited `Stop` names and ran when it was called.

### StressCpu

One CPU stress from its parameters to its end. `PrepareStress` is the extension's check of them, `RunTool`
the tool's own (`Valid`), its affinity mask in integers of `IntBits` and `PtrBits` bits (`Shifted`, `Mask`)
and what the system makes of it. `LaunchThread`, `Sleep`, `WakeUp` and `Join` are the main thread,
`Check`, `Spin` and `Rest` the loop of each `CoreStress`. `Wrapped` is what an int makes of the duration in
milliseconds. `KillTool` is the Stop of the extension, at any time.

### FillDiskAmount

What `StressTools` leaves out of the disk fill. `Prepare` is `calculateAllocation` with the checks
around it, in uint64 (`% Word`); percentages are computed in float64 and truncated
(`action_fill_disk.go:239-249`), so that `Allocations` is every amount that an error of up to `FloatError`
hundredths of a byte may lead to: a byte less than asked for where the exact result is a whole number, and
up to a block less where it is a whole number of blocks; `StartAtOnce` is `fsutil`, `StartOverTime` computes the blocks of
`Args`, `WriteBlock` is dd. `OthersUse` changes the free space between any two steps. `MB` and `MiB`
are the two megabytes, 10^6 and 2^20 bytes.

In every module, operators named like a definition with a suffix (`RefusedNever`,
`QoSCommandsOneMore`, `PortInOpen` ...) are variants with a plausible bug. They are not used by the
specification; each shows that a property would notice that bug. `PROJECT.json` (`mutants`) says
which property notices which.

## 3 The runs

`pass` runs finish without error; `violation` runs end with the counterexample that section 7
explains.

| Run | Instance and bounds | Question |
|---|---|---|
| `net_faults` | Two executions of one bandwidth limit and a WinDivert attack; any two faults (crash, failing command, timeout, given-up call) at any point; 1.2 million states | Do settings exclude each other, does the cleanup run alone, is `NetworkSlot` implemented? Does what the agent believes agree with slot, policies and `wdna.exe`, but for what the faults themselves have done? |
| `net_live` | The whole process: two limits of one bandwidth with 2 and 1 CIDRs; one stop of the service or shutdown of the host; one crash or failing command | Does a stop wait for the cleanup and end the process, does the registry key lead to a process that takes calls? Does every Stop of an attack return, do leftovers disappear for good? |
| `time_safe` | Three executions, two with `disableNtp`; two failing commands or given-up calls at any point, two Stops each, which may overlap; the time service corrects the clock whenever it runs; 290 000 states | By how much is the clock off, and is the service running, when all is stopped? |
| `stopper` | Two executions with overlapping filters, one without delay, one graceful with an unheard Stop; two processes, one protected; processes come back without bound | Do errors and stoppers stay with their execution, does no round start late, does the goroutine end, do processes die? |
| `tools_safe` | One pipeline and one fsutil, whose Stops name the same processes; three failing `Stop-Process`, given-up Stops and crashes of the extension; 340 000 states | Is the file of a stopped disk fill gone, and its writer? Does whatever a Stop names and has run since it was called bear a name that the Stop has yet to come to? |
| `tools_live` | One stress tool, one pipeline; two faults of any of the five kinds | Has a successful Stop ended what it names and ran when it was called, whatever is launched meanwhile? Is everything over in the end, does devzero end with its dd, is the end of an attack reported, does a repeated Stop succeed? |
| `filter` | Every list of up to four of eight networks, and of five with two neighbours whose merge with port 80 becomes stale through the one with all ports, in any order, limit 1; masks of three bits in one family and of seven in the other; eight requests of the six attacks; 192 packets, one port among theirs outside `PortRangeAny` | Does condensing keep the coverage, never lengthen the list, end, and do its best on sorted lists? Do the attacks spare the protected endpoints, a limit the restricted ones, and do they otherwise hit what was asked for? |
| `resources` | Either a disk fill: a drive of 200 bytes, megabytes of 20 and 21, six amounts of free space, all modes and methods, sizes beyond the drive and beyond the word, an error of a hundredth of a byte in every percentage. Or a CPU stress: four processors, ints of 3 bits, masks of 5, -1 to 5 cores, six durations, four loads | Does the fill write what it is asked for, up to rounding and the unit of dd, and when does `Start` panic? Does the stress run as `Prepare` has accepted it, keep its cores busy and end? |
| `time_ntp_left`, `time_repeat`, `stopper_unreported`, `tools_masked` | the smallest instance that shows it | section 7 |

Why these bounds: two executions of equal settings and one of another setting are all that
`activeFirewall` tells apart (equal, different, nobody), and the cleanup is a further actor. Two
CIDRs give a script that can stop half-way and policies of different executions that share
a name. With two faults a failure can hit the recovery from another one; in `net_live`, where a
stop of the service or a shutdown of the host comes on top, one fault plays the second. Time travel needs
three executions for a service stopped by one, started by a second and still needed by a third, and two
faults for a `Stop` that is given up and whose repetition fails.
With two stoppers, one's round overlaps the other's whole life. Five networks give candidates that
become stale, candidates that skip a network with other ports, and lists in every disorder. Address 1
has only `0.0.0.0/n` in common with the others, which does not count as a merge, and the longer masks of
the second family make its candidates the more specific ones.
The amounts of free space lie on, below and above multiples of both megabytes.
Of four processors, the third bit is the sign of the small int and the fourth wraps around, as 32 and
33 of 64 do in the tool; the durations lie below a second, on its multiples, between them, at the largest
int and beyond it, negative as well as wrapped around to a short time.

Properties that speak of `NoFault` or of `Seen(kind)` leave out the faults whose effect nothing in the
code undoes; they are stated for every other fault that the run injects.
`FinishedLeavesNoEffect` asks for no script to have ended: those still to run may only shut down what is
gone already. It says nothing of `wdna.exe` where two executions have the same WinDivert
settings: `Start` and `Stop` poll the driver instead of waiting for their PowerShell, and the driver
of the twin answers for it, so that the script of a `Start` may run after its `Stop` (the agent has
then stopped everything and packets are still diverted until `--duration` ends). For the same reason a
`wdna_shutdown` that comes late, because `wdna.exe` had ended by itself, may end the next WinDivert attack;
`OnlyStopsEndAnAttack` is about bandwidth limits only.
`CanceledMeansEnded` and `UnmaskedMeansEnded` speak of what ran when the agent called `Stop`: a tool that a
goroutine launches later may be missed, whether before, between or after the PowerShells of `StopProcess`.
`StoppedClockIsRight` allows for each call that was given up and went on one offset, in its direction
and until the clock is corrected next; without such calls the clock is right.
`StopSucceeds` is limited to stress tools, and `StoppedEndsForGood` excludes a dd whose devzero
is gone and that Stop misses (`Survives`), because the code does not achieve more.
`AffectedAsWanted` is stated where nothing was condensed (condensing widens excludes on purpose,
and says so in a message) and where at least one named interface exists; an attack without ports asks for
those of `akn.PortRangeAny`, and packets of other ports must not be affected. The properties of
`FillDiskAmount` are stated for sizes that fit in uint64 (`Fits`), `AcceptedStressRuns` for cores and
durations that fit into the ints of the tool (`Fitting`).

## 4 Fairness

- Goroutines, handlers, PowerShells and tools continue (weak fairness): they wait for nothing but
  what the model shows.
- `TakeLock` and `CleanerTakesLock` have strong fairness: Go's mutex goes into starvation mode
  and is handed to the waiter after 1 ms.
- `SeesDone` has strong fairness: `select` chooses at random among ready cases. `FindsAll` has
  it because listing processes is not assumed to fail for ever.
- `Restart` is fair: somebody starts the service again after a crash, at the latest with the host (the
  installer sets `Start="auto"`, `Components.wxs:36`, and no action on failure). What a crash leaves
  behind stays until then.
- `HandOver` has strong fairness: the `select` of the routine chooses at random between its ticker and the
  hand-over. A host that goes down comes up again, and starts the service.
- The threads of `StressCpu` run on and its main thread wakes up. `Reap` of `StressTools` has no fairness:
  `devzeroCmd.Wait` waits for a copier that may be blocked for ever (section 7).
- The agent owes nothing, except in `StressTools`, where it asks for the status and repeats a `Stop` that failed;
  durations of stop process need not end; nothing needs to respawn.

## 5 The proofs

All theorems hold for any number of executions, networks, processes and faults; only the named
assumptions on constants are used (`OptsAssumption`: equal descriptions mean equal settings;
`OwnerAssumption`, `CondenseAssumption`, `FilterAssumption`, `StopperAssumption`,
`ToolsAssumption`, `TimeAssumption`, `FillAssumption`, `StopsAssumption`, `CpuAssumption`: types;
`NetAssumption`: networks are CIDR blocks, two of a family are nested or disjoint and the inner one has the
longer mask; `MergeAssumption`: a merge is the smallest network around both; `PacketAssumption`: "any"
network contains the addresses of every packet).

| Module | Theorem | Argument |
|---|---|---|
| `NetworkAttack_proofs` | `Invariance`, `TypeCorrect`, `OneSetting`, `CleanupSafe` | `IInv`. That entries are equal and that the cleanup is alone is not inductive: it needs that a handler in its critical section owns the lock (`LockInv`), that a script of a living process belongs to such a handler (`ScriptInv`), and that the cleanup has work only under the lock with no attack active (`CleanerInv`). |
| | `RunningAdmitted`, `SlotFreed`, `AttackKept` | `AgentInv` relates what the agent believes to the list and the policies. From the push on, the head of the list is the setting of every undisturbed execution (`HoldInv`), so the cleanup stays away from the policies its script has made (`PolicyInv`). Entries are counted against executions that still owe a pop (`Owners`, `CountInv`, with the cardinality theorems): a push brings its owner along, a Stop that takes an owner away pops one entry. `CallInv` says which calls the agent's state allows. |
| | `NoEffectLeft` | `EffectInv`. Without a fault every policy belongs to an execution that is under way, and the script of its Revert has removed those it has come to (`LimitInv`). The driver runs only for the WinDivert attack that holds the slot, and only once its script has run: so Apply waits for its own script although it asks for the driver, and none of its scripts is left when the agent calls Stop (`DivertInv`). That the slot has one diverter (`OneDiverter`) is `HoldInv` again. |
| | `ImplementsSlot` | Every step under `IInv` is a step of `NetworkSlot` or a stutter. `Finish` is a `Release` because all entries are equal (`PopOfEquals`: dropping the first hit shortens the list by one and keeps its first element). |
| `ExtensionService_proofs` | `ServiceInvariance`, `StopWaitsForCleanup`, `ServiceCleanupSafe` | A step of the process that touches `NetworkAttack` is one of its steps, or an end of the process, which leaves its scripts behind; so `IInv` stays inductive. That the routine is gone exactly after the hand-over, and was idle then (`RoutineInv`), gives the rest. |
| | `ServiceImplementsSlot` | The same for the refinement: ends and starts are `Reset` and `Reboot`. |
| | `ListedServed` | A key without a fault and not stray is older than the `Unlist` of its process. |
| `TimeTravel_proofs` | `TimeInvariance`, `ClockRestored`, `ServiceRestored` | A clock that is off by more than the given-up calls have moved it since its last correction (`lost`, `late`) is owned by an execution that knows its offset and is not stopped yet (`ClockIsOwned`): what an awaited Set-Date does, an awaited resync undoes before the agent hears of success, whatever overlaps. A stopped service is owned by an execution that will start it again or never knew (`ServiceIsOwned`). `HandlerInv` ties the handlers to the calls: a Stop runs only with an offset that was reported, and moves the clock once. |
| `ProcessStopper_proofs` | `StopperInvariance`, `OwnFailure` | Keys are executions, so a handler meets only its own stopper, and what a goroutine finds stays in its filter. |
| | `Quiet` | Action property: only `Select` and `TimerFires` begin a round, and both need a live context unless the delay is 0. |
| `StressTools_proofs` | `ToolsInvariance`, `FillGone`, `UnmaskedEnded` | A file is removed once and for all, and when `StopProcess` has come to `devzero`, `coreutils` is gone or its failure masked. Whatever ran when the awaited Stop was called and still runs bears a name that this Stop has yet to come to (`StopInv`); tools that goroutines launch meanwhile were not among it (`Met`, `LaunchInv`: a goroutine launches each of its processes once). So nothing of it is left at the `Answer`, which is a step of its own. |
| `StressCpu_proofs` | `CpuInvariance`, `AcceptedRuns` | Threads are launched in order before the main thread sleeps (`ThreadInv`), see `done` only after it, and are joined in order. Below the width of an int, the mask is the set of cores (`MaskExact`), and no product wraps. |
| `NetworkFilter_proofs` | `CoverageKept` | `Covered` is inductive with the types: `Rest` keeps what the candidate does not contain (`RestKeeps`, over the counting lemma `CountEnumerates`), insertion keeps the others (`InsertKeeps`), and containment is transitive. The order of the list plays no role. |
| | `CondensingNeverGrows` | A candidate that is not stale takes at least one network away (`ReplaceStep`, with the cardinality theorems) before it is inserted. |
| | `IterationsDescend` | Why the loop ends, for every list. An iteration makes the list shorter; or exchanges one of its networks for one around it; or leaves the list as it is, up to its order, and takes away a copy of a candidate that contains at most one network of it, while new candidates contain two (`MergesAreNotIdle`). In this lexicographic order, whose second part is bounded by the networks there are, nothing descends for ever. |
| | `SortedCondensedFully` | What can be merged in a sorted list lies under one of the merges of neighbours found at the start (`Initial`, `UnderNeighbours`), and so does what is made of it later (`AllJoined`, `JoinedMerge`). Because the most specific candidate is taken first, nothing is left to merge under a first merge that is no candidate any more (`Settled`). With no candidate left nothing can be merged. |
| | `AttackAsWanted` | The filter of each attack against what its parameters ask for, one lemma per test of the filter, in both directions. |
| | `ProtectedEndpointsSafe` | A protected endpoint lies in an excluded network, where the port test of `ExcludeTest` fails. |
| | `LimitSafe` | What a limit includes has been compared with the whole list (`LimitDisjoint`), and an address and port in two networks make them overlap. |
| `FillDiskAmount_proofs` | `FillInvariance`, `FillIsBounded`, `FillIsEnough`, `PanicsOnlyBelowMegabyte` | `IInv` ties the file to the blocks written so far; the amount misses what is asked for by less than a byte and the error of the floats (`AllocationRoundsDown`), the blocks are at least one and fit into the amount (`Blocks`), and products are monotonic. |

Every invariant and action property of a passing run is stated by a theorem. Only model-checked are the
liveness properties, which are out of the prover's reach: `StopReturns`, `FinishedLeavesNoPolicies`,
`StopEndsProcess`, `GoroutineEnds`, `MatchedProcessesDie`, `FoundProcessesDie`, `StoppedEndsForGood`,
`DevzeroEndsWithDD`, `StopSucceeds`, `CompletionIsReported`, `StressEnds` and `Terminates`. For the last one
`IterationsDescend` proves what each step contributes; the well-founded induction that concludes from it
that the loop ends is left to the reader.

## 6 Assumptions about what is not in the source

- PowerShell runs its `-Command` lines in order; only the last decides the exit code.
- The script of a WinDivert PowerShell (start wdna, or `wdna_shutdown` and `sc stop/delete`) takes
  effect as a whole. Windows may unload the driver when the last handle is closed.
- Orphaned QoS scripts end before the extension is started again.
- The extension runs as SYSTEM, as the installer sets it up. For other users
  `BuildSystemCommandFor` wraps commands into a scheduled task, which is not modelled.
- `fsutil` opens its file exclusively, `dd` shares it for deletion. dd ends when its pipe is closed,
  devzero when its pipe is broken.
- Tools have their default names (no `STEADYBIT_COREUTILS`, `STEADYBIT_DISKSPD`).
- The system refuses an affinity mask with processors the host does not have; hosts have one group of
  processors (at most 64).
- The service manager starts the service with the host; nobody starts it while the host goes down.
- `NetWithPortRange.Merge` is the smallest CIDR block around two networks of equal ports.
- `NetAny` contains the addresses of every packet. Nothing is assumed of `PortRangeAny`, which may lack ports
  (section 7).
- The float64 arithmetic of a percentage of a drive is off by less than a hundredth of a byte (`FloatError` 1):
  each operation rounds to a relative 2^-53, which makes three times that of the drive at most, and less than
  the bound for percentages up to 100 and drives up to 29 * 10^12 bytes. The theorems hold for any `FloatError`.
- `runLock.LockKey` is a mutex per key; all callers use the key `windows`.

## 7 Where the code and its documentation disagree

Each of these has a violation run and an entry in `PROJECT.json` (`findings`).

1. `time_ntp_left`: a `Start` that stopped `w32time` and then failed leaves it stopped;
   `Stop` does nothing without `OffsetApplied`.
2. `time_repeat`: a repeated `Stop` sets the clock back again.
3. `stopper_unreported`: an error of the round under way is stored after `Stop` has looked.
4. `tools_masked`: `StopProcess` returns the one harmless failure and hides the others.

Known deviations without a run of their own:

- An attack refused by `pushActiveFw` ("running multiple network attacks at the same time is not
  supported") is stopped by the agent nevertheless. Its Revert removes QoS policies by names that
  contain only bandwidth and index, hence those of the running attack of the same bandwidth. This is
  why `OnlyStopsEndAnAttack` asks that no other execution is being stopped.
- A `Stop` of time travel that the agent has given up goes on next to its repetition. When it hangs in
  `Start-Service` and the repetition completes, it sets the clock back once more after all has been stopped;
  the clock is then wrong until its resync, and stays wrong if that fails and no time service runs
  (`late` in `StoppedClockIsRight`). A `Start` that was given up shifts a clock that its Stop,
  without `OffsetApplied`, leaves alone (`lost`).
- `Stop` of a stress or a fill looks once for each process name. A tool that its goroutine launches later
  (`action_stress_cpu.go:268`) runs on for its duration although `Stop` has answered "Canceled"
  (`ran` in `UnmaskedMeansEnded`; it ends by itself, `StoppedEndsForGood`).
- A bandwidth limit is compared with the restricted endpoints but not with the extension's own ports.
  The units of the bandwidth lose their meaning in New-NetQosPolicy: "kbit" becomes "KB", which
  PowerShell reads as 1024 (`action_network_bandwidth.go:168`), and `8 * numeric` may wrap around (:183).
- A `Stop` that overtakes its given-up `Start` (both wait for `runLock`) pops nothing, and the
  entry pushed afterwards stays: further attacks of other settings are refused and the cleanup stays away
  until the extension restarts.
- A repeated `Stop` of fill disk fails at the file that is already removed and never reaches the
  processes (`action_fill_disk.go:463`). They end by themselves (`StoppedEndsForGood`).
- A dd whose devzero is gone (it did not start, or the Stop of another pipeline ended it) starves, and
  its goroutine never ends. When neither dd nor devzero starts, the Kill of a nil process ends the
  extension (:442). When dd ends before devzero, `devzeroCmd.Wait` waits for the goroutine that copies into
  a pipe nobody reads any more, and that is closed only after `Wait` (:446): two goroutines stay behind.
- From 32 cores on, `1 << i` (`Program.cs:64`) is negative: its sign fills the upper half of the affinity
  mask, which the system refuses if the host has fewer processors, and which otherwise binds the tool to
  processors nobody asked for. `Thread.Sleep(options.Duration * 1000)` (`CpuStress.cs:18`) overflows after
  24 days: it sleeps too short, or throws and leaves the threads behind, which keep the process alive.
- The service is stopped before main has made the registry key: nobody removes the key (`stray`).
  The stop handler leaves running attacks alone; calls are still taken after the hand-over
  until `StopListen`, without a cleanup. `Execute` does not report StopPending.
- The service is called `SteadybitExtensionHostWindows` in `service.go:21`, `SteadybitWindowsHostExtension`
  in the installer (`Components.wxs:36`) and `SteadybitWindowsExtensionHost` in `README.md:30`.
- When shutdown.exe disappears between `Prepare` and `Start` of the shutdown action, `cmd[0]` of a nil
  slice panics (`shutdown/command.go:46`).
- For users other than SYSTEM, `BuildSystemCommandFor` ends in an `Unregister` that cannot fail, so that the
  failure of a command is never seen.
- `STEADYBIT_DISCOVERY_ENV_LIST` is split by `[\\s,;]+` in a raw string (`envVars.go:20`), that is also at
  the letter s and the backslash: the example `STAGE` of `README.md:14` yields `tage`. Values are cut at a
  second `=`.
- `CondenseNetWithPortRange` sorts its argument, not the copy it works on. In a list that is not sorted
  it may miss merges and return more than `limit` although more are possible. A candidate
  that contains a single element replaces it, which widens an exclude without shortening the list.
- Interface names that do not exist are dropped; if none is left all interfaces are affected, although
  the parameter says "All if none specified" (`action_network.go:56`).
- An attack without ports "affect[s] all ports" (comment at `action_network.go:183`) by `akn.PortRangeAny`.
  The repository takes 65534 for the largest port (`utils/network_test.go:170-184`,
  `action_network_dns.go:55`), so that traffic to port 65535 would be affected by none.
- `executeWinDivertCommands` (`network.go:120`) waits for the state of the driver, which may be that of an
  execution with equal settings or of a `wdna.exe` that has ended: the script of a `Start` may run after its
  `Stop`, that of a `Stop` after the next `Start` (section 3).
- The filter file of a WinDivert attack is not removed: its name is kept in a copy of the settings.
- `blocksize` 1 is rejected with "must be at least 1" (`action_fill_disk.go:191`). An amount below one
  megabyte makes the block size 0 and `Args` divides by it: `Start` over time panics. `dd` counts in
  units of 2^20 bytes what was computed in units of 10^6, so that "Megabytes to leave free" may leave
  none. Sizes above 2^64 / 10^6 wrap around. A percentage may come out a byte short, for float64 and its
  truncation (8% of 4 * 10^12 bytes: 39999999999 where 7% are in use), and with it a block. `NotTooMuch`, `NotTooLittle` and `Fits` say
  how far each of these goes.

## 8 What is not modelled

- Parsing and validation of parameters, hostname resolution, the text of commands and messages.
- Discovery and labels: a query of the host that reads, keeps no state and meets no other component; its
  refresh and cache belong to the SDK.
- Configuration, logging and the writer of the event log, packaging and installer.
- The stress IO and fill memory tools (`diskspd`, `memfill`), which are not part of the repository, and the
  checks of their parameters in `Prepare`.
- Durations and amounts of the network attacks, which are passed on to `wdna.exe`.
- The upper limit of the WinDivert driver on the length of a filter.

## 9 Plan

Order of the work, the most important behaviour first:

1. done: `NetworkSlot`, `NetworkAttack`: lock, slot, cleanup, crash; invariants and refinement proved,
   down to the host after the last attack.
2. done: `TimeTravel`, `ProcessStopper`, `StressTools`: the multi-step handlers; invariants proved.
3. done: `CondenseNets`, `NetworkFilter`: which packets an attack affects; coverage and protection, complete
   condensing, the descent of its loop and the effect of every attack proved.
4. done: `FillDiskAmount`: amount, block size and blocks; both bounds proved.
5. done: `ExtensionService`: start and end of the process and of the host around `NetworkAttack`;
   invariants and refinement proved for the composition.
6. done: `StressCpu`: the tool of the CPU stress; invariants proved.
7. Proofs: of the checked properties only the liveness properties are left. Worth proving besides: more of
   what they rest on, as `IterationsDescend` does for `Terminates`.
8. Models still possible: the scheduled task that runs QoS commands for users other than SYSTEM, whose name all
   executions share; the tools of the stress IO attack.

## 10 Usage

```
tlc -workers 2 -config NetFaults.cfg MCNetworkAttack
tlapm NetworkAttack_proofs.tla
```

Each run of `PROJECT.json` names its module and configuration. The longest takes about three minutes.
