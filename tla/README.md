# bimarz in TLA+

bimarz is a VPN client around xray-core: a Python orchestrator (command line and
GUI), a Rust engine client, a mobile core and an Android application.  This
directory models the parts that own something outside themselves, a child
process, a gRPC connection, firewall rules, threads, because that is where a
failure, a signal or an unlucky interleaving leaves the user's machine in a state
nobody chose.

Paths are relative to the repository.  `PROJECT.json` maps every definition to the
lines it models, lists the runs, the theorems, the hazards and the disagreements
between code and documents that the runs show.

## 1. Inventory

| component | state | operations | interacts with |
|---|---|---|---|
| kill-switch manager, `killswitch_manager.py`, `services/killswitch.py` | `_state` (frozen record under `_state_lock`), `_watcher_thread` (under `_watcher_lock`), `_stop_event` | activate, deactivate, start/stop watcher, `_trigger`, queries | iptables rules; its watcher thread; `proc.is_running` |
| iptables rules, `engine-core/src/killswitch.rs` | rules in the kernel | probe, apply, remove: a list of commands, the first failure ends it | `iptables` processes |
| connection lifecycle, `connection.py`, `commands/connect.py` | `_stop_event`, ownership flags, `_cleaned`, registered signals | start, watch loop, failover loop, rollback, cleanup, `request_stop` | all services; Ctrl-C, SIGTERM, SIGHUP; event handler |
| process service, `services/process.py`, `xray_manager.py` | `_proc`, runtime directory, the child | start, stop, is_running | the OS |
| engine service, `services/engine.py`, `utils/retry.py`, `engine-core/src/grpc_client.rs` | `_engine` | connect with retry, add/remove outbound, close | xray's handler service |
| failover, `failover.py`, `services/failover.py` | active profile, consecutive failures | record, should_failover, pick_best, trigger | health checks, engine service |
| health check, `engine-core/src/healthcheck.rs` | none | TCP connect with timeout, batch | network |
| GUI, `gui/*.py` | worker thread, its loop and tasks, button states | connect, stop, failover loop, cleanup, kill-switch toggle | the same services, Qt signals |
| kill-switch command, `commands/killswitch.py` | none that outlives the process | enable, disable, status | a new manager each time |
| profile store, `profiles.py` | encrypted file | add, remove, list, get | file system, other processes |
| Android service, `BimarzVpnService.kt`, `XrayProcessManager.kt` | process, tun, engine handle, connection state flow | connect, disconnect, onRevoke, onDestroy | mobile core, coroutines |
| Android profiles, `ProfileRepository.kt` | one preference | add, remove, edit | coroutines |
| mobile core, `mobile-core/src/lib.rs` | one engine handle | JNI calls | engine client |
| parsing and configuration, `parsers/vless.py`, `vless_builder.rs`, `xray_config.py`, `dns_guard.rs` | none | pure functions | - |
| doctor, config, cli | none | read the environment | - |

Hard behaviour and what makes each component right:

* **Kill-switch.**  Three threads of control touch its state: the caller, the
  watcher, and a watcher that outlived the join of its stop.  `_trigger` tests
  `_stop_event` under a lock that the setter of the event does not take.  Every
  operation on the rules is a list of commands that may stop half-way.  Right
  means: outgoing traffic is blocked at least as long as incoming, one watcher,
  reports that are true, no state resurrected by a late thread, and a death that
  is noticed.
* **Connection lifecycle.**  A coroutine with a dozen awaits, each of which can
  fail, be cancelled by Ctrl-C, or find xray dead; then a rollback and a cleanup
  that can fail and be cancelled themselves.  Right means: what was acquired is
  released or its failure reported, unblocking traffic comes last, the failover
  loop and xray agree on the outbound, and it all ends when xray does.
* **Failover.**  The tag of the active outbound is reused, so a switch has a moment
  without a route, and a recovery that can fail as well.
* **GUI worker.**  A thread with its own loop beside the window's; the window stops it
  by an event and by a callback that cancels every task it finds, which may be the
  one that cleans up.  Signals of a session that is over arrive in the next one, and
  an xray left running keeps the port that the next one dials.  Right means: a
  session releases what it took, its outbound is that of the profile it checks, its
  button can end it, and it ends.
* **Kill-switch command.**  Every process has a manager that remembers only what it did;
  the rules of one target look the same to all.  Right means: no process takes what
  another has added, and disable undoes what enable did (it does not).
* **Profile store and repository.**  Read, modify and write without a lock, over a disk
  that keeps what was flushed.  Right means: the file is always whole, success lasts,
  the list shown is the list stored.
* **Android service.**  Callbacks launch coroutines that overlap, in a service that is
  destroyed and made anew under them.  Right means: all of a connection or nothing of
  it, a tunnel that reads an open interface, a screen that tells the truth and is not
  left busy.
* **Links.**  Two parsers in two languages, each on the URI class of its own, in front of
  one engine.  They trim, default, decode and resolve repeated parameters differently.
  Right means: they agree, or differ in ways that are known.

## 2. How the project is laid out

The parts that own firewall rules, processes and connections came first, each with a
module, an MC module and its proofs.  A run costs up to two minutes, so the parts
that share no state with each other share one run, `MCParts`, in which a behaviour
is that of one of them.  A disagreement between the code and what its documents or
tests say has a run of its own.

Modules are written to be proved about: no RECURSIVE operator, parameters as
CONSTANTS with named assumptions, one action per step of the code.

What components promise is written down once, in three contracts: a kill-switch, a
connection, a store of profiles.  Where two programs do the same thing, the command
line and the window, the desktop's file and the phone's preference, both implement
the same contract, each in its own way.  What would come next: the phone's
connection against a contract (it keeps one only as long as no two coroutines
meet), and `connect_with_retry` (attempts, delays, classes of errors) as the
refinement of the clients' `Connect` steps.

## 3. Modules

| module | models | checked by |
|---|---|---|
| `KillSwitchContract` | what a kill-switch promises: off, armed or tripped, and for which target | through refinement |
| `ConnectionContract` | what a connection promises: what it holds, what it could not give back, one route at a time | through refinement |
| `StoreContract` | what a store of profiles promises: whole edits, a crash that keeps or undoes them | through refinement |
| `KillSwitch` | manager, watcher threads and iptables rules | `MCKillSwitch` |
| `Failover` | decisions of the failover manager (operators) | through the next two |
| `ConnectionLifecycle` | the connect command from start to exit | `MCConnection` |
| `GuiWorker` | window and worker threads over several sessions; uses `Failover` | `MCGui` |
| `AndroidVpn` | the Android service's coroutines, its button and dialog | `MCAndroid` |
| `ProfileStore` | processes that change the encrypted profile file | `MCParts` |
| `AndroidProfiles` | coroutines that change the phone's preference and its list | `MCParts` |
| `Links` | a share link on the desktop and on the phone | `MCParts` |
| `KillSwitchCommand` | several processes with a kill-switch each over one kernel | `MCParts` |
| `Stores_proofs` | theorems about `ProfileStore` and `AndroidProfiles` | TLAPS |
| `Parts_proofs` | theorems about `Links` and the composition `MCParts` | TLAPS |
| the other `*_proofs` | theorems about the module they are named after | TLAPS |

### The contracts

`KillSwitchContract` is implemented by `KillSwitch`, and used by both clients, whose
phase `ks` follows it as well.

`ConnectionContract` has a phase, a set of resources held (process, client, block), a
set of those that nobody will give back any more, and a route.  A connection is over
only when all it holds is in that second set, an earlier outbound is replaced by a
whole switch, and nothing is let go of while it is up.  Both clients implement it
with the same four definitions:

| contract | `ConnectionLifecycle` | `GuiWorker` |
|---|---|---|
| `phase` | `Phase`, from `at`; registering the signals is up | `Phase`, from `at`; from `off`, one connection after another |
| `holds` | `Holds`: a running xray, a client, a kill-switch that is not off | the same |
| `spoiled` | `Spoiled`: a stop that raised, a kill-switch that stayed on, everything once cleanup is cut or the program killed | the same; everything once a callback cancels `_async_cleanup` or the window leaves |
| `route` | `RouteInUse`: the outbound in xray at each look the loops take, the active profile in between | the same, up to a switch that timed out half-way |

`route` is what makes the mapping more than a projection: a step between two looks
is a stutter only if the loop comes back with the outbound that it believes in.

`StoreContract` is an edit of one profile, a flush, and a crash that leaves what was
in use or what was flushed.  `FileIsAtomic` maps to it what `file` and `durable`
decode to, with the password, `PreferenceIsAtomic` the preference in memory and on
disk, which nothing protects.  The contract's `lost` says that an edit was based on a
reading that another edit had replaced; from then on anything may be in the store.

### KillSwitch

A step is what happens between two points where another thread can be seen: a
critical section, one iptables command, a read or write of `_stop_event`.  The
caller's operation in progress is the record `call` (place, operation, the
snapshot `current` that deactivate works from, the thread it joins).

| code | actions |
|---|---|
| `activate` | `ActivateAgain`, `Activate`, `ApplyOutput`, `ApplyInput`, `Arm` |
| `start_process_watcher` | `StartAgain`, `StartRefused`, `StartWatcher` |
| `stop_process_watcher` | `StopWatcher`, `Signal`, `ReadThread`, `Joined` or `JoinTimesOut`, `Settle` |
| `deactivate` | `Deactivate`, `RemoveInput`, `RemoveOutput`, then the steps of a stop, `Disarm` |
| `watcher`, `_trigger` | `Wake`, `Poll`, `Detect`, `Commit`, `Latch`, `Finish`, `Clear` |
| xray, seen by `poll_fn` | `XrayDies` |

The test of `_stop_event` inside `_state_lock` and the write of the state are two
steps, `Detect` and `Commit`, with the lock held between them (`StateLockFree`
guards every other user of the lock): the event is set without that lock.
`start_process_watcher` is one step because it holds `_watcher_lock` throughout
and changes something only when no thread is alive.  Identities of watcher
threads are reused once dead.

Left out: texts of reasons, `interval_seconds` and its check, console output, and a
thread that cannot be started (`ConnectionLifecycle` has it).  The target is a pair (interface, uid); pairs
whose uid is None are `NoUid`, for which no rule can be built.  iptables is
external: an insertion works or fails, a deletion fails if the rule is not there
and may fail if it is.

### ConnectionLifecycle

One coroutine, so one program counter `at`, together with `stage` (start,
`_rollback` or cleanup).  A step runs from one point where the outside can be
seen to the next: an await, or a call that starts, stops or polls something.

| code | actions |
|---|---|
| `start` | `StartProcess`, `Connect`, `AddFirst`, `EnableKillSwitch`, `RegisterSignals` |
| `_watch_loop`, `_failover_loop` | `Loop`, `Check`, `CheckRaises`, `SwitchRemove`, `SwitchAdd`, `RecoverRemove`, `RecoverAdd`, `CheckWatcher`, `Wait` |
| `_cleanup_resources`, `cleanup` | `Unwatch`, `SkipUnroute` or `Unroute`, `Disengage`, `SkipHalt` or `Halt`, `SkipUnblock` or `Unblock`, `Finish` |
| `CancelledError` at an await | `Cancelled` |
| outside | `XrayDies`, `Trip`, `WatcherEnds`, `Interrupt`, `StopSignal`, `FatalSignal` |

`_cleanup_resources` and `cleanup` take the same steps in the same order; the first
asks the ownership flags before each of them and clears them after it, the second
asks only `_killswitch_enabled`.  The actions say which by `stage`.

* *Ctrl-C* cancels the main task (`asyncio.run` of Python 3.11 and later): the
  cancellation waits in `pending` for the next await and is delivered there,
  whatever the awaited call has done by then (`Effects`).  A second Ctrl-C is
  modelled the same way; that it can also interrupt synchronous code is not.
* *SIGTERM and SIGHUP* set `_stop_event` while the handlers are registered; before
  that and after cleanup's first step they kill the program.
* *xray* holds at most one outbound under the active tag; adding a tag twice fails,
  every call to a dead process fails, and any call may fail.  A call that fails
  has no effect on xray.
* *The kill-switch* is reduced to phase, rules, `kernel` (the manager's
  `kernel_capable`) and watcher, with the outcomes that `KillSwitch` gives its
  operations; `enable` raises nothing for a new manager.  A watcher is `"unborn"`
  after a failed `thread.start()`: the manager has stored it before
  (`killswitch_manager.py:289`), and joining it raises from then on.  So
  `stop_watcher` raises, and `disable` does, after it has removed the rules, in
  rollback and again in cleanup; the second time the removal itself fails, which
  is logged, and ownership is given up, unless the switch is in software mode and
  has no rules to remove: then it raises again and is never given up.  The kernel has
  no rules but the session's own; several processes are `KillSwitchCommand`'s.
* *close* has nothing to wait for, the engine client has no `close` method.

Left out: the events other than ERROR, texts, the temporary directory (its removal
is one more reason for `Halt` to fail), the attempts inside `connect_with_retry`.

### Failover

Profiles are numbered in the order of their ids, a result is a latency or None.
The reference for `pick_best_alternative` is its `min` over `(latency, id)`.

### GuiWorker

Two threads and what is between them.  The window's part is `Select`, `Connect`,
`Disconnect` and `QueueCancel` (`stop` sets the event and then queues the callback:
two steps), `Deliver` (a queued signal reaches its slot), `CloseWindow` and `Waited`.
The worker has the program counter `at` and, as in `ConnectionLifecycle`, a `stage`.

| code | actions |
|---|---|
| `run`, `_run_connect` | `Boot`, `NothingToSpawn`, `Spawn`, `Ready`, `ConnectClient`, `AddFirst`, `Arm` |
| `_simple_watch_loop`, `_failover_loop`, `_async_failover_check` | `Loop`, `Check`, `CheckFails`, `SwitchRemove`, `SwitchAdd`, `RecoverRemove`, `RecoverAdd` |
| `wait_for` and cancellation | `TimesOut`, `Cancelled` |
| handler of `_run_connect`, `_cleanup`, `_async_cleanup` | `Tidy`, `Unroute`, `CutShort`, `Unwatch`, `SkipUnblock`, `Unblock`, `SkipHalt`, `Halt`, `Report`, `Close`, `End` |
| outside | `XrayDies`, `StrayDies`, `Trip`, `WatcherEnds` |

The loop of the worker runs only during a `run_until_complete`; a callback queued in
between waits (`cancel`) and cancels whatever coroutine runs next, `_async_cleanup`
included.  A cancellation or a timeout may find the awaited call done or not done
(`Effects`).  `wait_for` is that of Python 3.12, which does not swallow a
cancellation.  Which of the two watch loops runs follows from `opts`.

A window that closes drops its clicks (`Closing`): nothing it does from then on depends
on which profile is selected.  A callback that was queued after the coroutine's last
step goes with the loop in `Close`.

`stray` is an xray that an earlier session left running.  It has the port, the new
session's own xray does not get it (`bound`), and the new client talks to the old
process.  `seen` is history: what befell the session that a property excuses.

Left out: status texts, dialogs, latency signals, sorting and deselection in the
table, and the rules that an earlier session's manager could not remove (they are
`KillSwitchCommand`'s).

### AndroidVpn

A coroutine is a record of `job`: its next step and its service.  Steps are those of
`connect` and `disconnect` between which another coroutine can run.  `Dial` is
`connectEngineWithRetry` with all attempts and `addOutbound`; closing the interface
and dropping the client are one step.  Any step of `connect` may fail (`Failed`) and
then continues with `disconnect`.  `Revoke` includes what Android's own `onRevoke`
does, which stops the service; its `Destroy` comes later.  The tunnel thread enters
native code in `TunnelStarts`, after the step that starts it.  The native tunnel and
the dialog are external.

`clash` and `mishap` record where a connect met another coroutine: the code has no
mutual exclusion, and the properties say what holds as long as none met, except
`NotStuck`, which holds always.

### ProfileStore

A process reads the file, changes what it has read, writes and flushes a temporary
file, renames it and flushes the directory.  `file` is what processes see, `durable`
what the directory on the disk names: `PowerFails` ends every process and leaves
either, and of an unflushed file any part (`Torn`).  Every step may fail, `Kill`
may come at any of them.  The salt, which is in the file it belongs to, and leftover
temporary files are left out.

### AndroidProfiles

Every tap is a coroutine: load, save, load again, show.  A save is in `prefs` at once
and on the `disk` later (`SharedPreferences.apply`); `Restart` is a kill and a new
start.  `behind` holds the coroutines whose loaded profiles have been replaced since.

### Links

A link is a record of what parsers and engine tell apart.  A value is a text and
whether there are blanks around it; the text is a class (good, bad, a name) and not
its characters.  A query parameter may be absent, blank, without `=`, or repeated:
`first` and `last` are what the desktop and the phone read of it.  `takes` says which
URI class finds scheme, host and a port's digits in the link: `urlparse` and
`java.net.URI` differ over raw blanks, illegal characters and underscores in a host
name, so a link may pass either one alone.

Operators say what each parser accepts and makes of it, with the desktop's trimming
and the phone's second decoding of spider-x, and what the engine refuses; the two
profiles that are compared have every field that reaches the engine, the tag, which is
a constant, excepted.  Four actions read and use the link on either device.  `"used"`
means that the engine has built an outbound; what the server says to it is outside.
Spider-x that cannot be decoded a second time throws an exception that nobody catches
(`"crashed"`).

### KillSwitchCommand

The steps of `activate` and `deactivate`, command by command, for several processes:
`killswitch enable`, a `connect` session, which deactivates again in cleanup if the
watcher could not be stopped in rollback, and the window's worker, whose handler and
`_cleanup` may both deactivate.  `Disable` removes nothing: a new manager is
inactive and finds nothing to do.  The watcher appears only where it keeps a removal
from being final.

## 4. Runs

| run | shows |
|---|---|
| `kill_switch` | type, five safety invariants of rules and threads, a true stop report, refinement of the contract, and that a death is noticed |
| `kill_switch_off_clean` | violated: a half applied activation leaves its OUTPUT rule behind when the switch is off |
| `kill_switch_trip_survives` | violated: deactivate overwrites a trigger that came while it worked |
| `connection` | what is left at the end, also after a watcher that could not be started, which outbound is in use, the order of unblocking, refinement of both contracts, the end after xray's death |
| `connection_cleanup_cut` | violated: Ctrl-C during cleanup leaves process, client and kill-switch, and still ends with CLEANUP_DONE |
| `connection_disable_silent` | violated: a kill-switch that stays on after cleanup is reported by no ERROR |
| `connection_block_lifted` | violated: xray dies, the switch trips, and cleanup lifts the block although nobody asked |
| `gui` | what a session leaves, its outbound after any switches, its watcher, its button, refinement of both contracts over several sessions, and that a session ends |
| `gui_cleanup_cut` | violated: the callback that Disconnect queues cancels `_async_cleanup`, and the process is not stopped |
| `android` | a screen that is not left busy and tells the truth, all of a connection or nothing, a tunnel over an open interface, processes lost from sight |
| `parts` | the profile file under kills and power failures, the phone's preference and list, refinement of one contract by both stores, links on both platforms, kill-switches of several processes |
| `kill_switch_command_disable` | violated: `killswitch disable` says that it has disabled the switch and removes no rule |

The violated properties quote what the code, a test or a document says; the finding
in `PROJECT.json` gives the quote and the line where the code differs.  Linux
registers the `owner` match for OUTPUT and POSTROUTING only, so the second command
of an activation, which uses it on INPUT, is likely to be refused on a stock kernel;
the first of these runs then is the normal case and not the rare one.

Several invariants hold only up to a named history: `RouteFollowsProfile` unless a
switch timed out half-way, `SuccessLasts` unless two commands raced, `EditsLast`
unless two edits overlapped.  The exceptions are what the code allows; with one of
them removed TLC finds the behaviour in a few steps.

**Bounds of `MCKillSwitch`.**  Two targets, one with and one without a uid, because
the only thing an operation asks of another target is whether it is the same one.
Two threads: `OneWatcher` is about a second one, a third could only appear after
it.  `MaxDup` = 2 copies of one rule in the kernel: an activation after a failed
removal inserts the second copy, so duplicates occur; further copies repeat it.

**Bounds of `MCConnection`.**  Three profiles, so that the choice has two
alternatives, latencies that can tie, a threshold of 2, so that counting matters,
every initial profile and every combination of the two flags.  Two interrupts: one
can cancel start and the next its rollback, or one can cancel a failed start's
rollback and the next cleanup.  The death of xray happens once; the number of
rounds and switches is not bounded.  361,000 states.

**Bounds of `MCGui`.**  Two sessions (`MaxSessions`), as a session meets only what the
one before it left, one signal not yet delivered when Connect is clicked
(`MaxStale`), two profiles, one latency and a threshold of 2.  446,000 states.

**Bounds of `MCAndroid`.**  Two services, the old one and the new one, and two
coroutines at a time, which is what a clash needs.  A service that has clashed is
not made anew.  Deaths, revocations and connections are not bounded.  2.9 million
states, under symmetry.

**Bounds of `MCParts`.**  Two processes with two profiles and two passwords, two
coroutines with two profiles, two processes with two targets and three activations
(`MaxStarts`: two sessions and an enable that outlives its process).  Links: of
each field the values that a parser or the engine tells apart, among them 65535 and
65536 as ports and both orders of two values of one parameter; every link that
differs from a good one in at most two fields, 4826 of them.  A parser's test is a
conjunction over fields, so one unusual field shows each cause and two show those
that hide each other; the theorems are about any combination.  One million states
together.

**Fairness.**  `KillSwitch`: weak fairness of each watcher thread's step: the OS runs
started threads and `poll_fn` is `subprocess.poll`, which returns.  Nothing makes
the caller call, xray die or a command succeed.  `ConnectionLifecycle`: weak
fairness of the coroutine, except in a call to the engine while xray runs and no
cancellation is pending.  Health checks, waits, joins and stops carry timeouts in
the code, gRPC calls carry none, so an xray that runs and does not answer may hold
the program for good; for the same reason no property says that a stop request
ends the connection.  Once xray is gone its connection breaks and calls fail.
`GuiWorker`: weak fairness of the worker and of the watcher; here every await has a
timeout of its own, so that a stop request does end the session.  Nothing makes the
window's user click or xray die.

Deadlock is checked in every run; `Ended`, `Rest`, `PhoneRest`, `StoreRest` and
`LinksRest` are programs with nothing left that must happen.

## 5. Proofs

`KillSwitch_proofs` holds for any set of targets, any set of thread identities and
any `MaxDup`, under the assumptions that `KillSwitch` names (`NoUid` is a subset of
`Targets`, `None` is neither a target nor a thread).  The invariant is

    IInv == TypeOK /\ Ownership /\ Watching /\ Egress /\ Ingress /\ Reports

None of the checked invariants is inductive alone.  `Ownership` says who may
change what: a switch is inactive while an activation is under way, the target of a
removal is the target of the state, a thread about to commit has seen an active
switch and holds the lock.  `Watching` says that a live thread is the one
`_watcher_thread` names, which is what makes a join mean something.  `Egress` adds
to `EgressBlockedFirst` the strict inequality in the middle of an activation and of
a removal.  `Ingress` says that an INPUT rule belongs to the switch in force, and
that it is there at most once.  `Reports` are the two invariants about
`watcher_state` and the result of a stop.  There is one lemma per conjunct, with
one case per action; `Inductive` puts them together.

| theorem | property |
|---|---|
| `TypeCorrect` | `TypeOK` |
| `EgressFirst` | `EgressBlockedFirst` |
| `StaysEnforced` | `Enforced` |
| `NoIngressRuleOutlives` | `NoIngressLeak` |
| `AtMostOneWatcher` | `OneWatcher` |
| `RunningMeansWatched` | `RunningIsWatched` |
| `StopReportsAreTrue` | `StopReportIsTrue` |
| `RefinesContract` | `ImplementsContract`: each action maps to `Arm`, `Trip`, `Disarm` or a stutter |

`Failover_proofs` holds for any profile numbers and any latencies.  `PickBestIsBest`: for
any results, `PickBest` answers None only when no other profile was reached, and
otherwise one that no candidate precedes by (latency, id).  That there is a first one
comes from the well-foundedness of `<` on the naturals (`Least`).  Both clients' types
rest on it, as `best` must be a profile where a switch begins.

`ConnectionLifecycle_proofs` holds for any finite or infinite set of profile numbers,
any latencies, any threshold of at least one and any number of interrupts, under the
assumptions that `Failover` and `ConnectionLifecycle` name.  The invariant is

    IInv == TypeOK /\ Place /\ Progress /\ Route /\ Counting /\ Unarmed

`Place` says which places belong to which stage and that a cleanup that was cut short
has nothing left to do.  `Progress` is what makes the end clean: behind each step
of rollback and cleanup the client, the process and the ownership it handles are
gone, or the failure is in `errors`; xray does not run without its handle unless
its stop raised, and a disable that raised has left a watcher that never started and
no rule of a kernel switch.  `Route` says what the loops rely on, also between the two halves of
a switch, and `Counting` that a switch starts exactly at the threshold and only
with a profile chosen.  `Unarmed`: the kill-switch is off until `EnableKillSwitch`, and
that step is reached only if it was asked for.  There is again one lemma per
conjunct.

`KeepsItsContracts` is proved by two lemmas over the invariant.  `ContractStep` has a
case for each action and names the step of `ConnectionContract` it is: `StartProcess`
and `Connect` take, `AddFirst` or `EnableKillSwitch` comes up or fails, `SwitchAdd` is a
`Switch` or a stutter, `Disengage`, `Halt` and `Unblock` are each a `TryGiveBack`, and
`Finish` closes.  The close needs `Progress` (what is still held is accounted for),
coming up needs `Unarmed`, the loops need `Route`.  `ShieldStep` does the same for
`KillSwitchContract`.

| theorem | property |
|---|---|
| `TypeCorrect` | `TypeOK` |
| `EndsClean` | `NothingLeftBehind` |
| `LoopsOverTheActiveRoute` | `RouteIsTheActiveOne` |
| `UnblocksLast` | `UnblockedLast` |
| `KeepsItsContracts` | `ImplementsContracts` |

`Stores_proofs` holds for any sets of processes, profiles and passwords.  The invariant
of `ProfileStore` is

    StoreIInv == StoreTypeOK /\ Whole /\ Identity /\ Reading /\ Effects /\ Protected

`Whole`: no file is torn, what the two names stand for was flushed, and so was a
temporary file about to be renamed.  `Identity`: a profile that is not made yet is
nowhere, one process adds it, and who removes it has read it.  `Reading`: who holds a
reading that is not stale holds what is in the file.  `Effects` carries `SuccessLasts`
through the steps between a rename and the report.  `Protected`: once there is a
file on the disk there is one for the processes, under the same password unless two
of them raced.

| theorem | property |
|---|---|
| `StoreTypeCorrect` | `StoreTypeOK` |
| `FileIsWhole` | `NeverTorn` |
| `WhatIsReportedLasts` | `SuccessLasts` |
| `FileIsAStore` | `FileIsAtomic`, and with `PreferenceIsAStore` the run's `StoresAreAtomic` |

For `FileIsAStore` the steps of a process are stutters up to its rename, which is an
`Add` or a `Remove` if its reading is not stale and an `Overlap` if it is; `Flush` is a
flush, and a power failure is a `Crash` because of `Whole`.

The same module holds for any sets of coroutines and profiles of `AndroidProfiles`, with

    PhoneIInv == PhoneTypeOK /\ Known /\ Apart /\ UpToDate /\ Coming /\ EditsLast

`Known`: nobody has seen a profile that was never made.  `Apart`: a profile is nowhere
before its one addition is saved, and nobody else edits it.  `UpToDate`: who is not
behind has loaded what is stored.  `Coming`: if the screen is out of date, a
coroutine is about to set it, or one that was behind has set it last.

| theorem | property |
|---|---|
| `PhoneTypeCorrect` | `PhoneTypeOK` |
| `ScreenIsRight` | `ScreenShowsStored` |
| `EditsAreKept` | `EditsLast` |
| `PreferenceIsAStore` | `PreferenceIsAtomic` |

`Parts_proofs` holds for every set of links and names: any port, any mixture of padded,
blank, missing and repeated values.  The invariant of `Links` says that a verdict is
what the parser and the engine make of the link.  The lemmas are about one parameter:
what trimming leaves of it (`TrimmedText`), and that one that is given once and
unpadded reads the same on both devices (`ReadAlike`).  About the composition
it says what follows for its parts: a behaviour of `MCParts` is one of each of them
(`PartsAreParts`).

| theorem | property |
|---|---|
| `StoresWhatWorks` | `StoredIsUsable` |
| `DifferencesAreKnown` | `RefusedElsewhere` |
| `DevicesAgree` | `SameServerOnBoth` |
| `TypeCorrect` | `TypeOK` of `MCParts`, that is of all four parts |
| `StoresAreStores` | `StoresAreAtomic` |

`GuiWorker_proofs` holds for any profiles, latencies and threshold, any number of sessions
and of undelivered signals, with

    GuiIInv == TypeOK /\ Choice /\ Progress /\ Route /\ Watched /\ Unarmed /\ Button

`Choice`: a session under way is one of those counted, has a profile, and has chosen
another where a switch begins; without it the types of `profile` and `outbound` are not
inductive.  The type is proved in three groups, flags, steps and values, and its part
`Shapes` is all that most of the other conjuncts need.  `Progress`: what a session has
let go of by each step of its end; an xray runs without its handle only if its stop
raised.  `Route`: an xray of an earlier session and one of this session never both have
the port, so that whichever serves it, its outbound is that of the profile from the
moment it was added, except between the halves of a switch.  `Button`: the window has an
end of the current session in its inbox only once the worker has left its loops, and no
call of `stop` is half done before the event is set.  `CleaningStays` sums up the eleven
steps that end a session.

`KeepsItsContracts` goes as for the command line.  A connect click is the contract's
`Begin`, which forgets what the session before could not give back; a closed window
whose worker still runs is `Killed`; a callback that cancels `_async_cleanup` is
`CutShort`.

| theorem | property |
|---|---|
| `EndsWithout` | `EndsReleased` |
| `RouteIsRight` | `RouteFollowsProfile` |
| `StaysWatched` | `ConnectedIsWatched` |
| `StaysDisconnectable` | `DisconnectStaysOn` |
| `StrayIsExplained` | `StrayHasACause`, which no run checks: an xray is handed on only where the contract has it in `spoiled` |
| `TypeCorrect` | `TypeOK` |
| `KeepsItsContracts` | `ImplementsContracts` |

`AndroidVpn_proofs` holds for any sets of services and coroutines, with

    VpnIInv == TypeOK /\ Busy /\ Alone /\ Progress /\ Whole /\ Reading /\ Shown

`Busy`: while the screen shows a passing state, a coroutine is about to replace it.
`Alone`: without a clash a connect shares its service with no other coroutine.
`Progress`: what a service holds fits the step its coroutines are at; this is what
makes `AllOrNothing` inductive, as every failure enters `disconnect` at its start.
`Whole`: a service without coroutines holds everything or nothing, and nothing once
it is destroyed.  `Reading`: the native tunnel, and a thread about to start it,
belong to a service that holds the interface.  `Shown`: one service at a time is in
use, and the screen follows it.

| theorem | property |
|---|---|
| `TypeCorrect` | `TypeOK` |
| `NeverLeftBusy` | `NotStuck` |
| `AllOrNothingHolds` | `AllOrNothing` |
| `ScreenIsTrue` | `ScreenTellsTheTruth` |
| `TunnelReadsOpenly` | `TunnelReadsAnOpenTun` |
| `OrphansHaveACause` | `OrphanHasACause` |

`KillSwitchCommand_proofs` holds for any finite set of processes, any targets and any
`MaxStarts`, with

    CommandIInv == Shapes /\ Bounded /\ Egress /\ Blocked /\ Exact

The rules of one target look alike, so nobody can tell whose a rule is; the
invariants therefore count.  `Bounded`: rules in the kernel and processes about to add
one are together no more than the activations begun.  `Egress`: a target has at
least as many OUTPUT rules as INPUT rules and processes between the two.
`Blocked`: the rules that enable commands left come on top of those that sessions
hold, and therefore stay when each session takes its own.  `Exact`: while nothing has
gone wrong there are no others.  `CountsChange` is the lemma all of them rest on: a
step moves one process, and so changes each count by at most one.

| theorem | property |
|---|---|
| `CommandTypeCorrect` | `CommandTypeOK` |
| `EgressComesFirst` | `EgressFirst` |
| `EnabledStaysBlocked` | `CommandBlockStays` |
| `LeftoversAreExplained` | `LeftoversHaveACause` |

Liveness under fairness is out of the prover's reach: `DeathIsDetected`,
`DeathEndsConnection` and `SessionEnds` are model-checked only.  Every other property of a
passing run has its theorem.

## 6. Not modelled

* *Health check*: one TCP connect with a timeout; its result is an input of
  `Failover`.  The batch has no state.
* *xray configuration and DNS guard*: pure functions that build text from constants.
* *Doctor, configuration, command line*: sequential reads of the environment.
* *Table and chart of the window*: drawing; a selection is an input of `GuiWorker`.
* *Engine bindings, errors, statistics*: conversions and queries that change nothing.
* *Inside the parts that are modelled*: the drain threads and the search for the binary
  of `xray_manager.py`, the attempts inside `connect_with_retry`, texts and logging,
  a second Ctrl-C that interrupts synchronous code.
* *A call that an xray which runs never answers*: `ConnectionLifecycle` leaves out the
  fairness of that step; it says nothing more about it.
* Protocol definitions, build files, workflows, scripts, resources: not program logic.

## 7. Running

    tlc -config MCKillSwitch.cfg MCKillSwitch.tla
    tlc -config MCConnection.cfg MCConnection.tla
    tlc -config MCGui.cfg MCGui.tla
    tlc -config MCAndroid.cfg MCAndroid.tla
    tlc -config MCParts.cfg MCParts.tla
    tlapm KillSwitch_proofs.tla         (and so for every *_proofs module)

The other `.cfg` files belong to the violated properties.  In the sections "Faulty
variants" of the modules are plausible bugs; with one of them in place of the
operation it varies, the property listed with it in `PROJECT.json` is violated.
