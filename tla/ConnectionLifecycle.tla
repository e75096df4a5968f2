------------------------ MODULE ConnectionLifecycle ------------------------
(***************************************************************************)
(* ConnectionService (orchestrator/bimarz/connection.py) as `bimarz        *)
(* connect` runs it: start, the watch or failover loop, the rollback of    *)
(* what start acquired, and cleanup, over the process, engine and          *)
(* kill-switch services.                                                   *)
(*                                                                         *)
(* One coroutine does all this.  It is one step from one point where the   *)
(* outside world can be seen to the next: an await, or a call that starts, *)
(* stops or polls something.  Ctrl-C cancels the coroutine at its next     *)
(* await; SIGTERM sets _stop_event while its handler is registered and     *)
(* kills the program otherwise.  The kill-switch appears as the states and *)
(* outcomes that KillSwitch.tla gives its operations.                      *)
(***************************************************************************)
EXTENDS Failover

CONSTANTS MaxInterrupts   \* bound: times Ctrl-C is pressed

ASSUME InterruptsAssumption == MaxInterrupts \in Nat

VARIABLES opts,       \* --auto-failover and --killswitch
          at,         \* what the coroutine does next
          stage,      \* whether it does that in start, _rollback or cleanup
          raising,    \* the exception start ends with
          cut,        \* history: a cancellation ended cleanup half-way
          owned,      \* the _owned flags and _killswitch_enabled
          errors,     \* cleanup steps that failed, of _rollback and of cleanup
          reported,   \* an ERROR event was emitted
          held,       \* ProcessService._proc is set
          client,     \* EngineService._engine is set
          stop,       \* _stop_event
          signals,    \* _signals_registered
          pending,    \* a cancellation waits for the next await
          interrupts, \* Ctrl-C presses so far
          proc,       \* the xray process
          outbound,   \* the profile behind the active outbound's tag in xray
          ks,         \* the kill-switch, in the phases of its contract
          rules,      \* its iptables rules
          kernel,     \* it holds those rules: the manager's kernel_capable
          watching,   \* its watcher thread: "told" when it is about to end,
                      \* "unborn" when the manager keeps one that never started
          active,     \* FailoverManager._active_profile_id
          failures,   \* FailoverManager._consecutive_failures
          best        \* the profile a switch is heading for

schedule == <<stop, signals, interrupts>>
xray == <<proc, outbound>>
shield == <<ks, rules, kernel, watching>>
failover == <<active, failures, best>>
services == <<owned, held, client>>
outcome == <<raising, cut, errors, reported>>
vars == <<opts, at, stage, pending, schedule, xray, shield, failover, services, outcome>>

StartSteps == {"process", "connect", "add", "enable", "signals"}
LoopSteps == {"loop", "check", "switchRemove", "switchAdd", "recoverRemove",
              "recoverAdd", "alive", "wait"}
CleanupSteps == {"unwatch", "unroute", "disengage", "halt", "unblock", "finish"}
Over == {"exited", "killed"}
Resources == {"process", "engine", "outbound", "killswitch"}

\* One invariant per module says what the variables may hold.
TypeOK == /\ opts \in [failover : BOOLEAN, killswitch : BOOLEAN]
          /\ at \in StartSteps \cup LoopSteps \cup CleanupSteps \cup Over
          /\ stage \in {"start", "rollback", "cleanup"}
          /\ raising \in {"none", "error", "cancel"}
          /\ owned \subseteq Resources
          /\ errors \subseteq {"watcher", "outbound", "process", "killswitch"}
          /\ cut \in BOOLEAN /\ reported \in BOOLEAN
          /\ held \in BOOLEAN /\ client \in BOOLEAN
          /\ stop \in BOOLEAN /\ signals \in BOOLEAN /\ pending \in BOOLEAN
          /\ interrupts \in 0..MaxInterrupts
          /\ proc \in {"none", "running", "gone"}
          /\ outbound \in Profiles \cup {None}
          /\ ks \in {"off", "armed", "tripped"}
          /\ rules \in {"none", "partial", "full"}
          /\ kernel \in BOOLEAN
          /\ watching \in {"no", "yes", "told", "unborn"}
          /\ active \in Profiles
          /\ failures \in 0..Threshold
          /\ best \in Profiles \cup {None}

Init == /\ opts \in [failover : BOOLEAN, killswitch : BOOLEAN]
        /\ at = "process" /\ stage = "start" /\ raising = "none"
        /\ owned = {} /\ errors = {}
        /\ cut = FALSE /\ reported = FALSE /\ held = FALSE /\ client = FALSE
        /\ stop = FALSE /\ signals = FALSE /\ pending = FALSE /\ interrupts = 0
        /\ proc = "none" /\ outbound = None
        /\ ks = "off" /\ rules = "none" /\ kernel = FALSE /\ watching = "no"
        /\ active \in Profiles /\ failures = 0 /\ best = None

-----------------------------------------------------------------------------
Running == proc = "running"
Goto(step) == at' = step /\ UNCHANGED <<stage, raising>>

\* start ends, by an exception that _rollback answers or by leaving its loop.
Raise(kind) == at' = "unwatch" /\ stage' = "rollback" /\ raising' = kind
Leave == at' = "unwatch" /\ stage' = "cleanup" /\ UNCHANGED raising

\* xray's handler service: a tag is added once, and a call to a process that is
\* gone fails.  Any call may also fail while xray runs, and leaves it as it is.
AddOutbound(p) == Running /\ outbound = None /\ outbound' = p
RemoveOutbound == Running /\ outbound' = None

\* The caller of remove_outbound waits for an answer if there is a client and,
\* in _rollback, an outbound to remove.
Unrouting == /\ at = "unroute"
             /\ client
             /\ stage = "cleanup" \/ "outbound" \in owned
Calling == at \in {"connect", "add", "switchRemove", "switchAdd",
                   "recoverRemove", "recoverAdd"} \/ Unrouting
Awaiting == Calling \/ at \in {"check", "wait"}

\* What a cancelled call has done by the time the cancellation arrives.
Wanted == IF at = "switchAdd" THEN best ELSE active
Effects == {outbound} \cup
    CASE ~Running -> {}
      [] at \in {"add", "switchAdd", "recoverAdd"} -> IF outbound = None THEN {Wanted} ELSE {}
      [] at \in {"switchRemove", "recoverRemove"} \/ Unrouting -> {None}
      [] OTHER -> {}

-----------------------------------------------------------------------------
(* Faulty variants of the steps below; each breaks a property.             *)

\* trigger_failover that keeps the count of failures.
SwitchKeepsCount == /\ at = "switchAdd" /\ ~pending
                    /\ \/ /\ AddOutbound(best)
                          /\ owned' = owned \cup {"outbound"}
                          /\ active' = best /\ best' = None /\ UNCHANGED failures
                          /\ Goto("alive")
                       \/ UNCHANGED <<outbound, owned, failover>> /\ Goto("recoverAdd")
                    /\ UNCHANGED <<opts, pending, schedule, proc, shield, held, client,
                                   cut, errors, reported>>

\* a failover loop that carries on after a failed switch.
RecoverAndStay == /\ at = "recoverAdd" /\ ~pending
                  /\ \/ AddOutbound(active) /\ owned' = owned \cup {"outbound"}
                     \/ UNCHANGED <<outbound, owned>>
                  /\ reported' = TRUE
                  /\ Goto("alive")
                  /\ UNCHANGED <<opts, pending, schedule, proc, shield, failover, held,
                                 client, cut, errors>>

\* a loop that asks only the stop event.
LoopIgnoresProcess == /\ at = "loop"
                      /\ IF stop THEN Leave
                         ELSE Goto(IF opts.failover THEN "check" ELSE "alive")
                      /\ UNCHANGED <<opts, pending, schedule, xray, shield, failover,
                                     services, cut, errors, reported>>

\* a stop that sends the signal and does not wait.
HaltWithoutWait == /\ at = "halt" /\ held
                   /\ held' = FALSE
                   /\ owned' = IF stage = "rollback" THEN owned \ {"process"} ELSE owned
                   /\ Goto("unblock")
                   /\ UNCHANGED <<opts, pending, schedule, xray, shield, failover, client,
                                  cut, errors, reported>>

\* a cleanup that ends with the first operation that fails.
UnrouteGivesUp == /\ Unrouting /\ ~pending
                  /\ \/ /\ RemoveOutbound
                        /\ owned' = IF stage = "rollback" THEN owned \ {"outbound"} ELSE owned
                        /\ Goto("disengage") /\ UNCHANGED errors
                     \/ /\ errors' = errors \cup {"outbound"}
                        /\ Goto("finish") /\ UNCHANGED <<outbound, owned>>
                  /\ UNCHANGED <<opts, pending, schedule, proc, shield, failover, held, client,
                                 cut, reported>>

\* a caller that does not use the service as a context manager.
CancelledIsFinal == /\ Awaiting /\ pending
                    /\ pending' = FALSE
                    /\ outbound' \in Effects
                    /\ \/ stage = "start" /\ Raise("cancel") /\ UNCHANGED cut
                       \/ stage = "rollback" /\ Goto("exited") /\ UNCHANGED cut
                       \/ stage = "cleanup" /\ Goto("finish") /\ cut' = TRUE
                    /\ UNCHANGED <<opts, schedule, proc, shield, failover, services, errors,
                                   reported>>

-----------------------------------------------------------------------------
(* start                                                                   *)

StartProcess == /\ at = "process"
                /\ \/ /\ proc' = "running" /\ held' = TRUE
                      /\ owned' = owned \cup {"process"}
                      /\ Goto("connect")
                   \/ Raise("error") /\ UNCHANGED <<proc, held, owned>>
                /\ UNCHANGED <<opts, pending, schedule, outbound, shield, failover, client,
                               cut, errors, reported>>

\* All attempts of connect_with_retry together.
Connect == /\ at = "connect" /\ ~pending
           /\ \/ /\ Running /\ client' = TRUE
                 /\ owned' = owned \cup {"engine"}
                 /\ Goto("add")
              \/ Raise("error") /\ UNCHANGED <<client, owned>>
           /\ UNCHANGED <<opts, pending, schedule, xray, shield, failover, held,
                          cut, errors, reported>>

AddFirst == /\ at = "add" /\ ~pending
            /\ \/ /\ AddOutbound(active)
                  /\ owned' = owned \cup {"outbound"}
                  /\ Goto(IF opts.killswitch THEN "enable" ELSE "signals")
               \/ Raise("error") /\ UNCHANGED <<outbound, owned>>
            /\ UNCHANGED <<opts, pending, schedule, proc, shield, failover, held, client,
                           cut, errors, reported>>

\* enable always arms the switch: in the kernel, or in software mode with or
\* without a rule of a failed attempt.  Only the watcher's thread may not start,
\* and the manager has stored it by then.
EnableKillSwitch == /\ at = "enable"
                    /\ ks' = "armed"
                    /\ \/ kernel' = TRUE /\ rules' = "full"
                       \/ kernel' = FALSE /\ rules' \in {"none", "partial"}
                    /\ owned' = owned \cup {"killswitch"}
                    /\ \/ watching' = "yes" /\ Goto("signals")
                       \/ watching' = "unborn" /\ Raise("error")
                    /\ UNCHANGED <<opts, pending, schedule, xray, failover, held, client,
                                   cut, errors, reported>>

RegisterSignals == /\ at = "signals"
                   /\ signals' \in BOOLEAN
                   /\ Goto("loop")
                   /\ UNCHANGED <<opts, pending, stop, interrupts, xray, shield, failover,
                                  services, cut, errors, reported>>

-----------------------------------------------------------------------------
(* _watch_loop and _failover_loop                                          *)

Loop == /\ at = "loop"
        /\ IF stop \/ ~Running THEN Leave
           ELSE Goto(IF opts.failover THEN "check" ELSE "alive")
        /\ UNCHANGED <<opts, pending, schedule, xray, shield, failover, services,
                       cut, errors, reported>>

\* A round of health checks and what follows from it: go on, switch, or leave
\* with an ERROR because no other profile can be reached.
Check == /\ at = "check" /\ ~pending
         /\ \E results \in Results :
              LET alternative == PickBest(active, results)
              IN /\ failures' = Recorded(failures, results[active])
                 /\ IF ShouldFailover(failures')
                    THEN IF alternative = None
                         THEN Leave /\ reported' = TRUE /\ UNCHANGED best
                         ELSE Goto("switchRemove") /\ best' = alternative
                                /\ UNCHANGED reported
                    ELSE Goto("alive") /\ UNCHANGED <<best, reported>>
         /\ UNCHANGED <<opts, pending, schedule, xray, shield, active, services, cut, errors>>

CheckRaises == /\ at = "check" /\ ~pending
               /\ Raise("error")
               /\ UNCHANGED <<opts, pending, schedule, xray, shield, failover, services,
                              cut, errors, reported>>

SwitchRemove == /\ at = "switchRemove" /\ ~pending
                /\ \/ RemoveOutbound /\ owned' = owned \ {"outbound"} /\ Goto("switchAdd")
                   \/ UNCHANGED <<outbound, owned>> /\ Goto("recoverRemove")
                /\ UNCHANGED <<opts, pending, schedule, proc, shield, failover, held, client,
                               cut, errors, reported>>

SwitchAdd == /\ at = "switchAdd" /\ ~pending
             /\ \/ /\ AddOutbound(best)
                   /\ owned' = owned \cup {"outbound"}
                   /\ active' = best /\ failures' = 0 /\ best' = None
                   /\ Goto("alive")
                \/ UNCHANGED <<outbound, owned, failover>> /\ Goto("recoverAdd")
             /\ UNCHANGED <<opts, pending, schedule, proc, shield, held, client,
                            cut, errors, reported>>

\* Recovery removes an outbound that is still owned and adds the old one back,
\* whether or not the removal worked; the loop ends in every case.
RecoverRemove == /\ at = "recoverRemove" /\ ~pending
                 /\ \/ RemoveOutbound /\ owned' = owned \ {"outbound"}
                    \/ UNCHANGED <<outbound, owned>>
                 /\ Goto("recoverAdd")
                 /\ UNCHANGED <<opts, pending, schedule, proc, shield, failover, held, client,
                                cut, errors, reported>>

RecoverAdd == /\ at = "recoverAdd" /\ ~pending
              /\ \/ AddOutbound(active) /\ owned' = owned \cup {"outbound"}
                 \/ UNCHANGED <<outbound, owned>>
              /\ reported' = TRUE
              /\ Leave
              /\ UNCHANGED <<opts, pending, schedule, proc, shield, failover, held, client,
                             cut, errors>>

CheckWatcher == /\ at = "alive"
                /\ IF ks # "off" /\ watching \in {"no", "unborn"} THEN Leave ELSE Goto("wait")
                /\ UNCHANGED <<opts, pending, schedule, xray, shield, failover, services,
                               cut, errors, reported>>

\* wait_for(_stop_event.wait(), timeout)
Wait == /\ at = "wait" /\ ~pending
        /\ \/ stop /\ Leave
           \/ Goto("loop")
        /\ UNCHANGED <<opts, pending, schedule, xray, shield, failover, services,
                       cut, errors, reported>>

-----------------------------------------------------------------------------
(* _cleanup_resources, called by _rollback, and cleanup.  They take the    *)
(* same steps; the first asks the ownership flags before each of them.     *)

\* A watcher that outlives the join is only logged; joining a thread that never
\* started raises.
Unwatch == /\ at = "unwatch"
           /\ signals' = FALSE
           /\ \/ watching = "no" /\ UNCHANGED <<watching, errors>>
              \/ watching \in {"yes", "told"} /\ watching' \in {"no", "told"} /\ UNCHANGED errors
              \/ watching = "unborn" /\ errors' = errors \cup {"watcher"} /\ UNCHANGED watching
           /\ Goto("unroute")
           /\ UNCHANGED <<opts, pending, stop, interrupts, xray, ks, rules, kernel, failover,
                          services, cut, reported>>

SkipUnroute == /\ at = "unroute" /\ ~Unrouting
               /\ Goto("disengage")
               /\ UNCHANGED <<opts, pending, schedule, xray, shield, failover, services,
                              cut, errors, reported>>

Unroute == /\ Unrouting /\ ~pending
           /\ \/ /\ RemoveOutbound
                 /\ owned' = IF stage = "rollback" THEN owned \ {"outbound"} ELSE owned
                 /\ UNCHANGED errors
              \/ errors' = errors \cup {"outbound"} /\ UNCHANGED <<outbound, owned>>
           /\ Goto("disengage")
           /\ UNCHANGED <<opts, pending, schedule, proc, shield, failover, held, client,
                          cut, reported>>

\* The engine client has no close method, so close only drops it.
Disengage == /\ at = "disengage"
             /\ client' = FALSE
             /\ owned' = IF stage = "rollback" THEN owned \ {"engine"} ELSE owned
             /\ Goto("halt")
             /\ UNCHANGED <<opts, pending, schedule, xray, shield, failover, held,
                            cut, errors, reported>>

\* ProcessService.stop forgets the process before it stops it, so a second
\* call finds nothing to do.  An error may also come from the runtime directory.
SkipHalt == /\ at = "halt" /\ ~held
            /\ Goto("unblock")
            /\ UNCHANGED <<opts, pending, schedule, xray, shield, failover, services,
                           cut, errors, reported>>

Halt == /\ at = "halt" /\ held
        /\ held' = FALSE
        /\ \/ /\ proc' = "gone" /\ outbound' = None
              /\ owned' = IF stage = "rollback" THEN owned \ {"process"} ELSE owned
              /\ UNCHANGED errors
           \/ /\ errors' = errors \cup {"process"}
              /\ \/ proc' = "gone" /\ outbound' = None
                 \/ UNCHANGED xray
              /\ UNCHANGED owned
        /\ Goto("unblock")
        /\ UNCHANGED <<opts, pending, schedule, shield, failover, client, cut, reported>>

SkipUnblock == /\ at = "unblock" /\ "killswitch" \notin owned
               /\ Goto("finish")
               /\ UNCHANGED <<opts, pending, schedule, xray, shield, failover, services,
                              cut, errors, reported>>

\* deactivate: a removal that fails leaves the switch active and the caller is
\* not told, and so does a watcher that outlives the join.  Joining a thread that
\* never started raises, with the rules gone, and the switch stays owned.
RulesGo == IF kernel THEN rules = "full" /\ rules' = "none" ELSE UNCHANGED rules
Unblock == /\ at = "unblock" /\ "killswitch" \in owned
           /\ \/ /\ kernel
                 /\ rules' \in IF rules = "full" THEN {"full", "partial"} ELSE {rules}
                 /\ owned' = owned \ {"killswitch"} /\ UNCHANGED <<ks, watching, errors>>
              \/ /\ RulesGo /\ watching # "unborn"
                 /\ ks' = "off" /\ watching' = "no"
                 /\ owned' = owned \ {"killswitch"} /\ UNCHANGED errors
              \/ /\ RulesGo /\ watching = "told"
                 /\ owned' = owned \ {"killswitch"} /\ UNCHANGED <<ks, watching, errors>>
              \/ /\ RulesGo /\ watching = "unborn"
                 /\ errors' = errors \cup {"killswitch"} /\ UNCHANGED <<ks, watching, owned>>
           /\ Goto("finish")
           /\ UNCHANGED <<opts, pending, schedule, xray, kernel, failover, held, client,
                          cut, reported>>

\* _rollback hands over to start's raise, and that to __aexit__ and cleanup.
Finish == /\ at = "finish"
          /\ reported' = (reported \/ errors # {}
                           \/ (stage = "rollback" /\ raising = "error"))
          /\ IF stage = "rollback" THEN Leave ELSE Goto("exited")
          /\ UNCHANGED <<opts, pending, schedule, xray, shield, failover, services,
                         cut, errors>>

\* CancelledError is no Exception: start answers it with _rollback, _rollback
\* passes it on to __aexit__, and cleanup goes straight to its finally block.
Cancelled == /\ Awaiting /\ pending
             /\ pending' = FALSE
             /\ outbound' \in Effects
             /\ \/ stage = "start" /\ Raise("cancel") /\ UNCHANGED cut
                \/ stage = "rollback" /\ Leave /\ UNCHANGED cut
                \/ stage = "cleanup" /\ Goto("finish") /\ cut' = TRUE
             /\ UNCHANGED <<opts, schedule, proc, shield, failover, services, errors, reported>>

-----------------------------------------------------------------------------
(* The outside world.                                                      *)

XrayDies == /\ Running
            /\ proc' = "gone" /\ outbound' = None
            /\ UNCHANGED <<opts, at, stage, pending, schedule, shield, failover, services,
                           outcome>>

\* The watcher sees the process gone, trips the switch and ends.
Trip == /\ ks = "armed" /\ watching = "yes" /\ ~Running
        /\ ks' = "tripped" /\ watching' = "told"
        /\ UNCHANGED <<opts, at, stage, pending, schedule, xray, rules, kernel, failover, services,
                       outcome>>

WatcherEnds == /\ watching = "told"
               /\ watching' = "no"
               /\ UNCHANGED <<opts, at, stage, pending, schedule, xray, ks, rules, kernel, failover,
                              services, outcome>>

Interrupt == /\ at \notin Over
             /\ interrupts < MaxInterrupts
             /\ pending' = TRUE /\ interrupts' = interrupts + 1
             /\ UNCHANGED <<opts, at, stage, stop, signals, xray, shield, failover, services,
                            outcome>>

StopSignal == /\ at \notin Over /\ signals
              /\ stop' = TRUE
              /\ UNCHANGED <<opts, at, stage, pending, signals, interrupts, xray, shield,
                             failover, services, outcome>>

FatalSignal == /\ at \notin Over /\ ~signals
               /\ at' = "killed"
               /\ UNCHANGED <<opts, stage, pending, schedule, xray, shield, failover,
                              services, outcome>>

Ended == at \in Over /\ UNCHANGED vars

Coroutine == \/ StartProcess \/ Connect \/ AddFirst \/ EnableKillSwitch \/ RegisterSignals
             \/ Loop \/ Check \/ CheckRaises
             \/ SwitchRemove \/ SwitchAdd \/ RecoverRemove \/ RecoverAdd
             \/ CheckWatcher \/ Wait
             \/ Unwatch \/ SkipUnroute \/ Unroute \/ Disengage \/ SkipHalt \/ Halt
             \/ SkipUnblock \/ Unblock \/ Finish \/ Cancelled

Outside == \/ XrayDies \/ Trip \/ WatcherEnds
           \/ Interrupt \/ StopSignal \/ FatalSignal

Next == Coroutine \/ Outside \/ Ended

Spec == Init /\ [][Next]_vars

\* Health checks and waits are bounded by timeouts, local calls return.  A call
\* to the engine has no deadline: it ends for certain only when xray is gone
\* (its connection breaks) or when it is cancelled.
Prompt == ~Calling \/ ~Running \/ pending
FairSpec == Spec /\ WF_vars(Prompt /\ Coroutine)

-----------------------------------------------------------------------------
(* Properties                                                              *)

\* A run of the program that comes to its end has let go of the client, the
\* process and the kill-switch, wherever it failed, was stopped or was
\* cancelled, unless a cancellation met cleanup itself.  xray runs on only if
\* stopping it raised (_rollback followed by cleanup), and the switch stays its
\* own only if disabling it raised, with none of its own rules left in the
\* kernel; the event handler is told of either.
NothingLeftBehind == at = "exited" /\ ~cut =>
    /\ ~client /\ ~held
    /\ Running => "process" \in errors /\ reported
    /\ "killswitch" \in owned =>
         "killswitch" \in errors /\ reported /\ (kernel => rules = "none")

\* However many switches, failed checks and refused calls lie behind it, the
\* loop goes round only while the outbound in xray is the one failover thinks
\* is active, owned and reachable for cleanup, and the kill-switch asked for
\* is there.
RouteIsTheActiveOne == at \in {"loop", "check", "alive", "wait"} /\ Running =>
    /\ client /\ "outbound" \in owned /\ outbound = active
    /\ opts.killswitch => ks # "off" /\ "killswitch" \in owned

\* Traffic is unblocked only after the process that carries it has ended or
\* its stop has failed (the order of the steps of both cleanups).
UnblockedLast == [][rules = "full" /\ rules' # "full" =>
                      ~Running \/ "process" \in errors]_vars

\* When xray is gone the connection ends by itself, in every step of start,
\* of either loop, of a switch or of a cleanup it can be in.
DeathEndsConnection == proc = "gone" ~> at \in Over

\* What the connection is to its user, for ConnectionContract.  The route is the
\* one in xray wherever the loops rely on it.
Phase == CASE at \in StartSteps \ {"signals"} -> "starting"
           [] at \in {"signals"} \cup LoopSteps -> "up"
           [] at \in CleanupSteps -> "ending"
           [] OTHER -> "over"

When(condition, r) == IF condition THEN {r} ELSE {}
Holds == When(Running, "process") \cup When(client, "client") \cup When(ks # "off", "block")
Spoiled == IF cut \/ at = "killed" THEN {"process", "client", "block"}
           ELSE When("process" \in errors, "process")
                \cup When(ks # "off" /\ ("killswitch" \notin owned \/ "killswitch" \in errors),
                          "block")

RouteInUse == CASE at \in Over -> None
                [] at \in {"loop", "check", "alive", "wait"} /\ Running -> outbound
                [] OTHER -> active

Contract == INSTANCE ConnectionContract WITH phase <- Phase, holds <- Holds,
    spoiled <- Spoiled, route <- RouteInUse, protected <- opts.killswitch

Shield == INSTANCE KillSwitchContract WITH phase <- ks, Targets <- {"own"},
    target <- IF ks = "off" THEN None ELSE "own"

\* Seen from outside `bimarz connect` is one connection that keeps the promises
\* of ConnectionContract, whatever fails, dies or interrupts it, and that uses
\* its kill-switch the way KillSwitchContract offers it.
ImplementsContracts == Contract!Spec /\ Shield!Spec

\* "Independent cleanup operations are attempted even when another cleanup
\* operation fails": cleanup never ends with an operation not attempted.
CleanupIsComplete == at = "exited" => ~client /\ ~held /\ "killswitch" \notin owned

\* "Failed kill-switch disable must be observable, not silent success".
DisableFailureIsReported == at = "exited" /\ ~cut /\ ks # "off" => reported

\* "designed to prevent traffic from bypassing the intended proxy path when the
\* managed route is unavailable": a switch that has tripped keeps its rules in
\* the kernel until somebody asks for the connection to end.
TrippedBlockHolds == [][ks = "tripped" /\ rules = "full" /\ rules' # "full" =>
                          stop \/ interrupts > 0]_vars
=============================================================================
