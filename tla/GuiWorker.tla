------------------------------ MODULE GuiWorker ------------------------------
(***************************************************************************)
(* The graphical client: MainWindow (gui/main_window.py) in the GUI        *)
(* thread, and one ConnectionWorker (gui/connection_worker.py) at a time   *)
(* in a thread of its own, over XrayProcess and the engine client.         *)
(*                                                                         *)
(* The threads meet in three places: _stop_event, the callback that stop   *)
(* queues in the worker's event loop, and the signals the worker queues    *)
(* for the window.  The loop runs only while the worker awaits a coroutine,*)
(* and the queued callback cancels whatever task it finds there, the       *)
(* session's or, when the worker was between two of them, the next one.    *)
(*                                                                         *)
(* Every xray serves the same local port.  One that a session leaves       *)
(* running keeps it, and the client of the next session reaches that one.  *)
(***************************************************************************)
EXTENDS Failover, Sequences

CONSTANTS MaxSessions,  \* bound: times Connect starts a worker
          MaxStale      \* bound: signals the window has not seen when Connect is clicked

ASSUME SessionsAssumption == MaxSessions \in Nat /\ MaxStale \in Nat

VARIABLES selected,     \* _current_profile
          connectOn,    \* the Connect button is enabled
          disconnectOn, \* the Disconnect button is enabled
          gui,          \* what the GUI thread is in the middle of
          session,      \* workers made so far; the last one is described below
          opts,         \* more than one profile, the kill-switch toggle
          profile,      \* _profile
          at,           \* what the worker does next
          stage,        \* whether it runs, undoes a failed run or cleans up
          connected,    \* _connected_once
          stop,         \* _stop_event
          cancel,       \* _cancel_all is queued in the loop
          inbox,        \* ends of sessions signalled to the window, by session
          client,       \* _client is set
          owned,        \* _outbound_owned
          held,         \* XrayProcess._proc is set
          proc,         \* the session's xray process
          bound,        \* it got the port
          stray,        \* an xray of an earlier session has the port
          outbound,     \* the profile behind the active tag in the xray that has the port
          ks,           \* the kill-switch, in the phases of its contract
          watching,     \* its watcher thread; "told" when it is about to end
          failures,     \* FailoverManager._consecutive_failures, counted to Threshold
          best,         \* the profile a switch is heading for
          seen          \* history: what befell this session

desk == <<selected, connectOn, disconnectOn, gui>>
settings == <<session, opts>>
course == <<stage, connected>>
exchange == <<stop, cancel, inbox>>
engine == <<client, owned>>
xray == <<held, proc, bound, stray>>
shield == <<ks, watching>>
failover == <<profile, failures, best>>
vars == <<desk, settings, at, course, exchange, engine, xray, outbound, shield, failover, seen>>

Connecting == {"boot", "spawn", "ready", "client", "add", "arm"}
Switching == {"switchRemove", "switchAdd", "recoverRemove", "recoverAdd"}
Looping == {"loop", "check"} \cup Switching
Leaving == {"unwatch", "unblock", "halt", "emit", "tidy", "unroute", "close", "ending"}
Still == {"off", "done", "lost"}
Happenings == {"cut", "adrift", "stale", "process"}

\* One invariant per module says what the variables may hold.
TypeOK == /\ selected \in Profiles \cup {None}
          /\ connectOn \in BOOLEAN /\ disconnectOn \in BOOLEAN
          /\ gui \in {"free", "stop", "closeStop", "closeWait", "closed"}
          /\ session \in 0..MaxSessions
          /\ opts \in [failover : BOOLEAN, killswitch : BOOLEAN]
          /\ profile \in Profiles \cup {None}
          /\ at \in Connecting \cup Looping \cup Leaving \cup Still
          /\ stage \in {"run", "undo", "cleanup"}
          /\ connected \in BOOLEAN /\ stop \in BOOLEAN /\ cancel \in BOOLEAN
          /\ inbox \in Seq(1..MaxSessions)
          /\ client \in BOOLEAN /\ owned \in BOOLEAN /\ held \in BOOLEAN
          /\ proc \in {"none", "running", "gone"}
          /\ bound \in BOOLEAN /\ stray \in BOOLEAN
          /\ outbound \in Profiles \cup {None}
          /\ ks \in {"off", "armed", "tripped"}
          /\ watching \in {"no", "yes", "told"}
          /\ failures \in 0..Threshold
          /\ best \in Profiles \cup {None}
          /\ seen \subseteq Happenings

Init == /\ selected = None /\ connectOn = FALSE /\ disconnectOn = FALSE /\ gui = "free"
        /\ session = 0 /\ opts = [failover |-> FALSE, killswitch |-> FALSE] /\ profile = None
        /\ at = "off" /\ stage = "run" /\ connected = FALSE
        /\ stop = FALSE /\ cancel = FALSE /\ inbox = <<>>
        /\ client = FALSE /\ owned = FALSE
        /\ held = FALSE /\ proc = "none" /\ bound = FALSE /\ stray = FALSE /\ outbound = None
        /\ ks = "off" /\ watching = "no"
        /\ failures = 0 /\ best = None
        /\ seen = {}

-----------------------------------------------------------------------------
Running == proc = "running"
Reachable == stray \/ (bound /\ Running)
WorkerRunning == at \notin Still
LoopOpen == at \notin Still \cup {"boot", "ending"}

Goto(step) == at' = step /\ UNCHANGED course
Proceed(step) == Goto(step) /\ UNCHANGED failover

\* _run_connect ends, and with it the failover manager, which is local to it.
Raise == /\ at' = "unwatch" /\ stage' = "undo"
         /\ failures' = 0 /\ best' = None /\ UNCHANGED <<profile, connected>>
Leave == /\ at' = "tidy" /\ stage' = "cleanup"
         /\ failures' = 0 /\ best' = None /\ UNCHANGED <<profile, connected>>

\* connection_error, killswitch_triggered or disconnected; the window answers
\* all of them alike.
Emit == inbox' = Append(inbox, session)
Note(happening) == seen' = seen \cup {happening}

\* xray's handler service: a tag is added once, and any call may fail and then
\* leaves xray as it is.
AddOutbound(p) == Reachable /\ outbound = None /\ outbound' = p
RemoveOutbound == Reachable /\ outbound' = None

Awaiting == at \in {"client", "add", "check", "unroute"} \cup Switching

\* What a call has done when a cancellation or a timeout ends it.
Wanted == IF at = "switchAdd" THEN best ELSE profile
Effects == {outbound} \cup
    CASE ~Reachable -> {}
      [] at \in {"add", "switchAdd", "recoverAdd"} -> IF outbound = None THEN {Wanted} ELSE {}
      [] at \in {"switchRemove", "recoverRemove", "unroute"} -> {None}
      [] OTHER -> {}

StartLooping == /\ at' = "loop" /\ connected' = TRUE
                /\ UNCHANGED <<stage, failover>>

Forget == client' = FALSE /\ owned' = FALSE

\* What follows the stop of the process: the handler ends or _cleanup does.
After == IF stage = "undo" THEN "emit" ELSE "close"

-----------------------------------------------------------------------------
(* Faulty variants of the steps below; each breaks a property.             *)

\* a result that is recorded twice.
CountTwice(latency) == IF latency = None THEN failures + 2 ELSE 0

\* a cleanup that returns when the outbound could not be removed.
UnrouteGivesUp == /\ at = "unroute" /\ ~cancel
                  /\ \/ RemoveOutbound /\ Goto("unwatch")
                     \/ UNCHANGED outbound /\ Goto("close")
                  /\ Forget
                  /\ UNCHANGED <<desk, settings, exchange, xray, shield, failover, seen>>

\* a switch that keeps checking the profile it left.
SwitchAddForgets == /\ at = "switchAdd" /\ ~cancel
                    /\ \/ /\ AddOutbound(best) /\ owned' = TRUE
                          /\ failures' = 0 /\ best' = None /\ UNCHANGED <<profile, seen>>
                          /\ Goto("loop")
                       \/ UNCHANGED <<outbound, owned, failover, seen>> /\ Goto("recoverAdd")
                    /\ UNCHANGED <<desk, settings, exchange, client, xray, shield>>

\* a session that goes on without its watcher.
ArmTolerant == /\ at = "arm"
               /\ ks' = "armed" /\ watching' \in {"yes", "no"}
               /\ StartLooping
               /\ UNCHANGED <<desk, settings, exchange, engine, xray, outbound, seen>>

\* a recovery that fails and reports an error while the session goes on.
RecoverAddEmits == /\ at = "recoverAdd" /\ ~cancel
                   /\ \/ AddOutbound(profile) /\ owned' = TRUE /\ UNCHANGED <<seen, inbox>>
                      \/ UNCHANGED <<outbound, owned>> /\ Note("adrift") /\ Emit
                   /\ best' = None
                   /\ Goto("loop")
                   /\ UNCHANGED <<desk, settings, stop, cancel, client, xray, shield, profile,
                                  failures>>

\* a loop that does not ask for the watcher.
LoopUnwatched == /\ at = "loop"
                 /\ \/ stop /\ Leave
                    \/ ~stop /\ opts.failover /\ Proceed("check")
                 /\ UNCHANGED <<desk, settings, exchange, engine, xray, outbound, shield, seen>>

\* a cancellation that ends the worker without _cleanup.
CancelledEnds == /\ Awaiting /\ at # "unroute" /\ cancel
                 /\ cancel' = FALSE
                 /\ outbound' \in Effects
                 /\ Proceed("ending")
                 /\ UNCHANGED <<desk, settings, stop, inbox, engine, xray, shield, seen>>

-----------------------------------------------------------------------------
(* MainWindow                                                              *)

Select == /\ gui = "free"
          /\ selected' \in Profiles \ {selected}
          /\ connectOn' = ~WorkerRunning
          /\ UNCHANGED <<disconnectOn, gui, settings, at, course, exchange, engine, xray,
                         outbound, shield, failover, seen>>

\* A worker before its first step has a manager, a process object and an event
\* of its own.  An xray still there keeps the port.
Fresh == /\ stage' = "run" /\ connected' = FALSE
         /\ stop' = FALSE /\ cancel' = FALSE
         /\ client' = FALSE /\ owned' = FALSE
         /\ held' = FALSE /\ proc' = "none" /\ bound' = FALSE /\ stray' = Reachable
         /\ ks' = "off" /\ watching' = "no"
         /\ failures' = 0 /\ best' = None
         /\ seen' = {}

Connect == /\ gui = "free" /\ connectOn /\ selected # None /\ ~WorkerRunning
           /\ session < MaxSessions /\ Len(inbox) <= MaxStale
           /\ session' = session + 1
           /\ opts' \in [failover : BOOLEAN, killswitch : BOOLEAN]
           /\ connectOn' = FALSE /\ disconnectOn' = TRUE
           /\ Fresh /\ profile' = selected /\ at' = "boot"
           /\ UNCHANGED <<selected, gui, inbox, outbound>>

\* stop first sets the event and then queues the callback.
Disconnect == /\ gui = "free" /\ disconnectOn
              /\ IF WorkerRunning
                 THEN gui' = "stop" /\ stop' = TRUE /\ UNCHANGED <<connectOn, disconnectOn>>
                 ELSE /\ disconnectOn' = FALSE /\ connectOn' = (selected # None)
                      /\ UNCHANGED <<gui, stop>>
              /\ UNCHANGED <<selected, settings, at, course, cancel, inbox, engine, xray,
                             outbound, shield, failover, seen>>

QueueCancel == /\ gui \in {"stop", "closeStop"}
               /\ cancel' = (cancel \/ LoopOpen)
               /\ IF gui = "stop" THEN gui' = "free" /\ disconnectOn' = FALSE
                                  ELSE gui' = "closeWait" /\ UNCHANGED disconnectOn
               /\ UNCHANGED <<selected, connectOn, settings, at, course, stop, inbox, engine,
                              xray, outbound, shield, failover, seen>>

\* The slots for the end of a session; each restores the buttons.
Deliver == /\ gui = "free" /\ inbox # <<>>
           /\ inbox' = Tail(inbox)
           /\ disconnectOn' = FALSE /\ connectOn' = (selected # None)
           /\ IF Head(inbox) # session THEN Note("stale") ELSE UNCHANGED seen
           /\ UNCHANGED <<selected, gui, settings, at, course, stop, cancel, engine, xray,
                          outbound, shield, failover>>

\* _closing: no click counts any more.
Closing == selected' = None /\ connectOn' = FALSE /\ disconnectOn' = FALSE

\* The program ends, and what it remembers with it; only xray may live on.
Quit == /\ gui' = "closed" /\ Closing /\ Fresh /\ inbox' = <<>>
        /\ at' = IF WorkerRunning THEN "lost" ELSE "off"
        /\ profile' = None /\ opts' = [failover |-> FALSE, killswitch |-> FALSE]
        /\ UNCHANGED <<session, outbound>>

CloseWindow == /\ gui = "free"
               /\ \/ ~WorkerRunning /\ Quit
                  \/ /\ WorkerRunning /\ gui' = "closeStop" /\ Closing /\ stop' = TRUE
                     /\ UNCHANGED <<settings, at, course, cancel, inbox, engine, xray,
                                    outbound, shield, failover, seen>>

\* wait(5000): the program ends when the worker has, or takes it along.
Waited == gui = "closeWait" /\ Quit

Window == Select \/ Connect \/ Disconnect \/ QueueCancel \/ Deliver \/ CloseWindow \/ Waited

-----------------------------------------------------------------------------
(* run and _run_connect                                                    *)

Boot == /\ at = "boot"
        /\ Goto("spawn")
        /\ UNCHANGED <<desk, settings, exchange, engine, xray, outbound, shield, failover,
                       seen>>

\* No binary, or no runtime directory: nothing to undo.
NothingToSpawn == /\ at = "spawn"
                  /\ Emit
                  /\ Leave
                  /\ UNCHANGED <<desk, settings, stop, cancel, engine, xray, outbound, shield,
                                 seen>>

Spawn == /\ at = "spawn"
         /\ \/ held' = TRUE /\ proc' = "running" /\ bound' = ~stray /\ Proceed("ready")
            \/ Raise /\ UNCHANGED <<held, proc, bound>>
         /\ UNCHANGED <<desk, settings, exchange, engine, stray, outbound, shield, seen>>

\* xray is ready when it lives; a stop is asked for only while it does not.
Ready == /\ at = "ready"
         /\ \/ Running /\ Proceed("client")
            \/ ~Running /\ stop /\ Leave
            \/ ~Running /\ Raise
         /\ UNCHANGED <<desk, settings, exchange, engine, xray, outbound, shield, seen>>

\* All attempts of connect_with_retry together.
ConnectClient == /\ at = "client" /\ ~cancel
                 /\ \/ Reachable /\ client' = TRUE /\ Proceed("add")
                    \/ Raise /\ UNCHANGED client
                 /\ UNCHANGED <<desk, settings, exchange, owned, xray, outbound, shield,
                                seen>>

AddFirst == /\ at = "add" /\ ~cancel
            /\ \/ /\ AddOutbound(profile) /\ owned' = TRUE
                  /\ IF opts.killswitch THEN Proceed("arm") ELSE StartLooping
               \/ Raise /\ UNCHANGED <<outbound, owned>>
            /\ UNCHANGED <<desk, settings, exchange, client, xray, shield, seen>>

\* activate raises nothing for a new manager; the watcher's thread may not start.
Arm == /\ at = "arm"
       /\ ks' = "armed"
       /\ \/ watching' = "yes" /\ StartLooping
          \/ UNCHANGED watching /\ Raise
       /\ UNCHANGED <<desk, settings, exchange, engine, xray, outbound, seen>>

-----------------------------------------------------------------------------
(* _simple_watch_loop, _failover_loop and _async_failover_check            *)

\* The sleep is over: leave, trip, check, or sleep again.
Loop == /\ at = "loop"
        /\ \/ stop /\ Leave
           \/ ~stop /\ opts.killswitch /\ watching = "no" /\ Raise
           \/ /\ ~stop /\ opts.failover /\ ~(opts.killswitch /\ watching = "no")
              /\ Proceed("check")
        /\ UNCHANGED <<desk, settings, exchange, engine, xray, outbound, shield, seen>>

Counted(latency) == LET count == Recorded(failures, latency)
                    IN IF count > Threshold THEN Threshold ELSE count

\* Without an alternative the session goes on as it is.
Check == /\ at = "check" /\ ~cancel
         /\ \E results \in Results :
              LET alternative == PickBest(profile, results)
              IN /\ failures' = Counted(results[profile])
                 /\ IF ShouldFailover(failures') /\ alternative # None
                    THEN Goto("switchRemove") /\ best' = alternative
                    ELSE Goto("loop") /\ UNCHANGED best
         /\ UNCHANGED <<desk, settings, exchange, engine, xray, outbound, shield, profile,
                        seen>>

\* An exception of a check is logged, before or after the result was counted.
CheckFails == /\ at = "check" /\ ~cancel
              /\ failures' \in {failures, Counted(None)}
              /\ Goto("loop")
              /\ UNCHANGED <<desk, settings, exchange, engine, xray, outbound, shield, profile,
                             best, seen>>

SwitchRemove == /\ at = "switchRemove" /\ ~cancel
                /\ \/ RemoveOutbound /\ owned' = FALSE /\ Goto("switchAdd")
                   \/ UNCHANGED <<outbound, owned>>
                        /\ Goto(IF owned THEN "recoverRemove" ELSE "recoverAdd")
                /\ UNCHANGED <<desk, settings, exchange, client, xray, shield, failover, seen>>

SwitchAdd == /\ at = "switchAdd" /\ ~cancel
             /\ \/ /\ AddOutbound(best) /\ owned' = TRUE
                   /\ profile' = best /\ failures' = 0 /\ best' = None
                   /\ seen' = seen \ {"adrift"}
                   /\ Goto("loop")
                \/ UNCHANGED <<outbound, owned, failover, seen>> /\ Goto("recoverAdd")
             /\ UNCHANGED <<desk, settings, exchange, client, xray, shield>>

RecoverRemove == /\ at = "recoverRemove" /\ ~cancel
                 /\ \/ RemoveOutbound /\ owned' = FALSE
                    \/ UNCHANGED <<outbound, owned>>
                 /\ Goto("recoverAdd")
                 /\ UNCHANGED <<desk, settings, exchange, client, xray, shield, failover,
                                seen>>

\* Whether or not the old outbound is back, the session goes on.
RecoverAdd == /\ at = "recoverAdd" /\ ~cancel
              /\ \/ AddOutbound(profile) /\ owned' = TRUE /\ UNCHANGED seen
                 \/ UNCHANGED <<outbound, owned>> /\ Note("adrift")
              /\ best' = None
              /\ Goto("loop")
              /\ UNCHANGED <<desk, settings, exchange, client, xray, shield, profile, failures>>

\* wait_for: an exception like others while connecting, logged in the loop.
TimesOut == /\ Awaiting /\ at # "unroute" /\ ~cancel
            /\ outbound' \in Effects
            /\ IF at \in {"client", "add"} THEN Raise
               ELSE /\ Goto("loop") /\ best' = None /\ UNCHANGED profile
                    /\ failures' \in {failures} \cup (IF at = "check" THEN {Counted(None)} ELSE {})
            /\ IF at \in Switching THEN Note("adrift") ELSE UNCHANGED seen
            /\ UNCHANGED <<desk, settings, exchange, engine, xray, shield>>

\* CancelledError is no Exception: it passes every handler on its way to the
\* finally block of run, and nothing is emitted.
Cancelled == /\ Awaiting /\ at # "unroute" /\ cancel
             /\ cancel' = FALSE
             /\ outbound' \in Effects
             /\ Leave
             /\ UNCHANGED <<desk, settings, stop, inbox, engine, xray, shield, seen>>

-----------------------------------------------------------------------------
(* The handler of _run_connect and _cleanup, which take the same steps on  *)
(* watcher, kill-switch and process; the first then emits what went wrong. *)

\* A callback still queued cancels _async_cleanup before its first step.
Tidy == /\ at = "tidy" /\ ~(client /\ cancel)
        /\ Goto(IF client THEN "unroute" ELSE "unwatch")
        /\ UNCHANGED <<desk, settings, exchange, engine, xray, outbound, shield, failover,
                       seen>>

Unroute == /\ at = "unroute" /\ ~cancel
           /\ outbound' \in Effects
           /\ Forget
           /\ Goto("unwatch")
           /\ UNCHANGED <<desk, settings, exchange, xray, shield, failover, seen>>

\* The rest of _cleanup is skipped.
CutShort == /\ \/ at = "tidy" /\ client /\ UNCHANGED outbound
               \/ at = "unroute" /\ outbound' \in Effects
            /\ cancel /\ cancel' = FALSE
            /\ Forget
            /\ Note("cut")
            /\ Goto("close")
            /\ UNCHANGED <<desk, settings, stop, inbox, xray, shield, failover>>

\* A watcher that outlives the join is only logged.
Unwatch == /\ at = "unwatch"
           /\ watching' \in IF watching = "no" THEN {"no"} ELSE {"no", "told"}
           /\ Goto("unblock")
           /\ UNCHANGED <<desk, settings, exchange, engine, xray, outbound, ks, failover,
                          seen>>

SkipUnblock == /\ at = "unblock" /\ ks = "off"
               /\ Goto("halt")
               /\ UNCHANGED <<desk, settings, exchange, engine, xray, outbound, shield, failover,
                              seen>>

\* A removal that fails, or a watcher that does not end, leaves the switch
\* active.  So does one that never started: deactivate raises, which is logged.
Unblock == /\ at = "unblock" /\ ks # "off"
           /\ \/ ks' = "off" /\ watching' = "no"
              \/ UNCHANGED shield
           /\ Goto("halt")
           /\ UNCHANGED <<desk, settings, exchange, engine, xray, outbound, failover, seen>>

SkipHalt == /\ at = "halt" /\ ~held
            /\ Goto(After)
            /\ UNCHANGED <<desk, settings, exchange, engine, xray, outbound, shield, failover,
                           seen>>

\* The process may outlive terminate, kill and both waits.
Halt == /\ at = "halt" /\ held
        /\ held' = FALSE
        /\ \/ /\ proc' = "gone" /\ outbound' = (IF stray THEN outbound ELSE None)
              /\ UNCHANGED seen
           \/ Note("process") /\ UNCHANGED <<proc, outbound>>
        /\ Goto(After)
        /\ UNCHANGED <<desk, settings, exchange, engine, bound, stray, shield, failover>>

\* run's handlers: killswitch_triggered or connection_error.
Report == /\ at = "emit"
          /\ Emit
          /\ Leave
          /\ UNCHANGED <<desk, settings, stop, cancel, engine, xray, outbound, shield, seen>>

\* The loop is closed, and a callback still queued in it is never called.
Close == /\ at = "close"
         /\ IF connected THEN Emit ELSE UNCHANGED inbox
         /\ cancel' = FALSE
         /\ Goto("ending")
         /\ UNCHANGED <<desk, settings, stop, engine, xray, outbound, shield, failover, seen>>

End == /\ at = "ending"
       /\ Goto("done")
       /\ UNCHANGED <<desk, settings, exchange, engine, xray, outbound, shield, failover, seen>>

Worker == \/ Boot \/ NothingToSpawn \/ Spawn \/ Ready \/ ConnectClient \/ AddFirst \/ Arm
          \/ Loop \/ Check \/ CheckFails \/ SwitchRemove \/ SwitchAdd
          \/ RecoverRemove \/ RecoverAdd \/ TimesOut \/ Cancelled
          \/ Tidy \/ Unroute \/ CutShort \/ Unwatch \/ SkipUnblock \/ Unblock
          \/ SkipHalt \/ Halt \/ Report \/ Close \/ End

-----------------------------------------------------------------------------
(* The outside world, and the watcher's thread.  The model ends with the   *)
(* program.                                                                *)

XrayDies == /\ Running /\ gui # "closed"
            /\ proc' = "gone"
            /\ outbound' = IF bound THEN None ELSE outbound
            /\ UNCHANGED <<desk, settings, at, course, exchange, engine, held, bound, stray,
                           shield, failover, seen>>

StrayDies == /\ stray /\ gui # "closed"
             /\ stray' = FALSE /\ outbound' = None
             /\ UNCHANGED <<desk, settings, at, course, exchange, engine, held, proc, bound,
                            shield, failover, seen>>

\* The watcher's is_alive also asks whether the process object has a process.
Trip == /\ ks = "armed" /\ watching = "yes" /\ gui # "closed" /\ ~(held /\ Running)
        /\ ks' = "tripped" /\ watching' = "told"
        /\ UNCHANGED <<desk, settings, at, course, exchange, engine, xray, outbound, failover,
                       seen>>

WatcherEnds == /\ watching = "told" /\ gui # "closed"
               /\ watching' = "no"
               /\ UNCHANGED <<desk, settings, at, course, exchange, engine, xray, outbound, ks,
                              failover, seen>>

Watcher == Trip \/ WatcherEnds

Ended == gui = "closed" /\ UNCHANGED vars

Next == Window \/ Worker \/ Watcher \/ XrayDies \/ StrayDies \/ Ended

Spec == Init /\ [][Next]_vars

\* The threads run; every await of the worker has a timeout, waits and joins
\* have one too.  Nothing makes the user click or xray die.
FairSpec == Spec /\ WF_vars(Worker) /\ WF_vars(Watcher)

-----------------------------------------------------------------------------
(* Properties                                                              *)

\* "_cleanup must release process and runtime directory ownership": a worker
\* that ends has let go of client and process, wherever the run failed, timed
\* out or was cancelled, and its xray runs on only if its stop raised, unless
\* the cancellation met _cleanup itself.
EndsReleased == at = "done" /\ "cut" \notin seen =>
    /\ ~client /\ ~held
    /\ Running => "process" \in seen

\* A session that is connected has the outbound of the profile it checks, and
\* knows that it owns it, after any switches and recoveries, unless a switch
\* timed out half-way or could not be undone and no later one has succeeded.
RouteFollowsProfile == at \in {"loop", "check"} /\ Reachable /\ "adrift" \notin seen =>
    client /\ owned /\ outbound = profile

\* While a session with the kill-switch is connected its xray is watched, or
\* its death has been noticed.
ConnectedIsWatched == at \in Looping /\ opts.killswitch =>
    /\ ks # "off"
    /\ ks = "armed" => watching = "yes"

\* A connected session can be disconnected: signals of one that was over
\* before are the only ones that may disable the button meanwhile.
DisconnectStaysOn == at \in Looping /\ ~stop /\ "stale" \notin seen => disconnectOn

\* An xray is handed on to the next session only by a session whose cleanup
\* was cut short or could not stop it.
StrayHasACause == [][~stray /\ stray' /\ gui' # "closed" => seen \cap {"cut", "process"} # {}]_vars

\* A session comes to its end, whatever it awaits, when the user disconnects
\* or closes the window, and with the kill-switch also when xray dies while it
\* is being connected, checked, switched or cleaned up.
SessionEnds == stop \/ (proc = "gone" /\ opts.killswitch) ~> ~WorkerRunning

\* What a session is to its user, for ConnectionContract.  The route is the one in
\* xray wherever the loops rely on it.
Phase == CASE at \in Connecting -> "starting"
           [] at \in Looping -> "up"
           [] at \in Leaving -> "ending"
           [] OTHER -> "over"

When(condition, r) == IF condition THEN {r} ELSE {}
Holds == When(Running, "process") \cup When(client, "client") \cup When(ks # "off", "block")

Unblocked == stage = "cleanup" /\ at \in {"halt", "close", "ending", "done"}
Spoiled == IF at = "lost" \/ "cut" \in seen THEN {"process", "client", "block"}
           ELSE When("process" \in seen, "process") \cup When(Unblocked /\ ks # "off", "block")

RouteInUse == CASE at \in Still -> None
                [] at \in {"loop", "check"} /\ Reachable /\ "adrift" \notin seen -> outbound
                [] OTHER -> profile

Contract == INSTANCE ConnectionContract WITH phase <- Phase, holds <- Holds,
    spoiled <- Spoiled, route <- RouteInUse, protected <- opts.killswitch

Shield == INSTANCE KillSwitchContract WITH phase <- ks, Targets <- {"own"},
    target <- IF ks = "off" THEN None ELSE "own"

\* Seen from outside, one session after another keeps the promises of
\* ConnectionContract, whatever the window, the worker, xray and the watcher do
\* to each other, and uses its kill-switch the way KillSwitchContract offers it.
ImplementsContracts == Contract!Spec /\ Shield!Spec

\* "A failure in one cleanup operation must not prevent unrelated resources
\* from being released": a worker that ended normally no longer holds xray.
CleanupGoesOn == at = "done" => ~held
=============================================================================
