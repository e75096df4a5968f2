----------------------------- MODULE KillSwitch -----------------------------
(***************************************************************************)
(* KillSwitchManager (orchestrator/bimarz/killswitch_manager.py) with the  *)
(* iptables rules it drives through engine-core/src/killswitch.rs.         *)
(*                                                                         *)
(* One caller thread runs the public operations, one at a time and in any  *)
(* order (the tests do); every start_process_watcher that starts a watcher *)
(* makes a new thread.  A step is what happens between two points where    *)
(* another thread can be seen: a critical section of _state_lock or        *)
(* _watcher_lock, one iptables command, a read or a write of _stop_event.  *)
(*                                                                         *)
(* _trigger tests _stop_event inside _state_lock, but the event is set     *)
(* without that lock, so the test and the write of the state are two steps *)
(* (Detect, Commit), with the lock held between them.                      *)
(***************************************************************************)
EXTENDS Naturals

CONSTANTS Targets,   \* (interface, xray_uid) pairs passed to activate
          NoUid,     \* those whose xray_uid is None
          Threads,   \* identities of watcher threads, reused once dead
          None,
          MaxDup     \* bound: copies of one OUTPUT rule left in the kernel

ASSUME TargetsAssumption == NoUid \subseteq Targets /\ None \notin Targets
ASSUME ThreadsAssumption == None \notin Threads
ASSUME MaxDupAssumption == MaxDup \in Nat

VARIABLES st,        \* _state
          rules,     \* DROP rules in the kernel, counted per target and chain
          residue,   \* the probe's own mangle rule was left behind
          ref,       \* _watcher_thread
          thread,    \* where each watcher thread stands
          stop,      \* _stop_event
          xray,      \* the polled process is running
          call,      \* the caller's operation in progress and its locals
          ret,       \* how its last operation ended
          attempted  \* history: rule removal was tried since the last activate

vars == <<st, rules, residue, ref, thread, stop, xray, call, ret, attempted>>

WatcherStates == {"NOT_STARTED", "RUNNING", "STOPPED", "PROCESS_DIED"}
ThreadSteps == {"none", "wait", "poll", "detect", "commit", "latch", "final", "clear"}
CallSteps == {"idle", "applyOut", "applyIn", "arm", "fallback", "delIn", "delOut",
              "signal", "read", "join", "settle", "disarm"}
Chains == {"OUTPUT", "INPUT"}

States == [kernel : BOOLEAN, active : BOOLEAN, target : Targets \cup {None},
           watcher : WatcherStates, triggered : BOOLEAN]

InitialState == [kernel |-> FALSE, active |-> FALSE, target |-> None,
                 watcher |-> "NOT_STARTED", triggered |-> FALSE]

Calls == [pc : CallSteps, op : {"none", "activate", "stop", "deactivate"},
          target : Targets \cup {None}, snap : States, thread : Threads \cup {None}]

NoCall == [pc |-> "idle", op |-> "none", target |-> None,
           snap |-> InitialState, thread |-> None]

\* One invariant per module says what the variables may hold.
TypeOK == /\ st \in States
          /\ rules \in [Targets -> [Chains -> Nat]]
          /\ residue \in BOOLEAN
          /\ ref \in Threads \cup {None}
          /\ thread \in [Threads -> ThreadSteps]
          /\ stop \in BOOLEAN
          /\ xray \in BOOLEAN
          /\ call \in Calls
          /\ ret \in {"none", "raised", "true", "false"}
          /\ attempted \in BOOLEAN

Init == /\ st = InitialState
        /\ rules = [t \in Targets |-> [c \in Chains |-> 0]]
        /\ residue = FALSE
        /\ ref = None
        /\ thread = [t \in Threads |-> "none"]
        /\ stop = FALSE
        /\ xray = TRUE
        /\ call = NoCall
        /\ ret = "none"
        /\ attempted = FALSE

Live(t) == thread[t] # "none"
Watched == ref # None /\ Live(ref)      \* is_watcher_alive
StateLockFree == \A t \in Threads : thread[t] # "commit"

\* The caller returns from an operation with outcome r.
Return(r) == call' = NoCall /\ ret' = r
Goto(pc) == call' = [call EXCEPT !.pc = pc]

Insert(t, c) == rules' = [rules EXCEPT ![t][c] = @ + 1]
\* A delete that reports success for a rule that is not there.
DeleteUnchecked(t, c) == rules' = [rules EXCEPT ![t][c] = @ - 1]
\* iptables -D fails when the rule is not there.
Delete(t, c) == rules[t][c] > 0 /\ rules' = [rules EXCEPT ![t][c] = @ - 1]

-----------------------------------------------------------------------------
(* Faulty variants of the operations below; each breaks a property.        *)

\* apply_ruleset that ignores the status of the second command.
ApplyInputUnchecked == /\ call.pc = "applyIn"
                       /\ \/ Insert(call.target, "INPUT")
                          \/ UNCHANGED rules
                       /\ Goto("arm")
                       /\ UNCHANGED <<st, residue, ref, thread, stop, xray, ret, attempted>>

\* remove_ruleset without .rev().
RemoveForward == /\ call.pc = "delIn"
                 /\ attempted' = TRUE
                 /\ \/ Delete(call.snap.target, "OUTPUT") /\ Goto("delOut") /\ UNCHANGED ret
                    \/ UNCHANGED rules /\ Return("none")
                 /\ UNCHANGED <<st, residue, ref, thread, stop, xray>>

\* remove_ruleset that carries on after a failed command.
RemoveCarriesOn == /\ call.pc = "delIn"
                   /\ attempted' = TRUE
                   /\ Delete(call.snap.target, "INPUT") \/ UNCHANGED rules
                   /\ Goto("delOut")
                   /\ UNCHANGED <<st, residue, ref, thread, stop, xray, ret>>

\* start_process_watcher without the is_alive test.
StartTwice == /\ call.pc = "idle" /\ StateLockFree
              /\ st.watcher # "PROCESS_DIED"
              /\ \E t \in Threads :
                   /\ ~Live(t)
                   /\ thread' = [thread EXCEPT ![t] = "wait"]
                   /\ ref' = t
              /\ st' = [st EXCEPT !.watcher = "RUNNING", !.triggered = FALSE]
              /\ stop' = FALSE
              /\ ret' = "none"
              /\ UNCHANGED <<rules, residue, xray, call, attempted>>

\* stop_process_watcher that does not look whether join timed out.
JoinUnchecked == /\ call.pc = "join"
                 /\ ref' = IF ref = call.thread THEN None ELSE ref
                 /\ Goto("settle")
                 /\ UNCHANGED <<st, rules, residue, thread, stop, xray, ret, attempted>>

\* a watcher whose finally block leaves watcher_state alone.
FinishSilently(t) == /\ thread[t] = "final" /\ StateLockFree
                     /\ thread' = [thread EXCEPT ![t] = "clear"]
                     /\ UNCHANGED <<st, rules, residue, ref, stop, xray, call, ret, attempted>>

\* a watcher that reads an exception of poll_fn as "still alive".
PollOptimistic(t) == /\ thread[t] = "poll"
                     /\ thread' = [thread EXCEPT ![t] = "wait"]
                     /\ UNCHANGED <<st, rules, residue, ref, stop, xray, call, ret, attempted>>

\* _trigger that does not ask whether the kill-switch is still active.
DetectUnguarded(t) == /\ thread[t] = "detect" /\ StateLockFree
                      /\ thread' = [thread EXCEPT ![t] = IF stop THEN "final" ELSE "commit"]
                      /\ UNCHANGED <<st, rules, residue, ref, stop, xray, call, ret, attempted>>

-----------------------------------------------------------------------------
(* activate                                                                *)

\* An active switch accepts the same target again unless it has triggered.
ActivateAgain(t) ==
    /\ call.pc = "idle" /\ StateLockFree
    /\ st.active
    /\ ret' = IF st.target = t /\ ~st.triggered THEN "none" ELSE "raised"
    /\ UNCHANGED <<st, rules, residue, ref, thread, stop, xray, call, attempted>>

\* The probe inserts a rule of its own and ignores the result of deleting it;
\* without an xray_uid no rule can be built.
Activate(t) ==
    /\ call.pc = "idle" /\ StateLockFree
    /\ ~st.active
    /\ \E capable \in BOOLEAN :
         /\ residue' \in IF capable THEN {residue, TRUE} ELSE {residue}
         /\ capable => rules[t]["OUTPUT"] < MaxDup
         /\ call' = [NoCall EXCEPT
              !.pc = IF capable /\ t \notin NoUid THEN "applyOut" ELSE "fallback",
              !.op = "activate", !.target = t]
    /\ ret' = "none"
    /\ UNCHANGED <<st, rules, ref, thread, stop, xray, attempted>>

\* apply_ruleset stops at the first command that fails and undoes nothing;
\* the manager then falls back to software mode.
ApplyOutput == /\ call.pc = "applyOut"
               /\ \/ Insert(call.target, "OUTPUT") /\ Goto("applyIn")
                  \/ UNCHANGED rules /\ Goto("fallback")
               /\ UNCHANGED <<st, residue, ref, thread, stop, xray, ret, attempted>>

ApplyInput == /\ call.pc = "applyIn"
              /\ \/ Insert(call.target, "INPUT") /\ Goto("arm")
                 \/ UNCHANGED rules /\ Goto("fallback")
              /\ UNCHANGED <<st, residue, ref, thread, stop, xray, ret, attempted>>

Arm == /\ call.pc \in {"arm", "fallback"} /\ StateLockFree
       /\ st' = [kernel |-> call.pc = "arm", active |-> TRUE, target |-> call.target,
                 watcher |-> "NOT_STARTED", triggered |-> FALSE]
       /\ attempted' = FALSE
       /\ Return("none")
       /\ UNCHANGED <<rules, residue, ref, thread, stop, xray>>

-----------------------------------------------------------------------------
(* start_process_watcher: it holds _watcher_lock throughout and no thread  *)
(* is alive when it changes anything, so it is one step.                   *)

StartAgain == /\ call.pc = "idle"
              /\ Watched
              /\ ret' = "none"
              /\ UNCHANGED <<st, rules, residue, ref, thread, stop, xray, call, attempted>>

StartRefused == /\ call.pc = "idle" /\ StateLockFree
                /\ ~Watched
                /\ st.watcher = "PROCESS_DIED"
                /\ ret' = "raised"
                /\ UNCHANGED <<st, rules, residue, ref, thread, stop, xray, call, attempted>>

StartWatcher == /\ call.pc = "idle" /\ StateLockFree
                /\ ~Watched
                /\ st.watcher # "PROCESS_DIED"
                /\ \E t \in Threads :
                     /\ ~Live(t)
                     /\ thread' = [thread EXCEPT ![t] = "wait"]
                     /\ ref' = t
                /\ st' = [st EXCEPT !.watcher = "RUNNING", !.triggered = FALSE]
                /\ stop' = FALSE
                /\ ret' = "none"
                /\ UNCHANGED <<rules, residue, xray, call, attempted>>

-----------------------------------------------------------------------------
(* stop_process_watcher, called by itself or by deactivate.                *)

StopWatcher == /\ call.pc = "idle"
               /\ call' = [NoCall EXCEPT !.pc = "signal", !.op = "stop"]
               /\ ret' = "none"
               /\ UNCHANGED <<st, rules, residue, ref, thread, stop, xray, attempted>>

Signal == /\ call.pc = "signal"
          /\ stop' = TRUE
          /\ Goto("read")
          /\ UNCHANGED <<st, rules, residue, ref, thread, xray, ret, attempted>>

ReadThread == /\ call.pc = "read"
              /\ call' = [call EXCEPT !.thread = ref,
                                      !.pc = IF ref = None THEN "settle" ELSE "join"]
              /\ UNCHANGED <<st, rules, residue, ref, thread, stop, xray, ret, attempted>>

Joined == /\ call.pc = "join"
          /\ ~Live(call.thread)
          /\ ref' = IF ref = call.thread THEN None ELSE ref
          /\ Goto("settle")
          /\ UNCHANGED <<st, rules, residue, thread, stop, xray, ret, attempted>>

\* The two seconds are over first; deactivate then returns without a result.
JoinTimesOut == /\ call.pc = "join"
                /\ Live(call.thread)
                /\ Return(IF call.op = "stop" THEN "false" ELSE "none")
                /\ UNCHANGED <<st, rules, residue, ref, thread, stop, xray, attempted>>

NotRunning == IF st.watcher = "RUNNING" THEN [st EXCEPT !.watcher = "STOPPED"] ELSE st

Settle == /\ call.pc = "settle" /\ StateLockFree
          /\ st' = NotRunning
          /\ IF call.op = "stop" THEN Return("true") ELSE Goto("disarm") /\ UNCHANGED ret
          /\ UNCHANGED <<rules, residue, ref, thread, stop, xray, attempted>>

-----------------------------------------------------------------------------
(* deactivate: what it finds in _state when it begins decides everything.  *)

Deactivate == /\ call.pc = "idle" /\ StateLockFree
              /\ call' = [NoCall EXCEPT
                   !.pc = IF st.kernel /\ st.active THEN "delIn" ELSE "signal",
                   !.op = "deactivate", !.snap = st]
              /\ ret' = "none"
              /\ UNCHANGED <<st, rules, residue, ref, thread, stop, xray, attempted>>

\* remove_ruleset goes through the rules in reverse and stops at the first
\* command that fails; deactivate then returns with the switch still active.
RemoveInput == /\ call.pc = "delIn"
               /\ attempted' = TRUE
               /\ \/ Delete(call.snap.target, "INPUT") /\ Goto("delOut") /\ UNCHANGED ret
                  \/ UNCHANGED rules /\ Return("none")
               /\ UNCHANGED <<st, residue, ref, thread, stop, xray>>

RemoveOutput == /\ call.pc = "delOut"
                /\ \/ Delete(call.snap.target, "OUTPUT") /\ Goto("signal") /\ UNCHANGED ret
                   \/ UNCHANGED rules /\ Return("none")
                /\ UNCHANGED <<st, residue, ref, thread, stop, xray, attempted>>

Disarm == /\ call.pc = "disarm" /\ StateLockFree
          /\ st' = [kernel |-> call.snap.kernel, active |-> FALSE, target |-> None,
                    watcher |-> "STOPPED", triggered |-> call.snap.triggered]
          /\ Return("none")
          /\ UNCHANGED <<rules, residue, ref, thread, stop, xray, attempted>>

-----------------------------------------------------------------------------
(* The watcher thread t.                                                   *)

Wake(t) == /\ thread[t] = "wait"
           /\ thread' = [thread EXCEPT ![t] = IF stop THEN "final" ELSE "poll"]
           /\ UNCHANGED <<st, rules, residue, ref, stop, xray, call, ret, attempted>>

\* poll_fn reports what the process is, or raises: both failures end in _trigger.
Poll(t) == /\ thread[t] = "poll"
           /\ \E alive \in {xray, FALSE} :
                thread' = [thread EXCEPT ![t] = IF alive THEN "wait" ELSE "detect"]
           /\ UNCHANGED <<st, rules, residue, ref, stop, xray, call, ret, attempted>>

\* The two tests of _stop_event before the write count as the last of them.
Detect(t) == /\ thread[t] = "detect" /\ StateLockFree
             /\ thread' = [thread EXCEPT ![t] =
                  IF stop \/ ~st.active THEN "final" ELSE "commit"]
             /\ UNCHANGED <<st, rules, residue, ref, stop, xray, call, ret, attempted>>

Commit(t) == /\ thread[t] = "commit"
             /\ st' = [st EXCEPT !.active = TRUE, !.watcher = "PROCESS_DIED",
                                 !.triggered = TRUE]
             /\ thread' = [thread EXCEPT ![t] = "latch"]
             /\ UNCHANGED <<rules, residue, ref, stop, xray, call, ret, attempted>>

Latch(t) == /\ thread[t] = "latch"
            /\ stop' = TRUE
            /\ thread' = [thread EXCEPT ![t] = "final"]
            /\ UNCHANGED <<st, rules, residue, ref, xray, call, ret, attempted>>

Finish(t) == /\ thread[t] = "final" /\ StateLockFree
             /\ st' = NotRunning
             /\ thread' = [thread EXCEPT ![t] = "clear"]
             /\ UNCHANGED <<rules, residue, ref, stop, xray, call, ret, attempted>>

Clear(t) == /\ thread[t] = "clear"
            /\ ref' = IF ref = t THEN None ELSE ref
            /\ thread' = [thread EXCEPT ![t] = "none"]
            /\ UNCHANGED <<st, rules, residue, stop, xray, call, ret, attempted>>

WatcherStep(t) == Wake(t) \/ Poll(t) \/ Detect(t) \/ Commit(t) \/ Latch(t)
                    \/ Finish(t) \/ Clear(t)

-----------------------------------------------------------------------------
XrayDies == /\ xray
            /\ xray' = FALSE
            /\ UNCHANGED <<st, rules, residue, ref, thread, stop, call, ret, attempted>>

CallerStep == \/ \E t \in Targets : Activate(t) \/ ActivateAgain(t)
              \/ ApplyOutput \/ ApplyInput \/ Arm
              \/ StartAgain \/ StartRefused \/ StartWatcher
              \/ StopWatcher \/ Signal \/ ReadThread \/ Joined \/ JoinTimesOut \/ Settle
              \/ Deactivate \/ RemoveInput \/ RemoveOutput \/ Disarm

Next == CallerStep \/ XrayDies \/ \E t \in Threads : WatcherStep(t)

Spec == Init /\ [][Next]_vars

\* The OS runs every started thread and poll_fn (subprocess.poll) returns.
\* Nothing makes the caller call, xray die or an iptables command succeed.
FairSpec == Spec /\ \A t \in Threads : WF_vars(WatcherStep(t))

-----------------------------------------------------------------------------
(* Properties                                                              *)

\* Whatever command fails in whatever call, a target whose incoming traffic
\* is dropped has its outgoing traffic dropped at least as often: removal in
\* reverse order never opens the way out first (apply_ruleset, remove_ruleset).
EgressBlockedFirst ==
    \A t \in Targets : rules[t]["OUTPUT"] >= rules[t]["INPUT"]

\* Between a kernel activation and the first attempt to undo it both rules of
\* the target are in the kernel, through triggers, refused calls and restarts
\* of the watcher (activate's early return and RuntimeError, deactivate).
Enforced == st.active /\ st.kernel /\ ~attempted =>
              \A c \in Chains : rules[st.target][c] > 0

\* An INPUT rule never outlives its activation, also when an earlier
\* activation or deactivation failed half-way.
NoIngressLeak == call.pc = "idle" /\ ~st.active =>
                   \A t \in Targets : rules[t]["INPUT"] = 0

\* "Start exactly one Xray liveness watcher": two watcher threads never run
\* at a time, even when a stop timed out before the next start.
OneWatcher == \A s, t \in Threads : Live(s) /\ Live(t) => s = t

\* watcher_state says RUNNING only while a thread that can still poll or
\* report exists and stop_process_watcher can find it.
RunningIsWatched == st.watcher = "RUNNING" =>
    ref # None /\ thread[ref] \in {"wait", "poll", "detect", "commit", "final"}

\* stop_process_watcher returns True only when no watcher thread is left and
\* watcher_state does not claim one.
StopReportIsTrue == ret = "true" =>
    (\A t \in Threads : ~Live(t)) /\ st.watcher # "RUNNING"

\* The manager implements the contract: a trigger written by a thread at any
\* moment arms, retargets or resurrects nothing, and is undone only by deactivate.
Contract == INSTANCE KillSwitchContract WITH
    phase <- IF ~st.active THEN "off" ELSE IF st.triggered THEN "tripped" ELSE "armed",
    target <- st.target
ImplementsContract == Contract!Spec

\* A process that dies under a running watcher of an active switch trips it,
\* unless the watcher is told to stop or the switch is deactivated first.
DeathIsDetected == st.active /\ st.watcher = "RUNNING" /\ ~xray ~>
                     st.triggered \/ stop \/ ~st.active

\* What deactivate's docstring promises ("Safely remove kernel rules"): once
\* the switch is off, no rule of it is left in the kernel.
OffMeansClean == call.pc = "idle" /\ ~st.active =>
                   \A t \in Targets, c \in Chains : rules[t][c] = 0

\* is_triggered ("whether the kill-switch has detected a failure") is carried
\* over by deactivate: a switch that tripped is not reported as untripped by
\* the step that turns it off.
TripSurvivesDisarm == [][st.active /\ st.triggered /\ ~st'.active => st'.triggered]_vars
=============================================================================
