-------------------------- MODULE KillSwitch_proofs --------------------------
(***************************************************************************)
(* Safety of KillSwitch for any set of targets and watcher threads.  The   *)
(* argument has five parts, each a conjunct of IInv:                       *)
(*   Ownership  only the caller arms, and never while a thread writes      *)
(*   Watching   every live thread is the one _watcher_thread names         *)
(*   Egress     OUTPUT rules run ahead of INPUT rules                      *)
(*   Ingress    an INPUT rule is there exactly for the switch in force     *)
(*   Reports    watcher_state and a stop's result are true of the threads  *)
(***************************************************************************)
EXTENDS KillSwitch, TLAPS

Arming == {"applyOut", "applyIn", "arm", "fallback"}
Lifting == {"delOut", "signal", "read", "join", "settle", "disarm"}

\* Who may change what: a call's locals mean something while it runs.
Ownership ==
    /\ st.active => st.target \in Targets
    /\ ~st.active => st.target = None
    /\ st.active /\ st.triggered => st.watcher = "PROCESS_DIED"
    /\ call.pc \in Arming => ~st.active /\ call.target \in Targets
    /\ \A t \in Threads : thread[t] = "commit" => st.active
    /\ call.pc \in {"delIn", "delOut"} =>
         st.active /\ st.kernel /\ st.target = call.snap.target
    /\ call.pc \in {"delIn", "delOut", "disarm"} => call.op = "deactivate"
    /\ call.pc \in {"signal", "read", "join", "settle"} => call.op \in {"stop", "deactivate"}

Watching ==
    /\ \A t \in Threads : Live(t) => ref = t
    /\ call.pc = "join" => call.thread \in Threads /\ ref \in {call.thread, None}
    /\ call.pc = "settle" => \A t \in Threads : ~Live(t)

Egress ==
    /\ EgressBlockedFirst
    /\ call.pc = "applyIn" => rules[call.target]["OUTPUT"] > rules[call.target]["INPUT"]
    /\ call.pc = "delOut" =>
         rules[call.snap.target]["OUTPUT"] > rules[call.snap.target]["INPUT"]

\* The switch that an INPUT rule of t may belong to.
Held(t) == \/ call.pc = "arm" /\ call.target = t
           \/ st.active /\ st.kernel /\ st.target = t

Ingress ==
    /\ \A t \in Targets : rules[t]["INPUT"] \in {0, 1}
    /\ \A t \in Targets : rules[t]["INPUT"] = 1 => Held(t)
    /\ call.pc = "arm" => rules[call.target]["INPUT"] = 1
    /\ st.active /\ st.kernel /\ ~attempted => rules[st.target]["INPUT"] = 1
    /\ call.op = "deactivate" /\ call.pc \in Lifting /\ st.active /\ st.kernel =>
         rules[st.target]["INPUT"] = 0

\* What the watcher's reports say is true of the threads.
Reports == RunningIsWatched /\ StopReportIsTrue

IInv == TypeOK /\ Ownership /\ Watching /\ Egress /\ Ingress /\ Reports

-----------------------------------------------------------------------------
(* The shape of the records.                                               *)

LEMMA InitialStateType == InitialState \in States
  BY DEF InitialState, States, WatcherStates

LEMMA NoCallType == NoCall \in Calls
  BY InitialStateType DEF NoCall, Calls, CallSteps

\* Every assignment the code makes to _state gives a KillSwitchState.
LEMMA StateUpdates ==
    ASSUME NEW s \in States
    PROVE  /\ [s EXCEPT !.watcher = "RUNNING", !.triggered = FALSE] \in States
           /\ [s EXCEPT !.watcher = "STOPPED"] \in States
           /\ [s EXCEPT !.active = TRUE, !.watcher = "PROCESS_DIED", !.triggered = TRUE] \in States
  BY DEF States, WatcherStates

LEMMA NewState ==
    ASSUME NEW k \in BOOLEAN, NEW a \in BOOLEAN, NEW t \in Targets \cup {None},
           NEW w \in WatcherStates, NEW g \in BOOLEAN
    PROVE  [kernel |-> k, active |-> a, target |-> t, watcher |-> w, triggered |-> g] \in States
  BY DEF States

LEMMA StateFields ==
    ASSUME NEW s \in States
    PROVE  /\ s.kernel \in BOOLEAN
           /\ s.active \in BOOLEAN
           /\ s.target \in Targets \cup {None}
           /\ s.watcher \in WatcherStates
           /\ s.triggered \in BOOLEAN
  BY DEF States

LEMMA CallFields ==
    ASSUME NEW k \in Calls
    PROVE  /\ k.pc \in CallSteps
           /\ k.target \in Targets \cup {None}
           /\ k.snap \in States
           /\ k.thread \in Threads \cup {None}
  BY DEF Calls

LEMMA CallGoto ==
    ASSUME NEW k \in Calls, NEW pc \in CallSteps
    PROVE  [k EXCEPT !.pc = pc] \in Calls
  BY DEF Calls

\* The four ways a call begins or reads a local.
LEMMA CallUpdates ==
    ASSUME NEW k \in Calls, NEW pc \in CallSteps
    PROVE  /\ \A t \in Targets :
                [NoCall EXCEPT !.pc = pc, !.op = "activate", !.target = t] \in Calls
           /\ [NoCall EXCEPT !.pc = pc, !.op = "stop"] \in Calls
           /\ \A s \in States :
                [NoCall EXCEPT !.pc = pc, !.op = "deactivate", !.snap = s] \in Calls
           /\ \A t \in Threads \cup {None} : [k EXCEPT !.thread = t, !.pc = pc] \in Calls
  BY InitialStateType, NoCallType DEF Calls, NoCall

\* What an iptables command does to the counts: one count moves by one.
LEMMA RuleUpdates ==
    ASSUME rules \in [Targets -> [Chains -> Nat]], NEW t \in Targets, NEW c \in Chains,
           Insert(t, c) \/ Delete(t, c)
    PROVE  /\ rules' \in [Targets -> [Chains -> Nat]]
           /\ \A u \in Targets, d \in Chains : u # t \/ d # c => rules'[u][d] = rules[u][d]
           /\ Insert(t, c) => rules'[t][c] = rules[t][c] + 1
           /\ Delete(t, c) => rules'[t][c] = rules[t][c] - 1 /\ rules[t][c] > 0
  BY DEF Insert, Delete

-----------------------------------------------------------------------------
\* The variables keep their types: the shape of _state, of the kernel's rule
\* counts and of a call's locals, in every operation and every thread step.
LEMMA TypeInductive == TypeOK /\ Ownership /\ [Next]_vars => TypeOK'
<1>. SUFFICES ASSUME TypeOK, Ownership, [Next]_vars PROVE TypeOK'
  OBVIOUS
<1>. USE DEF TypeOK
<1>0. /\ st.kernel \in BOOLEAN /\ st.active \in BOOLEAN
      /\ st.target \in Targets \cup {None}
      /\ call.target \in Targets \cup {None} /\ call.snap \in States
      /\ call.snap.target \in Targets \cup {None}
      /\ call.snap.kernel \in BOOLEAN /\ call.snap.triggered \in BOOLEAN
  BY StateFields, CallFields
<1>1. ASSUME NEW t \in Targets, Activate(t) PROVE TypeOK'
  <2>1. PICK capable \in BOOLEAN :
          /\ residue' \in IF capable THEN {residue, TRUE} ELSE {residue}
          /\ call' = [NoCall EXCEPT
               !.pc = IF capable /\ t \notin NoUid THEN "applyOut" ELSE "fallback",
               !.op = "activate", !.target = t]
    BY <1>1 DEF Activate
  <2>2. (IF capable /\ t \notin NoUid THEN "applyOut" ELSE "fallback") \in CallSteps
    BY DEF CallSteps
  <2>3. call' \in Calls
    BY <2>1, <2>2, CallUpdates
  <2>. QED
    BY <1>1, <2>1, <2>3 DEF Activate
<1>2. ASSUME NEW t \in Targets, ActivateAgain(t) PROVE TypeOK'
  BY <1>2 DEF ActivateAgain
<1>3. CASE ApplyOutput
  <2>1. call.target \in Targets
    BY <1>3 DEF ApplyOutput, Ownership, Arming
  <2>2. "applyIn" \in CallSteps /\ "fallback" \in CallSteps /\ "OUTPUT" \in Chains
    BY DEF CallSteps, Chains
  <2>. QED
    BY <1>3, <2>1, <2>2, CallGoto, RuleUpdates DEF ApplyOutput, Goto
<1>4. CASE ApplyInput
  <2>1. call.target \in Targets
    BY <1>4 DEF ApplyInput, Ownership, Arming
  <2>2. "arm" \in CallSteps /\ "fallback" \in CallSteps /\ "INPUT" \in Chains
    BY DEF CallSteps, Chains
  <2>. QED
    BY <1>4, <2>1, <2>2, CallGoto, RuleUpdates DEF ApplyInput, Goto
<1>5. CASE Arm
  <2>1. (call.pc = "arm") \in BOOLEAN /\ "NOT_STARTED" \in WatcherStates
    BY DEF WatcherStates
  <2>2. st' \in States
    BY <1>0, <1>5, <2>1, NewState DEF Arm
  <2>. QED
    BY <1>5, <2>2, NoCallType DEF Arm, Return
<1>6. CASE StartAgain \/ StartRefused
  BY <1>6 DEF StartAgain, StartRefused
<1>7. CASE StartWatcher
  BY <1>7, StateUpdates DEF StartWatcher, ThreadSteps
<1>8. CASE StopWatcher
  BY <1>8, CallUpdates DEF StopWatcher, CallSteps
<1>9. CASE Signal
  BY <1>9, CallGoto DEF Signal, Goto, CallSteps
<1>10. CASE ReadThread
  BY <1>10, CallUpdates DEF ReadThread, CallSteps
<1>11. CASE Joined
  BY <1>11, CallGoto DEF Joined, Goto, CallSteps
<1>12. CASE JoinTimesOut
  BY <1>12, NoCallType DEF JoinTimesOut, Return
<1>13. CASE Settle
  BY <1>13, NoCallType, StateUpdates, CallGoto DEF Settle, Return, Goto, NotRunning, CallSteps
<1>14. CASE Deactivate
  BY <1>14, CallUpdates DEF Deactivate, CallSteps
<1>15. CASE RemoveInput
  <2>1. call.snap.target \in Targets
    BY <1>15 DEF RemoveInput, Ownership
  <2>2. "delOut" \in CallSteps /\ "INPUT" \in Chains
    BY DEF CallSteps, Chains
  <2>. QED
    BY <1>15, <2>1, <2>2, CallGoto, NoCallType, RuleUpdates DEF RemoveInput, Goto, Return
<1>16. CASE RemoveOutput
  <2>1. call.snap.target \in Targets
    BY <1>16 DEF RemoveOutput, Ownership
  <2>2. "signal" \in CallSteps /\ "OUTPUT" \in Chains
    BY DEF CallSteps, Chains
  <2>. QED
    BY <1>16, <2>1, <2>2, CallGoto, NoCallType, RuleUpdates DEF RemoveOutput, Goto, Return
<1>17. CASE Disarm
  <2>1. st' \in States
    BY <1>0, <1>17, NewState DEF Disarm, WatcherStates
  <2>. QED
    BY <1>17, <2>1, NoCallType DEF Disarm, Return
<1>18. ASSUME NEW t \in Threads, WatcherStep(t) PROVE TypeOK'
  <2>. USE DEF ThreadSteps
  <2>1. CASE Wake(t) \/ Poll(t) \/ Detect(t)
    BY <2>1 DEF Wake, Poll, Detect
  <2>2. CASE Commit(t)
    BY <2>2, StateUpdates DEF Commit
  <2>3. CASE Latch(t) \/ Clear(t)
    BY <2>3 DEF Latch, Clear
  <2>4. CASE Finish(t)
    BY <2>4, StateUpdates DEF Finish, NotRunning
  <2>. QED
    BY <1>18, <2>1, <2>2, <2>3, <2>4 DEF WatcherStep
<1>19. CASE XrayDies
  BY <1>19 DEF XrayDies
<1>20. CASE UNCHANGED vars
  BY <1>20 DEF vars
<1>. QED
  BY <1>1, <1>2, <1>3, <1>4, <1>5, <1>6, <1>7, <1>8, <1>9, <1>10, <1>11, <1>12, <1>13,
     <1>14, <1>15, <1>16, <1>17, <1>18, <1>19, <1>20 DEF Next, CallerStep
-----------------------------------------------------------------------------
\* Only the caller arms, and no thread writes the state while it does.
LEMMA OwnershipInductive == TypeOK /\ Ownership /\ [Next]_vars => Ownership'
<1>. SUFFICES ASSUME TypeOK, Ownership, [Next]_vars PROVE Ownership'
  OBVIOUS
<1>. USE TargetsAssumption DEF TypeOK, Ownership, Arming
<1>1. ASSUME NEW t \in Targets, Activate(t) PROVE Ownership'
  BY <1>1 DEF Activate, NoCall
<1>2. ASSUME NEW t \in Targets, ActivateAgain(t) PROVE Ownership'
  BY <1>2 DEF ActivateAgain
<1>3. CASE ApplyOutput
  BY <1>3, CallFields DEF ApplyOutput, Goto, Calls
<1>4. CASE ApplyInput
  BY <1>4, CallFields DEF ApplyInput, Goto, Calls
<1>5. CASE Arm
  BY <1>5 DEF Arm, Return, NoCall, StateLockFree
<1>6. CASE StartAgain \/ StartRefused
  BY <1>6 DEF StartAgain, StartRefused
<1>7. CASE StartWatcher
  BY <1>7 DEF StartWatcher, States, StateLockFree
<1>8. CASE StopWatcher
  BY <1>8 DEF StopWatcher, NoCall
<1>9. CASE Signal
  BY <1>9 DEF Signal, Goto, Calls
<1>10. CASE ReadThread
  BY <1>10 DEF ReadThread, Calls
<1>11. CASE Joined
  BY <1>11 DEF Joined, Goto, Calls
<1>12. CASE JoinTimesOut
  BY <1>12 DEF JoinTimesOut, Return, NoCall
<1>13. CASE Settle
  BY <1>13 DEF Settle, Return, NoCall, Goto, Calls, NotRunning, States, StateLockFree
<1>14. CASE Deactivate
  BY <1>14 DEF Deactivate, NoCall
<1>15. CASE RemoveInput
  BY <1>15 DEF RemoveInput, Goto, Return, NoCall, Calls
<1>16. CASE RemoveOutput
  BY <1>16 DEF RemoveOutput, Goto, Return, NoCall, Calls
<1>17. CASE Disarm
  BY <1>17 DEF Disarm, Return, NoCall, StateLockFree
<1>18. ASSUME NEW t \in Threads, WatcherStep(t) PROVE Ownership'
  <2>1. CASE Wake(t) \/ Poll(t) \/ Latch(t) \/ Clear(t)
    BY <2>1 DEF Wake, Poll, Latch, Clear
  <2>2. CASE Detect(t)
    BY <2>2 DEF Detect
  <2>3. CASE Commit(t)
    BY <2>3 DEF Commit, States
  <2>4. CASE Finish(t)
    BY <2>4 DEF Finish, NotRunning, States
  <2>. QED
    BY <1>18, <2>1, <2>2, <2>3, <2>4 DEF WatcherStep
<1>19. CASE XrayDies
  BY <1>19 DEF XrayDies
<1>20. CASE UNCHANGED vars
  BY <1>20 DEF vars
<1>. QED
  BY <1>1, <1>2, <1>3, <1>4, <1>5, <1>6, <1>7, <1>8, <1>9, <1>10, <1>11, <1>12, <1>13,
     <1>14, <1>15, <1>16, <1>17, <1>18, <1>19, <1>20 DEF Next, CallerStep

\* Every live watcher thread is the one _watcher_thread names.
LEMMA WatchingInductive == TypeOK /\ Watching /\ [Next]_vars => Watching'
<1>. SUFFICES ASSUME TypeOK, Watching, [Next]_vars PROVE Watching'
  OBVIOUS
<1>. USE ThreadsAssumption DEF TypeOK, Watching, Live
<1>1. ASSUME NEW t \in Targets, Activate(t) \/ ActivateAgain(t) PROVE Watching'
  BY <1>1 DEF Activate, ActivateAgain, NoCall
<1>2. CASE ApplyOutput \/ ApplyInput
  BY <1>2 DEF ApplyOutput, ApplyInput, Goto, Calls
<1>3. CASE Arm
  BY <1>3 DEF Arm, Return, NoCall
<1>4. CASE StartAgain \/ StartRefused
  BY <1>4 DEF StartAgain, StartRefused
<1>5. CASE StartWatcher
  BY <1>5 DEF StartWatcher, Watched
<1>6. CASE StopWatcher \/ Deactivate
  BY <1>6 DEF StopWatcher, Deactivate, NoCall
<1>7. CASE Signal
  BY <1>7 DEF Signal, Goto, Calls
<1>8. CASE ReadThread
  BY <1>8 DEF ReadThread, Calls
<1>9. CASE Joined
  BY <1>9 DEF Joined, Goto, Calls
<1>10. CASE JoinTimesOut
  BY <1>10 DEF JoinTimesOut, Return, NoCall
<1>11. CASE Settle
  BY <1>11 DEF Settle, Return, NoCall, Goto, Calls
<1>12. CASE RemoveInput \/ RemoveOutput
  BY <1>12 DEF RemoveInput, RemoveOutput, Goto, Return, NoCall, Calls
<1>13. CASE Disarm
  BY <1>13 DEF Disarm, Return, NoCall
<1>14. ASSUME NEW t \in Threads, WatcherStep(t) PROVE Watching'
  BY <1>14 DEF WatcherStep, Wake, Poll, Detect, Commit, Latch, Finish, Clear
<1>15. CASE XrayDies \/ UNCHANGED vars
  BY <1>15 DEF XrayDies, vars
<1>. QED
  BY <1>1, <1>2, <1>3, <1>4, <1>5, <1>6, <1>7, <1>8, <1>9, <1>10, <1>11, <1>12, <1>13,
     <1>14, <1>15 DEF Next, CallerStep

\* OUTPUT rules run ahead of INPUT rules.
LEMMA EgressInductive == TypeOK /\ Ownership /\ Egress /\ [Next]_vars => Egress'
<1>. SUFFICES ASSUME TypeOK, Ownership, Egress, [Next]_vars PROVE Egress'
  OBVIOUS
<1>. USE DEF TypeOK, Egress, EgressBlockedFirst
<1>0. "OUTPUT" \in Chains /\ "INPUT" \in Chains
  BY DEF Chains
<1>1. CASE ApplyOutput
  <2>1. call.target \in Targets
    BY <1>1 DEF ApplyOutput, Ownership, Arming
  <2>2. CASE Insert(call.target, "OUTPUT") /\ Goto("applyIn")
    <3>1. call'.pc = "applyIn" /\ call'.target = call.target
      BY <2>2 DEF Goto, Calls
    <3>. QED
      BY <1>0, <2>1, <2>2, <3>1, RuleUpdates
  <2>3. CASE UNCHANGED rules /\ Goto("fallback")
    BY <2>3 DEF Goto, Calls
  <2>. QED
    BY <1>1, <2>2, <2>3 DEF ApplyOutput
<1>2. CASE ApplyInput
  <2>1. call.target \in Targets
    BY <1>2 DEF ApplyInput, Ownership, Arming
  <2>. QED
    BY <1>0, <1>2, <2>1, RuleUpdates DEF ApplyInput, Goto, Calls
<1>3. CASE RemoveInput
  <2>1. call.snap.target \in Targets
    BY <1>3 DEF RemoveInput, Ownership
  <2>. QED
    BY <1>0, <1>3, <2>1, RuleUpdates DEF RemoveInput, Goto, Return, NoCall, Calls
<1>4. CASE RemoveOutput
  <2>1. call.snap.target \in Targets
    BY <1>4 DEF RemoveOutput, Ownership
  <2>. QED
    BY <1>0, <1>4, <2>1, RuleUpdates DEF RemoveOutput, Goto, Return, NoCall, Calls
<1>5. ASSUME NEW t \in Targets, Activate(t) \/ ActivateAgain(t) PROVE Egress'
  BY <1>5 DEF Activate, ActivateAgain, NoCall
<1>6. CASE Arm \/ Disarm \/ JoinTimesOut
  BY <1>6 DEF Arm, Disarm, JoinTimesOut, Return, NoCall
<1>7. CASE StartAgain \/ StartRefused \/ StartWatcher
  BY <1>7 DEF StartAgain, StartRefused, StartWatcher
<1>8. CASE StopWatcher \/ Deactivate
  BY <1>8 DEF StopWatcher, Deactivate, NoCall
<1>9. CASE Signal \/ ReadThread \/ Joined
  BY <1>9 DEF Signal, ReadThread, Joined, Goto, Calls
<1>10. CASE Settle
  BY <1>10 DEF Settle, Goto, Return, NoCall, Calls
<1>11. ASSUME NEW t \in Threads, WatcherStep(t) PROVE Egress'
  BY <1>11 DEF WatcherStep, Wake, Poll, Detect, Commit, Latch, Finish, Clear
<1>12. CASE XrayDies \/ UNCHANGED vars
  BY <1>12 DEF XrayDies, vars
<1>. QED
  BY <1>1, <1>2, <1>3, <1>4, <1>5, <1>6, <1>7, <1>8, <1>9, <1>10, <1>11, <1>12
     DEF Next, CallerStep

\* An INPUT rule exists only for the switch in force, and exactly one.
LEMMA IngressInductive == TypeOK /\ Ownership /\ Ingress /\ [Next]_vars => Ingress'
<1>. SUFFICES ASSUME TypeOK, Ownership, Ingress, [Next]_vars PROVE Ingress'
  OBVIOUS
<1>. USE DEF TypeOK, Ingress, Held, Lifting
<1>0. "OUTPUT" \in Chains /\ "INPUT" \in Chains
  BY DEF Chains
<1>1. CASE ApplyOutput
  <2>1. call.target \in Targets
    BY <1>1 DEF ApplyOutput, Ownership, Arming
  <2>2. \A t \in Targets : rules'[t]["INPUT"] = rules[t]["INPUT"]
    BY <1>0, <1>1, <2>1, RuleUpdates DEF ApplyOutput
  <2>. QED
    BY <1>1, <2>2 DEF ApplyOutput, Goto, Calls, Ownership, Arming
<1>2. CASE ApplyInput
  <2>1. call.target \in Targets /\ ~st.active
    BY <1>2 DEF ApplyInput, Ownership, Arming
  <2>2. CASE Insert(call.target, "INPUT") /\ Goto("arm")
    <3>1. call'.pc = "arm" /\ call'.target = call.target /\ call'.op = call.op
      BY <2>2 DEF Goto, Calls
    <3>2. rules[call.target]["INPUT"] = 0
      BY <1>2, <2>1 DEF ApplyInput
    <3>3. rules'[call.target]["INPUT"] = 1
      BY <1>0, <2>1, <2>2, <3>2, RuleUpdates
    <3>4. \A t \in Targets : t # call.target => rules'[t]["INPUT"] = rules[t]["INPUT"]
      BY <1>0, <2>1, <2>2, RuleUpdates
    <3>. QED
      BY <1>2, <2>1, <3>1, <3>3, <3>4 DEF ApplyInput
  <2>3. CASE UNCHANGED rules /\ Goto("fallback")
    BY <1>2, <2>1, <2>3 DEF ApplyInput, Goto, Calls
  <2>. QED
    BY <1>2, <2>2, <2>3 DEF ApplyInput
<1>3. CASE Arm
  <2>1. ~st.active /\ call.target \in Targets
    BY <1>3 DEF Arm, Ownership, Arming
  <2>. QED
    BY <1>3, <2>1 DEF Arm, Return, NoCall
<1>4. CASE RemoveInput
  <2>1. call.snap.target \in Targets /\ st.target = call.snap.target /\ st.active /\ st.kernel
    BY <1>4 DEF RemoveInput, Ownership
  <2>2. CASE Delete(call.snap.target, "INPUT") /\ Goto("delOut")
    <3>1. call'.pc = "delOut" /\ call'.op = call.op
      BY <2>2 DEF Goto, Calls
    <3>2. rules'[st.target]["INPUT"] = 0
      BY <1>0, <2>1, <2>2, RuleUpdates
    <3>3. \A t \in Targets : t # st.target => rules'[t]["INPUT"] = rules[t]["INPUT"]
      BY <1>0, <2>1, <2>2, RuleUpdates
    <3>4. attempted' /\ st' = st
      BY <1>4 DEF RemoveInput
    <3>5. call.pc = "delIn"
      BY <1>4 DEF RemoveInput
    <3>. QED
      BY <2>1, <3>1, <3>2, <3>3, <3>4, <3>5
  <2>3. CASE UNCHANGED rules /\ Return("none")
    BY <1>4, <2>3 DEF RemoveInput, Return, NoCall
  <2>. QED
    BY <1>4, <2>2, <2>3 DEF RemoveInput
<1>5. CASE RemoveOutput
  <2>1. call.snap.target \in Targets
    BY <1>5 DEF RemoveOutput, Ownership
  <2>2. \A t \in Targets : rules'[t]["INPUT"] = rules[t]["INPUT"]
    BY <1>0, <1>5, <2>1, RuleUpdates DEF RemoveOutput
  <2>3. st.target \in Targets
    BY <1>5, <2>1 DEF RemoveOutput, Ownership
  <2>. QED
    BY <1>5, <2>2, <2>3 DEF RemoveOutput, Goto, Return, NoCall, Calls
<1>6. ASSUME NEW t \in Targets, Activate(t) PROVE Ingress'
  BY <1>6 DEF Activate, NoCall
<1>7. ASSUME NEW t \in Targets, ActivateAgain(t) PROVE Ingress'
  BY <1>7 DEF ActivateAgain
<1>8. CASE StartAgain \/ StartRefused
  BY <1>8 DEF StartAgain, StartRefused
<1>9. CASE StartWatcher
  BY <1>9 DEF StartWatcher, States
<1>10. CASE StopWatcher
  BY <1>10 DEF StopWatcher, NoCall
<1>11. CASE Deactivate
  BY <1>11 DEF Deactivate, NoCall
<1>12. CASE Signal \/ ReadThread \/ Joined
  BY <1>12 DEF Signal, ReadThread, Joined, Goto, Calls
<1>13. CASE JoinTimesOut
  BY <1>13 DEF JoinTimesOut, Return, NoCall
<1>14. CASE Settle
  <2>1. st'.active = st.active /\ st'.kernel = st.kernel /\ st'.target = st.target
    BY <1>14 DEF Settle, NotRunning, States
  <2>2. call' = NoCall \/ call' = [call EXCEPT !.pc = "disarm"]
    BY <1>14 DEF Settle, Return, Goto
  <2>. QED
    BY <1>14, <2>1, <2>2 DEF Settle, NoCall, Calls
<1>15. CASE Disarm
  <2>1. call.op = "deactivate"
    BY <1>15 DEF Disarm, Ownership
  <2>2. \A t \in Targets : rules[t]["INPUT"] = 0
    BY <1>15, <2>1 DEF Disarm
  <2>. QED
    BY <1>15, <2>2 DEF Disarm, Return, NoCall
<1>16. ASSUME NEW t \in Threads, WatcherStep(t) PROVE Ingress'
  <2>1. /\ st'.active = st.active /\ st'.kernel = st.kernel /\ st'.target = st.target
        /\ UNCHANGED <<rules, call, attempted>>
    BY <1>16 DEF WatcherStep, Wake, Poll, Detect, Commit, Latch, Finish, Clear,
                 NotRunning, States, Ownership
  <2>. QED
    BY <2>1
<1>17. CASE XrayDies \/ UNCHANGED vars
  BY <1>17 DEF XrayDies, vars
<1>. QED
  BY <1>1, <1>2, <1>3, <1>4, <1>5, <1>6, <1>7, <1>8, <1>9, <1>10, <1>11, <1>12, <1>13,
     <1>14, <1>15, <1>16, <1>17 DEF Next, CallerStep

\* watcher_state and the result of a stop are true of the threads.
LEMMA ReportsInductive == TypeOK /\ Ownership /\ Watching /\ Reports /\ [Next]_vars => Reports'
<1>. SUFFICES ASSUME TypeOK, Ownership, Watching, Reports, [Next]_vars PROVE Reports'
  OBVIOUS
<1>. USE ThreadsAssumption DEF TypeOK, Watching, Live, Reports, RunningIsWatched,
         StopReportIsTrue
<1>1. ASSUME NEW t \in Targets, Activate(t) \/ ActivateAgain(t) PROVE Reports'
  BY <1>1 DEF Activate, ActivateAgain
<1>2. CASE ApplyOutput \/ ApplyInput
  BY <1>2 DEF ApplyOutput, ApplyInput
<1>3. CASE Arm
  BY <1>3 DEF Arm, Return
<1>4. CASE StartAgain \/ StartRefused
  BY <1>4 DEF StartAgain, StartRefused
<1>5. CASE StartWatcher
  BY <1>5 DEF StartWatcher
<1>6. CASE StopWatcher \/ Deactivate
  BY <1>6 DEF StopWatcher, Deactivate
<1>7. CASE Signal \/ ReadThread
  BY <1>7 DEF Signal, ReadThread
<1>8. CASE Joined
  BY <1>8 DEF Joined
<1>9. CASE JoinTimesOut
  BY <1>9 DEF JoinTimesOut, Return
<1>10. CASE Settle
  <2>1. st'.watcher # "RUNNING"
    BY <1>10 DEF Settle, NotRunning, States
  <2>. QED
    BY <1>10, <2>1 DEF Settle, Return
<1>11. CASE RemoveInput \/ RemoveOutput
  BY <1>11 DEF RemoveInput, RemoveOutput, Return
<1>12. CASE Disarm
  BY <1>12 DEF Disarm, Return
<1>13. ASSUME NEW t \in Threads, WatcherStep(t) PROVE Reports'
  <2>1. CASE Wake(t) \/ Poll(t) \/ Detect(t)
    BY <2>1 DEF Wake, Poll, Detect
  <2>2. CASE Commit(t)
    BY <2>2 DEF Commit, States
  <2>3. CASE Latch(t) \/ Clear(t)
    BY <2>3 DEF Latch, Clear
  <2>4. CASE Finish(t)
    <3>1. st'.watcher # "RUNNING"
      BY <2>4 DEF Finish, NotRunning, States
    <3>. QED
      BY <2>4, <3>1 DEF Finish
  <2>. QED
    BY <1>13, <2>1, <2>2, <2>3, <2>4 DEF WatcherStep
<1>14. CASE XrayDies \/ UNCHANGED vars
  BY <1>14 DEF XrayDies, vars
<1>. QED
  BY <1>1, <1>2, <1>3, <1>4, <1>5, <1>6, <1>7, <1>8, <1>9, <1>10, <1>11, <1>12, <1>13,
     <1>14 DEF Next, CallerStep

-----------------------------------------------------------------------------
LEMMA Initially == Init => IInv
<1>. SUFFICES ASSUME Init PROVE IInv
  OBVIOUS
<1>. USE DEF Init, InitialState, NoCall
<1>1. TypeOK
  BY InitialStateType, NoCallType DEF TypeOK, Chains, ThreadSteps
<1>2. Ownership
  BY DEF Ownership, Arming
<1>3. Watching
  BY DEF Watching, Live
<1>4. Egress /\ Ingress
  BY DEF Egress, EgressBlockedFirst, Ingress, Held, Lifting, Chains
<1>5. Reports
  BY DEF Reports, RunningIsWatched, StopReportIsTrue
<1>. QED
  BY <1>1, <1>2, <1>3, <1>4, <1>5 DEF IInv

LEMMA Inductive == Spec => []IInv
<1>1. IInv /\ [Next]_vars => IInv'
  BY TypeInductive, OwnershipInductive, WatchingInductive, EgressInductive,
     IngressInductive, ReportsInductive DEF IInv
<1>. QED
  BY Initially, <1>1, PTL DEF Spec

\* The variables keep their types in every operation and every thread step.
THEOREM TypeCorrect == Spec => []TypeOK
<1>1. IInv => TypeOK
  BY DEF IInv
<1>. QED
  BY Inductive, <1>1, PTL

\* No failure of an iptables command, in whatever call, leaves a target with
\* more incoming than outgoing DROP rules (apply_ruleset, remove_ruleset).
THEOREM EgressFirst == Spec => []EgressBlockedFirst
<1>1. IInv => EgressBlockedFirst
  BY DEF IInv, Egress
<1>. QED
  BY Inductive, <1>1, PTL

\* A kernel activation stays in force until a deactivation is attempted.
THEOREM StaysEnforced == Spec => []Enforced
<1>1. IInv => Enforced
  <2>. SUFFICES ASSUME IInv, st.active, st.kernel, ~attempted, NEW c \in Chains
                PROVE  rules[st.target][c] > 0
    BY DEF Enforced
  <2>1. st.target \in Targets
    BY DEF IInv, Ownership
  <2>2. rules[st.target]["INPUT"] = 1
    BY DEF IInv, Ingress
  <2>3. rules[st.target]["OUTPUT"] >= rules[st.target]["INPUT"]
    BY <2>1 DEF IInv, Egress, EgressBlockedFirst
  <2>4. rules[st.target]["OUTPUT"] \in Nat
    BY <2>1 DEF IInv, TypeOK, Chains
  <2>. QED
    BY <2>2, <2>3, <2>4 DEF Chains
<1>. QED
  BY Inductive, <1>1, PTL

\* An INPUT rule never outlives its activation.
THEOREM NoIngressRuleOutlives == Spec => []NoIngressLeak
<1>1. IInv => NoIngressLeak
  BY DEF IInv, Ingress, Held, NoIngressLeak
<1>. QED
  BY Inductive, <1>1, PTL

\* Two watcher threads never run at a time (start_process_watcher).
THEOREM AtMostOneWatcher == Spec => []OneWatcher
<1>1. IInv => OneWatcher
  BY DEF IInv, Watching, OneWatcher
<1>. QED
  BY Inductive, <1>1, PTL

\* RUNNING is never reported of a switch that no thread watches.
THEOREM RunningMeansWatched == Spec => []RunningIsWatched
<1>1. IInv => RunningIsWatched
  BY DEF IInv, Reports
<1>. QED
  BY Inductive, <1>1, PTL

\* A stop that returns True leaves no thread behind (stop_process_watcher).
THEOREM StopReportsAreTrue == Spec => []StopReportIsTrue
<1>1. IInv => StopReportIsTrue
  BY DEF IInv, Reports
<1>. QED
  BY Inductive, <1>1, PTL

-----------------------------------------------------------------------------
\* The manager implements the contract of a kill-switch: only activate arms it,
\* only a watcher trips it and only deactivate undoes that.
THEOREM RefinesContract == Spec => ImplementsContract
<1>. USE DEF Contract!vars, Contract!Next, Contract!Arm, Contract!Trip, Contract!Disarm
<1>1. Init => Contract!Init
  BY DEF Init, InitialState, Contract!Init
<1>2. IInv /\ [Next]_vars => [Contract!Next]_(Contract!vars)
  <2>. SUFFICES ASSUME IInv, [Next]_vars PROVE [Contract!Next]_(Contract!vars)
    OBVIOUS
  <2>. USE DEF IInv, TypeOK, Ownership
  <2>1. CASE UNCHANGED st
    BY <2>1
  <2>2. CASE Arm
    <3>1. ~st.active /\ st.target = None /\ call.target \in Targets
      BY <2>2 DEF Arm, Arming
    <3>2. st'.active /\ ~st'.triggered /\ st'.target = call.target
      BY <2>2 DEF Arm
    <3>. QED
      BY <3>1, <3>2
  <2>3. CASE StartWatcher
    BY <2>3 DEF StartWatcher, States
  <2>4. CASE Settle
    BY <2>4 DEF Settle, NotRunning, States
  <2>5. CASE Disarm
    BY <2>5 DEF Disarm
  <2>6. ASSUME NEW t \in Threads, Commit(t) PROVE [Contract!Next]_(Contract!vars)
    <3>1. st.active /\ st'.active /\ st'.triggered /\ st'.target = st.target
      BY <2>6 DEF Commit, States
    <3>. QED
      BY <3>1
  <2>7. ASSUME NEW t \in Threads, Finish(t) PROVE [Contract!Next]_(Contract!vars)
    BY <2>7 DEF Finish, NotRunning, States
  <2>8. \/ UNCHANGED st
        \/ Arm \/ StartWatcher \/ Settle \/ Disarm
        \/ \E t \in Threads : Commit(t) \/ Finish(t)
    BY DEF Next, CallerStep, vars, Activate, ActivateAgain, ApplyOutput, ApplyInput,
           StartAgain, StartRefused, StopWatcher, Signal, ReadThread, Joined,
           JoinTimesOut, Deactivate, RemoveInput, RemoveOutput, WatcherStep, Wake, Poll,
           Detect, Latch, Clear, XrayDies
  <2>. QED
    BY <2>1, <2>2, <2>3, <2>4, <2>5, <2>6, <2>7, <2>8
<1>. QED
  BY Inductive, <1>1, <1>2, PTL DEF Spec, ImplementsContract, Contract!Spec
=============================================================================
