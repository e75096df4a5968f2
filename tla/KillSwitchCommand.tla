-------------------------- MODULE KillSwitchCommand --------------------------
(***************************************************************************)
(* Several processes and one kernel: `bimarz killswitch enable` and        *)
(* `disable`, and the sessions of `bimarz connect --killswitch` and of the *)
(* graphical client (commands/killswitch.py, killswitch_manager.py,        *)
(* killswitch.rs).                                                         *)
(*                                                                         *)
(* Each process has a manager of its own, which starts inactive and        *)
(* remembers only what it has done itself.  The rules of one target are    *)
(* the same text for all of them, so that a deletion takes whichever is    *)
(* there.  KillSwitch has one such manager in full, with its watcher; here *)
(* a watcher matters only where it keeps a removal from being final.       *)
(***************************************************************************)
EXTENDS Naturals, FiniteSets

CONSTANTS Managers,   \* processes at a time
          Targets,    \* pairs of an interface and a user
          MaxStarts   \* bound: managers that activate

ASSUME StartsAssumption == MaxStarts \in Nat /\ IsFiniteSet(Managers)

VARIABLES output, input,  \* DROP rules in the filter table, by target
          probes,         \* rules of the probe in the mangle table
          manager,        \* the processes: what each does next
          starts,         \* activations so far
          said,           \* what the last `killswitch` command has printed
          enabled,        \* history: enable commands that put both rules in place
                          \* since the last disable command
          left,           \* history: why a rule may outlive its process
          repeated        \* history: targets of a removal that began again

rules == <<output, input, probes>>
commandVars == <<rules, manager, starts, said, enabled, left, repeated>>

NoManager == [at |-> "idle"]
Manager == [at : {"probe", "unprobe", "output", "input", "holding", "removeInput", "removeOutput"},
            kind : {"enable", "connect", "window"}, target : Targets, kernel : BOOLEAN,
            again : BOOLEAN]

\* One invariant per module says what the variables may hold: a rule is never
\* deleted that is not there.
CommandTypeOK ==
    /\ output \in [Targets -> 0..MaxStarts] /\ input \in [Targets -> 0..MaxStarts]
    /\ probes \in 0..MaxStarts /\ starts \in 0..MaxStarts
    /\ manager \in [Managers -> Manager \cup {NoManager}]
    /\ said \in {"nothing", "enabled", "disabled"}
    /\ enabled \in [Targets -> 0..MaxStarts]
    /\ left \subseteq {"enabled", "half", "killed", "unremoved", "probe"}
    /\ repeated \subseteq Targets

CommandInit == /\ output = [t \in Targets |-> 0] /\ input = [t \in Targets |-> 0]
               /\ probes = 0 /\ starts = 0
               /\ manager = [m \in Managers |-> NoManager]
               /\ said = "nothing"
               /\ enabled = [t \in Targets |-> 0] /\ left = {} /\ repeated = {}

-----------------------------------------------------------------------------
Does(m, step) == manager[m].at = step
Then(m, step) == manager' = [manager EXCEPT ![m].at = step]
Ends(m) == manager' = [manager EXCEPT ![m] = NoManager]
Target(m) == manager[m].target
Because(cause) == left' = left \cup {cause}

\* What iptables does with a rule of target t; it may always fail.
Insert(chain, t) == [chain EXCEPT ![t] = @ + 1]
Delete(chain, t) == [chain EXCEPT ![t] = @ - 1]

\* An activation is over: the command ends, a session goes on and will undo it.
Activated(m, kernel) ==
    IF manager[m].kind = "enable" THEN Ends(m) /\ said' = "enabled"
    ELSE manager' = [manager EXCEPT ![m].at = "holding", ![m].kernel = kernel] /\ UNCHANGED said

\* A deactivation that did not come to its end leaves the manager active.  The
\* window's worker deactivates when its run fails and once more in _cleanup.
Repeat(m) == /\ Because("unremoved") /\ ~manager[m].again
             /\ manager' = [manager EXCEPT ![m].at = "removeInput", ![m].again = TRUE]
             /\ repeated' = repeated \cup {Target(m)}

Unfinished(m) == IF manager[m].kind = "window" /\ ~manager[m].again THEN Repeat(m)
                 ELSE Because("unremoved") /\ Ends(m) /\ UNCHANGED repeated

-----------------------------------------------------------------------------
(* Faulty variants of the definitions below: what would go wrong without    *)
(* the line they change.                                                   *)

DeleteUnchecked(m) ==
    /\ Does(m, "removeInput")
    /\ input' = Delete(input, Target(m)) /\ Then(m, "removeOutput")
    /\ UNCHANGED <<output, probes, starts, said, enabled, left, repeated>>

RemoveOutputFirst(m) ==
    /\ Does(m, "removeInput") /\ output[Target(m)] > 0
    /\ output' = Delete(output, Target(m)) /\ Then(m, "removeOutput")
    /\ UNCHANGED <<input, probes, starts, said, enabled, left, repeated>>

RemoveOne(m) ==
    /\ Does(m, "removeInput") /\ input[Target(m)] > 0
    /\ input' = Delete(input, Target(m)) /\ Ends(m)
    /\ UNCHANGED <<output, probes, starts, said, enabled, left, repeated>>

DeactivateAlways(m) ==
    /\ Does(m, "holding")
    /\ Then(m, "removeInput")
    /\ UNCHANGED <<rules, starts, said, enabled, left, repeated>>

-----------------------------------------------------------------------------
(* activate                                                                *)

Activate(m) == /\ manager[m] = NoManager /\ starts < MaxStarts
               /\ \E kind \in {"enable", "connect", "window"}, t \in Targets :
                    manager' = [manager EXCEPT ![m] = [at |-> "probe", kind |-> kind, target |-> t,
                                                       kernel |-> FALSE, again |-> FALSE]]
               /\ starts' = starts + 1
               /\ UNCHANGED <<rules, said, enabled, left, repeated>>

Probe(m) == /\ Does(m, "probe")
            /\ \/ probes' = probes + 1 /\ Then(m, "unprobe") /\ UNCHANGED said
               \/ Activated(m, FALSE) /\ UNCHANGED probes
            /\ UNCHANGED <<output, input, starts, enabled, left, repeated>>

\* The result of the deletion is not looked at.
Unprobe(m) == /\ Does(m, "unprobe")
              /\ \/ probes > 0 /\ probes' = probes - 1 /\ UNCHANGED left
                 \/ Because("probe") /\ UNCHANGED probes
              /\ Then(m, "output")
              /\ UNCHANGED <<output, input, starts, said, enabled, repeated>>

ApplyOutput(m) == /\ Does(m, "output")
                  /\ \/ /\ output' = Insert(output, Target(m))
                        /\ Then(m, "input") /\ UNCHANGED said
                     \/ Activated(m, FALSE) /\ UNCHANGED output
                  /\ UNCHANGED <<input, probes, starts, enabled, left, repeated>>

\* If the second rule fails the first stays, and nobody remembers it.
ApplyInput(m) ==
    /\ Does(m, "input")
    /\ \/ /\ input' = Insert(input, Target(m)) /\ Activated(m, TRUE)
          /\ IF manager[m].kind = "enable"
             THEN enabled' = Insert(enabled, Target(m)) /\ Because("enabled")
             ELSE UNCHANGED <<enabled, left>>
       \/ Activated(m, FALSE) /\ Because("half") /\ UNCHANGED <<input, enabled>>
    /\ UNCHANGED <<output, probes, starts, repeated>>

-----------------------------------------------------------------------------
(* deactivate                                                              *)

\* A session ends; a switch in software mode has no rules to remove.
Deactivate(m) == /\ Does(m, "holding")
                 /\ IF manager[m].kernel THEN Then(m, "removeInput") ELSE Ends(m)
                 /\ UNCHANGED <<rules, starts, said, enabled, left, repeated>>

RemoveInput(m) == /\ Does(m, "removeInput")
                  /\ \/ /\ input[Target(m)] > 0 /\ input' = Delete(input, Target(m))
                        /\ Then(m, "removeOutput") /\ UNCHANGED <<left, repeated>>
                     \/ Unfinished(m) /\ UNCHANGED input
                  /\ UNCHANGED <<output, probes, starts, said, enabled>>

\* Also a watcher that does not stop in time keeps the switch active.  Stopping
\* one that never started raises: _rollback of `bimarz connect` leaves the switch
\* to cleanup, which deactivates it again.
RemoveOutput(m) == /\ Does(m, "removeOutput")
                   /\ \/ /\ output[Target(m)] > 0 /\ output' = Delete(output, Target(m))
                         /\ \/ Ends(m) /\ UNCHANGED <<left, repeated>>
                            \/ Unfinished(m)
                            \/ manager[m].kind = "connect" /\ Repeat(m)
                      \/ Unfinished(m) /\ UNCHANGED output
                   /\ UNCHANGED <<input, probes, starts, said, enabled>>

\* `killswitch disable` deactivates a manager that is not active, and says so.
Disable == /\ said' = "disabled" /\ enabled' = [t \in Targets |-> 0]
           /\ UNCHANGED <<rules, manager, starts, left, repeated>>

KillManager(m) == /\ manager[m] # NoManager
           /\ Ends(m) /\ Because("killed")
           /\ UNCHANGED <<rules, starts, said, enabled, repeated>>

CommandStep(m) == \/ Activate(m) \/ Probe(m) \/ Unprobe(m) \/ ApplyOutput(m) \/ ApplyInput(m)
                  \/ Deactivate(m) \/ RemoveInput(m) \/ RemoveOutput(m) \/ KillManager(m)

CommandNext == Disable \/ \E m \in Managers : CommandStep(m)

CommandSpec == CommandInit /\ [][CommandNext]_commandVars

-----------------------------------------------------------------------------
(* Properties                                                              *)

\* Whatever commands fail and processes interleave, a target's outgoing traffic
\* is blocked at least as often as its incoming.
EgressFirst == \A t \in Targets : output[t] >= input[t]

\* What `killswitch enable` has blocked stays blocked until somebody asks for
\* the opposite: sessions that come and go with the same target take only as
\* many rules as they have added.  The exception is a removal that was begun
\* again after it had not come to its end.
CommandBlockStays == \A t \in Targets \ repeated :
    output[t] >= enabled[t] /\ input[t] >= enabled[t]

\* No rule outlives the processes, those of the probe included, unless an
\* enable command left it there, an activation or a removal failed half-way,
\* the probe's deletion failed or a process was killed.
LeftoversHaveACause == (\A m \in Managers : manager[m] = NoManager) /\ left = {} =>
    /\ probes = 0
    /\ \A t \in Targets : output[t] = 0 /\ input[t] = 0

\* "Disable the kill-switch." and "Kill-switch disabled.": once the command has
\* printed that, and nothing has failed and no session is running, no target is
\* blocked.
DisableDisables == said = "disabled" /\ left \subseteq {"enabled"}
                   /\ (\A m \in Managers : manager[m] = NoManager) =>
    \A t \in Targets : output[t] = 0 /\ input[t] = 0
=============================================================================
