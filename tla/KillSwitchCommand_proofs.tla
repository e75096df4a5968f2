----------------------- MODULE KillSwitchCommand_proofs -----------------------
(***************************************************************************)
(* Safety of KillSwitchCommand for any number of processes and targets.    *)
(*                                                                         *)
(* Every property compares the rules in the kernel with the processes that *)
(* have added or are about to remove one of them, so the invariants count  *)
(* processes by the step they are at.  A step moves one process, and so    *)
(* changes each count by at most one.                                      *)
(*   Bounded   no more rules than activations begun                        *)
(*   Egress    of the processes between the two rules of a target, each    *)
(*             has one more in OUTPUT                                      *)
(*   Blocked   the rules that enable commands left come on top of those    *)
(*             that sessions hold                                          *)
(*   Exact     while nothing went wrong there are no others                *)
(***************************************************************************)
EXTENDS KillSwitchCommand, FiniteSetTheorems, TLAPS

MayInsert == {"probe", "unprobe", "output"}

Probing == {m \in Managers : manager[m].at = "probe"}
Probed == {m \in Managers : manager[m].at = "unprobe"}
MayOutput(t) == {m \in Managers : manager[m].at \in MayInsert /\ Target(m) = t}
MayInput(t) == {m \in Managers : manager[m].at \in MayInsert \cup {"input"} /\ Target(m) = t}
Ahead(t) == {m \in Managers : manager[m].at \in {"input", "removeOutput"} /\ Target(m) = t}
HoldOutput(t) == {m \in Managers :
    /\ \/ manager[m].at \in {"input", "removeInput", "removeOutput"}
       \/ manager[m].at = "holding" /\ manager[m].kernel
    /\ Target(m) = t}
HoldInput(t) == {m \in Managers :
    /\ manager[m].at = "removeInput" \/ (manager[m].at = "holding" /\ manager[m].kernel)
    /\ Target(m) = t}

Shapes == /\ output \in [Targets -> Nat] /\ input \in [Targets -> Nat]
          /\ enabled \in [Targets -> Nat]
          /\ probes \in Nat /\ starts \in 0..MaxStarts
          /\ manager \in [Managers -> Manager \cup {NoManager}]
          /\ said \in {"nothing", "enabled", "disabled"}
          /\ left \subseteq {"enabled", "half", "killed", "unremoved", "probe"}
          /\ repeated \subseteq Targets

Bounded == /\ probes + Cardinality(Probing) <= starts
         /\ \A t \in Targets : /\ output[t] + Cardinality(MayOutput(t)) <= starts
                               /\ input[t] + Cardinality(MayInput(t)) <= starts
                               /\ enabled[t] + Cardinality(MayInput(t)) <= starts

Egress == \A t \in Targets : output[t] >= input[t] + Cardinality(Ahead(t))

Blocked == \A t \in Targets \ repeated :
    /\ output[t] >= enabled[t] + Cardinality(HoldOutput(t))
    /\ input[t] >= enabled[t] + Cardinality(HoldInput(t))

Exact == left = {} =>
    /\ probes = Cardinality(Probed)
    /\ \A t \in Targets : /\ output[t] = Cardinality(HoldOutput(t))
                          /\ input[t] = Cardinality(HoldInput(t))

CommandIInv == Shapes /\ Bounded /\ Egress /\ Blocked /\ Exact

-----------------------------------------------------------------------------
(* What a step does to the counts.                                         *)

Delta(S, T, m) ==
    /\ Cardinality(S) \in Nat /\ Cardinality(T) \in Nat
    /\ Cardinality(T) = Cardinality(S) + (IF m \in T THEN 1 ELSE 0) - (IF m \in S THEN 1 ELSE 0)

LEMMA OneMoves ==
    ASSUME NEW S \in SUBSET Managers, NEW T \in SUBSET Managers, NEW m \in Managers,
           \A k \in Managers : k # m => (k \in S <=> k \in T)
    PROVE  Delta(S, T, m)
<1>1. IsFiniteSet(S) /\ IsFiniteSet(T) /\ Cardinality(S) \in Nat /\ Cardinality(T) \in Nat
  BY StartsAssumption, FS_Subset, FS_CardinalityType
<1>2. CASE m \in S /\ m \in T
  <2>1. S = T
    BY <1>2
  <2>. QED
    BY <1>1, <1>2, <2>1 DEF Delta
<1>3. CASE m \notin S /\ m \notin T
  <2>1. S = T
    BY <1>3
  <2>. QED
    BY <1>1, <1>3, <2>1 DEF Delta
<1>4. CASE m \in S /\ m \notin T
  <2>1. T = S \ {m}
    BY <1>4
  <2>. QED
    BY <1>1, <1>4, <2>1, FS_RemoveElement DEF Delta
<1>5. CASE m \notin S /\ m \in T
  <2>1. T = S \cup {m}
    BY <1>5
  <2>. QED
    BY <1>1, <1>5, <2>1, FS_AddElement DEF Delta
<1>. QED
  BY <1>2, <1>3, <1>4, <1>5

\* The process m becomes c, and all others stay as they are.
Becomes(m, c) == /\ manager' \in [Managers -> Manager \cup {NoManager}]
                 /\ manager'[m] = c
                 /\ \A k \in Managers : k # m => manager'[k] = manager[k]

LEMMA CountsChange ==
    ASSUME Shapes, NEW m \in Managers, NEW c, Becomes(m, c)
    PROVE  /\ Delta(Probing, Probing', m) /\ Delta(Probed, Probed', m)
           /\ \A t \in Targets : /\ Delta(MayOutput(t), MayOutput(t)', m)
                                 /\ Delta(MayInput(t), MayInput(t)', m)
                                 /\ Delta(Ahead(t), Ahead(t)', m)
                                 /\ Delta(HoldOutput(t), HoldOutput(t)', m)
                                 /\ Delta(HoldInput(t), HoldInput(t)', m)
<1>1. Delta(Probing, Probing', m) /\ Delta(Probed, Probed', m)
  BY OneMoves DEF Becomes, Probing, Probed
<1>2. ASSUME NEW t \in Targets
      PROVE  /\ Delta(MayOutput(t), MayOutput(t)', m)
             /\ Delta(MayInput(t), MayInput(t)', m)
             /\ Delta(Ahead(t), Ahead(t)', m)
             /\ Delta(HoldOutput(t), HoldOutput(t)', m)
             /\ Delta(HoldInput(t), HoldInput(t)', m)
  <2>1. Delta(MayOutput(t), MayOutput(t)', m)
    BY OneMoves DEF Becomes, MayOutput, Target
  <2>2. Delta(MayInput(t), MayInput(t)', m)
    BY OneMoves DEF Becomes, MayInput, Target
  <2>3. Delta(Ahead(t), Ahead(t)', m)
    BY OneMoves DEF Becomes, Ahead, Target
  <2>4. Delta(HoldOutput(t), HoldOutput(t)', m)
    BY OneMoves DEF Becomes, HoldOutput, Target
  <2>5. Delta(HoldInput(t), HoldInput(t)', m)
    BY OneMoves DEF Becomes, HoldInput, Target
  <2>. QED
    BY <2>1, <2>2, <2>3, <2>4, <2>5
<1>. QED
  BY <1>1, <1>2

\* `killswitch disable` touches no process and no rule.
LEMMA DisableCounts ==
    ASSUME Disable
    PROVE  /\ enabled' = [t \in Targets |-> 0] /\ UNCHANGED <<rules, starts, left, repeated>>
           /\ UNCHANGED <<output, input, probes>> /\ Probing' = Probing /\ Probed' = Probed
           /\ \A t \in Targets :
                /\ MayOutput(t)' = MayOutput(t) /\ MayInput(t)' = MayInput(t)
                /\ HoldOutput(t)' = HoldOutput(t) /\ HoldInput(t)' = HoldInput(t)
                /\ Cardinality(MayInput(t)) \in Nat
                /\ Cardinality(HoldOutput(t)) \in Nat /\ Cardinality(HoldInput(t)) \in Nat
<1>1. \A S \in SUBSET Managers : Cardinality(S) \in Nat
  BY StartsAssumption, FS_Subset, FS_CardinalityType
<1>2. UNCHANGED manager
  BY DEF Disable
<1>3. \A t \in Targets : /\ Cardinality(MayInput(t)) \in Nat
                          /\ Cardinality(HoldOutput(t)) \in Nat
                          /\ Cardinality(HoldInput(t)) \in Nat
  BY <1>1 DEF MayInput, HoldOutput, HoldInput
<1>. QED
  BY <1>2, <1>3 DEF Disable, rules, Probing, Probed, MayOutput, MayInput, HoldOutput, HoldInput,
     Target

\* The record of a process that goes from one step to another.
Follows(m, step) == /\ manager'[m] \in Manager /\ manager'[m].at = step
                    /\ manager'[m].kind = manager[m].kind
                    /\ manager'[m].target = manager[m].target

LEMMA Active ==
    ASSUME Shapes, NEW m \in Managers
    PROVE  /\ NoManager.at = "idle" /\ NoManager \notin Manager
           /\ manager[m] # NoManager <=> manager[m] \in Manager
           /\ manager[m] # NoManager <=> manager[m].at # "idle"
           /\ manager[m] # NoManager => Target(m) \in Targets /\ manager[m].kernel \in BOOLEAN
  BY DEF Shapes, Manager, NoManager, Target

LEMMA ThenMoves ==
    ASSUME Shapes, NEW m \in Managers, manager[m] \in Manager,
           NEW step \in {"unprobe", "output", "input", "holding", "removeInput", "removeOutput"}
    PROVE  /\ Then(m, step) =>
                /\ Becomes(m, manager'[m]) /\ Follows(m, step)
                /\ manager'[m].kernel = manager[m].kernel
           /\ \A kernel \in BOOLEAN :
                manager' = [manager EXCEPT ![m].at = step, ![m].kernel = kernel] =>
                  Becomes(m, manager'[m]) /\ Follows(m, step) /\ manager'[m].kernel = kernel
           /\ \A again \in BOOLEAN :
                manager' = [manager EXCEPT ![m].at = step, ![m].again = again] =>
                  /\ Becomes(m, manager'[m]) /\ Follows(m, step)
                  /\ manager'[m].kernel = manager[m].kernel
<1>1. ASSUME NEW c \in Manager, manager' = [manager EXCEPT ![m] = c] PROVE Becomes(m, c)
  BY <1>1 DEF Becomes, Shapes
<1>2. ASSUME Then(m, step)
      PROVE  Becomes(m, manager'[m]) /\ Follows(m, step) /\ manager'[m].kernel = manager[m].kernel
  <2>1. manager' = [manager EXCEPT ![m] = [manager[m] EXCEPT !.at = step]]
    BY <1>2 DEF Then
  <2>2. /\ [manager[m] EXCEPT !.at = step] \in Manager
        /\ [manager[m] EXCEPT !.at = step].kernel = manager[m].kernel
    BY DEF Manager
  <2>3. manager'[m] = [manager[m] EXCEPT !.at = step]
    BY <1>1, <2>1, <2>2 DEF Becomes
  <2>. QED
    BY <1>1, <2>1, <2>2, <2>3 DEF Follows, Manager
<1>3. ASSUME NEW kernel \in BOOLEAN,
             manager' = [manager EXCEPT ![m].at = step, ![m].kernel = kernel]
      PROVE  Becomes(m, manager'[m]) /\ Follows(m, step) /\ manager'[m].kernel = kernel
  <2>1. manager' = [manager EXCEPT ![m] = [manager[m] EXCEPT !.at = step, !.kernel = kernel]]
    BY <1>3
  <2>2. /\ [manager[m] EXCEPT !.at = step, !.kernel = kernel] \in Manager
        /\ [manager[m] EXCEPT !.at = step, !.kernel = kernel].kernel = kernel
    BY DEF Manager
  <2>3. manager'[m] = [manager[m] EXCEPT !.at = step, !.kernel = kernel]
    BY <1>1, <2>1, <2>2 DEF Becomes
  <2>. QED
    BY <1>1, <2>1, <2>2, <2>3 DEF Follows, Manager
<1>4. ASSUME NEW again \in BOOLEAN,
             manager' = [manager EXCEPT ![m].at = step, ![m].again = again]
      PROVE  Becomes(m, manager'[m]) /\ Follows(m, step) /\ manager'[m].kernel = manager[m].kernel
  <2>1. manager' = [manager EXCEPT ![m] = [manager[m] EXCEPT !.at = step, !.again = again]]
    BY <1>4
  <2>2. /\ [manager[m] EXCEPT !.at = step, !.again = again] \in Manager
        /\ [manager[m] EXCEPT !.at = step, !.again = again].kernel = manager[m].kernel
    BY DEF Manager
  <2>3. manager'[m] = [manager[m] EXCEPT !.at = step, !.again = again]
    BY <1>1, <2>1, <2>2 DEF Becomes
  <2>. QED
    BY <1>1, <2>1, <2>2, <2>3 DEF Follows, Manager
<1>. QED
  BY <1>2, <1>3, <1>4

LEMMA EndsMoves ==
    ASSUME Shapes, NEW m \in Managers, Ends(m)
    PROVE  Becomes(m, NoManager)
  BY DEF Shapes, Ends, Becomes

\* A process after its activation, and after a removal that failed.
Rests(m, kernel) == \/ manager'[m] = NoManager
                    \/ Follows(m, "holding") /\ manager'[m].kernel = kernel

LEMMA ActivatedMoves ==
    ASSUME Shapes, NEW m \in Managers, manager[m] \in Manager, NEW kernel \in BOOLEAN,
           Activated(m, kernel)
    PROVE  /\ Becomes(m, manager'[m]) /\ Rests(m, kernel)
           /\ manager'[m] = NoManager <=> manager[m].kind = "enable"
           /\ said' \in {said, "enabled"}
<1>1. CASE manager[m].kind = "enable"
  BY <1>1, EndsMoves, Active DEF Activated, Rests, Becomes
<1>2. CASE manager[m].kind # "enable"
  BY <1>2, ThenMoves, Active DEF Activated, Rests, Follows
<1>. QED
  BY <1>1, <1>2

\* Where a removal goes that did not come to its end.
GoesOn(m) == /\ Becomes(m, manager'[m])
             /\ left' = left \cup {"unremoved"}
             /\ \/ manager'[m] = NoManager /\ repeated' = repeated
                \/ Follows(m, "removeInput") /\ repeated' = repeated \cup {Target(m)}

LEMMA RepeatMoves ==
    ASSUME Shapes, NEW m \in Managers, manager[m] \in Manager, Repeat(m)
    PROVE  GoesOn(m)
  BY ThenMoves DEF Repeat, Because, GoesOn

LEMMA UnfinishedMoves ==
    ASSUME Shapes, NEW m \in Managers, manager[m] \in Manager, Unfinished(m)
    PROVE  GoesOn(m)
<1>1. CASE manager[m].kind = "window" /\ ~manager[m].again
  BY <1>1, RepeatMoves DEF Unfinished
<1>2. CASE ~(manager[m].kind = "window" /\ ~manager[m].again)
  BY <1>2, EndsMoves DEF Unfinished, Because, Becomes, GoesOn
<1>. QED
  BY <1>1, <1>2

\* Who is counted.
Counted(m) ==
    /\ m \in Probing <=> manager[m].at = "probe"
    /\ m \in Probed <=> manager[m].at = "unprobe"
    /\ \A t \in Targets :
         /\ m \in MayOutput(t) <=> manager[m].at \in MayInsert /\ Target(m) = t
         /\ m \in MayInput(t) <=> manager[m].at \in MayInsert \cup {"input"} /\ Target(m) = t
         /\ m \in Ahead(t) <=> manager[m].at \in {"input", "removeOutput"} /\ Target(m) = t
         /\ m \in HoldOutput(t) <=>
              /\ \/ manager[m].at \in {"input", "removeInput", "removeOutput"}
                 \/ manager[m].at = "holding" /\ manager[m].kernel
              /\ Target(m) = t
         /\ m \in HoldInput(t) <=>
              /\ manager[m].at = "removeInput" \/ (manager[m].at = "holding" /\ manager[m].kernel)
              /\ Target(m) = t

LEMMA EachIsCounted == \A m \in Managers : Counted(m) /\ Counted(m)'
BY DEF Counted, Probing, Probed, MayOutput, MayInput, Ahead, HoldOutput, HoldInput, Target

\* What the steps do: where the process goes, and which rules change.
Due(m, step) == manager[m] \in Manager /\ manager[m].at = step
More(chain, new, t) == new = [chain EXCEPT ![t] = @ + 1]
Less(chain, new, t) == chain[t] > 0 /\ new = [chain EXCEPT ![t] = @ - 1]

Begun(m) == /\ manager[m] = NoManager /\ starts < MaxStarts /\ starts' = starts + 1
            /\ manager'[m] \in Manager /\ manager'[m].at = "probe"
            /\ UNCHANGED <<rules, said, enabled, left, repeated>>
Inserting(m) ==
    /\ UNCHANGED <<starts, repeated>>
    /\ \/ /\ Due(m, "probe") /\ Follows(m, "unprobe") /\ probes' = probes + 1
          /\ UNCHANGED <<output, input, enabled, left>>
       \/ /\ Due(m, "unprobe") /\ Follows(m, "output") /\ UNCHANGED <<output, input, enabled>>
          /\ \/ probes > 0 /\ probes' = probes - 1 /\ left' = left
             \/ left' = left \cup {"probe"} /\ probes' = probes
       \/ /\ Due(m, "output") /\ Follows(m, "input") /\ More(output, output', Target(m))
          /\ UNCHANGED <<probes, input, enabled, left>>
       \/ /\ manager[m] \in Manager /\ manager[m].at \in {"probe", "output"} /\ Rests(m, FALSE)
          /\ UNCHANGED <<rules, enabled, left>>
Inserted(m) ==
    /\ Due(m, "input") /\ UNCHANGED <<starts, repeated, output, probes>>
    /\ \/ /\ More(input, input', Target(m))
          /\ \/ /\ manager'[m] = NoManager /\ More(enabled, enabled', Target(m))
                /\ left' = left \cup {"enabled"}
             \/ /\ Follows(m, "holding") /\ manager'[m].kernel = TRUE
                /\ UNCHANGED <<enabled, left>>
       \/ /\ Rests(m, FALSE) /\ left' = left \cup {"half"}
          /\ UNCHANGED <<input, enabled>>
Removing(m) ==
    /\ UNCHANGED <<starts, probes, enabled>>
    /\ \/ /\ Due(m, "holding") /\ UNCHANGED <<output, input, left, repeated>>
          /\ IF manager[m].kernel THEN Follows(m, "removeInput") ELSE manager'[m] = NoManager
       \/ /\ Due(m, "removeInput") /\ Follows(m, "removeOutput") /\ Less(input, input', Target(m))
          /\ UNCHANGED <<output, left, repeated>>
       \/ /\ Due(m, "removeOutput") /\ manager'[m] = NoManager /\ Less(output, output', Target(m))
          /\ UNCHANGED <<input, left, repeated>>
Failing(m) ==
    /\ UNCHANGED <<starts, probes, input, enabled>>
    /\ \/ manager'[m] = NoManager /\ repeated' = repeated
       \/ Follows(m, "removeInput") /\ repeated' = repeated \cup {Target(m)}
    /\ \/ Due(m, "removeInput") /\ output' = output
       \/ Due(m, "removeOutput") /\ (output' = output \/ Less(output, output', Target(m)))
    /\ left' = left \cup {"unremoved"}
Killed(m) ==
    /\ manager[m] \in Manager /\ manager'[m] = NoManager /\ left' = left \cup {"killed"}
    /\ UNCHANGED <<starts, rules, enabled, repeated>>

Outcome(m) == \/ Begun(m) \/ Inserting(m) \/ Inserted(m) \/ Removing(m) \/ Failing(m) \/ Killed(m)

LEMMA StepMoves ==
    ASSUME Shapes, NEW m \in Managers, CommandStep(m)
    PROVE  Becomes(m, manager'[m]) /\ Outcome(m) /\ said' \in {said, "enabled"}
<1>. USE DEF Outcome, Does, Due, Because, rules
<1>0. manager[m] = NoManager \/ manager[m] \in Manager
  BY Active
<1>1. CASE Activate(m)
  <2>1. PICK kind \in {"enable", "connect", "window"}, t \in Targets :
          manager' = [manager EXCEPT ![m] = [at |-> "probe", kind |-> kind, target |-> t,
                                             kernel |-> FALSE, again |-> FALSE]]
    BY <1>1 DEF Activate
  <2>2. [at |-> "probe", kind |-> kind, target |-> t, kernel |-> FALSE, again |-> FALSE] \in Manager
    BY DEF Manager
  <2>3. Becomes(m, manager'[m]) /\ manager'[m] \in Manager /\ manager'[m].at = "probe"
    BY <2>1, <2>2 DEF Becomes, Shapes
  <2>. QED
    BY <1>1, <2>3 DEF Activate, Begun
<1>2. CASE Probe(m)
  BY <1>0, <1>2, Active, ThenMoves, ActivatedMoves DEF Probe, Inserting
<1>3. CASE Unprobe(m)
  BY <1>0, <1>3, Active, ThenMoves DEF Unprobe, Inserting
<1>4. CASE ApplyOutput(m)
  BY <1>0, <1>4, Active, ThenMoves, ActivatedMoves DEF ApplyOutput, Inserting, Insert, More
<1>5. CASE ApplyInput(m)
  BY <1>0, <1>5, Active, ActivatedMoves DEF ApplyInput, Inserted, Insert, More, Rests
<1>6. CASE Deactivate(m)
  BY <1>0, <1>6, Active, ThenMoves, EndsMoves DEF Deactivate, Removing, Becomes
<1>7. CASE RemoveInput(m)
  BY <1>0, <1>7, Active, ThenMoves, UnfinishedMoves
     DEF RemoveInput, Removing, Failing, Delete, Less, GoesOn
<1>8. CASE RemoveOutput(m)
  BY <1>0, <1>8, Active, EndsMoves, UnfinishedMoves, RepeatMoves
     DEF RemoveOutput, Removing, Failing, Delete, Less, Becomes, GoesOn
<1>9. CASE KillManager(m)
  BY <1>0, <1>9, Active, EndsMoves DEF KillManager, Killed, Becomes
<1>. QED
  BY <1>1, <1>2, <1>3, <1>4, <1>5, <1>6, <1>7, <1>8, <1>9 DEF CommandStep

-----------------------------------------------------------------------------
LEMMA MoreOrLess ==
    ASSUME NEW chain \in [Targets -> Nat], NEW t \in Targets, NEW new
    PROVE  /\ More(chain, new, t) => /\ new \in [Targets -> Nat] /\ new[t] = chain[t] + 1
                                     /\ \A u \in Targets : u # t => new[u] = chain[u]
           /\ Less(chain, new, t) => /\ new \in [Targets -> Nat] /\ new[t] = chain[t] - 1
                                     /\ \A u \in Targets : u # t => new[u] = chain[u]
  BY DEF More, Less

LEMMA ShapesInductive == Shapes /\ [CommandNext]_commandVars => Shapes'
<1>. SUFFICES ASSUME Shapes, [CommandNext]_commandVars PROVE Shapes'
  OBVIOUS
<1>1. ASSUME NEW m \in Managers, CommandStep(m) PROVE Shapes'
  <2>1. Becomes(m, manager'[m]) /\ Outcome(m) /\ said' \in {said, "enabled"}
    BY <1>1, StepMoves
  <2>2. /\ manager' \in [Managers -> Manager \cup {NoManager}]
        /\ manager[m] # NoManager => Target(m) \in Targets
        /\ manager[m] \in Manager => manager[m] # NoManager
    BY <2>1, Active DEF Becomes
  <2>3. CASE Begun(m)
    BY <2>1, <2>2, <2>3, StartsAssumption DEF Begun, Shapes, Due, Rests, More, Less, rules
  <2>4. CASE Inserting(m)
    <3>1. output' \in [Targets -> Nat] /\ input' \in [Targets -> Nat]
      BY <2>2, <2>4, MoreOrLess DEF Inserting, Shapes, Due, rules
    <3>2. enabled' = enabled
      BY <2>4 DEF Inserting, rules
    <3>3. probes' \in {probes, probes + 1} \/ (probes > 0 /\ probes' = probes - 1)
      BY <2>4 DEF Inserting, rules
    <3>4. enabled' \in [Targets -> Nat] /\ probes' \in Nat
      BY <3>2, <3>3 DEF Shapes
    <3>5. /\ starts' \in 0..MaxStarts /\ repeated' \subseteq Targets
          /\ left' \subseteq {"enabled", "half", "killed", "unremoved", "probe"}
      BY <2>4 DEF Inserting, Shapes, rules
    <3>. QED
      BY <2>1, <2>2, <3>1, <3>4, <3>5 DEF Shapes
  <2>5. CASE Inserted(m)
    <3>1. output' \in [Targets -> Nat] /\ input' \in [Targets -> Nat]
      BY <2>2, <2>5, MoreOrLess DEF Inserted, Shapes, Due, rules
    <3>2. enabled' \in [Targets -> Nat] /\ probes' \in Nat
      BY <2>2, <2>5, MoreOrLess DEF Inserted, Shapes, Due, rules
    <3>3. /\ starts' \in 0..MaxStarts /\ repeated' \subseteq Targets
          /\ left' \subseteq {"enabled", "half", "killed", "unremoved", "probe"}
      BY <2>5 DEF Inserted, Shapes, rules
    <3>. QED
      BY <2>1, <2>2, <3>1, <3>2, <3>3 DEF Shapes
  <2>6. CASE Removing(m)
    <3>1. output' \in [Targets -> Nat] /\ input' \in [Targets -> Nat]
      BY <2>2, <2>6, MoreOrLess DEF Removing, Shapes, Due, rules
    <3>2. enabled' \in [Targets -> Nat] /\ probes' \in Nat
      BY <2>2, <2>6, MoreOrLess DEF Removing, Shapes, Due, rules
    <3>3. /\ starts' \in 0..MaxStarts /\ repeated' \subseteq Targets
          /\ left' \subseteq {"enabled", "half", "killed", "unremoved", "probe"}
      BY <2>6 DEF Removing, Shapes, rules
    <3>. QED
      BY <2>1, <2>2, <3>1, <3>2, <3>3 DEF Shapes
  <2>7. CASE Failing(m)
    BY <2>1, <2>2, <2>7, StartsAssumption DEF Failing, Shapes, Due, Rests, More, Less, rules
  <2>8. CASE Killed(m)
    BY <2>1, <2>2, <2>8, StartsAssumption DEF Killed, Shapes, Due, Rests, More, Less, rules
  <2>. QED
    BY <2>1, <2>3, <2>4, <2>5, <2>6, <2>7, <2>8 DEF Outcome
<1>2. CASE UNCHANGED commandVars
  BY <1>2 DEF commandVars, rules, Shapes
<1>3. CASE Disable
  <2>1. enabled' \in [Targets -> Nat]
    BY <1>3 DEF Disable
  <2>. QED
    BY <1>3, <2>1 DEF Disable, rules, Shapes
<1>. QED
  BY <1>1, <1>2, <1>3 DEF CommandNext

LEMMA BoundedInductive == Shapes /\ Bounded /\ [CommandNext]_commandVars => Bounded'
<1>. SUFFICES ASSUME Shapes, Bounded, [CommandNext]_commandVars PROVE Bounded'
  OBVIOUS
<1>1. ASSUME NEW m \in Managers, CommandStep(m) PROVE Bounded'
  <2>1. Becomes(m, manager'[m]) /\ Outcome(m) /\ said' \in {said, "enabled"}
    BY <1>1, StepMoves
  <2>2. /\ Counted(m) /\ Counted(m)'
        /\ NoManager.at = "idle"
        /\ manager[m] \in Manager => Target(m) \in Targets /\ manager[m].kernel \in BOOLEAN
        /\ Delta(Probing, Probing', m) /\ Delta(Probed, Probed', m)
        /\ \A t \in Targets : /\ Delta(MayOutput(t), MayOutput(t)', m)
                              /\ Delta(MayInput(t), MayInput(t)', m)
                              /\ Delta(Ahead(t), Ahead(t)', m)
                              /\ Delta(HoldOutput(t), HoldOutput(t)', m)
                              /\ Delta(HoldInput(t), HoldInput(t)', m)
    BY <2>1, Active, CountsChange, EachIsCounted
  <2>3. CASE Begun(m)
    BY <2>1, <2>2, <2>3
       DEF Begun, Bounded, Shapes, Counted, Delta, Follows, Rests, Target, Due, More, Less,
           rules, MayInsert
  <2>4. CASE Inserting(m)
    BY <2>1, <2>2, <2>4
       DEF Inserting, Bounded, Shapes, Counted, Delta, Follows, Rests, Target, Due, More,
           Less, rules, MayInsert
  <2>5. CASE Inserted(m)
    BY <2>1, <2>2, <2>5
       DEF Inserted, Bounded, Shapes, Counted, Delta, Follows, Rests, Target, Due, More, Less,
           rules, MayInsert
  <2>6. CASE Removing(m)
    BY <2>1, <2>2, <2>6
       DEF Removing, Bounded, Shapes, Counted, Delta, Follows, Rests, Target, Due, More, Less,
           rules, MayInsert
  <2>7. CASE Failing(m)
    BY <2>1, <2>2, <2>7
       DEF Failing, Bounded, Shapes, Counted, Delta, Follows, Rests, Target, Due, More, Less,
           rules, MayInsert
  <2>8. CASE Killed(m)
    BY <2>1, <2>2, <2>8
       DEF Killed, Bounded, Shapes, Counted, Delta, Follows, Rests, Target, Due, More, Less,
           rules, MayInsert
  <2>. QED
    BY <2>1, <2>3, <2>4, <2>5, <2>6, <2>7, <2>8 DEF Outcome
<1>2. CASE UNCHANGED commandVars
  BY <1>2 DEF commandVars, rules, Bounded, Probing, MayOutput, MayInput, Target
<1>3. CASE Disable
  BY <1>3, DisableCounts DEF Shapes, Bounded
<1>. QED
  BY <1>1, <1>2, <1>3 DEF CommandNext

LEMMA EgressInductive == Shapes /\ Egress /\ [CommandNext]_commandVars => Egress'
<1>. SUFFICES ASSUME Shapes, Egress, [CommandNext]_commandVars PROVE Egress'
  OBVIOUS
<1>1. ASSUME NEW m \in Managers, CommandStep(m) PROVE Egress'
  <2>1. Becomes(m, manager'[m]) /\ Outcome(m) /\ said' \in {said, "enabled"}
    BY <1>1, StepMoves
  <2>2. /\ Counted(m) /\ Counted(m)'
        /\ NoManager.at = "idle"
        /\ manager[m] \in Manager => Target(m) \in Targets /\ manager[m].kernel \in BOOLEAN
        /\ Delta(Probing, Probing', m) /\ Delta(Probed, Probed', m)
        /\ \A t \in Targets : /\ Delta(MayOutput(t), MayOutput(t)', m)
                              /\ Delta(MayInput(t), MayInput(t)', m)
                              /\ Delta(Ahead(t), Ahead(t)', m)
                              /\ Delta(HoldOutput(t), HoldOutput(t)', m)
                              /\ Delta(HoldInput(t), HoldInput(t)', m)
    BY <2>1, Active, CountsChange, EachIsCounted
  <2>3. CASE Begun(m)
    BY <2>1, <2>2, <2>3
       DEF Begun, Egress, Shapes, Counted, Delta, Follows, Rests, Target, Due, More, Less,
           rules, MayInsert
  <2>4. CASE Inserting(m)
    BY <2>1, <2>2, <2>4
       DEF Inserting, Egress, Shapes, Counted, Delta, Follows, Rests, Target, Due, More,
           Less, rules, MayInsert
  <2>5. CASE Inserted(m)
    BY <2>1, <2>2, <2>5
       DEF Inserted, Egress, Shapes, Counted, Delta, Follows, Rests, Target, Due, More,
           Less, rules, MayInsert
  <2>6. CASE Removing(m)
    BY <2>1, <2>2, <2>6
       DEF Removing, Egress, Shapes, Counted, Delta, Follows, Rests, Target, Due, More,
           Less, rules, MayInsert
  <2>7. CASE Failing(m)
    BY <2>1, <2>2, <2>7
       DEF Failing, Egress, Shapes, Counted, Delta, Follows, Rests, Target, Due, More, Less,
           rules, MayInsert
  <2>8. CASE Killed(m)
    BY <2>1, <2>2, <2>8
       DEF Killed, Egress, Shapes, Counted, Delta, Follows, Rests, Target, Due, More, Less,
           rules, MayInsert
  <2>. QED
    BY <2>1, <2>3, <2>4, <2>5, <2>6, <2>7, <2>8 DEF Outcome
<1>2. CASE Disable \/ UNCHANGED commandVars
  BY <1>2 DEF Disable, commandVars, rules, Egress, Ahead, Target
<1>. QED
  BY <1>1, <1>2 DEF CommandNext

LEMMA BlockedInductive == Shapes /\ Blocked /\ [CommandNext]_commandVars => Blocked'
<1>. SUFFICES ASSUME Shapes, Blocked, [CommandNext]_commandVars PROVE Blocked'
  OBVIOUS
<1>1. ASSUME NEW m \in Managers, CommandStep(m) PROVE Blocked'
  <2>1. Becomes(m, manager'[m]) /\ Outcome(m) /\ said' \in {said, "enabled"}
    BY <1>1, StepMoves
  <2>2. /\ Counted(m) /\ Counted(m)'
        /\ NoManager.at = "idle"
        /\ manager[m] \in Manager => Target(m) \in Targets /\ manager[m].kernel \in BOOLEAN
        /\ Delta(Probing, Probing', m) /\ Delta(Probed, Probed', m)
        /\ \A t \in Targets : /\ Delta(MayOutput(t), MayOutput(t)', m)
                              /\ Delta(MayInput(t), MayInput(t)', m)
                              /\ Delta(Ahead(t), Ahead(t)', m)
                              /\ Delta(HoldOutput(t), HoldOutput(t)', m)
                              /\ Delta(HoldInput(t), HoldInput(t)', m)
    BY <2>1, Active, CountsChange, EachIsCounted
  <2>3. CASE Begun(m)
    BY <2>1, <2>2, <2>3
       DEF Begun, Blocked, Shapes, Counted, Delta, Follows, Rests, Target, Due, More, Less,
           rules, MayInsert
  <2>4. CASE Inserting(m)
    BY <2>1, <2>2, <2>4
       DEF Inserting, Blocked, Shapes, Counted, Delta, Follows, Rests, Target, Due, More,
           Less, rules, MayInsert
  <2>5. CASE Inserted(m)
    BY <2>1, <2>2, <2>5
       DEF Inserted, Blocked, Shapes, Counted, Delta, Follows, Rests, Target, Due, More,
           Less, rules, MayInsert
  <2>6. CASE Removing(m)
    BY <2>1, <2>2, <2>6
       DEF Removing, Blocked, Shapes, Counted, Delta, Follows, Rests, Target, Due, More,
           Less, rules, MayInsert
  <2>7. CASE Failing(m)
    BY <2>1, <2>2, <2>7
       DEF Failing, Blocked, Shapes, Counted, Delta, Follows, Rests, Target, Due, More,
           Less, rules, MayInsert
  <2>8. CASE Killed(m)
    BY <2>1, <2>2, <2>8
       DEF Killed, Blocked, Shapes, Counted, Delta, Follows, Rests, Target, Due, More, Less,
           rules, MayInsert
  <2>. QED
    BY <2>1, <2>3, <2>4, <2>5, <2>6, <2>7, <2>8 DEF Outcome
<1>2. CASE UNCHANGED commandVars
  BY <1>2 DEF commandVars, rules, Blocked, HoldOutput, HoldInput, Target
<1>3. CASE Disable
  BY <1>3, DisableCounts DEF Shapes, Blocked
<1>. QED
  BY <1>1, <1>2, <1>3 DEF CommandNext

LEMMA ExactInductive == Shapes /\ Exact /\ [CommandNext]_commandVars => Exact'
<1>. SUFFICES ASSUME Shapes, Exact, [CommandNext]_commandVars PROVE Exact'
  OBVIOUS
<1>1. ASSUME NEW m \in Managers, CommandStep(m) PROVE Exact'
  <2>1. Becomes(m, manager'[m]) /\ Outcome(m) /\ said' \in {said, "enabled"}
    BY <1>1, StepMoves
  <2>2. /\ Counted(m) /\ Counted(m)'
        /\ NoManager.at = "idle"
        /\ manager[m] \in Manager => Target(m) \in Targets /\ manager[m].kernel \in BOOLEAN
        /\ Delta(Probing, Probing', m) /\ Delta(Probed, Probed', m)
        /\ \A t \in Targets : /\ Delta(MayOutput(t), MayOutput(t)', m)
                              /\ Delta(MayInput(t), MayInput(t)', m)
                              /\ Delta(Ahead(t), Ahead(t)', m)
                              /\ Delta(HoldOutput(t), HoldOutput(t)', m)
                              /\ Delta(HoldInput(t), HoldInput(t)', m)
    BY <2>1, Active, CountsChange, EachIsCounted
  <2>3. CASE Begun(m)
    BY <2>1, <2>2, <2>3
       DEF Begun, Exact, Shapes, Counted, Delta, Follows, Rests, Target, Due, More, Less,
           rules, MayInsert
  <2>4. CASE Inserting(m)
    <3>. SUFFICES ASSUME left' = {}
                  PROVE  /\ probes' = Cardinality(Probed')
                         /\ \A t \in Targets : /\ output'[t] = Cardinality(HoldOutput(t)')
                                               /\ input'[t] = Cardinality(HoldInput(t)')
      BY DEF Exact
    <3>1. /\ probes = Cardinality(Probed)
          /\ \A t \in Targets : /\ output[t] = Cardinality(HoldOutput(t))
                                /\ input[t] = Cardinality(HoldInput(t))
      BY <2>4 DEF Inserting, Exact
    <3>2. probes' = Cardinality(Probed')
      BY <2>1, <2>2, <2>4, <3>1
         DEF Inserting, Rests, Shapes, Counted, Delta, Follows, Target, Due, rules,
             MayInsert
    <3>3. \A t \in Targets : output'[t] = Cardinality(HoldOutput(t)')
      BY <2>1, <2>2, <2>4, <3>1, MoreOrLess
         DEF Inserting, Rests, Shapes, Counted, Delta, Follows, Target, Due, rules,
             MayInsert
    <3>4. \A t \in Targets : input'[t] = Cardinality(HoldInput(t)')
      BY <2>1, <2>2, <2>4, <3>1
         DEF Inserting, Rests, Shapes, Counted, Delta, Follows, Target, Due, rules,
             MayInsert
    <3>. QED
      BY <3>2, <3>3, <3>4
  <2>5. CASE Inserted(m)
    <3>. SUFFICES ASSUME left' = {}
                  PROVE  /\ probes' = Cardinality(Probed')
                         /\ \A t \in Targets : /\ output'[t] = Cardinality(HoldOutput(t)')
                                               /\ input'[t] = Cardinality(HoldInput(t)')
      BY DEF Exact
    <3>1. /\ probes = Cardinality(Probed)
          /\ \A t \in Targets : /\ output[t] = Cardinality(HoldOutput(t))
                                /\ input[t] = Cardinality(HoldInput(t))
      BY <2>5 DEF Inserted, Exact
    <3>2. /\ Due(m, "input") /\ Follows(m, "holding") /\ manager'[m].kernel = TRUE
          /\ More(input, input', Target(m)) /\ UNCHANGED <<output, probes>>
      BY <2>5 DEF Inserted
    <3>. QED
      BY <2>1, <2>2, <3>1, <3>2, MoreOrLess
         DEF Shapes, Counted, Delta, Follows, Target, Due, rules, MayInsert
  <2>6. CASE Removing(m)
    <3>. SUFFICES ASSUME left' = {}
                  PROVE  /\ probes' = Cardinality(Probed')
                         /\ \A t \in Targets : /\ output'[t] = Cardinality(HoldOutput(t)')
                                               /\ input'[t] = Cardinality(HoldInput(t)')
      BY DEF Exact
    <3>1. /\ probes = Cardinality(Probed)
          /\ \A t \in Targets : /\ output[t] = Cardinality(HoldOutput(t))
                                /\ input[t] = Cardinality(HoldInput(t))
      BY <2>6 DEF Removing, Exact
    <3>2. CASE Due(m, "holding")
      BY <2>1, <2>2, <2>6, <3>1, <3>2
         DEF Removing, Shapes, Counted, Delta, Follows, Target, Due, rules, MayInsert
    <3>3. CASE Due(m, "removeInput")
      <4>1. /\ Follows(m, "removeOutput") /\ Less(input, input', Target(m))
            /\ UNCHANGED <<output, probes>>
        BY <2>6, <3>3 DEF Removing, Due
      <4>. QED
        BY <2>1, <2>2, <3>1, <3>3, <4>1, MoreOrLess
           DEF Shapes, Counted, Delta, Follows, Target, Due, rules, MayInsert
    <3>4. CASE Due(m, "removeOutput")
      <4>1. /\ manager'[m] = NoManager /\ Less(output, output', Target(m))
            /\ UNCHANGED <<input, probes>>
        BY <2>6, <3>4 DEF Removing, Due
      <4>. QED
        BY <2>1, <2>2, <3>1, <3>4, <4>1, MoreOrLess
           DEF Shapes, Counted, Delta, Follows, Target, Due, rules, MayInsert
    <3>. QED
      BY <2>6, <3>2, <3>3, <3>4 DEF Removing
  <2>7. CASE Failing(m)
    BY <2>1, <2>2, <2>7
       DEF Failing, Exact, Shapes, Counted, Delta, Follows, Rests, Target, Due, More, Less,
           rules, MayInsert
  <2>8. CASE Killed(m)
    BY <2>1, <2>2, <2>8
       DEF Killed, Exact, Shapes, Counted, Delta, Follows, Rests, Target, Due, More, Less,
           rules, MayInsert
  <2>. QED
    BY <2>1, <2>3, <2>4, <2>5, <2>6, <2>7, <2>8 DEF Outcome
<1>2. CASE UNCHANGED commandVars
  BY <1>2 DEF commandVars, rules, Exact, Probed, HoldOutput, HoldInput, Target
<1>3. CASE Disable
  BY <1>3, DisableCounts DEF Shapes, Exact
<1>. QED
  BY <1>1, <1>2, <1>3 DEF CommandNext

-----------------------------------------------------------------------------
LEMMA CommandInitially == CommandInit => CommandIInv
<1>. SUFFICES ASSUME CommandInit PROVE CommandIInv
  OBVIOUS
<1>1. \A m \in Managers : manager[m].at = "idle"
  BY DEF CommandInit, NoManager
<1>2. /\ Probing = {} /\ Probed = {}
      /\ \A t \in Targets : /\ MayOutput(t) = {} /\ MayInput(t) = {} /\ Ahead(t) = {}
                            /\ HoldOutput(t) = {} /\ HoldInput(t) = {}
  BY <1>1 DEF Probing, Probed, MayOutput, MayInput, Ahead, HoldOutput, HoldInput, MayInsert
<1>3. Cardinality({}) = 0
  BY FS_EmptySet
<1>4. Shapes
  BY StartsAssumption DEF CommandInit, Shapes
<1>5. /\ probes = 0 /\ starts = 0
      /\ \A t \in Targets : output[t] = 0 /\ input[t] = 0 /\ enabled[t] = 0
  BY DEF CommandInit
<1>6. Bounded
  BY <1>2, <1>3, <1>5 DEF Bounded
<1>7. Egress
  BY <1>2, <1>3, <1>5 DEF Egress
<1>8. Blocked
  BY <1>2, <1>3, <1>5 DEF Blocked
<1>9. Exact
  BY <1>2, <1>3, <1>5 DEF Exact
<1>. QED
  BY <1>4, <1>6, <1>7, <1>8, <1>9 DEF CommandIInv

LEMMA CommandInductive == CommandIInv /\ [CommandNext]_commandVars => CommandIInv'
BY ShapesInductive, BoundedInductive, EgressInductive, BlockedInductive, ExactInductive
   DEF CommandIInv

LEMMA CommandInvariant == CommandSpec => []CommandIInv
BY CommandInitially, CommandInductive, PTL DEF CommandSpec

LEMMA CountsAreNatural ==
    \A t \in Targets :
        /\ Cardinality(Probing) \in Nat /\ Cardinality(MayOutput(t)) \in Nat
        /\ Cardinality(MayInput(t)) \in Nat /\ Cardinality(Ahead(t)) \in Nat
        /\ Cardinality(HoldOutput(t)) \in Nat /\ Cardinality(HoldInput(t)) \in Nat
<1>1. ASSUME NEW S \in SUBSET Managers PROVE Cardinality(S) \in Nat
  BY StartsAssumption, FS_Subset, FS_CardinalityType
<1>. QED
  BY <1>1 DEF Probing, MayOutput, MayInput, Ahead, HoldOutput, HoldInput

\* The type invariant: every rule that is there was added by an activation, and
\* none is deleted that is not there.
THEOREM CommandTypeCorrect == CommandSpec => []CommandTypeOK
<1>1. CommandIInv => CommandTypeOK
  <2>. SUFFICES ASSUME CommandIInv PROVE CommandTypeOK
    OBVIOUS
  <2>1. probes \in 0..MaxStarts
    <3>1. Cardinality(Probing) \in Nat
      BY StartsAssumption, FS_Subset, FS_CardinalityType DEF Probing
    <3>. QED
      BY <3>1, StartsAssumption DEF CommandIInv, Shapes, Bounded
  <2>2. \A t \in Targets : /\ output[t] \in 0..MaxStarts /\ input[t] \in 0..MaxStarts
                           /\ enabled[t] \in 0..MaxStarts
    BY CountsAreNatural, StartsAssumption DEF CommandIInv, Shapes, Bounded
  <2>. QED
    BY <2>1, <2>2 DEF CommandIInv, Shapes, CommandTypeOK
<1>. QED
  BY <1>1, CommandInvariant, PTL

\* Whatever fails and however the processes interleave, a target's outgoing
\* traffic is blocked at least as often as its incoming (killswitch.rs inserts
\* OUTPUT first and deletes it last).
THEOREM EgressComesFirst == CommandSpec => []EgressFirst
<1>1. CommandIInv => EgressFirst
  BY CountsAreNatural DEF CommandIInv, Shapes, Egress, EgressFirst
<1>. QED
  BY <1>1, CommandInvariant, PTL

\* What `killswitch enable` has blocked stays blocked, for any number of
\* sessions that come and go, unless a removal was begun again half-way
\* (_cleanup after the worker's own deactivate).
THEOREM EnabledStaysBlocked == CommandSpec => []CommandBlockStays
<1>1. CommandIInv => CommandBlockStays
  BY CountsAreNatural DEF CommandIInv, Shapes, Blocked, CommandBlockStays
<1>. QED
  BY <1>1, CommandInvariant, PTL

\* A rule that outlives all processes was left by an enable command, by an
\* activation or a removal that failed half-way, by the probe or by a kill.
THEOREM LeftoversAreExplained == CommandSpec => []LeftoversHaveACause
<1>1. CommandIInv => LeftoversHaveACause
  <2>. SUFFICES ASSUME CommandIInv, \A m \in Managers : manager[m] = NoManager, left = {}
                PROVE  probes = 0 /\ \A t \in Targets : output[t] = 0 /\ input[t] = 0
    BY DEF LeftoversHaveACause
  <2>1. Probed = {} /\ \A t \in Targets : HoldOutput(t) = {} /\ HoldInput(t) = {}
    BY DEF NoManager, Probed, HoldOutput, HoldInput
  <2>2. Cardinality({}) = 0
    BY FS_EmptySet
  <2>. QED
    BY <2>1, <2>2 DEF CommandIInv, Exact
<1>. QED
  BY <1>1, CommandInvariant, PTL
=============================================================================
