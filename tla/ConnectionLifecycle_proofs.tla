---------------------- MODULE ConnectionLifecycle_proofs ----------------------
(***************************************************************************)
(* Safety of ConnectionLifecycle for any profiles, latencies, threshold    *)
(* and number of interrupts.  The argument has five parts, each a conjunct *)
(* of IInv:                                                                *)
(*   Place      at, stage and cut go together                              *)
(*   Progress   what rollback and cleanup have let go of by each step      *)
(*   Route      what the loops may rely on                                 *)
(*   Counting   failures stays below the threshold outside a switch        *)
(*   Unarmed    start finds the kill-switch off, and arms it if asked to   *)
(***************************************************************************)
EXTENDS ConnectionLifecycle, Failover_proofs

Looping == {"loop", "check", "alive", "wait"}

Place ==
    /\ at \in StartSteps \cup LoopSteps => stage = "start"
    /\ at \in CleanupSteps => stage \in {"rollback", "cleanup"}
    /\ at = "exited" => stage = "cleanup"
    /\ cut => at \in {"finish", "exited", "killed"} /\ stage = "cleanup"

Progress ==
    /\ Running => held \/ "process" \in errors
    /\ at \in {"halt", "unblock"} => ~client
    /\ at = "unblock" => ~held
    /\ at \in {"finish", "exited"} /\ ~cut =>
         ~client /\ ~held /\ ("killswitch" \in owned => "killswitch" \in errors)
    /\ at = "exited" /\ errors # {} => reported
    /\ stage = "start" => errors = {}
    /\ "killswitch" \in errors => watching = "unborn" /\ (kernel => rules = "none")
    /\ at \in {"process", "connect", "add", "enable"} => rules = "none"

Route ==
    /\ at \in {"add", "enable", "signals"} \cup LoopSteps => client
    /\ at \in {"enable", "signals"} \cup Looping =>
         "outbound" \in owned /\ (Running => outbound = active)
    /\ at \in {"signals"} \cup LoopSteps /\ opts.killswitch =>
         ks # "off" /\ "killswitch" \in owned

Counting ==
    /\ at \in StartSteps \cup Looping => failures < Threshold
    /\ at \in {"switchRemove", "switchAdd"} => best \in Profiles

Unarmed ==
    /\ at \in StartSteps \ {"signals"} => ks = "off"
    /\ at = "enable" => opts.killswitch

IInv == TypeOK /\ Place /\ Progress /\ Route /\ Counting /\ Unarmed

-----------------------------------------------------------------------------
(* The parts of IInv, action by action.                                    *)

LEMMA TypeInductive == TypeOK /\ Counting /\ [Next]_vars => TypeOK'
<1>. SUFFICES ASSUME TypeOK, Counting, [Next]_vars PROVE TypeOK'
  OBVIOUS
<1>. USE DEF TypeOK, vars, schedule, xray, shield, failover, services, outcome, StartSteps,
         LoopSteps, CleanupSteps, Over
<1>1. CASE StartProcess
  <2>1. owned' \subseteq Resources
    BY <1>1 DEF StartProcess, Resources
  <2>3. held' \in BOOLEAN
    BY <1>1 DEF StartProcess
  <2>. QED
    BY <1>1, <2>1, <2>3 DEF StartProcess, Goto, Raise
<1>2. CASE Connect
  <2>1. owned' \subseteq Resources
    BY <1>2 DEF Connect, Resources
  <2>3. client' \in BOOLEAN
    BY <1>2 DEF Connect
  <2>. QED
    BY <1>2, <2>1, <2>3 DEF Connect, Goto, Raise, Running
<1>3. CASE AddFirst
  <2>1. owned' \subseteq Resources
    BY <1>3 DEF AddFirst, Resources
  <2>. QED
    BY <1>3, <2>1 DEF AddFirst, Goto, Raise, AddOutbound, Running
<1>4. CASE EnableKillSwitch
  <2>1. owned' \subseteq Resources
    BY <1>4 DEF EnableKillSwitch, Resources
  <2>2. kernel' \in BOOLEAN
    BY <1>4 DEF EnableKillSwitch
  <2>3. rules' \in {"none", "partial", "full"}
    BY <1>4 DEF EnableKillSwitch
  <2>. QED
    BY <1>4, <2>1, <2>2, <2>3 DEF EnableKillSwitch, Goto, Raise
<1>5. CASE RegisterSignals
  BY <1>5 DEF RegisterSignals, Goto
<1>6. CASE Loop
  BY <1>6 DEF Loop, Goto, Leave, Running
<1>7. CASE Check
  <2>1. PICK results \in Results :
             LET alternative == PickBest(active, results)
             IN /\ failures' = Recorded(failures, results[active])
                /\ IF ShouldFailover(failures')
                   THEN IF alternative = None
                        THEN Leave /\ reported' = TRUE /\ UNCHANGED best
                        ELSE Goto("switchRemove") /\ best' = alternative
                               /\ UNCHANGED reported
                   ELSE Goto("alive") /\ UNCHANGED <<best, reported>>
    BY <1>7 DEF Check
  <2>2. PickBest(active, results) \in Profiles \cup {None}
    BY PickBestType DEF TypeOK
  <2>3. at = "check" /\ failures < Threshold
    BY <1>7 DEF Check, Counting, Looping
  <2>4. failures' \in 0..Threshold
    BY <2>1, <2>3, ThresholdAssumption DEF Recorded, TypeOK
  <2>5. reported' \in BOOLEAN
    BY <2>1 DEF TypeOK
  <2>. QED
    BY <1>7, <2>1, <2>2, <2>3, <2>4, <2>5, ThresholdAssumption DEF Check, Goto, Leave,
       ShouldFailover
<1>8. CASE CheckRaises
  BY <1>8 DEF CheckRaises, Raise
<1>9. CASE SwitchRemove
  <2>1. owned' \subseteq Resources
    BY <1>9 DEF SwitchRemove, Resources
  <2>. QED
    BY <1>9, <2>1 DEF SwitchRemove, Goto, RemoveOutbound, Running
<1>10. CASE SwitchAdd
  <2>1. at = "switchAdd" /\ best \in Profiles
    BY <1>10 DEF SwitchAdd, Counting
  <2>2. owned' \subseteq Resources
    BY <1>10 DEF SwitchAdd, Resources
  <2>. QED
    BY <1>10, <2>1, <2>2, ThresholdAssumption DEF SwitchAdd, Goto, AddOutbound
<1>11. CASE RecoverRemove
  <2>1. owned' \subseteq Resources
    BY <1>11 DEF RecoverRemove, Resources
  <2>. QED
    BY <1>11, <2>1 DEF RecoverRemove, Goto, RemoveOutbound, Running
<1>12. CASE RecoverAdd
  <2>1. owned' \subseteq Resources
    BY <1>12 DEF RecoverAdd, Resources
  <2>. QED
    BY <1>12, <2>1 DEF RecoverAdd, Leave, AddOutbound, Running
<1>13. CASE CheckWatcher
  BY <1>13 DEF CheckWatcher, Goto, Leave
<1>14. CASE Wait
  BY <1>14 DEF Wait, Goto, Leave
<1>15. CASE Unwatch
  <2>1. signals' \in BOOLEAN
    BY <1>15 DEF Unwatch
  <2>2. watching' \in {"no", "yes", "told", "unborn"}
    BY <1>15 DEF Unwatch
  <2>3. errors' \subseteq {"watcher", "outbound", "process", "killswitch"}
    BY <1>15 DEF Unwatch
  <2>. QED
    BY <1>15, <2>1, <2>2, <2>3 DEF Unwatch, Goto
<1>16. CASE SkipUnroute
  BY <1>16 DEF SkipUnroute, Goto, Unrouting
<1>17. CASE Unroute
  <2>1. owned' \subseteq Resources
    BY <1>17 DEF Unroute, Resources
  <2>2. errors' \subseteq {"watcher", "outbound", "process", "killswitch"}
    BY <1>17 DEF Unroute
  <2>. QED
    BY <1>17, <2>1, <2>2 DEF Unroute, Goto, RemoveOutbound, Running, Unrouting
<1>18. CASE Disengage
  <2>1. owned' \subseteq Resources
    BY <1>18 DEF Disengage, Resources
  <2>3. client' \in BOOLEAN
    BY <1>18 DEF Disengage
  <2>. QED
    BY <1>18, <2>1, <2>3 DEF Disengage, Goto
<1>19. CASE SkipHalt
  BY <1>19 DEF SkipHalt, Goto
<1>20. CASE Halt
  <2>1. owned' \subseteq Resources
    BY <1>20 DEF Halt, Resources
  <2>2. errors' \subseteq {"watcher", "outbound", "process", "killswitch"}
    BY <1>20 DEF Halt
  <2>3. held' \in BOOLEAN
    BY <1>20 DEF Halt
  <2>. QED
    BY <1>20, <2>1, <2>2, <2>3 DEF Halt, Goto
<1>21. CASE SkipUnblock
  BY <1>21 DEF SkipUnblock, Goto
<1>22. CASE Unblock
  <2>1. owned' \subseteq Resources
    BY <1>22 DEF Unblock, Resources
  <2>2. errors' \subseteq {"watcher", "outbound", "process", "killswitch"}
    BY <1>22 DEF Unblock
  <2>3. rules' \in {"none", "partial", "full"}
    BY <1>22 DEF Unblock, RulesGo
  <2>. QED
    BY <1>22, <2>1, <2>2, <2>3 DEF Unblock, Goto
<1>23. CASE Finish
  BY <1>23 DEF Finish, Goto, Leave
<1>24. CASE Cancelled
  <2>1. at = "switchAdd" => best \in Profiles
    BY DEF Counting
  <2>2. Wanted \in Profiles
    BY <2>1 DEF Wanted
  <2>3. Effects \subseteq Profiles \cup {None}
    BY <2>2 DEF Effects
  <2>4. pending' \in BOOLEAN /\ cut' \in BOOLEAN
    BY <1>24 DEF Cancelled
  <2>. QED
    BY <1>24, <2>3, <2>4 DEF Cancelled, Goto, Raise, Leave
<1>25. CASE XrayDies
  BY <1>25 DEF XrayDies, Running
<1>26. CASE Trip
  BY <1>26 DEF Trip, Running
<1>27. CASE WatcherEnds
  BY <1>27 DEF WatcherEnds
<1>28. CASE Interrupt
  BY <1>28, InterruptsAssumption DEF Interrupt
<1>29. CASE StopSignal
  BY <1>29 DEF StopSignal
<1>30. CASE FatalSignal
  BY <1>30 DEF FatalSignal
<1>31. CASE UNCHANGED vars
  BY <1>31
<1>. QED
  BY <1>1, <1>2, <1>3, <1>4, <1>5, <1>6, <1>7, <1>8, <1>9, <1>10, <1>11, <1>12,
     <1>13, <1>14, <1>15, <1>16, <1>17, <1>18, <1>19, <1>20, <1>21, <1>22, <1>23,
     <1>24, <1>25, <1>26, <1>27, <1>28, <1>29, <1>30, <1>31 DEF Next, Coroutine,
     Outside, Ended

LEMMA PlaceInductive == Place /\ [Next]_vars => Place'
<1>. SUFFICES ASSUME Place, [Next]_vars PROVE Place'
  OBVIOUS
<1>. USE DEF Place, vars, schedule, xray, shield, failover, services, outcome, StartSteps,
         LoopSteps, CleanupSteps, Over
<1>1. CASE StartProcess
  BY <1>1 DEF StartProcess, Goto, Raise
<1>2. CASE Connect
  BY <1>2 DEF Connect, Goto, Raise, Running
<1>3. CASE AddFirst
  BY <1>3 DEF AddFirst, Goto, Raise, AddOutbound, Running
<1>4. CASE EnableKillSwitch
  BY <1>4 DEF EnableKillSwitch, Goto, Raise
<1>5. CASE RegisterSignals
  BY <1>5 DEF RegisterSignals, Goto
<1>6. CASE Loop
  BY <1>6 DEF Loop, Goto, Leave, Running
<1>7. CASE Check
  BY <1>7 DEF Check, Goto, Leave
<1>8. CASE CheckRaises
  BY <1>8 DEF CheckRaises, Raise
<1>9. CASE SwitchRemove
  BY <1>9 DEF SwitchRemove, Goto, RemoveOutbound, Running
<1>10. CASE SwitchAdd
  BY <1>10 DEF SwitchAdd, Goto, AddOutbound, Running
<1>11. CASE RecoverRemove
  BY <1>11 DEF RecoverRemove, Goto, RemoveOutbound, Running
<1>12. CASE RecoverAdd
  BY <1>12 DEF RecoverAdd, Leave, AddOutbound, Running
<1>13. CASE CheckWatcher
  BY <1>13 DEF CheckWatcher, Goto, Leave
<1>14. CASE Wait
  BY <1>14 DEF Wait, Goto, Leave
<1>15. CASE Unwatch
  BY <1>15 DEF Unwatch, Goto
<1>16. CASE SkipUnroute
  BY <1>16 DEF SkipUnroute, Goto, Unrouting
<1>17. CASE Unroute
  BY <1>17 DEF Unroute, Goto, RemoveOutbound, Running, Unrouting
<1>18. CASE Disengage
  BY <1>18 DEF Disengage, Goto
<1>19. CASE SkipHalt
  BY <1>19 DEF SkipHalt, Goto
<1>20. CASE Halt
  BY <1>20 DEF Halt, Goto
<1>21. CASE SkipUnblock
  BY <1>21 DEF SkipUnblock, Goto
<1>22. CASE Unblock
  BY <1>22 DEF Unblock, Goto
<1>23. CASE Finish
  BY <1>23 DEF Finish, Goto, Leave
<1>24. CASE Cancelled
  BY <1>24 DEF Cancelled, Goto, Raise, Leave, Awaiting, Calling, Unrouting, Effects, Wanted,
     Running
<1>25. CASE XrayDies
  BY <1>25 DEF XrayDies, Running
<1>26. CASE Trip
  BY <1>26 DEF Trip, Running
<1>27. CASE WatcherEnds
  BY <1>27 DEF WatcherEnds
<1>28. CASE Interrupt
  BY <1>28 DEF Interrupt
<1>29. CASE StopSignal
  BY <1>29 DEF StopSignal
<1>30. CASE FatalSignal
  BY <1>30 DEF FatalSignal
<1>31. CASE UNCHANGED vars
  BY <1>31
<1>. QED
  BY <1>1, <1>2, <1>3, <1>4, <1>5, <1>6, <1>7, <1>8, <1>9, <1>10, <1>11, <1>12,
     <1>13, <1>14, <1>15, <1>16, <1>17, <1>18, <1>19, <1>20, <1>21, <1>22, <1>23,
     <1>24, <1>25, <1>26, <1>27, <1>28, <1>29, <1>30, <1>31 DEF Next, Coroutine,
     Outside, Ended

LEMMA ProgressInductive == TypeOK /\ Place /\ Progress /\ [Next]_vars => Progress'
<1>. SUFFICES ASSUME TypeOK, Place, Progress, [Next]_vars PROVE Progress'
  OBVIOUS
<1>. USE DEF Place, Progress, Running, vars, schedule, xray, shield, failover, services,
         outcome, StartSteps, LoopSteps, CleanupSteps, Over
<1>1. CASE StartProcess
  BY <1>1 DEF StartProcess, Goto, Raise
<1>2. CASE Connect
  BY <1>2 DEF Connect, Goto, Raise
<1>3. CASE AddFirst
  BY <1>3 DEF AddFirst, Goto, Raise, AddOutbound
<1>4. CASE EnableKillSwitch
  BY <1>4 DEF EnableKillSwitch, Goto, Raise
<1>5. CASE RegisterSignals
  BY <1>5 DEF RegisterSignals, Goto
<1>6. CASE Loop
  BY <1>6 DEF Loop, Goto, Leave
<1>7. CASE Check
  BY <1>7 DEF Check, Goto, Leave
<1>8. CASE CheckRaises
  BY <1>8 DEF CheckRaises, Raise
<1>9. CASE SwitchRemove
  BY <1>9 DEF SwitchRemove, Goto, RemoveOutbound
<1>10. CASE SwitchAdd
  BY <1>10 DEF SwitchAdd, Goto, AddOutbound
<1>11. CASE RecoverRemove
  BY <1>11 DEF RecoverRemove, Goto, RemoveOutbound
<1>12. CASE RecoverAdd
  BY <1>12 DEF RecoverAdd, Leave, AddOutbound
<1>13. CASE CheckWatcher
  BY <1>13 DEF CheckWatcher, Goto, Leave
<1>14. CASE Wait
  BY <1>14 DEF Wait, Goto, Leave
<1>15. CASE Unwatch
  BY <1>15 DEF Unwatch, Goto
<1>16. CASE SkipUnroute
  BY <1>16 DEF SkipUnroute, Goto, Unrouting
<1>17. CASE Unroute
  BY <1>17 DEF Unroute, Goto, RemoveOutbound, Unrouting
<1>18. CASE Disengage
  BY <1>18 DEF Disengage, Goto
<1>19. CASE SkipHalt
  BY <1>19 DEF SkipHalt, Goto
<1>20. CASE Halt
  BY <1>20 DEF Halt, Goto
<1>21. CASE SkipUnblock
  BY <1>21 DEF SkipUnblock, Goto
<1>22. CASE Unblock
  BY <1>22 DEF Unblock, RulesGo, Goto
<1>23. CASE Finish
  BY <1>23 DEF Finish, Goto, Leave
<1>24. CASE Cancelled
  BY <1>24 DEF Cancelled, Goto, Raise, Leave, Awaiting, Calling, Unrouting, Effects, Wanted
<1>25. CASE XrayDies
  BY <1>25 DEF XrayDies
<1>26. CASE Trip
  BY <1>26 DEF Trip
<1>27. CASE WatcherEnds
  BY <1>27 DEF WatcherEnds
<1>28. CASE Interrupt
  BY <1>28 DEF Interrupt
<1>29. CASE StopSignal
  BY <1>29 DEF StopSignal
<1>30. CASE FatalSignal
  BY <1>30 DEF FatalSignal
<1>31. CASE UNCHANGED vars
  BY <1>31
<1>. QED
  BY <1>1, <1>2, <1>3, <1>4, <1>5, <1>6, <1>7, <1>8, <1>9, <1>10, <1>11, <1>12,
     <1>13, <1>14, <1>15, <1>16, <1>17, <1>18, <1>19, <1>20, <1>21, <1>22, <1>23,
     <1>24, <1>25, <1>26, <1>27, <1>28, <1>29, <1>30, <1>31 DEF Next, Coroutine,
     Outside, Ended

LEMMA RouteInductive == TypeOK /\ Place /\ Route /\ [Next]_vars => Route'
<1>. SUFFICES ASSUME TypeOK, Place, Route, [Next]_vars PROVE Route'
  OBVIOUS
<1>. USE DEF Place, Route, Looping, Running, vars, schedule, xray, shield, failover, services,
         outcome, StartSteps, LoopSteps, CleanupSteps, Over
<1>1. CASE StartProcess
  BY <1>1 DEF StartProcess, Goto, Raise
<1>2. CASE Connect
  BY <1>2 DEF Connect, Goto, Raise
<1>3. CASE AddFirst
  BY <1>3 DEF AddFirst, Goto, Raise, AddOutbound
<1>4. CASE EnableKillSwitch
  BY <1>4 DEF EnableKillSwitch, Goto, Raise
<1>5. CASE RegisterSignals
  BY <1>5 DEF RegisterSignals, Goto
<1>6. CASE Loop
  BY <1>6 DEF Loop, Goto, Leave
<1>7. CASE Check
  BY <1>7 DEF Check, Goto, Leave
<1>8. CASE CheckRaises
  BY <1>8 DEF CheckRaises, Raise
<1>9. CASE SwitchRemove
  BY <1>9 DEF SwitchRemove, Goto, RemoveOutbound
<1>10. CASE SwitchAdd
  BY <1>10 DEF SwitchAdd, Goto, AddOutbound
<1>11. CASE RecoverRemove
  BY <1>11 DEF RecoverRemove, Goto, RemoveOutbound
<1>12. CASE RecoverAdd
  BY <1>12 DEF RecoverAdd, Leave, AddOutbound
<1>13. CASE CheckWatcher
  BY <1>13 DEF CheckWatcher, Goto, Leave
<1>14. CASE Wait
  BY <1>14 DEF Wait, Goto, Leave
<1>15. CASE Unwatch
  BY <1>15 DEF Unwatch, Goto
<1>16. CASE SkipUnroute
  BY <1>16 DEF SkipUnroute, Goto, Unrouting
<1>17. CASE Unroute
  BY <1>17 DEF Unroute, Goto, RemoveOutbound, Unrouting
<1>18. CASE Disengage
  BY <1>18 DEF Disengage, Goto
<1>19. CASE SkipHalt
  BY <1>19 DEF SkipHalt, Goto
<1>20. CASE Halt
  BY <1>20 DEF Halt, Goto
<1>21. CASE SkipUnblock
  BY <1>21 DEF SkipUnblock, Goto
<1>22. CASE Unblock
  BY <1>22 DEF Unblock, Goto
<1>23. CASE Finish
  BY <1>23 DEF Finish, Goto, Leave
<1>24. CASE Cancelled
  BY <1>24 DEF Cancelled, Goto, Raise, Leave, Awaiting, Calling, Unrouting, Effects, Wanted
<1>25. CASE XrayDies
  BY <1>25 DEF XrayDies
<1>26. CASE Trip
  BY <1>26 DEF Trip
<1>27. CASE WatcherEnds
  BY <1>27 DEF WatcherEnds
<1>28. CASE Interrupt
  BY <1>28 DEF Interrupt
<1>29. CASE StopSignal
  BY <1>29 DEF StopSignal
<1>30. CASE FatalSignal
  BY <1>30 DEF FatalSignal
<1>31. CASE UNCHANGED vars
  BY <1>31
<1>. QED
  BY <1>1, <1>2, <1>3, <1>4, <1>5, <1>6, <1>7, <1>8, <1>9, <1>10, <1>11, <1>12,
     <1>13, <1>14, <1>15, <1>16, <1>17, <1>18, <1>19, <1>20, <1>21, <1>22, <1>23,
     <1>24, <1>25, <1>26, <1>27, <1>28, <1>29, <1>30, <1>31 DEF Next, Coroutine,
     Outside, Ended

LEMMA CountingInductive == TypeOK /\ Place /\ Counting /\ [Next]_vars => Counting'
<1>. SUFFICES ASSUME TypeOK, Place, Counting, [Next]_vars PROVE Counting'
  OBVIOUS
<1>. USE DEF Counting, Place, Looping, vars, schedule, xray, shield, failover, services,
         outcome, StartSteps, LoopSteps, CleanupSteps, Over
<1>1. CASE StartProcess
  BY <1>1 DEF StartProcess, Goto, Raise
<1>2. CASE Connect
  BY <1>2 DEF Connect, Goto, Raise, Running
<1>3. CASE AddFirst
  BY <1>3 DEF AddFirst, Goto, Raise, AddOutbound, Running
<1>4. CASE EnableKillSwitch
  BY <1>4 DEF EnableKillSwitch, Goto, Raise
<1>5. CASE RegisterSignals
  BY <1>5 DEF RegisterSignals, Goto
<1>6. CASE Loop
  BY <1>6 DEF Loop, Goto, Leave, Running
<1>7. CASE Check
  <2>1. PICK results \in Results :
             LET alternative == PickBest(active, results)
             IN /\ failures' = Recorded(failures, results[active])
                /\ IF ShouldFailover(failures')
                   THEN IF alternative = None
                        THEN Leave /\ reported' = TRUE /\ UNCHANGED best
                        ELSE Goto("switchRemove") /\ best' = alternative
                               /\ UNCHANGED reported
                   ELSE Goto("alive") /\ UNCHANGED <<best, reported>>
    BY <1>7 DEF Check
  <2>2. PickBest(active, results) \in Profiles \cup {None}
    BY PickBestType DEF TypeOK
  <2>3. at = "check" /\ failures < Threshold
    BY <1>7 DEF Check, Counting, Looping
  <2>4. failures' \in 0..Threshold
    BY <2>1, <2>3, ThresholdAssumption DEF Recorded, TypeOK
  <2>5. reported' \in BOOLEAN
    BY <2>1 DEF TypeOK
  <2>. QED
    BY <1>7, <2>1, <2>2, <2>3, <2>4, <2>5, ThresholdAssumption DEF Check, Goto, Leave,
       ShouldFailover
<1>8. CASE CheckRaises
  BY <1>8 DEF CheckRaises, Raise
<1>9. CASE SwitchRemove
  BY <1>9 DEF SwitchRemove, Goto, RemoveOutbound, Running
<1>10. CASE SwitchAdd
  BY <1>10, ThresholdAssumption DEF SwitchAdd, Goto
<1>11. CASE RecoverRemove
  BY <1>11 DEF RecoverRemove, Goto, RemoveOutbound, Running
<1>12. CASE RecoverAdd
  BY <1>12 DEF RecoverAdd, Leave, AddOutbound, Running
<1>13. CASE CheckWatcher
  BY <1>13 DEF CheckWatcher, Goto, Leave
<1>14. CASE Wait
  BY <1>14 DEF Wait, Goto, Leave
<1>15. CASE Unwatch
  BY <1>15 DEF Unwatch, Goto
<1>16. CASE SkipUnroute
  BY <1>16 DEF SkipUnroute, Goto, Unrouting
<1>17. CASE Unroute
  BY <1>17 DEF Unroute, Goto, RemoveOutbound, Running, Unrouting
<1>18. CASE Disengage
  BY <1>18 DEF Disengage, Goto
<1>19. CASE SkipHalt
  BY <1>19 DEF SkipHalt, Goto
<1>20. CASE Halt
  BY <1>20 DEF Halt, Goto
<1>21. CASE SkipUnblock
  BY <1>21 DEF SkipUnblock, Goto
<1>22. CASE Unblock
  BY <1>22 DEF Unblock, Goto
<1>23. CASE Finish
  BY <1>23 DEF Finish, Goto, Leave
<1>24. CASE Cancelled
  BY <1>24 DEF Cancelled, Goto, Raise, Leave, Awaiting, Calling, Unrouting, Effects, Wanted,
     Running
<1>25. CASE XrayDies
  BY <1>25 DEF XrayDies, Running
<1>26. CASE Trip
  BY <1>26 DEF Trip, Running
<1>27. CASE WatcherEnds
  BY <1>27 DEF WatcherEnds
<1>28. CASE Interrupt
  BY <1>28 DEF Interrupt
<1>29. CASE StopSignal
  BY <1>29 DEF StopSignal
<1>30. CASE FatalSignal
  BY <1>30 DEF FatalSignal
<1>31. CASE UNCHANGED vars
  BY <1>31
<1>. QED
  BY <1>1, <1>2, <1>3, <1>4, <1>5, <1>6, <1>7, <1>8, <1>9, <1>10, <1>11, <1>12,
     <1>13, <1>14, <1>15, <1>16, <1>17, <1>18, <1>19, <1>20, <1>21, <1>22, <1>23,
     <1>24, <1>25, <1>26, <1>27, <1>28, <1>29, <1>30, <1>31 DEF Next, Coroutine,
     Outside, Ended

-----------------------------------------------------------------------------
LEMMA UnarmedInductive == TypeOK /\ Unarmed /\ [Next]_vars => Unarmed'
<1>. SUFFICES ASSUME TypeOK, Unarmed, [Next]_vars PROVE Unarmed'
  OBVIOUS
<1>. USE DEF Unarmed, vars, schedule, xray, shield, failover, services, outcome, StartSteps,
         LoopSteps, CleanupSteps, Over, Goto, Raise, Leave
<1>1. CASE StartProcess
  BY <1>1 DEF StartProcess
<1>2. CASE Connect
  BY <1>2 DEF Connect
<1>3. CASE AddFirst
  BY <1>3 DEF AddFirst
<1>4. CASE EnableKillSwitch
  BY <1>4 DEF EnableKillSwitch
<1>5. CASE RegisterSignals
  BY <1>5 DEF RegisterSignals
<1>6. CASE Loop
  BY <1>6 DEF Loop
<1>7. CASE Check
  BY <1>7 DEF Check
<1>8. CASE CheckRaises
  BY <1>8 DEF CheckRaises
<1>9. CASE SwitchRemove
  BY <1>9 DEF SwitchRemove
<1>10. CASE SwitchAdd
  BY <1>10 DEF SwitchAdd
<1>11. CASE RecoverRemove
  BY <1>11 DEF RecoverRemove
<1>12. CASE RecoverAdd
  BY <1>12 DEF RecoverAdd
<1>13. CASE CheckWatcher
  BY <1>13 DEF CheckWatcher
<1>14. CASE Wait
  BY <1>14 DEF Wait
<1>15. CASE Unwatch
  BY <1>15 DEF Unwatch
<1>16. CASE SkipUnroute
  BY <1>16 DEF SkipUnroute
<1>17. CASE Unroute
  BY <1>17 DEF Unroute
<1>18. CASE Disengage
  BY <1>18 DEF Disengage
<1>19. CASE SkipHalt
  BY <1>19 DEF SkipHalt
<1>20. CASE Halt
  BY <1>20 DEF Halt
<1>21. CASE SkipUnblock
  BY <1>21 DEF SkipUnblock
<1>22. CASE Unblock
  BY <1>22 DEF Unblock
<1>23. CASE Finish
  BY <1>23 DEF Finish
<1>24. CASE Cancelled
  BY <1>24 DEF Cancelled, TypeOK
<1>25. CASE XrayDies
  BY <1>25 DEF XrayDies
<1>26. CASE Trip
  BY <1>26 DEF Trip, TypeOK
<1>27. CASE WatcherEnds
  BY <1>27 DEF WatcherEnds
<1>28. CASE Interrupt
  BY <1>28 DEF Interrupt
<1>29. CASE StopSignal
  BY <1>29 DEF StopSignal
<1>30. CASE FatalSignal
  BY <1>30 DEF FatalSignal
<1>31. CASE UNCHANGED vars
  BY <1>31
<1>. QED
  BY <1>1, <1>2, <1>3, <1>4, <1>5, <1>6, <1>7, <1>8, <1>9, <1>10, <1>11, <1>12, <1>13, <1>14,
     <1>15, <1>16, <1>17, <1>18, <1>19, <1>20, <1>21, <1>22, <1>23, <1>24, <1>25, <1>26, <1>27,
     <1>28, <1>29, <1>30, <1>31
     DEF Next, Coroutine, Outside, Ended

-----------------------------------------------------------------------------
LEMMA Initially == Init => IInv
<1>. SUFFICES ASSUME Init PROVE IInv
  OBVIOUS
<1>. USE ThresholdAssumption, InterruptsAssumption DEF Init, StartSteps, LoopSteps,
         CleanupSteps, Over
<1>1. TypeOK
  <2>1. /\ cut \in BOOLEAN /\ reported \in BOOLEAN /\ held \in BOOLEAN /\ client \in BOOLEAN
        /\ stop \in BOOLEAN /\ signals \in BOOLEAN /\ pending \in BOOLEAN
    OBVIOUS
  <2>2. failures \in 0..Threshold /\ interrupts \in 0..MaxInterrupts
    OBVIOUS
  <2>. QED
    BY <2>1, <2>2 DEF TypeOK
<1>2. Place /\ Progress /\ Route
  BY DEF Place, Progress, Route, Looping, Running
<1>3. Counting /\ Unarmed
  BY DEF Counting, Looping, Unarmed
<1>. QED
  BY <1>1, <1>2, <1>3 DEF IInv

LEMMA Inductive == Spec => []IInv
<1>1. IInv /\ [Next]_vars => IInv'
  BY TypeInductive, PlaceInductive, ProgressInductive, RouteInductive, CountingInductive,
     UnarmedInductive DEF IInv
<1>. QED
  BY Initially, <1>1, PTL DEF Spec

\* The variables keep their types; the count of failures never passes the threshold.
THEOREM TypeCorrect == Spec => []TypeOK
<1>1. IInv => TypeOK
  BY DEF IInv
<1>. QED
  BY Inductive, <1>1, PTL

\* Whatever failed, a run that ends without a cancellation of cleanup has let go
\* of everything, except an xray whose stop raised and a switch whose disabling
\* raised after its rules were gone; the event handler is told of both.
THEOREM EndsClean == Spec => []NothingLeftBehind
<1>1. IInv => NothingLeftBehind
  <2>. SUFFICES ASSUME IInv, at = "exited", ~cut
                PROVE  /\ ~client /\ ~held
                       /\ Running => "process" \in errors /\ reported
                       /\ "killswitch" \in owned =>
                            "killswitch" \in errors /\ reported /\ (kernel => rules = "none")
    BY DEF NothingLeftBehind
  <2>1. ~client /\ ~held /\ ("killswitch" \in owned => "killswitch" \in errors)
    BY DEF IInv, Progress
  <2>2. Running => "process" \in errors
    BY <2>1 DEF IInv, Progress
  <2>3. errors # {} => reported
    BY DEF IInv, Progress
  <2>. QED
    BY <2>1, <2>2, <2>3 DEF IInv, Progress
<1>. QED
  BY Inductive, <1>1, PTL

\* The loops and xray agree on the outbound, through any number of switches.
THEOREM LoopsOverTheActiveRoute == Spec => []RouteIsTheActiveOne
<1>1. IInv => RouteIsTheActiveOne
  BY DEF IInv, Route, RouteIsTheActiveOne, Looping, LoopSteps
<1>. QED
  BY Inductive, <1>1, PTL

\* The block is lifted after xray has ended or its stop has failed.
THEOREM UnblocksLast == Spec => UnblockedLast
<1>1. IInv /\ [Next]_vars => [rules = "full" /\ rules' # "full" =>
                                ~Running \/ "process" \in errors]_vars
  <2>. SUFFICES ASSUME IInv, Next, rules = "full", rules' # "full"
                PROVE  ~Running \/ "process" \in errors
    OBVIOUS
  <2>1. EnableKillSwitch \/ Unblock
    BY DEF Next, Coroutine, Outside, Ended, vars, schedule, xray, shield, failover, services,
       outcome, StartProcess, Connect, AddFirst, RegisterSignals, Loop, Check, CheckRaises,
       SwitchRemove, SwitchAdd, RecoverRemove, RecoverAdd, CheckWatcher, Wait, Unwatch,
       SkipUnroute, Unroute, Disengage, SkipHalt, Halt, SkipUnblock, Finish, Cancelled,
       XrayDies, Trip, WatcherEnds, Interrupt, StopSignal, FatalSignal
  <2>2. ~EnableKillSwitch
    BY DEF IInv, Progress, EnableKillSwitch
  <2>. QED
    BY <2>1, <2>2 DEF IInv, Progress, Unblock
<1>. QED
  BY Inductive, <1>1, PTL DEF Spec, UnblockedLast
-----------------------------------------------------------------------------
(* The connection seen from outside: every step of the lifecycle is one of *)
(* the contract's, or changes nothing that the contract speaks of.         *)

Quiet == UNCHANGED <<Phase, Holds, Spoiled, RouteInUse, opts.killswitch>>

LEMMA ContractStep == IInv /\ [Next]_vars => [Contract!Next]_(Contract!vars)
<1>. SUFFICES ASSUME IInv, [Next]_vars PROVE [Contract!Next]_(Contract!vars)
  OBVIOUS
<1>. USE DEF IInv, TypeOK, Place, Route, Looping, StartSteps, LoopSteps, CleanupSteps, Over,
         Running, vars, schedule, xray, shield, failover, services, outcome, Goto, Raise, Leave,
         Phase, Holds, Spoiled, RouteInUse, When
<1>0. Quiet => UNCHANGED Contract!vars
  BY DEF Quiet, Contract!vars
<1>1. CASE StartProcess
  <2>1. Contract!Take("process") \/ Contract!StartFails
    BY <1>1 DEF StartProcess, Contract!Shielded, Contract!Take, Contract!StartFails
  <2>. QED
    BY <2>1 DEF Contract!Next
<1>2. CASE Connect
  <2>1. Contract!Take("client") \/ Contract!StartFails
    BY <1>2 DEF Connect, Contract!Shielded, Contract!Take, Contract!StartFails
  <2>. QED
    BY <2>1 DEF Contract!Next
<1>3. CASE AddFirst
  <2>1. Contract!Up \/ Contract!StartFails \/ Quiet
    BY <1>3 DEF AddFirst, AddOutbound, Quiet, Contract!Shielded, Contract!Up,
       Contract!StartFails
  <2>. QED
    BY <2>1, <1>0 DEF Contract!Next
<1>4. CASE EnableKillSwitch
  <2>1. Contract!Up \/ Contract!StartFails
    BY <1>4 DEF EnableKillSwitch, Unarmed, Progress, Contract!Shielded, Contract!Up,
       Contract!StartFails
  <2>. QED
    BY <2>1 DEF Contract!Next
<1>5. CASE RegisterSignals
  <2>1. Quiet
    BY <1>5 DEF RegisterSignals, Quiet
  <2>. QED
    BY <2>1, <1>0
<1>6. CASE Loop
  <2>1. Contract!End \/ Quiet
    BY <1>6 DEF Loop, Quiet, Contract!End
  <2>. QED
    BY <2>1, <1>0 DEF Contract!Next
<1>7. CASE Check
  <2>1. Contract!End \/ Quiet
    BY <1>7 DEF Check, Quiet, Contract!End
  <2>. QED
    BY <2>1, <1>0 DEF Contract!Next
<1>8. CASE CheckRaises
  <2>1. Contract!End
    BY <1>8 DEF CheckRaises, Contract!End
  <2>. QED
    BY <2>1 DEF Contract!Next
<1>9. CASE SwitchRemove
  <2>1. Quiet
    BY <1>9 DEF SwitchRemove, Quiet
  <2>. QED
    BY <2>1, <1>0
<1>10. CASE SwitchAdd
  <2>1. Contract!Switch(best) \/ Quiet
    BY <1>10 DEF SwitchAdd, AddOutbound, Quiet, Contract!Switch
  <2>. QED
    BY <2>1, <1>0, <1>10 DEF Contract!Next, Counting, SwitchAdd
<1>11. CASE RecoverRemove
  <2>1. Quiet
    BY <1>11 DEF RecoverRemove, Quiet
  <2>. QED
    BY <2>1, <1>0
<1>12. CASE RecoverAdd
  <2>1. Contract!End
    BY <1>12 DEF RecoverAdd, AddOutbound, Contract!End
  <2>. QED
    BY <2>1 DEF Contract!Next
<1>13. CASE CheckWatcher
  <2>1. Contract!End \/ Quiet
    BY <1>13 DEF CheckWatcher, Quiet, Contract!End
  <2>. QED
    BY <2>1, <1>0 DEF Contract!Next
<1>14. CASE Wait
  <2>1. Contract!End \/ Quiet
    BY <1>14 DEF Wait, Quiet, Contract!End
  <2>. QED
    BY <2>1, <1>0 DEF Contract!Next
<1>15. CASE Unwatch
  <2>1. Quiet
    BY <1>15 DEF Unwatch, Quiet
  <2>. QED
    BY <2>1, <1>0
<1>16. CASE SkipUnroute
  <2>1. Quiet
    BY <1>16 DEF SkipUnroute, Unrouting, Quiet
  <2>. QED
    BY <2>1, <1>0
<1>17. CASE Unroute
  <2>1. Quiet
    BY <1>17 DEF Unroute, Unrouting, RemoveOutbound, Quiet
  <2>. QED
    BY <2>1, <1>0
<1>18. CASE Disengage
  <2>1. Contract!TryGiveBack("client")
    BY <1>18 DEF Disengage, Contract!TryGiveBack
  <2>. QED
    BY <2>1 DEF Contract!Next, Contract!Resources
<1>19. CASE SkipHalt
  <2>1. Quiet
    BY <1>19 DEF SkipHalt, Quiet
  <2>. QED
    BY <2>1, <1>0
<1>20. CASE Halt
  <2>1. Contract!TryGiveBack("process")
    BY <1>20 DEF Halt, Contract!TryGiveBack
  <2>. QED
    BY <2>1 DEF Contract!Next, Contract!Resources
<1>21. CASE SkipUnblock
  <2>1. Quiet
    BY <1>21 DEF SkipUnblock, Quiet
  <2>. QED
    BY <2>1, <1>0
<1>22. CASE Unblock
  <2>1. Contract!TryGiveBack("block")
    BY <1>22 DEF Unblock, Progress, Contract!TryGiveBack
  <2>. QED
    BY <2>1 DEF Contract!Next, Contract!Resources
<1>23. CASE Finish
  <2>1. Contract!Close \/ Quiet
    BY <1>23 DEF Finish, Progress, Quiet, Contract!Close
  <2>. QED
    BY <2>1, <1>0 DEF Contract!Next
<1>24. CASE Cancelled
  <2>1. Contract!StartFails \/ Contract!End \/ Contract!CutShort \/ Quiet
    BY <1>24 DEF Cancelled, Awaiting, Calling, Unrouting, Quiet, Contract!Shielded,
       Contract!Resources, Contract!StartFails, Contract!End, Contract!CutShort
  <2>. QED
    BY <2>1, <1>0 DEF Contract!Next
<1>25. CASE XrayDies
  <2>1. Contract!XrayDies
    BY <1>25 DEF XrayDies, Contract!XrayDies
  <2>. QED
    BY <2>1 DEF Contract!Next
<1>26. CASE Trip
  <2>1. Quiet
    BY <1>26 DEF Trip, Quiet
  <2>. QED
    BY <2>1, <1>0
<1>27. CASE WatcherEnds
  <2>1. Quiet
    BY <1>27 DEF WatcherEnds, Quiet
  <2>. QED
    BY <2>1, <1>0
<1>28. CASE Interrupt
  <2>1. Quiet
    BY <1>28 DEF Interrupt, Quiet
  <2>. QED
    BY <2>1, <1>0
<1>29. CASE StopSignal
  <2>1. Quiet
    BY <1>29 DEF StopSignal, Quiet
  <2>. QED
    BY <2>1, <1>0
<1>30. CASE FatalSignal
  <2>1. Contract!Killed
    BY <1>30 DEF FatalSignal, Contract!Resources, Contract!Killed
  <2>. QED
    BY <2>1 DEF Contract!Next
<1>31. CASE UNCHANGED vars
  BY <1>31 DEF Contract!vars
<1>. QED
  BY <1>1, <1>2, <1>3, <1>4, <1>5, <1>6, <1>7, <1>8, <1>9, <1>10, <1>11, <1>12, <1>13, <1>14,
     <1>15, <1>16, <1>17, <1>18, <1>19, <1>20, <1>21, <1>22, <1>23, <1>24, <1>25, <1>26, <1>27,
     <1>28, <1>29, <1>30, <1>31
     DEF Next, Coroutine, Outside, Ended

\* The kill-switch is armed once, by start, and disarmed by one of the cleanups.
LEMMA ShieldStep == IInv /\ [Next]_vars => [Shield!Next]_(Shield!vars)
<1>. SUFFICES ASSUME IInv, [Next]_vars PROVE [Shield!Next]_(Shield!vars)
  OBVIOUS
<1>1. CASE EnableKillSwitch
  <2>1. ks = "off" /\ ks' = "armed"
    BY <1>1 DEF IInv, Unarmed, StartSteps, EnableKillSwitch
  <2>. QED
    BY <2>1 DEF Shield!Next, Shield!Arm
<1>2. CASE Unblock
  <2>1. ks' = "off" \/ ks' = ks
    BY <1>2 DEF Unblock
  <2>. QED
    BY <2>1 DEF IInv, TypeOK, Shield!Next, Shield!Disarm, Shield!vars
<1>3. CASE Trip
  <2>1. ks = "armed" /\ ks' = "tripped"
    BY <1>3 DEF Trip
  <2>. QED
    BY <2>1 DEF Shield!Next, Shield!Trip
<1>4. CASE ~EnableKillSwitch /\ ~Unblock /\ ~Trip
  <2>1. ks' = ks
    BY <1>4 DEF Next, Coroutine, Outside, Ended, vars, schedule, xray, shield, failover,
       services, outcome, StartProcess, Connect, AddFirst, RegisterSignals, Loop, Check,
       CheckRaises, SwitchRemove, SwitchAdd, RecoverRemove, RecoverAdd, CheckWatcher, Wait,
       Unwatch, SkipUnroute, Unroute, Disengage, SkipHalt, Halt, SkipUnblock, Finish,
       Cancelled, XrayDies, WatcherEnds, Interrupt, StopSignal, FatalSignal
  <2>. QED
    BY <2>1 DEF Shield!vars
<1>. QED
  BY <1>1, <1>2, <1>3, <1>4

\* Every behaviour of `bimarz connect` is one that ConnectionContract allows, and
\* one that KillSwitchContract allows for its kill-switch.
THEOREM KeepsItsContracts == Spec => ImplementsContracts
<1>1. Init => Contract!Init
  <2>. SUFFICES ASSUME Init PROVE Contract!Init
    OBVIOUS
  <2>1. Phase = "starting" /\ RouteInUse = active
    BY DEF Init, Phase, StartSteps, LoopSteps, CleanupSteps, RouteInUse, Over, Running
  <2>2. Holds = {} /\ Spoiled = {}
    BY DEF Init, Holds, Spoiled, When, Running
  <2>3. active \in Profiles /\ opts.killswitch \in BOOLEAN
    BY DEF Init
  <2>4. Contract!Fresh(active)
    BY <2>1 DEF Contract!Fresh
  <2>. QED
    BY <2>2, <2>3, <2>4 DEF Contract!Init
<1>2. Init => Shield!Init
  BY DEF Init, Shield!Init
<1>. QED
  BY Inductive, ContractStep, ShieldStep, <1>1, <1>2, PTL
     DEF Spec, ImplementsContracts, Contract!Spec, Shield!Spec
=============================================================================
