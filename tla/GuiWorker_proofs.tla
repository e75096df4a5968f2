--------------------------- MODULE GuiWorker_proofs ---------------------------
(***************************************************************************)
(* Safety of GuiWorker for any profiles, latencies, threshold and number   *)
(* of sessions and of undelivered signals.  The invariant has these parts: *)
(*   TypeOK     what the variables hold; the others rely on Shapes of it   *)
(*   Choice     a session has a profile, and a switch one to go to         *)
(*   Progress   what a session has let go of by each step of its end       *)
(*   Route      the outbound of a connected session, also while its xray   *)
(*              is one that an earlier session left                        *)
(*   Watched    the kill-switch of a connected session                     *)
(*   Unarmed    a run finds the kill-switch off, and arms it if asked to   *)
(*   Button     what the window has been told, and is about to be told     *)
(***************************************************************************)
EXTENDS GuiWorker, Failover_proofs

Connected == Connecting \cup Looping

Shapes == /\ session \in Nat /\ inbox \in Seq(Nat)
          /\ gui \in {"free", "stop", "closeStop", "closeWait", "closed"}
          /\ at \in Connected \cup Leaving \cup Still
          /\ stage \in {"run", "undo", "cleanup"}
          /\ client \in BOOLEAN /\ owned \in BOOLEAN /\ held \in BOOLEAN
          /\ proc \in {"none", "running", "gone"}
          /\ bound \in BOOLEAN /\ stray \in BOOLEAN

Choice == /\ at # "off" => session \in 1..MaxSessions
          /\ at \in Connected => profile \in Profiles
          /\ at \in {"switchRemove", "switchAdd"} => best \in Profiles

Progress ==
    /\ Running => held \/ "process" \in seen
    /\ at \in {"unwatch", "unblock", "halt"} =>
         stage = "undo" \/ (stage = "cleanup" /\ ~client)
    /\ at \in {"tidy", "unroute", "close", "ending", "done"} => stage = "cleanup"
    /\ at \in {"close", "ending", "done"} /\ "cut" \notin seen => ~client /\ ~held
    /\ at = "off" => proc = "none"
    /\ at = "lost" => gui = "closed"

Route ==
    /\ bound => ~stray
    /\ at \in {"add", "arm"} \cup Looping => client
    /\ at \in {"arm", "loop", "check"} /\ Reachable /\ "adrift" \notin seen =>
         owned /\ outbound = profile

Watched == ConnectedIsWatched

Unarmed == /\ at \in Connecting => ks = "off"
           /\ at = "arm" => opts.killswitch

Button ==
    /\ gui \in {"stop", "closeStop", "closeWait"} => stop
    /\ \A i \in DOMAIN inbox : inbox[i] <= session
    /\ at \in Connected =>
         /\ \A i \in DOMAIN inbox : inbox[i] # session
         /\ ~stop /\ "stale" \notin seen => disconnectOn

GuiIInv == TypeOK /\ Choice /\ Progress /\ Route /\ Watched /\ Unarmed /\ Button

-----------------------------------------------------------------------------
(* Steps by what they leave alone.                                         *)

Cleaning == \/ Tidy \/ Unroute \/ CutShort \/ Unwatch \/ SkipUnblock \/ Unblock
            \/ SkipHalt \/ Halt \/ Report \/ Close \/ End

\* The steps that end a session.
LEMMA CleaningStays ==
    ASSUME Cleaning, Shapes
    PROVE  /\ at' \in Leaving \cup {"done"}
           /\ UNCHANGED <<desk, settings, stop, bound, stray>>
           /\ inbox' = inbox \/ inbox' = Append(inbox, session)
<1>. USE DEF exchange, xray, engine, settings, desk, course, failover, shield, Goto, Leaving
<1>1. CASE Tidy
  BY <1>1 DEF Tidy
<1>2. CASE Unroute
  BY <1>2 DEF Unroute, Forget
<1>3. CASE CutShort
  BY <1>3 DEF CutShort, Forget, Note
<1>4. CASE Unwatch
  BY <1>4 DEF Unwatch
<1>5. CASE SkipUnblock
  BY <1>5 DEF SkipUnblock
<1>6. CASE Unblock
  BY <1>6 DEF Unblock
<1>7. CASE SkipHalt
  BY <1>7 DEF SkipHalt, After
<1>8. CASE Halt
  BY <1>8 DEF Halt, Note, After
<1>9. CASE Report
  BY <1>9 DEF Report, Emit, Leave
<1>10. CASE Close
  BY <1>10 DEF Close, Emit
<1>11. CASE End
  BY <1>11 DEF End
<1>. QED
  BY <1>1, <1>2, <1>3, <1>4, <1>5, <1>6, <1>7, <1>8, <1>9, <1>10, <1>11 DEF Cleaning

LEMMA InboxGrows ==
    ASSUME inbox \in Seq(Nat), session \in Nat
    PROVE  /\ Append(inbox, session) \in Seq(Nat)
           /\ \A i \in DOMAIN Append(inbox, session) :
                Append(inbox, session)[i] = session
                \/ (i \in DOMAIN inbox /\ Append(inbox, session)[i] = inbox[i])
  OBVIOUS

LEMMA InboxShrinks ==
    ASSUME inbox \in Seq(Nat), inbox # <<>>
    PROVE  /\ Tail(inbox) \in Seq(Nat)
           /\ Head(inbox) = inbox[1] /\ 1 \in DOMAIN inbox
           /\ \A i \in DOMAIN Tail(inbox) :
                i + 1 \in DOMAIN inbox /\ Tail(inbox)[i] = inbox[i + 1]
  OBVIOUS

LEMMA TypeShapes == TypeOK => Shapes
<1>. SUFFICES ASSUME TypeOK PROVE Shapes
  OBVIOUS
<1>1. /\ client \in BOOLEAN /\ owned \in BOOLEAN /\ held \in BOOLEAN
      /\ bound \in BOOLEAN /\ stray \in BOOLEAN
  BY DEF TypeOK
<1>2. /\ session \in Nat /\ inbox \in Seq(Nat)
      /\ gui \in {"free", "stop", "closeStop", "closeWait", "closed"}
      /\ stage \in {"run", "undo", "cleanup"} /\ proc \in {"none", "running", "gone"}
  BY SessionsAssumption DEF TypeOK
<1>3. at \in Connected \cup Leaving \cup Still
  BY DEF TypeOK, Connected
<1>. QED
  BY <1>1, <1>2, <1>3 DEF Shapes

-----------------------------------------------------------------------------
(* The types, in three groups, and the choice of a profile.                *)

Flags == /\ connectOn \in BOOLEAN /\ disconnectOn \in BOOLEAN
         /\ connected \in BOOLEAN /\ stop \in BOOLEAN /\ cancel \in BOOLEAN
         /\ client \in BOOLEAN /\ owned \in BOOLEAN /\ held \in BOOLEAN
         /\ bound \in BOOLEAN /\ stray \in BOOLEAN

Steps == /\ gui \in {"free", "stop", "closeStop", "closeWait", "closed"}
         /\ opts \in [failover : BOOLEAN, killswitch : BOOLEAN]
         /\ at \in Connecting \cup Looping \cup Leaving \cup Still
         /\ stage \in {"run", "undo", "cleanup"}
         /\ proc \in {"none", "running", "gone"}
         /\ ks \in {"off", "armed", "tripped"}
         /\ watching \in {"no", "yes", "told"}
         /\ seen \subseteq Happenings

Values == /\ selected \in Profiles \cup {None} /\ profile \in Profiles \cup {None}
          /\ outbound \in Profiles \cup {None} /\ best \in Profiles \cup {None}
          /\ session \in 0..MaxSessions /\ inbox \in Seq(1..MaxSessions)
          /\ failures \in 0..Threshold

LEMMA TypeParts == TypeOK <=> Flags /\ Steps /\ Values
<1>1. TypeOK => Flags /\ Steps /\ Values
  BY Zenon DEF TypeOK, Flags, Steps, Values
<1>2. Flags /\ Steps /\ Values => TypeOK
  BY Zenon DEF TypeOK, Flags, Steps, Values
<1>. QED
  BY <1>1, <1>2

\* What a new worker begins with, and what the end of the program leaves.
LEMMA FreshFlags ==
    ASSUME Fresh, connectOn' = FALSE, disconnectOn' \in BOOLEAN
    PROVE  Flags'
<1>1. stray' \in BOOLEAN
  BY DEF Fresh, Reachable, Running
<1>. QED
  BY <1>1 DEF Fresh, Flags

LEMMA QuitFlags == Quit => Flags'
<1>. SUFFICES ASSUME Quit PROVE Flags'
  OBVIOUS
<1>1. Fresh /\ connectOn' = FALSE /\ disconnectOn' = FALSE
  BY DEF Quit, Closing
<1>. QED
  BY <1>1, FreshFlags

LEMMA QuitSteps == Quit => Steps'
BY DEF Quit, Fresh, Steps, Still, Happenings

LEMMA QuitValues == Values /\ Quit => Values'
BY ThresholdAssumption DEF Quit, Closing, Fresh, Values

LEMMA FlagsInductive == Flags /\ [Next]_vars => Flags'
<1>. SUFFICES ASSUME Flags, [Next]_vars PROVE Flags'
  OBVIOUS
<1>. USE DEF Flags, desk, settings, course, exchange, engine, xray, shield, failover
<1>1. CASE Select
  BY <1>1 DEF Select
<1>2. CASE Connect
  BY <1>2, FreshFlags DEF Connect
<1>3. CASE Disconnect
  BY <1>3 DEF Disconnect
<1>4. CASE QueueCancel
  BY <1>4 DEF QueueCancel
<1>5. CASE Deliver
  BY <1>5 DEF Deliver, Note
<1>6. CASE CloseWindow
  <2>1. CASE Quit
    BY <2>1, QuitFlags
  <2>2. CASE ~Quit
    BY <1>6, <2>2 DEF CloseWindow, Closing
  <2>. QED
    BY <2>1, <2>2
<1>7. CASE Waited
  BY <1>7, QuitFlags DEF Waited
<1>8. CASE Boot
  BY <1>8 DEF Boot, Goto
<1>9. CASE NothingToSpawn
  BY <1>9 DEF NothingToSpawn, Emit, Leave
<1>10. CASE Spawn
  BY <1>10 DEF Spawn, Proceed, Goto, Raise
<1>11. CASE Ready
  BY <1>11 DEF Ready, Proceed, Goto, Raise, Leave
<1>12. CASE ConnectClient
  BY <1>12 DEF ConnectClient, Proceed, Goto, Raise
<1>13. CASE AddFirst
  BY <1>13 DEF AddFirst, Proceed, Goto, Raise, StartLooping, AddOutbound
<1>14. CASE Arm
  BY <1>14 DEF Arm, StartLooping, Raise
<1>15. CASE Loop
  BY <1>15 DEF Loop, Leave, Raise, Proceed, Goto
<1>16. CASE Check
  BY <1>16 DEF Check, Goto
<1>17. CASE CheckFails
  BY <1>17 DEF CheckFails, Goto
<1>18. CASE SwitchRemove
  BY <1>18 DEF SwitchRemove, RemoveOutbound, Goto
<1>19. CASE SwitchAdd
  BY <1>19 DEF SwitchAdd, AddOutbound, Goto
<1>20. CASE RecoverRemove
  BY <1>20 DEF RecoverRemove, RemoveOutbound, Goto
<1>21. CASE RecoverAdd
  BY <1>21 DEF RecoverAdd, AddOutbound, Note, Goto
<1>22. CASE TimesOut
  BY <1>22 DEF TimesOut, Awaiting, Switching, Raise, Goto, Note, Effects
<1>23. CASE Cancelled
  BY <1>23 DEF Cancelled, Awaiting, Switching, Leave
<1>24. CASE Tidy
  BY <1>24 DEF Tidy, Goto
<1>25. CASE Unroute
  BY <1>25 DEF Unroute, Goto, Forget
<1>26. CASE CutShort
  BY <1>26 DEF CutShort, Goto, Forget, Note
<1>27. CASE Unwatch
  BY <1>27 DEF Unwatch, Goto
<1>28. CASE SkipUnblock
  BY <1>28 DEF SkipUnblock, Goto
<1>29. CASE Unblock
  BY <1>29 DEF Unblock, Goto
<1>30. CASE SkipHalt
  BY <1>30 DEF SkipHalt, Goto, After
<1>31. CASE Halt
  BY <1>31 DEF Halt, Goto, Note, After
<1>32. CASE Report
  BY <1>32 DEF Report, Emit, Leave
<1>33. CASE Close
  BY <1>33 DEF Close, Emit, Goto
<1>34. CASE End
  BY <1>34 DEF End, Goto
<1>35. CASE XrayDies
  BY <1>35 DEF XrayDies
<1>36. CASE StrayDies
  BY <1>36 DEF StrayDies
<1>37. CASE Trip
  BY <1>37 DEF Trip
<1>38. CASE WatcherEnds
  BY <1>38 DEF WatcherEnds
<1>39. CASE UNCHANGED vars
  BY <1>39 DEF vars
<1>. QED
  BY <1>1, <1>2, <1>3, <1>4, <1>5, <1>6, <1>7, <1>8, <1>9, <1>10, <1>11, <1>12, <1>13, <1>14,
     <1>15, <1>16, <1>17, <1>18, <1>19, <1>20, <1>21, <1>22, <1>23, <1>24, <1>25, <1>26, <1>27,
     <1>28, <1>29, <1>30, <1>31, <1>32, <1>33, <1>34, <1>35, <1>36, <1>37, <1>38, <1>39
     DEF Next, Window, Worker, Watcher, Ended

LEMMA StepsInductive == Steps /\ [Next]_vars => Steps'
<1>. SUFFICES ASSUME Steps, [Next]_vars PROVE Steps'
  OBVIOUS
<1>. USE DEF Steps, desk, settings, course, exchange, engine, xray, shield, failover,
         Connecting, Looping, Switching, Leaving, Still, Happenings
<1>1. CASE Select
  BY <1>1 DEF Select
<1>2. CASE Connect
  BY <1>2 DEF Connect, Fresh
<1>3. CASE Disconnect
  <2>1. gui' \in {"free", "stop"}
    BY <1>3 DEF Disconnect
  <2>2. UNCHANGED <<opts, at, stage, proc, ks, watching, seen>>
    BY <1>3 DEF Disconnect
  <2>. QED
    BY <2>1, <2>2
<1>4. CASE QueueCancel
  BY <1>4 DEF QueueCancel
<1>5. CASE Deliver
  <2>1. UNCHANGED <<gui, opts, at, stage, proc, ks, watching>>
    BY <1>5 DEF Deliver
  <2>2. seen' \subseteq seen \cup {"stale"}
    BY <1>5 DEF Deliver, Note
  <2>. QED
    BY <2>1, <2>2
<1>6. CASE CloseWindow
  <2>1. CASE Quit
    BY <2>1, QuitSteps
  <2>2. CASE ~Quit
    BY <1>6, <2>2 DEF CloseWindow
  <2>. QED
    BY <2>1, <2>2
<1>7. CASE Waited
  BY <1>7, QuitSteps DEF Waited
<1>8. CASE Boot
  BY <1>8 DEF Boot, Goto
<1>9. CASE NothingToSpawn
  BY <1>9 DEF NothingToSpawn, Emit, Leave
<1>10. CASE Spawn
  BY <1>10 DEF Spawn, Proceed, Goto, Raise
<1>11. CASE Ready
  BY <1>11 DEF Ready, Proceed, Goto, Raise, Leave
<1>12. CASE ConnectClient
  BY <1>12 DEF ConnectClient, Proceed, Goto, Raise
<1>13. CASE AddFirst
  BY <1>13 DEF AddFirst, Proceed, Goto, Raise, StartLooping, AddOutbound
<1>14. CASE Arm
  BY <1>14 DEF Arm, StartLooping, Raise
<1>15. CASE Loop
  BY <1>15 DEF Loop, Leave, Raise, Proceed, Goto
<1>16. CASE Check
  BY <1>16 DEF Check, Goto
<1>17. CASE CheckFails
  BY <1>17 DEF CheckFails, Goto
<1>18. CASE SwitchRemove
  BY <1>18 DEF SwitchRemove, RemoveOutbound, Goto
<1>19. CASE SwitchAdd
  <2>1. at' \in {"loop", "recoverAdd"} /\ stage' = stage
    BY <1>19 DEF SwitchAdd, Goto
  <2>2. UNCHANGED <<gui, opts, proc, ks, watching>> /\ seen' \subseteq seen
    BY <1>19 DEF SwitchAdd
  <2>. QED
    BY <2>1, <2>2
<1>20. CASE RecoverRemove
  BY <1>20 DEF RecoverRemove, RemoveOutbound, Goto
<1>21. CASE RecoverAdd
  BY <1>21 DEF RecoverAdd, AddOutbound, Note, Goto
<1>22. CASE TimesOut
  BY <1>22 DEF TimesOut, Awaiting, Switching, Raise, Goto, Note, Effects
<1>23. CASE Cancelled
  BY <1>23 DEF Cancelled, Awaiting, Switching, Leave
<1>24. CASE Tidy
  BY <1>24 DEF Tidy, Goto
<1>25. CASE Unroute
  BY <1>25 DEF Unroute, Goto, Forget
<1>26. CASE CutShort
  BY <1>26 DEF CutShort, Goto, Forget, Note
<1>27. CASE Unwatch
  BY <1>27 DEF Unwatch, Goto
<1>28. CASE SkipUnblock
  BY <1>28 DEF SkipUnblock, Goto
<1>29. CASE Unblock
  BY <1>29 DEF Unblock, Goto
<1>30. CASE SkipHalt
  BY <1>30 DEF SkipHalt, Goto, After
<1>31. CASE Halt
  BY <1>31 DEF Halt, Goto, Note, After
<1>32. CASE Report
  BY <1>32 DEF Report, Emit, Leave
<1>33. CASE Close
  BY <1>33 DEF Close, Emit, Goto
<1>34. CASE End
  BY <1>34 DEF End, Goto
<1>35. CASE XrayDies
  BY <1>35 DEF XrayDies
<1>36. CASE StrayDies
  BY <1>36 DEF StrayDies
<1>37. CASE Trip
  BY <1>37 DEF Trip
<1>38. CASE WatcherEnds
  BY <1>38 DEF WatcherEnds
<1>39. CASE UNCHANGED vars
  BY <1>39 DEF vars
<1>. QED
  BY <1>1, <1>2, <1>3, <1>4, <1>5, <1>6, <1>7, <1>8, <1>9, <1>10, <1>11, <1>12, <1>13, <1>14,
     <1>15, <1>16, <1>17, <1>18, <1>19, <1>20, <1>21, <1>22, <1>23, <1>24, <1>25, <1>26, <1>27,
     <1>28, <1>29, <1>30, <1>31, <1>32, <1>33, <1>34, <1>35, <1>36, <1>37, <1>38, <1>39
     DEF Next, Window, Worker, Watcher, Ended

LEMMA ValuesInductive == Values /\ Choice /\ [Next]_vars => Values'
<1>. SUFFICES ASSUME Values, Choice, [Next]_vars PROVE Values'
  OBVIOUS
<1>. USE ProfilesAssumption, ThresholdAssumption, SessionsAssumption
     DEF Values, Choice, Connected, desk, settings, course, exchange, engine, xray, shield,
         failover, Connecting, Looping, Switching, Leaving, Still
<1>1. CASE Select
  BY <1>1 DEF Select
<1>2. CASE Connect
  BY <1>2 DEF Connect, Fresh
<1>3. CASE Disconnect
  BY <1>3 DEF Disconnect
<1>4. CASE QueueCancel
  BY <1>4 DEF QueueCancel
<1>5. CASE Deliver
  BY <1>5 DEF Deliver, Note
<1>6. CASE CloseWindow
  <2>1. CASE Quit
    BY <2>1, QuitValues
  <2>2. CASE ~Quit
    BY <1>6, <2>2 DEF CloseWindow, Closing
  <2>. QED
    BY <2>1, <2>2
<1>7. CASE Waited
  BY <1>7, QuitValues DEF Waited
<1>8. CASE Boot
  BY <1>8 DEF Boot, Goto
<1>9. CASE NothingToSpawn
  BY <1>9 DEF NothingToSpawn, Emit, Leave
<1>10. CASE Spawn
  BY <1>10 DEF Spawn, Proceed, Goto, Raise
<1>11. CASE Ready
  BY <1>11 DEF Ready, Proceed, Goto, Raise, Leave
<1>12. CASE ConnectClient
  BY <1>12 DEF ConnectClient, Proceed, Goto, Raise
<1>13. CASE AddFirst
  BY <1>13 DEF AddFirst, Proceed, Goto, Raise, StartLooping, AddOutbound
<1>14. CASE Arm
  BY <1>14 DEF Arm, StartLooping, Raise
<1>15. CASE Loop
  BY <1>15 DEF Loop, Leave, Raise, Proceed, Goto
<1>16. CASE Check
  <2>1. PICK results \in Results :
          LET alternative == PickBest(profile, results)
          IN /\ failures' = Counted(results[profile])
             /\ IF ShouldFailover(failures') /\ alternative # None
                THEN Goto("switchRemove") /\ best' = alternative
                ELSE Goto("loop") /\ UNCHANGED best
    BY <1>16 DEF Check
  <2>2. PickBest(profile, results) \in Profiles \cup {None}
    BY <1>16, PickBestType DEF Check
  <2>3. failures' \in 0..Threshold /\ best' \in Profiles \cup {None}
    BY <2>1, <2>2 DEF Counted, Recorded
  <2>. QED
    BY <1>16, <2>3 DEF Check
<1>17. CASE CheckFails
  BY <1>17 DEF CheckFails, Goto, Counted, Recorded
<1>18. CASE SwitchRemove
  BY <1>18 DEF SwitchRemove, RemoveOutbound, Goto
<1>19. CASE SwitchAdd
  BY <1>19 DEF SwitchAdd, AddOutbound, Goto
<1>20. CASE RecoverRemove
  BY <1>20 DEF RecoverRemove, RemoveOutbound, Goto
<1>21. CASE RecoverAdd
  BY <1>21 DEF RecoverAdd, AddOutbound, Note, Goto
<1>22. CASE TimesOut
  BY <1>22 DEF TimesOut, Awaiting, Raise, Goto, Note, Effects, Wanted, Counted, Recorded
<1>23. CASE Cancelled
  BY <1>23 DEF Cancelled, Awaiting, Switching, Leave, Effects, Wanted
<1>24. CASE Tidy
  BY <1>24 DEF Tidy, Goto
<1>25. CASE Unroute
  BY <1>25 DEF Unroute, Goto, Forget, Effects, Wanted
<1>26. CASE CutShort
  BY <1>26 DEF CutShort, Goto, Forget, Note, Effects, Wanted
<1>27. CASE Unwatch
  BY <1>27 DEF Unwatch, Goto
<1>28. CASE SkipUnblock
  BY <1>28 DEF SkipUnblock, Goto
<1>29. CASE Unblock
  BY <1>29 DEF Unblock, Goto
<1>30. CASE SkipHalt
  BY <1>30 DEF SkipHalt, Goto, After
<1>31. CASE Halt
  BY <1>31 DEF Halt, Goto, Note, After
<1>32. CASE Report
  BY <1>32 DEF Report, Emit, Leave
<1>33. CASE Close
  <2>1. inbox' \in {inbox, Append(inbox, session)}
    BY <1>33 DEF Close, Emit
  <2>2. session \in 1..MaxSessions
    BY <1>33 DEF Close
  <2>3. Append(inbox, session) \in Seq(1..MaxSessions)
    BY <2>2
  <2>4. UNCHANGED <<selected, profile, outbound, best, session, failures>>
    BY <1>33 DEF Close
  <2>. QED
    BY <2>1, <2>3, <2>4
<1>34. CASE End
  BY <1>34 DEF End, Goto
<1>35. CASE XrayDies
  BY <1>35 DEF XrayDies
<1>36. CASE StrayDies
  BY <1>36 DEF StrayDies
<1>37. CASE Trip
  BY <1>37 DEF Trip
<1>38. CASE WatcherEnds
  BY <1>38 DEF WatcherEnds
<1>39. CASE UNCHANGED vars
  BY <1>39 DEF vars
<1>. QED
  BY <1>1, <1>2, <1>3, <1>4, <1>5, <1>6, <1>7, <1>8, <1>9, <1>10, <1>11, <1>12, <1>13, <1>14,
     <1>15, <1>16, <1>17, <1>18, <1>19, <1>20, <1>21, <1>22, <1>23, <1>24, <1>25, <1>26, <1>27,
     <1>28, <1>29, <1>30, <1>31, <1>32, <1>33, <1>34, <1>35, <1>36, <1>37, <1>38, <1>39
     DEF Next, Window, Worker, Watcher, Ended

LEMMA ChoiceInductive == Values /\ Steps /\ Choice /\ [Next]_vars => Choice'
<1>. SUFFICES ASSUME Values, Steps, Choice, [Next]_vars PROVE Choice'
  OBVIOUS
<1>. USE SessionsAssumption DEF Choice, Connected, desk, settings, course, exchange, engine,
         xray, shield, failover, Connecting, Looping, Switching, Leaving, Still
<1>1. CASE Select
  BY <1>1 DEF Select
<1>2. CASE Connect
  BY <1>2 DEF Connect, Fresh, Values
<1>3. CASE Disconnect
  BY <1>3 DEF Disconnect
<1>4. CASE QueueCancel
  BY <1>4 DEF QueueCancel
<1>5. CASE Deliver
  BY <1>5 DEF Deliver, Note
<1>6. CASE CloseWindow
  BY <1>6 DEF CloseWindow, Quit, Fresh, WorkerRunning
<1>7. CASE Waited
  BY <1>7 DEF Waited, Quit, Fresh, WorkerRunning
<1>8. CASE Boot
  BY <1>8 DEF Boot, Goto
<1>9. CASE NothingToSpawn
  BY <1>9 DEF NothingToSpawn, Emit, Leave
<1>10. CASE Spawn
  BY <1>10 DEF Spawn, Proceed, Goto, Raise
<1>11. CASE Ready
  BY <1>11 DEF Ready, Proceed, Goto, Raise, Leave
<1>12. CASE ConnectClient
  BY <1>12 DEF ConnectClient, Proceed, Goto, Raise
<1>13. CASE AddFirst
  BY <1>13 DEF AddFirst, Proceed, Goto, Raise, StartLooping, AddOutbound
<1>14. CASE Arm
  BY <1>14 DEF Arm, StartLooping, Raise
<1>15. CASE Loop
  BY <1>15 DEF Loop, Leave, Raise, Proceed, Goto
<1>16. CASE Check
  <2>1. PICK results \in Results :
          LET alternative == PickBest(profile, results)
          IN IF ShouldFailover(failures') /\ alternative # None
             THEN Goto("switchRemove") /\ best' = alternative
             ELSE Goto("loop") /\ UNCHANGED best
    BY <1>16 DEF Check
  <2>2. PickBest(profile, results) \in Profiles \cup {None} /\ profile \in Profiles
    BY <1>16, PickBestType DEF Check
  <2>. QED
    BY <1>16, <2>1, <2>2 DEF Check, Goto
<1>17. CASE CheckFails
  BY <1>17 DEF CheckFails, Goto
<1>18. CASE SwitchRemove
  BY <1>18 DEF SwitchRemove, RemoveOutbound, Goto
<1>19. CASE SwitchAdd
  BY <1>19 DEF SwitchAdd, AddOutbound, Goto
<1>20. CASE RecoverRemove
  BY <1>20 DEF RecoverRemove, RemoveOutbound, Goto
<1>21. CASE RecoverAdd
  BY <1>21 DEF RecoverAdd, AddOutbound, Note, Goto
<1>22. CASE TimesOut
  BY <1>22 DEF TimesOut, Awaiting, Switching, Raise, Goto, Note, Effects
<1>23. CASE Cancelled
  BY <1>23 DEF Cancelled, Awaiting, Switching, Leave
<1>24. CASE Tidy
  BY <1>24 DEF Tidy, Goto
<1>25. CASE Unroute
  BY <1>25 DEF Unroute, Goto, Forget
<1>26. CASE CutShort
  BY <1>26 DEF CutShort, Goto, Forget, Note
<1>27. CASE Unwatch
  BY <1>27 DEF Unwatch, Goto
<1>28. CASE SkipUnblock
  BY <1>28 DEF SkipUnblock, Goto
<1>29. CASE Unblock
  BY <1>29 DEF Unblock, Goto
<1>30. CASE SkipHalt
  BY <1>30 DEF SkipHalt, Goto, After
<1>31. CASE Halt
  BY <1>31 DEF Halt, Goto, Note, After
<1>32. CASE Report
  BY <1>32 DEF Report, Emit, Leave
<1>33. CASE Close
  BY <1>33 DEF Close, Emit, Goto
<1>34. CASE End
  BY <1>34 DEF End, Goto
<1>35. CASE XrayDies
  BY <1>35 DEF XrayDies
<1>36. CASE StrayDies
  BY <1>36 DEF StrayDies
<1>37. CASE Trip
  BY <1>37 DEF Trip
<1>38. CASE WatcherEnds
  BY <1>38 DEF WatcherEnds
<1>39. CASE UNCHANGED vars
  BY <1>39 DEF vars
<1>. QED
  BY <1>1, <1>2, <1>3, <1>4, <1>5, <1>6, <1>7, <1>8, <1>9, <1>10, <1>11, <1>12, <1>13, <1>14,
     <1>15, <1>16, <1>17, <1>18, <1>19, <1>20, <1>21, <1>22, <1>23, <1>24, <1>25, <1>26, <1>27,
     <1>28, <1>29, <1>30, <1>31, <1>32, <1>33, <1>34, <1>35, <1>36, <1>37, <1>38, <1>39
     DEF Next, Window, Worker, Watcher, Ended

-----------------------------------------------------------------------------
(* The other parts of GuiIInv, action by action.                           *)

LEMMA ProgressInductive == Shapes /\ Progress /\ [Next]_vars => Progress'
<1>. SUFFICES ASSUME Shapes, Progress, [Next]_vars PROVE Progress'
  OBVIOUS
<1>. USE DEF Shapes, Progress, Running, desk, settings, course, exchange, engine,
         xray, shield, failover, Connecting, Looping, Switching, Leaving, Still
<1>1. CASE Select
  BY <1>1 DEF Select
<1>2. CASE Connect
  BY <1>2 DEF Connect, Fresh
<1>3. CASE Disconnect
  BY <1>3 DEF Disconnect
<1>4. CASE QueueCancel
  BY <1>4 DEF QueueCancel
<1>5. CASE Deliver
  BY <1>5 DEF Deliver, Note
<1>6. CASE CloseWindow
  BY <1>6 DEF CloseWindow, Quit, Fresh
<1>7. CASE Waited
  BY <1>7 DEF Waited, Quit, Fresh
<1>8. CASE Boot
  BY <1>8 DEF Boot, Goto
<1>9. CASE NothingToSpawn
  BY <1>9 DEF NothingToSpawn, Emit, Leave
<1>10. CASE Spawn
  BY <1>10 DEF Spawn, Proceed, Goto, Raise
<1>11. CASE Ready
  BY <1>11 DEF Ready, Proceed, Goto, Raise, Leave
<1>12. CASE ConnectClient
  BY <1>12 DEF ConnectClient, Proceed, Goto, Raise
<1>13. CASE AddFirst
  BY <1>13 DEF AddFirst, Proceed, Goto, Raise, StartLooping, AddOutbound
<1>14. CASE Arm
  BY <1>14 DEF Arm, StartLooping, Raise
<1>15. CASE Loop
  BY <1>15 DEF Loop, Leave, Raise, Proceed, Goto
<1>16. CASE Check
  BY <1>16 DEF Check, Goto
<1>17. CASE CheckFails
  BY <1>17 DEF CheckFails, Goto
<1>18. CASE SwitchRemove
  BY <1>18 DEF SwitchRemove, RemoveOutbound, Goto
<1>19. CASE SwitchAdd
  BY <1>19 DEF SwitchAdd, AddOutbound, Goto
<1>20. CASE RecoverRemove
  BY <1>20 DEF RecoverRemove, RemoveOutbound, Goto
<1>21. CASE RecoverAdd
  BY <1>21 DEF RecoverAdd, AddOutbound, Note, Goto
<1>22. CASE TimesOut
  BY <1>22 DEF TimesOut, Awaiting, Switching, Raise, Goto, Note, Effects
<1>23. CASE Cancelled
  BY <1>23 DEF Cancelled, Awaiting, Switching, Leave
<1>24. CASE Tidy
  BY <1>24 DEF Tidy, Goto
<1>25. CASE Unroute
  BY <1>25 DEF Unroute, Goto, Forget
<1>26. CASE CutShort
  BY <1>26 DEF CutShort, Goto, Forget, Note
<1>27. CASE Unwatch
  BY <1>27 DEF Unwatch, Goto
<1>28. CASE SkipUnblock
  BY <1>28 DEF SkipUnblock, Goto
<1>29. CASE Unblock
  BY <1>29 DEF Unblock, Goto
<1>30. CASE SkipHalt
  BY <1>30 DEF SkipHalt, Goto, After
<1>31. CASE Halt
  BY <1>31 DEF Halt, Goto, Note, After
<1>32. CASE Report
  BY <1>32 DEF Report, Emit, Leave
<1>33. CASE Close
  BY <1>33 DEF Close, Emit, Goto
<1>34. CASE End
  BY <1>34 DEF End, Goto
<1>35. CASE XrayDies
  BY <1>35 DEF XrayDies
<1>36. CASE StrayDies
  BY <1>36 DEF StrayDies
<1>37. CASE Trip
  BY <1>37 DEF Trip
<1>38. CASE WatcherEnds
  BY <1>38 DEF WatcherEnds
<1>39. CASE UNCHANGED vars
  BY <1>39 DEF vars
<1>. QED
  BY <1>1, <1>2, <1>3, <1>4, <1>5, <1>6, <1>7, <1>8, <1>9, <1>10, <1>11, <1>12,
     <1>13, <1>14, <1>15, <1>16, <1>17, <1>18, <1>19, <1>20, <1>21, <1>22, <1>23,
     <1>24, <1>25, <1>26, <1>27, <1>28, <1>29, <1>30, <1>31, <1>32, <1>33, <1>34,
     <1>35, <1>36, <1>37, <1>38, <1>39
     DEF Next, Window, Worker, Watcher, Ended

LEMMA RouteInductive == Shapes /\ Route /\ [Next]_vars => Route'
<1>. SUFFICES ASSUME Shapes, Route, [Next]_vars PROVE Route'
  OBVIOUS
<1>. USE DEF Shapes, Route, Running, Reachable, desk, settings, course, exchange,
         engine, xray, shield, failover, Connecting, Looping, Switching, Leaving,
         Still
<1>1. CASE Select
  BY <1>1 DEF Select
<1>2. CASE Connect
  BY <1>2 DEF Connect, Fresh
<1>3. CASE Disconnect
  BY <1>3 DEF Disconnect
<1>4. CASE QueueCancel
  BY <1>4 DEF QueueCancel
<1>5. CASE Deliver
  BY <1>5 DEF Deliver, Note
<1>6. CASE CloseWindow
  BY <1>6 DEF CloseWindow, Quit, Fresh
<1>7. CASE Waited
  BY <1>7 DEF Waited, Quit, Fresh
<1>8. CASE Boot
  BY <1>8 DEF Boot, Goto
<1>9. CASE NothingToSpawn
  BY <1>9 DEF NothingToSpawn, Emit, Leave
<1>10. CASE Spawn
  BY <1>10 DEF Spawn, Proceed, Goto, Raise
<1>11. CASE Ready
  BY <1>11 DEF Ready, Proceed, Goto, Raise, Leave
<1>12. CASE ConnectClient
  BY <1>12 DEF ConnectClient, Proceed, Goto, Raise
<1>13. CASE AddFirst
  BY <1>13 DEF AddFirst, Proceed, Goto, Raise, StartLooping, AddOutbound
<1>14. CASE Arm
  BY <1>14 DEF Arm, StartLooping, Raise
<1>15. CASE Loop
  BY <1>15 DEF Loop, Leave, Raise, Proceed, Goto
<1>16. CASE Check
  BY <1>16 DEF Check, Goto
<1>17. CASE CheckFails
  BY <1>17 DEF CheckFails, Goto
<1>18. CASE SwitchRemove
  BY <1>18 DEF SwitchRemove, RemoveOutbound, Goto
<1>19. CASE SwitchAdd
  BY <1>19 DEF SwitchAdd, AddOutbound, Goto
<1>20. CASE RecoverRemove
  BY <1>20 DEF RecoverRemove, RemoveOutbound, Goto
<1>21. CASE RecoverAdd
  BY <1>21 DEF RecoverAdd, AddOutbound, Note, Goto
<1>22. CASE TimesOut
  BY <1>22 DEF TimesOut, Awaiting, Switching, Raise, Goto, Note, Effects
<1>23. CASE Cancelled
  BY <1>23 DEF Cancelled, Awaiting, Switching, Leave
<1>24. CASE Cleaning
  BY <1>24, CleaningStays
<1>25. CASE XrayDies
  BY <1>25 DEF XrayDies
<1>26. CASE StrayDies
  BY <1>26 DEF StrayDies
<1>27. CASE Trip
  BY <1>27 DEF Trip
<1>28. CASE WatcherEnds
  BY <1>28 DEF WatcherEnds
<1>29. CASE UNCHANGED vars
  BY <1>29 DEF vars
<1>. QED
  BY <1>1, <1>2, <1>3, <1>4, <1>5, <1>6, <1>7, <1>8, <1>9, <1>10, <1>11, <1>12,
     <1>13, <1>14, <1>15, <1>16, <1>17, <1>18, <1>19, <1>20, <1>21, <1>22, <1>23,
     <1>24, <1>25, <1>26, <1>27, <1>28, <1>29
     DEF Next, Window, Worker, Watcher, Ended, Cleaning

LEMMA WatchedInductive == Shapes /\ Watched /\ [Next]_vars => Watched'
<1>. SUFFICES ASSUME Shapes, Watched, [Next]_vars PROVE Watched'
  OBVIOUS
<1>. USE DEF Watched, ConnectedIsWatched, Running, desk, settings, course, exchange,
         engine, xray, shield, failover, Connecting, Looping, Switching, Leaving,
         Still
<1>1. CASE Select
  BY <1>1 DEF Select
<1>2. CASE Connect
  BY <1>2 DEF Connect, Fresh
<1>3. CASE Disconnect
  BY <1>3 DEF Disconnect
<1>4. CASE QueueCancel
  BY <1>4 DEF QueueCancel
<1>5. CASE Deliver
  BY <1>5 DEF Deliver, Note
<1>6. CASE CloseWindow
  BY <1>6 DEF CloseWindow, Quit, Fresh
<1>7. CASE Waited
  BY <1>7 DEF Waited, Quit, Fresh
<1>8. CASE Boot
  BY <1>8 DEF Boot, Goto
<1>9. CASE NothingToSpawn
  BY <1>9 DEF NothingToSpawn, Emit, Leave
<1>10. CASE Spawn
  BY <1>10 DEF Spawn, Proceed, Goto, Raise
<1>11. CASE Ready
  BY <1>11 DEF Ready, Proceed, Goto, Raise, Leave
<1>12. CASE ConnectClient
  BY <1>12 DEF ConnectClient, Proceed, Goto, Raise
<1>13. CASE AddFirst
  BY <1>13 DEF AddFirst, Proceed, Goto, Raise, StartLooping, AddOutbound
<1>14. CASE Arm
  BY <1>14 DEF Arm, StartLooping, Raise
<1>15. CASE Loop
  BY <1>15 DEF Loop, Leave, Raise, Proceed, Goto
<1>16. CASE Check
  BY <1>16 DEF Check, Goto
<1>17. CASE CheckFails
  BY <1>17 DEF CheckFails, Goto
<1>18. CASE SwitchRemove
  BY <1>18 DEF SwitchRemove, RemoveOutbound, Goto
<1>19. CASE SwitchAdd
  BY <1>19 DEF SwitchAdd, AddOutbound, Goto
<1>20. CASE RecoverRemove
  BY <1>20 DEF RecoverRemove, RemoveOutbound, Goto
<1>21. CASE RecoverAdd
  BY <1>21 DEF RecoverAdd, AddOutbound, Note, Goto
<1>22. CASE TimesOut
  BY <1>22 DEF TimesOut, Awaiting, Switching, Raise, Goto, Note, Effects
<1>23. CASE Cancelled
  BY <1>23 DEF Cancelled, Awaiting, Switching, Leave
<1>24. CASE Cleaning
  BY <1>24, CleaningStays
<1>25. CASE XrayDies
  BY <1>25 DEF XrayDies
<1>26. CASE StrayDies
  BY <1>26 DEF StrayDies
<1>27. CASE Trip
  BY <1>27 DEF Trip
<1>28. CASE WatcherEnds
  BY <1>28 DEF WatcherEnds
<1>29. CASE UNCHANGED vars
  BY <1>29 DEF vars
<1>. QED
  BY <1>1, <1>2, <1>3, <1>4, <1>5, <1>6, <1>7, <1>8, <1>9, <1>10, <1>11, <1>12,
     <1>13, <1>14, <1>15, <1>16, <1>17, <1>18, <1>19, <1>20, <1>21, <1>22, <1>23,
     <1>24, <1>25, <1>26, <1>27, <1>28, <1>29
     DEF Next, Window, Worker, Watcher, Ended, Cleaning

LEMMA ButtonInductive == Shapes /\ Button /\ [Next]_vars => Button'
<1>. SUFFICES ASSUME Shapes, Button, [Next]_vars PROVE Button'
  OBVIOUS
<1>. USE DEF Shapes, Button, Connected, desk, settings, course, exchange, engine,
         xray, shield, failover, Connecting, Looping, Switching, Leaving, Still
<1>1. CASE Select
  BY <1>1 DEF Select
<1>2. CASE Connect
  BY <1>2 DEF Connect, Fresh
<1>3. CASE Disconnect
  <2>1. /\ gui' \in {"free", "stop"} /\ UNCHANGED <<session, inbox, at, seen>>
        /\ gui' = "stop" => stop'
        /\ gui = "free"
    BY <1>3 DEF Disconnect
  <2>2. at \in Connected => stop'
    BY <1>3 DEF Disconnect, WorkerRunning
  <2>. QED
    BY <2>1, <2>2
<1>4. CASE QueueCancel
  BY <1>4 DEF QueueCancel
<1>5. CASE Deliver
  BY <1>5, InboxShrinks DEF Deliver, Note
<1>6. CASE CloseWindow
  BY <1>6 DEF CloseWindow, Quit, Fresh
<1>7. CASE Waited
  BY <1>7 DEF Waited, Quit, Fresh
<1>8. CASE Boot
  BY <1>8 DEF Boot, Goto
<1>9. CASE NothingToSpawn
  BY <1>9, InboxGrows DEF NothingToSpawn, Emit, Leave
<1>10. CASE Spawn
  BY <1>10 DEF Spawn, Proceed, Goto, Raise
<1>11. CASE Ready
  BY <1>11 DEF Ready, Proceed, Goto, Raise, Leave
<1>12. CASE ConnectClient
  BY <1>12 DEF ConnectClient, Proceed, Goto, Raise
<1>13. CASE AddFirst
  BY <1>13 DEF AddFirst, Proceed, Goto, Raise, StartLooping, AddOutbound
<1>14. CASE Arm
  BY <1>14 DEF Arm, StartLooping, Raise
<1>15. CASE Loop
  BY <1>15 DEF Loop, Leave, Raise, Proceed, Goto
<1>16. CASE Check
  BY <1>16 DEF Check, Goto
<1>17. CASE CheckFails
  BY <1>17 DEF CheckFails, Goto
<1>18. CASE SwitchRemove
  BY <1>18 DEF SwitchRemove, RemoveOutbound, Goto
<1>19. CASE SwitchAdd
  BY <1>19 DEF SwitchAdd, AddOutbound, Goto
<1>20. CASE RecoverRemove
  BY <1>20 DEF RecoverRemove, RemoveOutbound, Goto
<1>21. CASE RecoverAdd
  BY <1>21 DEF RecoverAdd, AddOutbound, Note, Goto
<1>22. CASE TimesOut
  BY <1>22 DEF TimesOut, Awaiting, Switching, Raise, Goto, Note, Effects
<1>23. CASE Cancelled
  BY <1>23 DEF Cancelled, Awaiting, Switching, Leave
<1>24. CASE Cleaning
  <2>1. /\ at' \in Leaving \cup {"done"} /\ gui' = gui /\ stop' = stop /\ session' = session
        /\ inbox' = inbox \/ inbox' = Append(inbox, session)
    BY <1>24, CleaningStays
  <2>2. \A i \in DOMAIN inbox' : inbox'[i] <= session'
    BY <2>1, InboxGrows
  <2>. QED
    BY <2>1, <2>2
<1>25. CASE XrayDies
  BY <1>25 DEF XrayDies
<1>26. CASE StrayDies
  BY <1>26 DEF StrayDies
<1>27. CASE Trip
  BY <1>27 DEF Trip
<1>28. CASE WatcherEnds
  BY <1>28 DEF WatcherEnds
<1>29. CASE UNCHANGED vars
  BY <1>29 DEF vars
<1>. QED
  BY <1>1, <1>2, <1>3, <1>4, <1>5, <1>6, <1>7, <1>8, <1>9, <1>10, <1>11, <1>12,
     <1>13, <1>14, <1>15, <1>16, <1>17, <1>18, <1>19, <1>20, <1>21, <1>22, <1>23,
     <1>24, <1>25, <1>26, <1>27, <1>28, <1>29
     DEF Next, Window, Worker, Watcher, Ended, Cleaning
LEMMA UnarmedInductive == Shapes /\ Unarmed /\ [Next]_vars => Unarmed'
<1>. SUFFICES ASSUME Shapes, Unarmed, [Next]_vars PROVE Unarmed'
  OBVIOUS
<1>. USE DEF Unarmed, desk, settings, course, exchange, engine, xray, shield, failover,
         Connecting, Looping, Switching, Leaving, Still
<1>1. CASE Select
  BY <1>1 DEF Select
<1>2. CASE Connect
  BY <1>2 DEF Connect, Fresh
<1>3. CASE Disconnect
  BY <1>3 DEF Disconnect
<1>4. CASE QueueCancel
  BY <1>4 DEF QueueCancel
<1>5. CASE Deliver
  BY <1>5 DEF Deliver, Note
<1>6. CASE CloseWindow
  BY <1>6 DEF CloseWindow, Quit, Closing, Fresh
<1>7. CASE Waited
  BY <1>7 DEF Waited, Quit, Closing, Fresh
<1>8. CASE Boot
  BY <1>8 DEF Boot, Goto
<1>9. CASE NothingToSpawn
  BY <1>9 DEF NothingToSpawn, Emit, Leave
<1>10. CASE Spawn
  BY <1>10 DEF Spawn, Proceed, Goto, Raise
<1>11. CASE Ready
  BY <1>11 DEF Ready, Proceed, Goto, Raise, Leave
<1>12. CASE ConnectClient
  BY <1>12 DEF ConnectClient, Proceed, Goto, Raise
<1>13. CASE AddFirst
  BY <1>13 DEF AddFirst, Proceed, Goto, Raise, StartLooping, AddOutbound
<1>14. CASE Arm
  BY <1>14 DEF Arm, StartLooping, Raise
<1>15. CASE Loop
  BY <1>15 DEF Loop, Leave, Raise, Proceed, Goto
<1>16. CASE Check
  BY <1>16 DEF Check, Goto
<1>17. CASE CheckFails
  BY <1>17 DEF CheckFails, Goto
<1>18. CASE SwitchRemove
  BY <1>18 DEF SwitchRemove, RemoveOutbound, Goto
<1>19. CASE SwitchAdd
  BY <1>19 DEF SwitchAdd, AddOutbound, Goto
<1>20. CASE RecoverRemove
  BY <1>20 DEF RecoverRemove, RemoveOutbound, Goto
<1>21. CASE RecoverAdd
  BY <1>21 DEF RecoverAdd, AddOutbound, Note, Goto
<1>22. CASE TimesOut
  BY <1>22 DEF TimesOut, Awaiting, Switching, Raise, Goto, Note, Effects
<1>23. CASE Cancelled
  BY <1>23 DEF Cancelled, Awaiting, Switching, Leave
<1>24. CASE Cleaning
  BY <1>24, CleaningStays
<1>25. CASE XrayDies
  BY <1>25 DEF XrayDies
<1>26. CASE StrayDies
  BY <1>26 DEF StrayDies
<1>27. CASE Trip
  BY <1>27 DEF Trip
<1>28. CASE WatcherEnds
  BY <1>28 DEF WatcherEnds
<1>29. CASE UNCHANGED vars
  BY <1>29 DEF vars
<1>. QED
  BY <1>1, <1>2, <1>3, <1>4, <1>5, <1>6, <1>7, <1>8, <1>9, <1>10, <1>11, <1>12, <1>13, <1>14,
     <1>15, <1>16, <1>17, <1>18, <1>19, <1>20, <1>21, <1>22, <1>23, <1>24, <1>25, <1>26, <1>27,
     <1>28, <1>29
     DEF Next, Window, Worker, Watcher, Ended, Cleaning

-----------------------------------------------------------------------------
LEMMA GuiInitially == Init => GuiIInv
<1>. SUFFICES ASSUME Init PROVE GuiIInv
  OBVIOUS
<1>. USE DEF Init, Connected, Connecting, Looping, Switching, Leaving, Still, Running, Reachable
<1>1. TypeOK
  <2>1. Flags
    BY DEF Flags
  <2>2. Steps
    BY DEF Steps
  <2>3. Values
    BY SessionsAssumption, ThresholdAssumption DEF Values
  <2>. QED
    BY <2>1, <2>2, <2>3, TypeParts
<1>2. Progress
  BY DEF Progress
<1>3. Route
  BY DEF Route
<1>4. Watched
  BY DEF Watched, ConnectedIsWatched
<1>5. Button /\ Choice /\ Unarmed
  BY DEF Button, Choice, Unarmed
<1>. QED
  BY <1>1, <1>2, <1>3, <1>4, <1>5 DEF GuiIInv

LEMMA GuiInductive == GuiIInv /\ [Next]_vars => GuiIInv'
<1>1. GuiIInv /\ [Next]_vars => TypeOK' /\ Choice'
  <2>1. GuiIInv /\ [Next]_vars => Flags' /\ Steps' /\ Values' /\ Choice'
    BY TypeParts, FlagsInductive, StepsInductive, ValuesInductive, ChoiceInductive DEF GuiIInv
  <2>2. Flags' /\ Steps' /\ Values' => TypeOK'
    BY Zenon DEF TypeOK, Flags, Steps, Values
  <2>. QED
    BY <2>1, <2>2
<1>2. GuiIInv /\ [Next]_vars => Progress' /\ Route' /\ Watched' /\ Unarmed' /\ Button'
  BY TypeShapes, ProgressInductive, RouteInductive, WatchedInductive, UnarmedInductive,
     ButtonInductive DEF GuiIInv
<1>. QED
  BY <1>1, <1>2 DEF GuiIInv

LEMMA GuiInvariant == Spec => []GuiIInv
BY GuiInitially, GuiInductive, PTL DEF Spec

\* The variables keep their types; the count of failures stops at the threshold and
\* the window is only ever told of sessions there have been.
THEOREM TypeCorrect == Spec => []TypeOK
<1>1. GuiIInv => TypeOK
  BY DEF GuiIInv
<1>. QED
  BY <1>1, GuiInvariant, PTL

\* A worker that ends has let go of client and process, wherever the run failed,
\* timed out or was cancelled, unless the cancellation met _cleanup itself.
THEOREM EndsWithout == Spec => []EndsReleased
<1>1. GuiIInv => EndsReleased
  BY DEF GuiIInv, Progress, EndsReleased
<1>. QED
  BY <1>1, GuiInvariant, PTL

\* A connected session has the outbound of the profile it checks, through any
\* number of switches, recoveries and timeouts.
THEOREM RouteIsRight == Spec => []RouteFollowsProfile
<1>1. GuiIInv => RouteFollowsProfile
  BY DEF GuiIInv, Route, RouteFollowsProfile, Looping
<1>. QED
  BY <1>1, GuiInvariant, PTL

\* A session with the kill-switch is watched while it is connected, or the
\* death of its xray has been noticed.
THEOREM StaysWatched == Spec => []ConnectedIsWatched
<1>1. GuiIInv => ConnectedIsWatched
  BY DEF GuiIInv, Watched
<1>. QED
  BY <1>1, GuiInvariant, PTL

\* The button of a connected session is disabled by nothing but a signal of a
\* session before it.
THEOREM StaysDisconnectable == Spec => []DisconnectStaysOn
<1>1. GuiIInv => DisconnectStaysOn
  BY DEF GuiIInv, Button, DisconnectStaysOn, Connected
<1>. QED
  BY <1>1, GuiInvariant, PTL

\* An xray is handed on only by a session whose cleanup was cut short or whose
\* stop of it failed.
THEOREM StrayIsExplained == Spec => StrayHasACause
<1>1. GuiIInv /\ [Next]_vars =>
        [~stray /\ stray' /\ gui' # "closed" => seen \cap {"cut", "process"} # {}]_vars
  <2>. SUFFICES ASSUME GuiIInv, Next, ~stray, stray', gui' # "closed"
                PROVE  seen \cap {"cut", "process"} # {}
    OBVIOUS
  <2>1. Connect
    BY CleaningStays, TypeShapes DEF Next, Window, Worker, Watcher, Ended, Cleaning, GuiIInv,
       vars, desk,
           settings, course, exchange, engine, xray, shield, failover, Select,
           Disconnect, QueueCancel, Deliver, CloseWindow, Waited, Boot,
           NothingToSpawn, Spawn, Ready, ConnectClient, AddFirst, Arm, Loop, Check,
           CheckFails, SwitchRemove, SwitchAdd, RecoverRemove, RecoverAdd, TimesOut,
           Cancelled, XrayDies, StrayDies, Trip, WatcherEnds, Quit
  <2>2. Running /\ at \in {"off", "done", "lost"} /\ gui = "free"
    BY <2>1 DEF Connect, Fresh, Reachable, WorkerRunning, Still, GuiIInv, TypeOK
  <2>. QED
    BY <2>2 DEF GuiIInv, Progress, Running
<1>. QED
  BY <1>1, GuiInvariant, PTL DEF Spec, StrayHasACause
-----------------------------------------------------------------------------
(* The client seen from outside: every step is one of the contract's, or   *)
(* changes nothing that the contract speaks of.                            *)

Quiet == UNCHANGED <<Phase, Holds, Spoiled, RouteInUse, opts.killswitch>>

LEMMA ContractStep == GuiIInv /\ [Next]_vars => [Contract!Next]_(Contract!vars)
<1>. SUFFICES ASSUME GuiIInv, [Next]_vars PROVE [Contract!Next]_(Contract!vars)
  OBVIOUS
<1>. Shapes
  BY TypeShapes DEF GuiIInv
<1>. Steps /\ Choice
  BY TypeParts DEF GuiIInv
<1>. USE DEF GuiIInv, Shapes, Steps, Route, Running, Reachable, desk, settings, course, exchange,
         engine, xray, shield, failover, Connecting, Looping, Switching, Leaving, Still,
         Goto, Proceed, Raise, Leave, Phase, Holds, Spoiled, RouteInUse, When, Unblocked
<1>0. Quiet => UNCHANGED Contract!vars
  BY DEF Quiet, Contract!vars
<1>1. CASE Select
  <2>1. Quiet
    BY <1>1 DEF Select, Quiet
  <2>. QED
    BY <2>1, <1>0
<1>2. CASE Connect
  <2>1. Contract!Begin(selected)
    BY <1>2 DEF Connect, Fresh, Contract!Fresh, WorkerRunning, Contract!Begin
  <2>. QED
    BY <2>1, <1>2, TypeParts DEF Contract!Next, Connect, Values
<1>3. CASE Disconnect
  <2>1. Quiet
    BY <1>3 DEF Disconnect, Quiet
  <2>. QED
    BY <2>1, <1>0
<1>4. CASE QueueCancel
  <2>1. Quiet
    BY <1>4 DEF QueueCancel, Quiet
  <2>. QED
    BY <2>1, <1>0
<1>5. CASE Deliver
  <2>1. /\ UNCHANGED <<at, stage, profile, opts, proc, bound, stray, client, ks, outbound>>
        /\ seen' \in {seen, seen \cup {"stale"}}
    BY <1>5 DEF Deliver, Note
  <2>2. \A h \in {"cut", "adrift", "process"} : h \in seen' <=> h \in seen
    BY <2>1
  <2>3. Quiet
    BY <2>1, <2>2 DEF Quiet
  <2>. QED
    BY <2>3, <1>0
<1>6. CASE CloseWindow
  <2>1. CASE WorkerRunning
    <3>1. UNCHANGED <<at, stage, profile, opts, proc, bound, stray, client, ks, outbound, seen>>
      BY <1>6, <2>1 DEF CloseWindow
    <3>2. Quiet
      BY <3>1 DEF Quiet
    <3>. QED
      BY <3>2, <1>0
  <2>2. CASE ~WorkerRunning
    <3>1. Quit
      BY <1>6, <2>2 DEF CloseWindow
    <3>2. Contract!Forget
      BY <2>2, <3>1 DEF Quit, Fresh, WorkerRunning, Contract!Forget
    <3>. QED
      BY <3>2 DEF Contract!Next
  <2>. QED
    BY <2>1, <2>2
<1>7. CASE Waited
  <2>1. Contract!Killed \/ Contract!Forget
    BY <1>7 DEF Waited, Quit, Fresh, WorkerRunning, Contract!Resources, Contract!Killed,
       Contract!Forget
  <2>. QED
    BY <2>1 DEF Contract!Next
<1>8. CASE Boot
  <2>1. Quiet
    BY <1>8 DEF Boot, Quiet
  <2>. QED
    BY <2>1, <1>0
<1>9. CASE NothingToSpawn
  <2>1. Contract!StartFails
    BY <1>9 DEF NothingToSpawn, Emit, Contract!Shielded, Contract!StartFails
  <2>. QED
    BY <2>1 DEF Contract!Next
<1>10. CASE Spawn
  <2>1. Contract!Take("process") \/ Contract!StartFails
    BY <1>10 DEF Spawn, Contract!Shielded, Contract!Take, Contract!StartFails
  <2>. QED
    BY <2>1 DEF Contract!Next
<1>11. CASE Ready
  <2>1. Contract!StartFails \/ Quiet
    BY <1>11 DEF Ready, Quiet, Contract!Shielded, Contract!StartFails
  <2>. QED
    BY <2>1, <1>0 DEF Contract!Next
<1>12. CASE ConnectClient
  <2>0. UNCHANGED <<profile, opts, proc, bound, stray, ks, outbound, seen>> /\ at = "client"
    BY <1>12 DEF ConnectClient
  <2>1. CASE client' = TRUE /\ at' = "add" /\ stage' = stage
    <3>1. Contract!Take("client")
      BY <2>0, <2>1 DEF Contract!Take
    <3>. QED
      BY <3>1 DEF Contract!Next
  <2>2. CASE client' = client /\ at' = "unwatch" /\ stage' = "undo"
    <3>1. Contract!StartFails
      BY <2>0, <2>2 DEF Contract!StartFails
    <3>. QED
      BY <3>1 DEF Contract!Next
  <2>. QED
    BY <1>12, <2>1, <2>2 DEF ConnectClient
<1>13. CASE AddFirst
  <2>1. Contract!Up \/ Contract!StartFails \/ Quiet
    BY <1>13 DEF AddFirst, AddOutbound, StartLooping, Quiet, Contract!Shielded, Contract!Up,
       Contract!StartFails
  <2>. QED
    BY <2>1, <1>0 DEF Contract!Next
<1>14. CASE Arm
  <2>1. Contract!Up \/ Contract!StartFails
    BY <1>14 DEF Arm, Unarmed, StartLooping, Contract!Shielded, Contract!Up, Contract!StartFails
  <2>. QED
    BY <2>1 DEF Contract!Next
<1>15. CASE Loop
  <2>1. Contract!End \/ Quiet
    BY <1>15 DEF Loop, Quiet, Contract!End
  <2>. QED
    BY <2>1, <1>0 DEF Contract!Next
<1>16. CASE Check
  <2>1. Quiet
    BY <1>16 DEF Check, Quiet
  <2>. QED
    BY <2>1, <1>0
<1>17. CASE CheckFails
  <2>1. Quiet
    BY <1>17 DEF CheckFails, Quiet
  <2>. QED
    BY <2>1, <1>0
<1>18. CASE SwitchRemove
  <2>1. Quiet
    BY <1>18 DEF SwitchRemove, Quiet
  <2>. QED
    BY <2>1, <1>0
<1>19. CASE SwitchAdd
  <2>1. Contract!Switch(best) \/ Quiet
    BY <1>19 DEF SwitchAdd, AddOutbound, Quiet, Contract!Switch
  <2>. QED
    BY <2>1, <1>0, <1>19 DEF Contract!Next, Choice, SwitchAdd
<1>20. CASE RecoverRemove
  <2>1. Quiet
    BY <1>20 DEF RecoverRemove, Quiet
  <2>. QED
    BY <2>1, <1>0
<1>21. CASE RecoverAdd
  <2>1. Quiet
    BY <1>21 DEF RecoverAdd, AddOutbound, Note, Quiet
  <2>. QED
    BY <2>1, <1>0
<1>22. CASE TimesOut
  <2>0. UNCHANGED <<profile, opts, proc, bound, stray, client, ks>>
    BY <1>22 DEF TimesOut
  <2>1. CASE at \in {"client", "add"}
    <3>1. at' = "unwatch" /\ stage' = "undo" /\ seen' = seen
      BY <1>22, <2>1 DEF TimesOut
    <3>2. Contract!StartFails
      BY <2>0, <2>1, <3>1 DEF Contract!StartFails
    <3>. QED
      BY <3>2 DEF Contract!Next
  <2>2. CASE at = "check"
    <3>1. at' = "loop" /\ stage' = stage /\ seen' = seen /\ outbound' = outbound
      BY <1>22, <2>2 DEF TimesOut, Effects
    <3>2. Quiet
      BY <2>0, <2>2, <3>1 DEF Quiet
    <3>. QED
      BY <3>2, <1>0
  <2>3. CASE at \in Switching
    <3>1. at' = "loop" /\ stage' = stage /\ seen' = seen \cup {"adrift"}
      BY <1>22, <2>3 DEF TimesOut, Note
    <3>2. Quiet
      BY <2>0, <2>3, <3>1 DEF Quiet
    <3>. QED
      BY <3>2, <1>0
  <2>. QED
    BY <1>22, <2>1, <2>2, <2>3 DEF TimesOut, Awaiting
<1>23. CASE Cancelled
  <2>1. Contract!StartFails \/ Contract!End
    BY <1>23 DEF Cancelled, Awaiting, Contract!Shielded, Contract!StartFails, Contract!End
  <2>. QED
    BY <2>1 DEF Contract!Next
<1>24. CASE Tidy
  <2>1. Quiet
    BY <1>24 DEF Tidy, Quiet
  <2>. QED
    BY <2>1, <1>0
<1>25. CASE Unroute
  <2>1. Contract!TryGiveBack("client")
    BY <1>25 DEF Unroute, Forget, Contract!TryGiveBack
  <2>. QED
    BY <2>1 DEF Contract!Next, Contract!Resources
<1>26. CASE CutShort
  <2>1. Contract!CutShort
    BY <1>26 DEF CutShort, Forget, Note, Contract!Resources, Contract!CutShort
  <2>. QED
    BY <2>1 DEF Contract!Next
<1>27. CASE Unwatch
  <2>1. Quiet
    BY <1>27 DEF Unwatch, Quiet
  <2>. QED
    BY <2>1, <1>0
<1>28. CASE SkipUnblock
  <2>1. Quiet
    BY <1>28 DEF SkipUnblock, Quiet
  <2>. QED
    BY <2>1, <1>0
<1>29. CASE Unblock
  <2>1. Contract!TryGiveBack("block") \/ Quiet
    BY <1>29 DEF Unblock, Quiet, Contract!TryGiveBack
  <2>. QED
    BY <2>1, <1>0 DEF Contract!Next, Contract!Resources
<1>30. CASE SkipHalt
  <2>1. Quiet
    BY <1>30 DEF SkipHalt, After, Quiet
  <2>. QED
    BY <2>1, <1>0
<1>31. CASE Halt
  <2>1. Contract!TryGiveBack("process")
    BY <1>31 DEF Halt, After, Note, Contract!TryGiveBack
  <2>. QED
    BY <2>1 DEF Contract!Next, Contract!Resources
<1>32. CASE Report
  <2>1. Quiet
    BY <1>32 DEF Report, Quiet
  <2>. QED
    BY <2>1, <1>0
<1>33. CASE Close
  <2>1. Quiet
    BY <1>33 DEF Close, Quiet
  <2>. QED
    BY <2>1, <1>0
<1>34. CASE End
  <2>1. Contract!Close
    BY <1>34 DEF End, Progress, Contract!Close
  <2>. QED
    BY <2>1 DEF Contract!Next
<1>35. CASE XrayDies
  <2>1. Contract!XrayDies
    BY <1>35 DEF XrayDies, Contract!XrayDies
  <2>. QED
    BY <2>1 DEF Contract!Next
<1>36. CASE StrayDies
  <2>1. Quiet
    BY <1>36 DEF StrayDies, Quiet
  <2>. QED
    BY <2>1, <1>0
<1>37. CASE Trip
  <2>1. Quiet
    BY <1>37 DEF Trip, Quiet
  <2>. QED
    BY <2>1, <1>0
<1>38. CASE WatcherEnds
  <2>1. Quiet
    BY <1>38 DEF WatcherEnds, Quiet
  <2>. QED
    BY <2>1, <1>0
<1>39. CASE UNCHANGED vars
  BY <1>39 DEF vars, Contract!vars
<1>. QED
  BY <1>1, <1>2, <1>3, <1>4, <1>5, <1>6, <1>7, <1>8, <1>9, <1>10, <1>11, <1>12, <1>13, <1>14,
     <1>15, <1>16, <1>17, <1>18, <1>19, <1>20, <1>21, <1>22, <1>23, <1>24, <1>25, <1>26, <1>27,
     <1>28, <1>29, <1>30, <1>31, <1>32, <1>33, <1>34, <1>35, <1>36, <1>37, <1>38, <1>39
     DEF Next, Window, Worker, Watcher, Ended

\* A session arms its kill-switch once; its cleanup, the next session's manager or
\* the end of the program ends it.
LEMMA ShieldStep == GuiIInv /\ [Next]_vars => [Shield!Next]_(Shield!vars)
<1>. SUFFICES ASSUME GuiIInv, [Next]_vars PROVE [Shield!Next]_(Shield!vars)
  OBVIOUS
<1>1. CASE Arm
  <2>1. ks = "off" /\ ks' = "armed"
    BY <1>1 DEF GuiIInv, Unarmed, Connecting, Arm
  <2>. QED
    BY <2>1 DEF Shield!Next, Shield!Arm
<1>2. CASE Connect \/ CloseWindow \/ Waited \/ Unblock
  <2>1. ks' = "off" \/ ks' = ks
    BY <1>2 DEF Connect, CloseWindow, Waited, Unblock, Quit, Fresh, shield
  <2>2. ks \in {"off", "armed", "tripped"}
    BY DEF GuiIInv, TypeOK
  <2>. QED
    BY <2>1, <2>2 DEF Shield!Next, Shield!Disarm, Shield!vars
<1>3. CASE Trip
  <2>1. ks = "armed" /\ ks' = "tripped"
    BY <1>3 DEF Trip
  <2>. QED
    BY <2>1 DEF Shield!Next, Shield!Trip
<1>4. CASE ~Arm /\ ~Connect /\ ~CloseWindow /\ ~Waited /\ ~Unblock /\ ~Trip
  <2>1. ks' = ks
    BY <1>4 DEF Next, Window, Worker, Watcher, Ended, vars, shield, Select, Disconnect,
       QueueCancel, Deliver, Boot, NothingToSpawn, Spawn, Ready, ConnectClient, AddFirst, Loop,
       Check, CheckFails, SwitchRemove, SwitchAdd, RecoverRemove, RecoverAdd, TimesOut,
       Cancelled, Tidy, Unroute, CutShort, Unwatch, SkipUnblock, SkipHalt, Halt, Report, Close,
       End, XrayDies, StrayDies, WatcherEnds
  <2>. QED
    BY <2>1 DEF Shield!vars
<1>. QED
  BY <1>1, <1>2, <1>3, <1>4

\* Every behaviour of the graphical client is one that ConnectionContract allows, one
\* connection after another, and one that KillSwitchContract allows for its switch.
THEOREM KeepsItsContracts == Spec => ImplementsContracts
<1>1. Init => Contract!Init
  <2>. SUFFICES ASSUME Init PROVE Contract!Init
    OBVIOUS
  <2>1. Phase = "over" /\ RouteInUse = None
    BY DEF Init, Phase, Connecting, Looping, Switching, Leaving, RouteInUse, Still
  <2>2. Holds = {} /\ Spoiled = {}
    BY DEF Init, Holds, Spoiled, When, Running, Unblocked
  <2>3. opts.killswitch \in BOOLEAN
    BY DEF Init
  <2>. QED
    BY <2>1, <2>2, <2>3 DEF Contract!Init
<1>2. Init => Shield!Init
  BY DEF Init, Shield!Init
<1>. QED
  BY GuiInvariant, ContractStep, ShieldStep, <1>1, <1>2, PTL
     DEF Spec, ImplementsContracts, Contract!Spec, Shield!Spec
=============================================================================
