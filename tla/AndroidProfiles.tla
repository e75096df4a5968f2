--------------------------- MODULE AndroidProfiles ---------------------------
(***************************************************************************)
(* The phone's profiles: one preference that holds them all, and the list  *)
(* on the screen (ProfileRepository.kt, MainViewModel.kt).                 *)
(*                                                                         *)
(* Every tap launches a coroutine that loads all profiles, saves all       *)
(* profiles and then has the list loaded again.  Each load and save runs   *)
(* on a pool of threads, so that those of two taps interleave and their    *)
(* results arrive in any order.  A save is in memory at once and on the    *)
(* disk later; Android may kill the program in between.                    *)
(***************************************************************************)
EXTENDS Naturals, FiniteSets

CONSTANTS Tasks,     \* coroutines at a time
          Entries    \* profiles; each is made once

VARIABLES prefs,     \* the profiles the preference holds, in memory
          disk,      \* the profiles it holds on the disk
          screen,    \* MainViewModel.profiles
          task,      \* the coroutines
          told,      \* history: what the user was told of each profile
          behind,    \* history: coroutines that have loaded what another has since replaced
          overtaken, \* history: one of them has set the screen last
          overlaid,  \* history: one of them has saved
          unflushed  \* history: the program was killed with a save not on the disk

phoneVars == <<prefs, disk, screen, task, told, behind, overtaken, overlaid, unflushed>>

NoTask == [at |-> "idle"]
Edit == [at : {"load", "save"}, command : {"add", "remove"}, entry : Entries,
         seen : SUBSET Entries]
Reload == [at : {"reload", "show"}, seen : SUBSET Entries]

\* One invariant per module says what the variables may hold; the screen and
\* the disk know only profiles that somebody added.
PhoneTypeOK ==
    /\ told \in [Entries -> {"new", "made", "saved", "unwanted", "gone"}]
    /\ task \in [Tasks -> Edit \cup Reload \cup {NoTask}]
    /\ prefs \cup disk \cup screen \subseteq {x \in Entries : told[x] # "new"}
    /\ behind \subseteq Tasks
    /\ overtaken \in BOOLEAN /\ overlaid \in BOOLEAN /\ unflushed \in BOOLEAN

PhoneInit == /\ prefs = {} /\ disk = {} /\ screen = {}
             /\ task = [t \in Tasks |-> NoTask]
             /\ told = [x \in Entries |-> "new"]
             /\ behind = {}
             /\ overtaken = FALSE /\ overlaid = FALSE /\ unflushed = FALSE

-----------------------------------------------------------------------------
Idle(t) == task[t] = NoTask
Quiet == \A t \in Tasks : Idle(t)
Loaded == {t \in Tasks : task[t].at \in {"save", "show"}}

Edited(t) == IF task[t].command = "add" THEN task[t].seen \cup {task[t].entry}
             ELSE task[t].seen \ {task[t].entry}

-----------------------------------------------------------------------------
(* Faulty variants of the definitions below: what would go wrong without    *)
(* the line they change.                                                   *)

SaveShowsNothing(t) ==
    /\ task[t].at = "save"
    /\ prefs' = Edited(t)
    /\ task' = [task EXCEPT ![t] = NoTask]
    /\ told' = [told EXCEPT ![task[t].entry] = IF @ = "made" THEN "saved" ELSE "gone"]
    /\ overlaid' = (overlaid \/ t \in behind)
    /\ behind' = (behind \cup Loaded) \ {t}
    /\ UNCHANGED <<disk, screen, overtaken, unflushed>>

LoadNothing(t) ==
    /\ task[t].at = "load"
    /\ task' = [task EXCEPT ![t].at = "save"]
    /\ UNCHANGED <<prefs, disk, screen, told, behind, overtaken, overlaid, unflushed>>

-----------------------------------------------------------------------------
(* The taps                                                                *)

\* addProfileFromLink, with a link that can be parsed.
TapAdd(t) == /\ Idle(t)
             /\ \E x \in Entries :
                  /\ told[x] = "new"
                  /\ told' = [told EXCEPT ![x] = "made"]
                  /\ task' = [task EXCEPT ![t] = [at |-> "load", command |-> "add", entry |-> x,
                                                  seen |-> {}]]
             /\ UNCHANGED <<prefs, disk, screen, behind, overtaken, overlaid, unflushed>>

\* A profile has its button while the list shows it.
TapRemove(t) == /\ Idle(t)
                /\ \E x \in screen :
                     /\ told' = [told EXCEPT ![x] = "unwanted"]
                     /\ task' = [task EXCEPT ![t] = [at |-> "load", command |-> "remove",
                                                     entry |-> x, seen |-> {}]]
                /\ UNCHANGED <<prefs, disk, screen, behind, overtaken, overlaid, unflushed>>

-----------------------------------------------------------------------------
(* The coroutines                                                          *)

Load(t) == /\ task[t].at = "load"
           /\ task' = [task EXCEPT ![t].at = "save", ![t].seen = prefs]
           /\ UNCHANGED <<prefs, disk, screen, told, behind, overtaken, overlaid, unflushed>>

\* The save replaces everything; the list is loaded again by a new coroutine.
Save(t) == /\ task[t].at = "save"
           /\ prefs' = Edited(t)
           /\ task' = [task EXCEPT ![t] = [at |-> "reload", seen |-> {}]]
           /\ told' = [told EXCEPT ![task[t].entry] =
                          IF task[t].command = "remove" THEN "gone"
                          ELSE IF @ = "made" THEN "saved" ELSE @]
           /\ overlaid' = (overlaid \/ t \in behind)
           /\ behind' = (behind \cup Loaded) \ {t}
           /\ UNCHANGED <<disk, screen, overtaken, unflushed>>

LoadAgain(t) == /\ task[t].at = "reload"
                /\ task' = [task EXCEPT ![t].at = "show", ![t].seen = prefs]
                /\ UNCHANGED <<prefs, disk, screen, told, behind, overtaken, overlaid, unflushed>>

Show(t) == /\ task[t].at = "show"
           /\ screen' = task[t].seen
           /\ task' = [task EXCEPT ![t] = NoTask]
           /\ overtaken' = (t \in behind) /\ behind' = behind \ {t}
           /\ UNCHANGED <<prefs, disk, told, overlaid, unflushed>>

-----------------------------------------------------------------------------
(* The system                                                              *)

\* SharedPreferences.apply has written the file.
Flushed == /\ disk # prefs
           /\ disk' = prefs
           /\ UNCHANGED <<prefs, screen, task, told, behind, overtaken, overlaid, unflushed>>

\* The program is killed and started again: a new view model loads the list.
Restart == /\ prefs' = disk /\ screen' = {}
           /\ \E t \in Tasks : task' = [u \in Tasks |-> IF u = t THEN [at |-> "reload", seen |-> {}]
                                                        ELSE NoTask]
           /\ unflushed' = (unflushed \/ disk # prefs)
           /\ behind' = {} /\ overtaken' = FALSE
           /\ UNCHANGED <<disk, told, overlaid>>

PhoneRest == Quiet /\ UNCHANGED phoneVars

PhoneNext == \/ \E t \in Tasks : \/ TapAdd(t) \/ TapRemove(t)
                                 \/ Load(t) \/ Save(t) \/ LoadAgain(t) \/ Show(t)
             \/ Flushed \/ Restart \/ PhoneRest

PhoneSpec == PhoneInit /\ [][PhoneNext]_phoneVars

-----------------------------------------------------------------------------
(* Properties                                                              *)

\* When all coroutines have ended the list shows what is stored, unless the
\* last to set it had loaded before a save that another's list already showed.
ScreenShowsStored == Quiet => screen = prefs \/ overtaken

\* A profile that was added stays and one that was removed stays away, unless
\* two edits overlapped or the program was killed before the save was on the
\* disk.
EditsLast == ~overlaid /\ ~unflushed => \A x \in Entries :
    /\ told[x] = "saved" => x \in prefs
    /\ told[x] = "gone" => x \notin prefs

PreferenceContract == INSTANCE StoreContract WITH Keys <- Entries, Secrets <- {"plain"},
    None <- "plain", content <- [secret |-> "plain", keys |-> prefs],
    safe <- [secret |-> "plain", keys |-> disk], lost <- overlaid

\* Seen from outside, a tap changes one profile in one step, and what Android
\* kills was flushed or is as before it, unless two edits have overlapped.
PreferenceIsAtomic == PreferenceContract!Spec
=============================================================================
