----------------------------- MODULE Stores_proofs -----------------------------
(***************************************************************************)
(* Safety of the two stores of profiles, ProfileStore on the desktop and   *)
(* AndroidProfiles on the phone, for any number of processes, coroutines,  *)
(* profiles and passwords, wherever they are killed and the power fails,   *)
(* and that both keep the promise of StoreContract.  They have nothing in  *)
(* common but that promise.                                                *)
(*                                                                         *)
(* The argument for the file has five parts, each a conjunct of StoreIInv: *)
(*   Whole      a text gets its name only once it is on the disk           *)
(*   Identity   a profile is nowhere before its one addition renames       *)
(*   Reading    who is not stale has read what the file still is           *)
(*   Effects    what a command has done stays done until it ends           *)
(*   Protected  the file on the disk and its successor share a password    *)
(* That for the phone has four, each a conjunct of PhoneIInv:              *)
(*   Known     nobody has seen a profile that was never made               *)
(*   Apart     a profile is nowhere before its one addition is saved       *)
(*   UpToDate  who is not behind has loaded what is stored                 *)
(*   Coming    if the screen is out of date, somebody is about to set it   *)
(***************************************************************************)
EXTENDS ProfileStore, AndroidProfiles, TLAPS


BeforeRename == {"read", "create", "write", "rename"}
AfterRead == {"create", "write", "rename", "flush", "done"}
Adds(p, x) == Running(p) /\ proc[p].command = "add" /\ proc[p].profile = x
Removes(p, x) == Running(p) /\ proc[p].command = "remove" /\ proc[p].profile = x
Nowhere(x) == /\ x \notin Stored(file) /\ x \notin Stored(durable)
              /\ \A p \in Processes : Running(p) => x \notin Stored(proc[p].seen)

Whole ==
    /\ file # Torn /\ durable # Torn
    /\ file \in Contents => file.synced
    /\ durable \in Contents => durable.synced
    /\ \A p \in Processes : At(p, "rename") => temp[p] = "synced"

Identity ==
    /\ \A x \in Profiles : fate[x] = "new" =>
         Nowhere(x) /\ \A p \in Processes : Running(p) => proc[p].profile # x
    /\ \A x \in Profiles : \A p \in Processes : Adds(p, x) =>
         /\ proc[p].at \in BeforeRename => Nowhere(x) /\ fate[x] # "gone"
         /\ \A q \in Processes : Adds(q, x) => q = p
    /\ \A x \in Profiles : \A p \in Processes : Removes(p, x) =>
         /\ fate[x] \in {"unwanted", "gone"}
         /\ proc[p].at \in AfterRead => x \in Stored(proc[p].seen)

Reading == \A p \in Processes : p \in Holding =>
    /\ p \notin stale => proc[p].seen = file
    /\ proc[p].seen \in Contents => proc[p].seen.password = proc[p].password

Effects ==
    /\ SuccessLasts
    /\ ~raced => \A x \in Profiles : \A p \in Processes :
         /\ Adds(p, x) /\ proc[p].at \in {"flush", "done"} /\ fate[x] = "made" =>
              /\ x \in Stored(file)
              /\ At(p, "done") => x \in Stored(durable)
         /\ Removes(p, x) /\ proc[p].at \in {"flush", "done"} =>
              /\ x \notin Stored(file)
              /\ At(p, "done") => x \notin Stored(durable)

Protected == durable \in Contents =>
    /\ file \in Contents
    /\ ~raced => file.password = durable.password

StoreIInv == StoreTypeOK /\ Whole /\ Identity /\ Reading /\ Effects /\ Protected
-----------------------------------------------------------------------------
(* The shape of the records.                                               *)

LEMMA CommandFields ==
    ASSUME NEW c \in Command
    PROVE  /\ c.at \in Steps /\ c.command \in {"add", "remove"} /\ c.profile \in Profiles
           /\ c.password \in Passwords /\ c.seen \in Contents \cup {Absent}
           /\ c.at # "idle" /\ c # NoProcess
  BY DEF Command, Steps, NoProcess

LEMMA CommandUpdates ==
    ASSUME NEW c \in Command, NEW step \in Steps, NEW content \in Contents \cup {Absent}
    PROVE  /\ [c EXCEPT !.at = step] \in Command
           /\ [c EXCEPT !.at = step, !.seen = content] \in Command
  BY DEF Command

LEMMA NewCommand ==
    ASSUME NEW x \in Profiles, NEW password \in Passwords, NEW command \in {"add", "remove"}
    PROVE  [at |-> "read", command |-> command, profile |-> x, password |-> password,
            seen |-> Absent] \in Command
  BY DEF Command, Steps

\* A new command has read nothing.
LEMMA StartType ==
    ASSUME StoreTypeOK, NEW p \in Processes, NEW x \in Profiles, NEW password \in Passwords,
           NEW command \in {"add", "remove"}, Start(p, command, x, password)
    PROVE  /\ proc' \in [Processes -> Command \cup {NoProcess}]
           /\ proc'[p] \in Command /\ proc'[p].at = "read" /\ proc'[p].command = command
           /\ proc'[p].profile = x /\ proc'[p].seen = Absent
           /\ \A q \in Processes : q # p => proc'[q] = proc[q]
  BY NewCommand DEF Start, StoreTypeOK

LEMMA AtRunning ==
    ASSUME StoreTypeOK, NEW p \in Processes
    PROVE  /\ Running(p) => proc[p] \in Command
           /\ ~Running(p) => proc[p].at = "idle"
           /\ \A step \in Steps : At(p, step) => proc[p] \in Command
  BY DEF StoreTypeOK, Running, At, NoProcess, Steps

\* A step of p that goes on to the next changes nothing else of its command.
LEMMA Going ==
    ASSUME StoreTypeOK, NEW p \in Processes, proc[p] \in Command, NEW step \in Steps,
           Goto(p, step)
    PROVE  /\ proc' \in [Processes -> Command \cup {NoProcess}]
           /\ proc'[p] \in Command /\ proc'[p].at = step
           /\ proc'[p].command = proc[p].command /\ proc'[p].profile = proc[p].profile
           /\ proc'[p].password = proc[p].password /\ proc'[p].seen = proc[p].seen
           /\ \A q \in Processes : q # p => proc'[q] = proc[q]
<1>1. proc' = [proc EXCEPT ![p] = [proc[p] EXCEPT !.at = step]]
  BY DEF Goto
<1>2. [proc[p] EXCEPT !.at = step] \in Command
  BY CommandUpdates, Zenon
<1>3. proc'[p] = [proc[p] EXCEPT !.at = step]
  BY <1>1 DEF StoreTypeOK
<1>. QED
  BY <1>1, <1>2, <1>3 DEF StoreTypeOK, Command

\* What a process has read is the file, if it goes on.
LEMMA Reads ==
    ASSUME StoreTypeOK, NEW p \in Processes, Read(p)
    PROVE  /\ proc[p] \in Command /\ At(p, "read")
           /\ proc' \in [Processes -> Command \cup {NoProcess}]
           /\ proc'[p] \in Command /\ proc'[p].at \in {"create", "failed"}
           /\ proc'[p].command = proc[p].command /\ proc'[p].profile = proc[p].profile
           /\ proc'[p].password = proc[p].password
           /\ proc'[p].seen \in {proc[p].seen, file}
           /\ proc'[p].at = "create" =>
                /\ proc'[p].seen = file
                /\ file = Absent \/ Readable(p)
                /\ proc[p].command = "remove" => proc[p].profile \in Stored(file)
           /\ \A q \in Processes : q # p => proc'[q] = proc[q]
           /\ UNCHANGED <<file, durable, temp, fate, stale, raced>>
<1>1. proc[p] \in Command /\ At(p, "read")
  BY AtRunning DEF Read, Steps
<1>2. UNCHANGED <<file, durable, temp, fate, stale, raced>>
  BY DEF Read, files, history
<1>3. CASE Goto(p, "failed")
  BY <1>1, <1>2, <1>3, Going DEF Steps
<1>4. CASE /\ file = Absent \/ Readable(p)
           /\ proc[p].command = "remove" => proc[p].profile \in Stored(file)
           /\ proc' = [proc EXCEPT ![p].at = "create", ![p].seen = file]
  <2>1. proc' = [proc EXCEPT ![p] = [proc[p] EXCEPT !.at = "create", !.seen = file]]
    BY <1>4
  <2>2. [proc[p] EXCEPT !.at = "create", !.seen = file] \in Command
    BY <1>1, <1>4, CommandUpdates DEF Readable, Steps
  <2>3. proc'[p] = [proc[p] EXCEPT !.at = "create", !.seen = file]
    BY <2>1 DEF StoreTypeOK
  <2>4. /\ proc'[p].at = "create" /\ proc'[p].seen = file
        /\ proc'[p].command = proc[p].command /\ proc'[p].profile = proc[p].profile
        /\ proc'[p].password = proc[p].password
    BY <1>1, <2>3 DEF Command
  <2>5. \A q \in Processes : q # p => proc'[q] = proc[q]
    BY <2>1 DEF StoreTypeOK
  <2>6. proc' \in [Processes -> Command \cup {NoProcess}]
    BY <2>1, <2>2 DEF StoreTypeOK
  <2>. QED
    BY <1>1, <1>2, <1>4, <2>2, <2>3, <2>4, <2>5, <2>6
<1>. QED
  BY <1>3, <1>4 DEF Read

LEMMA WrittenFields ==
    ASSUME StoreTypeOK, NEW p \in Processes, proc[p] \in Command
    PROVE  /\ Written(p) \in Contents
           /\ Stored(Written(p)) = Changed(p)
           /\ Written(p).password = proc[p].password
           /\ temp[p] = "synced" => Written(p).synced
<1>1. Changed(p) \in SUBSET Profiles
  BY CommandFields DEF Changed, Stored, Contents
<1>2. proc[p].password \in Passwords
  BY CommandFields
<1>. QED
  BY <1>1, <1>2 DEF Written, Stored, Contents

-----------------------------------------------------------------------------
LEMMA TypeInductive == StoreTypeOK /\ [StoreNext]_storeVars => StoreTypeOK'
<1>. SUFFICES ASSUME StoreTypeOK, [StoreNext]_storeVars PROVE StoreTypeOK'
  OBVIOUS
<1>1. ASSUME NEW p \in Processes, AddProfile(p) PROVE StoreTypeOK'
  BY <1>1, StartType DEF StoreTypeOK, AddProfile, files
<1>2. ASSUME NEW p \in Processes, RemoveProfile(p) PROVE StoreTypeOK'
  BY <1>2, StartType DEF StoreTypeOK, RemoveProfile, files
<1>3. ASSUME NEW p \in Processes, Read(p) PROVE StoreTypeOK'
  BY <1>3, Reads DEF StoreTypeOK
<1>4. ASSUME NEW p \in Processes, Create(p) PROVE StoreTypeOK'
  BY <1>4, AtRunning, Going DEF Create, StoreTypeOK, Steps, history
<1>5. ASSUME NEW p \in Processes, Write(p) PROVE StoreTypeOK'
  BY <1>5, AtRunning, Going DEF Write, StoreTypeOK, Steps, history
<1>6. ASSUME NEW p \in Processes, Rename(p) PROVE StoreTypeOK'
  <2>1. proc[p] \in Command
    BY <1>6, AtRunning DEF Rename, Steps
  <2>2. proc' \in [Processes -> Command \cup {NoProcess}]
    BY <1>6, <2>1, Going DEF Rename, Steps
  <2>3. Written(p) \in Contents
    BY <2>1, WrittenFields
  <2>. QED
    BY <1>6, <2>2, <2>3 DEF Rename, StoreTypeOK, Holding
<1>7. ASSUME NEW p \in Processes, Flush(p) PROVE StoreTypeOK'
  BY <1>7, AtRunning, Going DEF Flush, StoreTypeOK, Steps, history
<1>8. ASSUME NEW p \in Processes, Tidy(p) PROVE StoreTypeOK'
  BY <1>8, AtRunning, Going DEF Tidy, StoreTypeOK, Steps, history
<1>9. ASSUME NEW p \in Processes, Exit(p) PROVE StoreTypeOK'
  BY <1>9 DEF Exit, StoreTypeOK, files
<1>10. ASSUME NEW p \in Processes, Kill(p) PROVE StoreTypeOK'
  BY <1>10 DEF Kill, StoreTypeOK
<1>11. CASE PowerFails
  BY <1>11 DEF PowerFails, Survives, StoreTypeOK
<1>12. CASE UNCHANGED storeVars
  BY <1>12 DEF storeVars, files, history, StoreTypeOK
<1>. QED
  BY <1>1, <1>2, <1>3, <1>4, <1>5, <1>6, <1>7, <1>8, <1>9, <1>10, <1>11, <1>12
     DEF StoreNext, StoreRest, Step

-----------------------------------------------------------------------------
LEMMA WholeInductive == StoreTypeOK /\ Whole /\ [StoreNext]_storeVars => Whole'
<1>. SUFFICES ASSUME StoreTypeOK, Whole, [StoreNext]_storeVars PROVE Whole'
  OBVIOUS
<1>1. ASSUME NEW p \in Processes, AddProfile(p) PROVE Whole'
  BY <1>1, StartType DEF Whole, AddProfile, files, At
<1>2. ASSUME NEW p \in Processes, RemoveProfile(p) PROVE Whole'
  BY <1>2, StartType DEF Whole, RemoveProfile, files, At
<1>3. ASSUME NEW p \in Processes, Read(p) PROVE Whole'
  BY <1>3, Reads DEF Whole, At
<1>4. ASSUME NEW p \in Processes, Create(p) PROVE Whole'
  BY <1>4, AtRunning, Going DEF Whole, Create, At, Steps, history, StoreTypeOK
<1>5. ASSUME NEW p \in Processes, Write(p) PROVE Whole'
  <2>1. proc[p] \in Command
    BY <1>5, AtRunning DEF Write, Steps
  <2>2. \A q \in Processes : q # p => proc'[q] = proc[q] /\ temp'[q] = temp[q]
    BY <1>5, <2>1, Going DEF Write, Steps, StoreTypeOK
  <2>3. proc'[p].at = "rename" => temp'[p] = "synced"
    BY <1>5, <2>1, Going DEF Write, Steps, StoreTypeOK
  <2>. QED
    BY <1>5, <2>2, <2>3 DEF Whole, Write, At
<1>6. ASSUME NEW p \in Processes, Rename(p) PROVE Whole'
  <2>1. proc[p] \in Command /\ temp[p] = "synced"
    BY <1>6, AtRunning DEF Rename, Steps, Whole
  <2>2. Written(p) \in Contents /\ Written(p).synced
    BY <2>1, WrittenFields
  <2>3. file' # Torn /\ (file' \in Contents => file'.synced) /\ durable' = durable
    BY <1>6, <2>2, StoreAssumption DEF Rename, Whole
  <2>4. \A q \in Processes : proc'[q].at = "rename" => temp'[q] = "synced"
    BY <1>6, <2>1, Going DEF Rename, At, Steps, StoreTypeOK, Whole
  <2>. QED
    BY <2>3, <2>4 DEF Whole, At
<1>7. ASSUME NEW p \in Processes, Flush(p) PROVE Whole'
  BY <1>7, AtRunning, Going DEF Whole, Flush, At, Steps, StoreTypeOK
<1>8. ASSUME NEW p \in Processes, Tidy(p) PROVE Whole'
  BY <1>8, AtRunning, Going DEF Whole, Tidy, At, Steps, StoreTypeOK
<1>9. ASSUME NEW p \in Processes, Exit(p) PROVE Whole'
  BY <1>9 DEF Whole, Exit, At, files, StoreTypeOK, NoProcess
<1>10. ASSUME NEW p \in Processes, Kill(p) PROVE Whole'
  BY <1>10 DEF Whole, Kill, At, StoreTypeOK, NoProcess
<1>11. CASE PowerFails
  BY <1>11 DEF PowerFails, Survives, Whole, At, NoProcess
<1>12. CASE UNCHANGED storeVars
  BY <1>12 DEF storeVars, files, history, Whole, At
<1>. QED
  BY <1>1, <1>2, <1>3, <1>4, <1>5, <1>6, <1>7, <1>8, <1>9, <1>10, <1>11, <1>12
     DEF StoreNext, StoreRest, Step

-----------------------------------------------------------------------------
LEMMA ReadingInductive == StoreTypeOK /\ Reading /\ [StoreNext]_storeVars => Reading'
<1>. SUFFICES ASSUME StoreTypeOK, Reading, [StoreNext]_storeVars PROVE Reading'
  OBVIOUS
<1>1. ASSUME NEW p \in Processes, AddProfile(p) PROVE Reading'
  BY <1>1, StartType DEF Reading, Holding, AddProfile, files
<1>2. ASSUME NEW p \in Processes, RemoveProfile(p) PROVE Reading'
  BY <1>2, StartType DEF Reading, Holding, RemoveProfile, files
<1>3. ASSUME NEW p \in Processes, Read(p) PROVE Reading'
  <2>1. proc'[p].at = "create" => /\ proc'[p].seen = file
                                  /\ file \in Contents => file.password = proc[p].password
    BY <1>3, Reads, StoreAssumption DEF Readable
  <2>. QED
    BY <1>3, <2>1, Reads DEF Reading, Holding
<1>4. ASSUME NEW p \in Processes, Create(p) PROVE Reading'
  BY <1>4, AtRunning, Going DEF Create, Reading, Holding, At, Steps, history
<1>5. ASSUME NEW p \in Processes, Write(p) PROVE Reading'
  BY <1>5, AtRunning, Going DEF Write, Reading, Holding, At, Steps, history
<1>6. ASSUME NEW p \in Processes, Rename(p) PROVE Reading'
  <2>1. proc[p] \in Command
    BY <1>6, AtRunning DEF Rename, Steps
  <2>2. \A q \in Processes : q # p => proc'[q] = proc[q]
    BY <1>6, <2>1, Going DEF Rename, Steps
  <2>3. proc'[p].at \in {"flush", "tidy"}
    BY <1>6, <2>1, Going DEF Rename, Steps
  <2>4. CASE Holding \ {p} \subseteq stale'
    BY <2>2, <2>3, <2>4 DEF Reading, Holding
  <2>5. CASE file' = file /\ stale' = stale
    BY <2>2, <2>3, <2>5 DEF Reading, Holding
  <2>. QED
    BY <1>6, <2>4, <2>5 DEF Rename
<1>7. ASSUME NEW p \in Processes, Flush(p) PROVE Reading'
  BY <1>7, AtRunning, Going DEF Flush, Reading, Holding, Steps, history
<1>8. ASSUME NEW p \in Processes, Tidy(p) PROVE Reading'
  BY <1>8, AtRunning, Going DEF Tidy, Reading, Holding, Steps, history
<1>9. ASSUME NEW p \in Processes, Exit(p) PROVE Reading'
  BY <1>9 DEF Exit, Reading, Holding, StoreTypeOK, NoProcess, files
<1>10. ASSUME NEW p \in Processes, Kill(p) PROVE Reading'
  BY <1>10 DEF Kill, Reading, Holding, StoreTypeOK, NoProcess
<1>11. CASE PowerFails
  BY <1>11 DEF PowerFails, Reading, Holding, NoProcess
<1>12. CASE UNCHANGED storeVars
  BY <1>12 DEF storeVars, files, history, Reading, Holding
<1>. QED
  BY <1>1, <1>2, <1>3, <1>4, <1>5, <1>6, <1>7, <1>8, <1>9, <1>10, <1>11, <1>12
     DEF StoreNext, StoreRest, Step

-----------------------------------------------------------------------------
(* A step that starts nothing, reads nothing and renames nothing keeps what *)
(* the others have.                                                        *)

\* Of the contents of files and of what was read, nothing is new.
NothingNew ==
    /\ Stored(file') \subseteq Stored(file) \cup Stored(durable)
    /\ Stored(durable') \subseteq Stored(file) \cup Stored(durable)

\* No process changes its command, moves back before its renaming or comes to
\* hold what it has not read.
NothingBegins == \A q \in Processes : proc'[q] # NoProcess =>
    /\ proc[q] # NoProcess
    /\ proc'[q].command = proc[q].command /\ proc'[q].profile = proc[q].profile
    /\ proc'[q].seen = proc[q].seen
    /\ proc'[q].at \in BeforeRename => proc[q].at \in BeforeRename
    /\ proc'[q].at \in AfterRead => proc[q].at \in AfterRead

\* What the user is told fits the commands that go on.
FateFits == \A x \in Profiles :
    /\ fate'[x] = "new" => fate[x] = "new"
    /\ \A q \in Processes : proc'[q] # NoProcess =>
         /\ Adds(q, x) /\ proc[q].at \in BeforeRename => fate'[x] # "gone"
         /\ Removes(q, x) => fate'[x] \in {"unwanted", "gone"}

LEMMA FateUnchangedFits == ASSUME Identity, fate' = fate PROVE FateFits
  BY DEF Identity, FateFits

LEMMA IdentityKept ==
    ASSUME Identity, NothingNew, NothingBegins, FateFits
    PROVE  Identity'
<1>1. \A x : Nowhere(x) => Nowhere(x)'
  BY DEF Nowhere, Running, NothingNew, NothingBegins
<1>2. \A q \in Processes, x \in Profiles : /\ Adds(q, x)' => Adds(q, x)
                                           /\ Removes(q, x)' => Removes(q, x)
                                           /\ Running(q)' => Running(q)
  BY DEF Adds, Removes, Running, NothingBegins
<1>3. \A x \in Profiles : fate'[x] = "new" =>
        Nowhere(x)' /\ \A q \in Processes : Running(q)' => proc'[q].profile # x
  BY <1>1, <1>2 DEF Identity, NothingBegins, FateFits, Running
<1>4. \A x \in Profiles : \A q \in Processes : Adds(q, x)' =>
        /\ proc'[q].at \in BeforeRename => Nowhere(x)' /\ fate'[x] # "gone"
        /\ \A r \in Processes : Adds(r, x)' => r = q
  BY <1>1, <1>2 DEF Identity, NothingBegins, FateFits, Adds, Running
<1>5. \A x \in Profiles : \A q \in Processes : Removes(q, x)' =>
        /\ fate'[x] \in {"unwanted", "gone"}
        /\ proc'[q].at \in AfterRead => x \in Stored(proc'[q].seen)
  BY <1>2 DEF Identity, NothingBegins, FateFits, Removes, Running
<1>. QED
  BY <1>3, <1>4, <1>5 DEF Identity

LEMMA IdentityInductive ==
    StoreTypeOK /\ Whole /\ Reading /\ Identity /\ [StoreNext]_storeVars => Identity'
<1>. SUFFICES ASSUME StoreTypeOK, Whole, Reading, Identity, [StoreNext]_storeVars PROVE Identity'
  OBVIOUS
<1>1. ASSUME NEW p \in Processes, AddProfile(p) PROVE Identity'
  <2>1. PICK x \in Profiles, password \in Passwords :
          /\ fate[x] = "new" /\ fate' = [fate EXCEPT ![x] = "made"]
          /\ Start(p, "add", x, password)
    BY <1>1 DEF AddProfile
  <2>2. /\ proc'[p] \in Command /\ proc'[p].command = "add" /\ proc'[p].profile = x
        /\ proc'[p].at = "read" /\ proc'[p].seen = Absent
        /\ \A q \in Processes : q # p => proc'[q] = proc[q]
    BY <2>1, StartType
  <2>3. file' = file /\ durable' = durable /\ Stored(Absent) = {}
    BY <1>1, StoreAssumption DEF AddProfile, files, Stored
  <2>4. fate'[x] = "made" /\ \A y \in Profiles : y # x => fate'[y] = fate[y]
    BY <2>1 DEF StoreTypeOK
  <2>5. ~Running(p) /\ Running(p)'
    BY <1>1, <2>2, CommandFields DEF AddProfile, Running
  <2>6. \A y : Nowhere(y) => Nowhere(y)'
    BY <2>2, <2>3 DEF Nowhere, Running
  <2>7. Nowhere(x) /\ \A q \in Processes : Running(q) => proc[q].profile # x
    BY <2>1 DEF Identity
  <2>8. \A y \in Profiles : \A q \in Processes :
          /\ Adds(q, y)' => (q = p /\ y = x) \/ (q # p /\ y # x /\ Adds(q, y))
          /\ Removes(q, y)' => q # p /\ y # x /\ Removes(q, y)
    BY <2>2, <2>5, <2>7 DEF Adds, Removes, Running
  <2>9. \A y \in Profiles : fate'[y] = "new" =>
          Nowhere(y)' /\ \A q \in Processes : Running(q)' => proc'[q].profile # y
    BY <2>2, <2>4, <2>6 DEF Identity, Running
  <2>10. \A y \in Profiles : \A q \in Processes : Adds(q, y)' =>
          /\ proc'[q].at \in BeforeRename => Nowhere(y)' /\ fate'[y] # "gone"
          /\ \A r \in Processes : Adds(r, y)' => r = q
    BY <2>2, <2>4, <2>6, <2>7, <2>8 DEF Identity
  <2>11. \A y \in Profiles : \A q \in Processes : Removes(q, y)' =>
          /\ fate'[y] \in {"unwanted", "gone"}
          /\ proc'[q].at \in AfterRead => y \in Stored(proc'[q].seen)
    BY <2>2, <2>4, <2>8 DEF Identity
  <2>. QED
    BY <2>9, <2>10, <2>11 DEF Identity
<1>2. ASSUME NEW p \in Processes, RemoveProfile(p) PROVE Identity'
  <2>1. PICK x \in Profiles, password \in Passwords :
          /\ fate[x] # "new" /\ fate' = [fate EXCEPT ![x] = "unwanted"]
          /\ Start(p, "remove", x, password)
    BY <1>2 DEF RemoveProfile
  <2>2. /\ proc'[p] \in Command /\ proc'[p].command = "remove" /\ proc'[p].profile = x
        /\ proc'[p].at = "read" /\ proc'[p].seen = Absent
        /\ \A q \in Processes : q # p => proc'[q] = proc[q]
    BY <2>1, StartType
  <2>3. file' = file /\ durable' = durable /\ Stored(Absent) = {}
    BY <1>2, StoreAssumption DEF RemoveProfile, files, Stored
  <2>4. fate'[x] = "unwanted" /\ \A y \in Profiles : y # x => fate'[y] = fate[y]
    BY <2>1 DEF StoreTypeOK
  <2>6. \A y : Nowhere(y) => Nowhere(y)'
    BY <2>2, <2>3 DEF Nowhere, Running
  <2>8. \A y \in Profiles : \A q \in Processes :
          /\ Adds(q, y)' => q # p /\ Adds(q, y)
          /\ Removes(q, y)' => (q = p /\ y = x) \/ (q # p /\ Removes(q, y))
    BY <2>2 DEF Adds, Removes, Running
  <2>9. \A y \in Profiles : fate'[y] = "new" =>
          Nowhere(y)' /\ \A q \in Processes : Running(q)' => proc'[q].profile # y
    BY <2>1, <2>2, <2>4, <2>6 DEF Identity, Running
  <2>10. \A y \in Profiles : \A q \in Processes : Adds(q, y)' =>
          /\ proc'[q].at \in BeforeRename => Nowhere(y)' /\ fate'[y] # "gone"
          /\ \A r \in Processes : Adds(r, y)' => r = q
    BY <2>2, <2>4, <2>6, <2>8 DEF Identity
  <2>11. \A y \in Profiles : \A q \in Processes : Removes(q, y)' =>
          /\ fate'[y] \in {"unwanted", "gone"}
          /\ proc'[q].at \in AfterRead => y \in Stored(proc'[q].seen)
    BY <2>2, <2>4, <2>8 DEF Identity, AfterRead
  <2>. QED
    BY <2>9, <2>10, <2>11 DEF Identity
<1>3. ASSUME NEW p \in Processes, Read(p) PROVE Identity'
  <2>1. /\ proc[p] \in Command /\ proc[p].at = "read"
        /\ proc'[p] \in Command /\ proc'[p].at \in {"create", "failed"}
        /\ proc'[p].command = proc[p].command /\ proc'[p].profile = proc[p].profile
        /\ proc'[p].seen \in {proc[p].seen, file}
        /\ proc'[p].at = "create" /\ proc[p].command = "remove" =>
             proc[p].profile \in Stored(proc'[p].seen)
        /\ \A q \in Processes : q # p => proc'[q] = proc[q]
        /\ UNCHANGED <<file, durable, fate>>
    BY <1>3, Reads DEF At
  <2>2. Running(p) /\ Running(p)'
    BY <2>1, CommandFields DEF Running
  <2>3. \A x : Nowhere(x) => Nowhere(x)'
    BY <2>1, <2>2 DEF Nowhere, Running
  <2>4. \A x \in Profiles : \A q \in Processes :
          /\ Adds(q, x)' <=> Adds(q, x)
          /\ Removes(q, x)' <=> Removes(q, x)
          /\ Running(q)' <=> Running(q)
    BY <2>1, <2>2 DEF Adds, Removes, Running
  <2>5. \A x \in Profiles : fate'[x] = "new" =>
          Nowhere(x)' /\ \A q \in Processes : Running(q)' => proc'[q].profile # x
    BY <2>1, <2>3, <2>4 DEF Identity
  <2>6. \A x \in Profiles : \A q \in Processes : Adds(q, x)' =>
          /\ proc'[q].at \in BeforeRename => Nowhere(x)' /\ fate'[x] # "gone"
          /\ \A r \in Processes : Adds(r, x)' => r = q
    BY <2>1, <2>3, <2>4 DEF Identity, BeforeRename
  <2>7. \A x \in Profiles : \A q \in Processes : Removes(q, x)' =>
          /\ fate'[x] \in {"unwanted", "gone"}
          /\ proc'[q].at \in AfterRead => x \in Stored(proc'[q].seen)
    BY <2>1, <2>4 DEF Identity, AfterRead, Removes
  <2>. QED
    BY <2>5, <2>6, <2>7 DEF Identity
<1>4. ASSUME NEW p \in Processes, Create(p) PROVE Identity'
  <2>1. NothingBegins /\ NothingNew /\ fate' = fate
    BY <1>4, AtRunning, CommandFields, Going
       DEF Create, At, Steps, history, NothingBegins, NothingNew, BeforeRename, AfterRead
  <2>. QED
    BY <2>1, FateUnchangedFits, IdentityKept
<1>5. ASSUME NEW p \in Processes, Write(p) PROVE Identity'
  <2>1. NothingBegins /\ NothingNew /\ fate' = fate
    BY <1>5, AtRunning, CommandFields, Going
       DEF Write, At, Steps, history, NothingBegins, NothingNew, BeforeRename, AfterRead
  <2>. QED
    BY <2>1, FateUnchangedFits, IdentityKept
<1>6. ASSUME NEW p \in Processes, Rename(p) PROVE Identity'
  <2>1. proc[p] \in Command /\ proc[p].at = "rename" /\ proc[p] # NoProcess
    BY <1>6, AtRunning, CommandFields DEF Rename, At, Steps
  <2>2. /\ proc'[p] \in Command /\ proc'[p].at \in {"flush", "tidy"}
        /\ proc'[p].command = proc[p].command /\ proc'[p].profile = proc[p].profile
        /\ proc'[p].seen = proc[p].seen
        /\ \A q \in Processes : q # p => proc'[q] = proc[q]
        /\ durable' = durable /\ fate' = fate
    BY <1>6, <2>1, Going DEF Rename, Steps
  <2>3. CASE file' = file
    <3>1. proc'[p].at \in {"flush", "tidy"} => NothingBegins /\ NothingNew
      BY <2>1, <2>2, <2>3 DEF NothingBegins, NothingNew, BeforeRename, AfterRead
    <3>. QED
      BY <2>2, <3>1, FateUnchangedFits, IdentityKept
  <2>4. CASE file' = Written(p)
    <3>1. Stored(file') = Changed(p)
      BY <2>1, <2>4, WrittenFields
    <3>2. Running(p) /\ Running(p)'
      BY <2>1, <2>2, CommandFields DEF Running
    <3>3. ASSUME NEW x \in Profiles, Nowhere(x), ~Adds(p, x) PROVE Nowhere(x)'
      <4>1. x \notin Changed(p)
        BY <3>2, <3>3 DEF Changed, Nowhere, Adds
      <4>. QED
        BY <2>2, <3>1, <3>2, <3>3, <4>1 DEF Nowhere, Running
    <3>4. \A x \in Profiles : \A q \in Processes :
            /\ Adds(q, x)' <=> Adds(q, x)
            /\ Removes(q, x)' <=> Removes(q, x)
            /\ Running(q)' <=> Running(q)
      BY <2>2, <3>2 DEF Adds, Removes, Running
    <3>5. \A x \in Profiles : fate'[x] = "new" =>
            Nowhere(x)' /\ \A q \in Processes : Running(q)' => proc'[q].profile # x
      BY <2>2, <3>2, <3>3, <3>4 DEF Identity, Adds
    <3>6. \A x \in Profiles : \A q \in Processes : Adds(q, x)' =>
            /\ proc'[q].at \in BeforeRename => Nowhere(x)' /\ fate'[x] # "gone"
            /\ \A r \in Processes : Adds(r, x)' => r = q
      BY <2>2, <3>3, <3>4 DEF Identity, BeforeRename
    <3>7. \A x \in Profiles : \A q \in Processes : Removes(q, x)' =>
            /\ fate'[x] \in {"unwanted", "gone"}
            /\ proc'[q].at \in AfterRead => x \in Stored(proc'[q].seen)
      BY <2>1, <2>2, <3>4 DEF Identity, AfterRead
    <3>. QED
      BY <3>5, <3>6, <3>7 DEF Identity
  <2>. QED
    BY <1>6, <2>3, <2>4 DEF Rename
<1>7. ASSUME NEW p \in Processes, Flush(p) PROVE Identity'
  <2>1. NothingBegins /\ NothingNew /\ fate' = fate
    BY <1>7, AtRunning, CommandFields, Going
       DEF Flush, At, Steps, history, NothingBegins, NothingNew, BeforeRename, AfterRead
  <2>. QED
    BY <2>1, FateUnchangedFits, IdentityKept
<1>8. ASSUME NEW p \in Processes, Tidy(p) PROVE Identity'
  <2>1. NothingBegins /\ NothingNew /\ fate' = fate
    BY <1>8, AtRunning, CommandFields, Going
       DEF Tidy, At, Steps, history, NothingBegins, NothingNew, BeforeRename, AfterRead
  <2>. QED
    BY <2>1, FateUnchangedFits, IdentityKept
<1>9. ASSUME NEW p \in Processes, Exit(p) PROVE Identity'
  <2>1. proc[p] \in Command /\ proc[p].at \in {"done", "failed"} /\ Running(p)
    BY <1>9, AtRunning, CommandFields DEF Exit, At, Steps, Running
  <2>2. proc'[p] = NoProcess /\ \A q \in Processes : q # p => proc'[q] = proc[q]
    BY <1>9 DEF Exit, StoreTypeOK
  <2>3. NothingBegins /\ NothingNew
    BY <1>9, <2>2 DEF Exit, files, NothingBegins, NothingNew
  <2>4. ASSUME NEW x \in Profiles
        PROVE  \/ fate'[x] = fate[x]
               \/ fate'[x] = "gone" /\ Removes(p, x) /\ proc[p].at = "done"
               \/ fate'[x] = "saved" /\ fate[x] = "made"
    BY <1>9, <2>1, CommandFields DEF Exit, At, StoreTypeOK, Removes
  <2>5. FateFits
    <3>1. ASSUME NEW x \in Profiles, fate'[x] = "new" PROVE fate[x] = "new"
      BY <2>4, <3>1
    <3>2. ASSUME NEW x \in Profiles, NEW q \in Processes,
                 Adds(q, x), proc[q].at \in BeforeRename
          PROVE  fate'[x] # "gone"
      <4>1. Nowhere(x) /\ fate[x] # "gone"
        BY <3>2 DEF Identity
      <4>2. ~(Removes(p, x) /\ proc[p].at = "done")
        BY <4>1, <2>1 DEF Identity, Nowhere, AfterRead
      <4>. QED
        BY <2>4, <4>1, <4>2
    <3>3. ASSUME NEW x \in Profiles, NEW q \in Processes, Removes(q, x)
          PROVE  fate'[x] \in {"unwanted", "gone"}
      <4>1. fate[x] \in {"unwanted", "gone"}
        BY <3>3 DEF Identity
      <4>. QED
        BY <2>4, <4>1
    <3>. QED
      BY <3>1, <3>2, <3>3 DEF FateFits
  <2>. QED
    BY <2>3, <2>5, IdentityKept
<1>10. ASSUME NEW p \in Processes, Kill(p) PROVE Identity'
  <2>1. NothingBegins /\ NothingNew /\ fate' = fate
    BY <1>10 DEF Kill, StoreTypeOK, NothingBegins, NothingNew
  <2>. QED
    BY <2>1, FateUnchangedFits, IdentityKept
<1>11. CASE PowerFails
  <2>1. NothingBegins /\ fate' = fate
    BY <1>11 DEF PowerFails, NothingBegins
  <2>2. file' \in {file, durable} /\ durable' = file'
    BY <1>11 DEF PowerFails, Survives, Whole
  <2>. QED
    BY <2>1, <2>2, FateUnchangedFits, IdentityKept DEF NothingNew
<1>12. CASE UNCHANGED storeVars
  <2>1. NothingBegins /\ NothingNew /\ fate' = fate
    BY <1>12 DEF storeVars, files, history, NothingBegins, NothingNew
  <2>. QED
    BY <2>1, FateUnchangedFits, IdentityKept
<1>. QED
  BY <1>1, <1>2, <1>3, <1>4, <1>5, <1>6, <1>7, <1>8, <1>9, <1>10, <1>11, <1>12
     DEF StoreNext, StoreRest, Step

-----------------------------------------------------------------------------
LEMMA ProtectedInductive ==
    StoreTypeOK /\ Whole /\ Reading /\ Protected /\ [StoreNext]_storeVars => Protected'
<1>. SUFFICES ASSUME StoreTypeOK, Whole, Reading, Protected, [StoreNext]_storeVars
              PROVE  Protected'
  OBVIOUS
<1>1. CASE UNCHANGED <<file, durable, raced>>
  BY <1>1 DEF Protected
<1>2. ASSUME NEW p \in Processes, Rename(p), file' # file PROVE Protected'
  <2>1. proc[p] \in Command /\ p \in Holding /\ file' = Written(p)
    BY <1>2, AtRunning DEF Rename, At, Holding, Steps
  <2>2. file' \in Contents /\ file'.password = proc[p].password /\ durable' = durable
    BY <1>2, <2>1, WrittenFields DEF Rename
  <2>3. ~raced' => ~raced /\ proc[p].seen = file
    BY <1>2, <2>1 DEF Rename, Reading
  <2>4. file \in Contents /\ ~raced' => file.password = proc[p].password
    BY <2>1, <2>3 DEF Reading
  <2>. QED
    BY <2>2, <2>3, <2>4 DEF Protected
<1>3. ASSUME NEW p \in Processes, Rename(p), file' = file PROVE Protected'
  <2>1. durable' = durable
    BY <1>3 DEF Rename
  <2>2. ~raced' => ~raced
    BY <1>3, Zenon DEF Rename
  <2>. QED
    BY <1>3, <2>1, <2>2 DEF Protected
<1>4. ASSUME NEW p \in Processes, Flush(p) PROVE Protected'
  BY <1>4 DEF Flush, Protected, history
<1>5. CASE PowerFails
  BY <1>5 DEF PowerFails, Survives, Whole, Protected
<1>6. \/ UNCHANGED <<file, durable, raced>>
      \/ \E p \in Processes : Rename(p) \/ Flush(p)
      \/ PowerFails
  BY DEF StoreNext, StoreRest, Step, AddProfile, RemoveProfile, Read, Create, Write, Tidy, Exit,
         Kill, storeVars, files, history
<1>. QED
  BY <1>1, <1>2, <1>3, <1>4, <1>5, <1>6

-----------------------------------------------------------------------------
\* A step that renames and flushes nothing, and after which nobody has newly
\* renamed or flushed, keeps the effects.
LEMMA EffectsKept ==
    ASSUME Effects, UNCHANGED <<file, durable, raced>>,
           \A x \in Profiles : fate'[x] = fate[x] \/ fate'[x] = "unwanted",
           \A q \in Processes : proc'[q].at \in {"flush", "done"} => proc'[q] = proc[q]
    PROVE  Effects'
<1>1. \A q \in Processes, x \in Profiles : proc'[q].at \in {"flush", "done"} =>
        /\ proc[q].at = proc'[q].at
        /\ Adds(q, x)' => Adds(q, x)
        /\ Removes(q, x)' => Removes(q, x)
  BY DEF Adds, Removes, Running
<1>2. SuccessLasts'
  BY DEF Effects, SuccessLasts
<1>3. ASSUME ~raced', NEW x \in Profiles, NEW p \in Processes,
             Adds(p, x)', proc'[p].at \in {"flush", "done"}, fate'[x] = "made"
      PROVE  /\ x \in Stored(file)'
             /\ At(p, "done")' => x \in Stored(durable)'
  BY <1>1, <1>3 DEF Effects, At
<1>4. ASSUME ~raced', NEW x \in Profiles, NEW p \in Processes,
             Removes(p, x)', proc'[p].at \in {"flush", "done"}
      PROVE  /\ x \notin Stored(file)'
             /\ At(p, "done")' => x \notin Stored(durable)'
  BY <1>1, <1>4 DEF Effects, At
<1>. QED
  BY <1>2, <1>3, <1>4 DEF Effects

LEMMA EffectsInductive ==
    StoreTypeOK /\ Whole /\ Identity /\ Reading /\ Effects /\ [StoreNext]_storeVars => Effects'
<1>. SUFFICES ASSUME StoreTypeOK, Whole, Identity, Reading, Effects, [StoreNext]_storeVars
              PROVE  Effects'
  OBVIOUS
<1>1. ASSUME NEW p \in Processes, AddProfile(p) PROVE Effects'
  <2>1. PICK x \in Profiles, password \in Passwords :
          /\ fate[x] = "new" /\ fate' = [fate EXCEPT ![x] = "made"]
          /\ Start(p, "add", x, password)
    BY <1>1 DEF AddProfile
  <2>2. /\ proc'[p].at = "read" /\ proc'[p].profile = x
        /\ \A q \in Processes : q # p => proc'[q] = proc[q]
    BY <2>1, StartType
  <2>3. /\ fate'[x] = "made"
        /\ \A y \in Profiles : y # x => fate'[y] = fate[y]
        /\ UNCHANGED <<file, durable, raced>>
    BY <1>1, <2>1 DEF AddProfile, files, StoreTypeOK
  <2>4. \A q \in Processes : Running(q) => proc[q].profile # x
    BY <2>1 DEF Identity
  <2>5. SuccessLasts'
    BY <2>3 DEF Effects, SuccessLasts
  <2>6. \A q \in Processes, y \in Profiles : proc'[q].at \in {"flush", "done"} =>
          /\ proc[q].at = proc'[q].at
          /\ Adds(q, y)' => Adds(q, y) /\ y # x
          /\ Removes(q, y)' => Removes(q, y) /\ y # x
    BY <2>2, <2>4 DEF Adds, Removes, Running
  <2>. QED
    BY <2>3, <2>5, <2>6 DEF Effects, At
<1>2. ASSUME NEW p \in Processes, RemoveProfile(p) PROVE Effects'
  <2>1. PICK x \in Profiles, password \in Passwords :
          /\ fate[x] # "new" /\ fate' = [fate EXCEPT ![x] = "unwanted"]
          /\ Start(p, "remove", x, password)
    BY <1>2 DEF RemoveProfile
  <2>2. /\ proc'[p].at = "read"
        /\ \A q \in Processes : q # p => proc'[q] = proc[q]
    BY <2>1, StartType
  <2>3. /\ fate'[x] = "unwanted"
        /\ \A y \in Profiles : y # x => fate'[y] = fate[y]
        /\ UNCHANGED <<file, durable, raced>>
    BY <1>2, <2>1 DEF RemoveProfile, files, StoreTypeOK
  <2>. QED
    BY <2>2, <2>3, EffectsKept
<1>3. ASSUME NEW p \in Processes, Read(p) PROVE Effects'
  BY <1>3, Reads, EffectsKept
<1>4. ASSUME NEW p \in Processes, Create(p) PROVE Effects'
  <2>1. /\ proc'[p].at \in {"write", "failed"}
        /\ \A q \in Processes : q # p => proc'[q] = proc[q]
        /\ UNCHANGED <<file, durable, raced, fate>>
    BY <1>4, AtRunning, Going DEF Create, Steps, history
  <2>. QED
    BY <2>1, EffectsKept
<1>5. ASSUME NEW p \in Processes, Write(p) PROVE Effects'
  <2>1. /\ proc'[p].at \in {"rename", "tidy"}
        /\ \A q \in Processes : q # p => proc'[q] = proc[q]
        /\ UNCHANGED <<file, durable, raced, fate>>
    BY <1>5, AtRunning, Going DEF Write, Steps, history
  <2>. QED
    BY <2>1, EffectsKept
<1>8. ASSUME NEW p \in Processes, Tidy(p) PROVE Effects'
  <2>1. /\ proc'[p].at = "failed"
        /\ \A q \in Processes : q # p => proc'[q] = proc[q]
        /\ UNCHANGED <<file, durable, raced, fate>>
    BY <1>8, AtRunning, Going DEF Tidy, Steps, history
  <2>. QED
    BY <2>1, EffectsKept
<1>10. ASSUME NEW p \in Processes, Kill(p) PROVE Effects'
  <2>1. /\ proc'[p] = NoProcess
        /\ \A q \in Processes : q # p => proc'[q] = proc[q]
        /\ UNCHANGED <<file, durable, raced, fate>>
    BY <1>10 DEF Kill, StoreTypeOK
  <2>2. proc'[p].at = "idle"
    BY <2>1 DEF NoProcess
  <2>. QED
    BY <2>1, <2>2, EffectsKept
<1>12. CASE UNCHANGED storeVars
  BY <1>12, EffectsKept DEF storeVars, files, history
<1>6. ASSUME NEW p \in Processes, Rename(p) PROVE Effects'
  <2>1. proc[p] \in Command /\ proc[p].at = "rename" /\ p \in Holding /\ Running(p)
    BY <1>6, AtRunning, CommandFields DEF Rename, At, Steps, Holding, Running
  <2>2. /\ proc'[p] \in Command /\ proc'[p].at \in {"flush", "tidy"}
        /\ proc'[p].command = proc[p].command /\ proc'[p].profile = proc[p].profile
        /\ \A q \in Processes : q # p => proc'[q] = proc[q]
        /\ UNCHANGED <<durable, fate>>
    BY <1>6, <2>1, Going DEF Rename, Steps
  <2>3. CASE Goto(p, "tidy") /\ UNCHANGED <<file, raced>>
    <3>1. proc'[p].at = "tidy"
      BY <2>1, <2>3, Going DEF Steps
    <3>. QED
      BY <2>2, <2>3, <3>1, EffectsKept
  <2>4. CASE /\ file' = Written(p) /\ raced' = (raced \/ p \in stale) /\ Goto(p, "flush")
    <3>. SUFFICES ASSUME ~raced' PROVE Effects'
      BY DEF Effects, SuccessLasts
    <3>1. ~raced /\ proc[p].seen = file
      BY <2>1, <2>4 DEF Reading
    <3>2. Stored(file') = IF proc[p].command = "add" THEN Stored(file) \cup {proc[p].profile}
                          ELSE Stored(file) \ {proc[p].profile}
      BY <2>1, <2>4, <3>1, WrittenFields DEF Changed
    <3>3. Running(p)' /\ proc'[p].at = "flush" /\ proc[p].profile \in Profiles
          /\ proc[p].command \in {"add", "remove"}
      BY <2>1, <2>2, <2>4, CommandFields, Going DEF Running, Steps
    <3>4. ASSUME NEW x \in Profiles, fate[x] \in {"made", "saved"}, x \in Stored(file)
          PROVE  x \in Stored(file')
      BY <2>1, <3>2, <3>3, <3>4 DEF Identity, Removes
    <3>5. ASSUME NEW x \in Profiles, x \notin Stored(file), x \in Stored(file')
          PROVE  Adds(p, x)
      BY <2>1, <3>2, <3>5 DEF Adds
    <3>6. \A x \in Profiles : fate[x] = "gone" => ~Adds(p, x)
      BY <2>1 DEF Identity, BeforeRename
    <3>7. SuccessLasts'
      BY <2>2, <3>1, <3>4, <3>5, <3>6 DEF Effects, SuccessLasts
    <3>8. ASSUME NEW x \in Profiles, NEW q \in Processes,
                 Adds(q, x)', proc'[q].at \in {"flush", "done"}, fate'[x] = "made"
          PROVE  /\ x \in Stored(file)'
                 /\ At(q, "done")' => x \in Stored(durable)'
      <4>1. CASE q = p
        BY <2>2, <3>2, <3>3, <3>8, <4>1 DEF Adds, At
      <4>2. CASE q # p
        <5>1. proc'[q] = proc[q] /\ Adds(q, x)
          BY <2>2, <3>8, <4>2 DEF Adds, Running
        <5>2. x \in Stored(file) /\ (At(q, "done") => x \in Stored(durable))
          BY <2>2, <3>1, <3>8, <5>1 DEF Effects
        <5>. QED
          BY <2>2, <3>4, <3>8, <5>1, <5>2 DEF At
      <4>. QED
        BY <4>1, <4>2
    <3>9. ASSUME NEW x \in Profiles, NEW q \in Processes,
                 Removes(q, x)', proc'[q].at \in {"flush", "done"}
          PROVE  /\ x \notin Stored(file)'
                 /\ At(q, "done")' => x \notin Stored(durable)'
      <4>1. CASE q = p
        BY <2>2, <3>2, <3>3, <3>9, <4>1 DEF Removes, At
      <4>2. CASE q # p
        <5>1. proc'[q] = proc[q] /\ Removes(q, x) /\ Running(q)
          BY <2>2, <3>9, <4>2 DEF Removes, Running
        <5>2. x \notin Stored(file) /\ (At(q, "done") => x \notin Stored(durable))
          BY <2>2, <3>1, <3>9, <5>1 DEF Effects
        <5>3. ~Adds(p, x)
          <6>1. x \in Stored(proc[q].seen)
            BY <3>9, <5>1 DEF Identity, AfterRead
          <6>. QED
            BY <2>1, <5>1, <6>1 DEF Identity, Nowhere, BeforeRename
        <5>. QED
          BY <2>2, <3>5, <5>1, <5>2, <5>3 DEF At
      <4>. QED
        BY <4>1, <4>2
    <3>. QED
      BY <3>7, <3>8, <3>9 DEF Effects
  <2>. QED
    BY <1>6, <2>3, <2>4 DEF Rename
<1>7. ASSUME NEW p \in Processes, Flush(p) PROVE Effects'
  <2>1. proc[p] \in Command /\ proc[p].at = "flush"
    BY <1>7, AtRunning DEF Flush, At, Steps
  <2>2. /\ proc'[p] \in Command
        /\ proc'[p].command = proc[p].command /\ proc'[p].profile = proc[p].profile
        /\ \A q \in Processes : q # p => proc'[q] = proc[q]
        /\ UNCHANGED <<file, raced, fate>>
    BY <1>7, <2>1, Going DEF Flush, Steps, history
  <2>3. CASE Goto(p, "tidy") /\ UNCHANGED durable
    <3>1. proc'[p].at = "tidy"
      BY <2>1, <2>3, Going DEF Steps
    <3>. QED
      BY <2>2, <2>3, <3>1, EffectsKept
  <2>4. CASE durable' = file
    <3>1. \A q \in Processes, x \in Profiles : /\ Adds(q, x)' => Adds(q, x)
                                               /\ Removes(q, x)' => Removes(q, x)
      BY <2>1, <2>2, CommandFields DEF Adds, Removes, Running
    <3>2. \A q \in Processes : proc'[q].at \in {"flush", "done"} => proc[q].at \in {"flush", "done"}
      BY <2>1, <2>2
    <3>3. SuccessLasts'
      BY <2>2, <2>4 DEF Effects, SuccessLasts
    <3>4. ASSUME ~raced, NEW x \in Profiles, NEW q \in Processes,
                 Adds(q, x)', proc'[q].at \in {"flush", "done"}, fate'[x] = "made"
          PROVE  x \in Stored(file)
      BY <2>2, <3>1, <3>2, <3>4 DEF Effects
    <3>5. ASSUME ~raced, NEW x \in Profiles, NEW q \in Processes,
                 Removes(q, x)', proc'[q].at \in {"flush", "done"}
          PROVE  x \notin Stored(file)
      BY <2>2, <3>1, <3>2, <3>5 DEF Effects
    <3>. QED
      BY <2>2, <2>4, <3>3, <3>4, <3>5 DEF Effects
  <2>. QED
    BY <1>7, <2>3, <2>4 DEF Flush
<1>9. ASSUME NEW p \in Processes, Exit(p) PROVE Effects'
  <2>1. proc[p] \in Command /\ proc[p].at \in {"done", "failed"} /\ Running(p)
    BY <1>9, AtRunning, CommandFields DEF Exit, At, Steps, Running
  <2>2. proc'[p] = NoProcess /\ \A q \in Processes : q # p => proc'[q] = proc[q]
    BY <1>9 DEF Exit, StoreTypeOK
  <2>3. UNCHANGED <<file, durable, raced>>
    BY <1>9 DEF Exit, files
  <2>4. ASSUME NEW x \in Profiles
        PROVE  \/ fate'[x] = fate[x]
               \/ fate'[x] = "gone" /\ Removes(p, x) /\ proc[p].at = "done"
               \/ fate'[x] = "saved" /\ fate[x] = "made" /\ Adds(p, x) /\ proc[p].at = "done"
    BY <1>9, <2>1, CommandFields DEF Exit, At, StoreTypeOK, Removes, Adds
  <2>5. SuccessLasts'
    BY <2>3, <2>4 DEF Effects, SuccessLasts, At
  <2>6. \A q \in Processes, x \in Profiles : /\ Adds(q, x)' => q # p /\ Adds(q, x)
                                             /\ Removes(q, x)' => q # p /\ Removes(q, x)
    BY <2>2 DEF Adds, Removes, Running
  <2>7. \A x \in Profiles : fate'[x] = "made" => fate[x] = "made"
    BY <2>4
  <2>. QED
    BY <2>2, <2>3, <2>5, <2>6, <2>7 DEF Effects, At
<1>11. CASE PowerFails
  <2>1. file' \in {file, durable} /\ durable' = file' /\ UNCHANGED <<fate, raced>>
    BY <1>11 DEF PowerFails, Survives, Whole
  <2>2. \A q \in Processes : proc'[q] = NoProcess
    BY <1>11 DEF PowerFails
  <2>3. SuccessLasts'
    BY <2>1 DEF Effects, SuccessLasts
  <2>. QED
    BY <2>2, <2>3 DEF Effects, Adds, Removes, Running
<1>. QED
  BY <1>1, <1>2, <1>3, <1>4, <1>5, <1>6, <1>7, <1>8, <1>9, <1>10, <1>11, <1>12
     DEF StoreNext, StoreRest, Step

-----------------------------------------------------------------------------
LEMMA StoreInitially == StoreInit => StoreIInv
<1>. SUFFICES ASSUME StoreInit PROVE StoreIInv
  OBVIOUS
<1>1. file = Absent /\ durable = Absent /\ Absent \notin Contents /\ Absent # Torn
  BY StoreAssumption DEF StoreInit
<1>2. \A p \in Processes : proc[p] = NoProcess /\ proc[p].at = "idle"
  BY DEF StoreInit, NoProcess
<1>3. StoreTypeOK
  BY <1>1 DEF StoreInit, StoreTypeOK
<1>4. Whole
  BY <1>1, <1>2 DEF Whole, At
<1>5. Identity
  BY <1>1, <1>2 DEF Identity, Nowhere, Stored, Adds, Removes, Running
<1>6. Reading
  BY <1>2 DEF Reading, Holding
<1>7. Effects
  <2>1. SuccessLasts
    BY <1>1 DEF StoreInit, SuccessLasts
  <2>. QED
    BY <1>2, <2>1 DEF Effects
<1>8. Protected
  BY <1>1 DEF Protected
<1>. QED
  BY <1>3, <1>4, <1>5, <1>6, <1>7, <1>8 DEF StoreIInv

LEMMA StoreInductive == StoreSpec => []StoreIInv
<1>1. StoreIInv /\ [StoreNext]_storeVars => StoreIInv'
  BY TypeInductive, WholeInductive, IdentityInductive, ReadingInductive, EffectsInductive,
     ProtectedInductive DEF StoreIInv
<1>. QED
  BY StoreInitially, <1>1, PTL DEF StoreSpec

\* Whatever processes run, files and commands keep their shapes and no process
\* holds a file it did not make.
THEOREM StoreTypeCorrect == StoreSpec => []StoreTypeOK
<1>1. StoreIInv => StoreTypeOK
  BY DEF StoreIInv
<1>. QED
  BY StoreInductive, <1>1, PTL

-----------------------------------------------------------------------------
\* Nobody ever reads a torn file, and none is on the disk (_write_encrypted_state
\* flushes the text before it renames).
THEOREM FileIsWhole == StoreSpec => []NeverTorn
<1>1. StoreIInv => NeverTorn
  BY DEF StoreIInv, Whole, NeverTorn
<1>. QED
  BY StoreInductive, <1>1, PTL

\* What commands reported as done is done, as long as no two of them raced,
\* whatever was killed and however often the power failed.
THEOREM WhatIsReportedLasts == StoreSpec => []SuccessLasts
<1>1. StoreIInv => SuccessLasts
  BY DEF StoreIInv, Effects
<1>. QED
  BY StoreInductive, <1>1, PTL

-----------------------------------------------------------------------------
(* The file keeps the promise of StoreContract.                            *)

\* Whole lets a crash bring back nothing else than the file or its predecessor,
\* Reading makes a rename one edit of what the file still is.
LEMMA FileSteps ==
    StoreIInv /\ [StoreNext]_storeVars => [FileContract!Next]_(FileContract!vars)
<1>. SUFFICES ASSUME StoreIInv, [StoreNext]_storeVars
              PROVE  FileContract!Next \/ UNCHANGED <<file, durable, raced>>
  BY DEF FileContract!vars, Stands
<1>. USE DEF StoreIInv
<1>1. ASSUME NEW p \in Processes, Rename(p)
      PROVE  FileContract!Next \/ UNCHANGED <<file, durable, raced>>
  <2>1. /\ proc[p] \in Command /\ p \in Holding
        /\ proc[p].profile \in Profiles /\ proc[p].password \in Passwords
    BY <1>1, AtRunning, CommandFields DEF Rename, At, Holding, Steps
  <2>2. CASE UNCHANGED <<file, raced>>
    BY <1>1, <2>2 DEF Rename
  <2>3. CASE file' = Written(p) /\ raced' = (raced \/ p \in stale)
    <3>1. /\ Stands(file)' = [secret |-> proc[p].password, keys |-> Changed(p)]
          /\ Stands(durable)' = Stands(durable)
          /\ Changed(p) \in SUBSET Profiles
      BY <1>1, <2>1, <2>3, WrittenFields DEF Rename, Stands, Stored, Contents
    <3>2. CASE p \in stale
      <4>1. raced' = TRUE
        BY <2>3, <3>2
      <4>2. Stands(file)' \in FileContract!Stores
        BY <2>1, <3>1 DEF FileContract!Stores
      <4>3. FileContract!Overlap
        BY <3>1, <4>1, <4>2 DEF FileContract!Overlap
      <4>. QED
        BY <4>3 DEF FileContract!Next
    <3>3. CASE p \notin stale
      <4>1. /\ proc[p].seen = file /\ UNCHANGED raced
            /\ file \in Contents => file.password = proc[p].password
        BY <2>1, <2>3, <3>3 DEF Reading, StoreTypeOK
      <4>2. Stands(file).keys = Stored(file) /\ Stands(file).secret \in {Absent, proc[p].password}
        BY <4>1 DEF Stands, StoreTypeOK, Whole
      <4>3. CASE proc[p].command = "add"
        <5>1. FileContract!Add(proc[p].profile, proc[p].password)
          BY <3>1, <4>1, <4>2, <4>3 DEF FileContract!Add, Changed
        <5>. QED
          BY <2>1, <5>1 DEF FileContract!Next
      <4>4. CASE proc[p].command = "remove"
        <5>1. file \in Contents
          BY <2>1, <4>1, <4>4 DEF Identity, Removes, AfterRead, Stored, Holding, Running, NoProcess
        <5>2. Stands(file) = [secret |-> proc[p].password, keys |-> Stored(file)]
          BY <4>1, <5>1 DEF Stands
        <5>3. [Stands(file) EXCEPT !.keys = @ \ {proc[p].profile}]
                = [secret |-> proc[p].password, keys |-> Stored(file) \ {proc[p].profile}]
          BY <5>2
        <5>4. Changed(p) = Stored(file) \ {proc[p].profile}
          BY <4>1, <4>4 DEF Changed
        <5>5. FileContract!Remove(proc[p].profile)
          BY <3>1, <4>1, <5>3, <5>4 DEF FileContract!Remove
        <5>. QED
          BY <2>1, <5>5 DEF FileContract!Next
      <4>. QED
        BY <2>1, <4>3, <4>4, CommandFields
    <3>. QED
      BY <3>2, <3>3
  <2>. QED
    BY <1>1, <2>2, <2>3 DEF Rename
<1>2. ASSUME NEW p \in Processes, Flush(p)
      PROVE  FileContract!Next \/ UNCHANGED <<file, durable, raced>>
  BY <1>2 DEF Flush, history, FileContract!Next, FileContract!Flush, Stands
<1>3. CASE PowerFails
  <2>1. file' \in {file, durable} /\ durable' = file' /\ UNCHANGED raced
    BY <1>3 DEF PowerFails, Survives, Whole
  <2>. QED
    BY <2>1 DEF FileContract!Next, FileContract!Crash, Stands
<1>4. \/ UNCHANGED <<file, durable, raced>>
      \/ \E p \in Processes : Rename(p) \/ Flush(p)
      \/ PowerFails
  BY DEF StoreNext, StoreRest, Step, AddProfile, RemoveProfile, Read, Create, Write, Tidy, Exit,
         Kill, storeVars, files, history
<1>. QED
  BY <1>1, <1>2, <1>3, <1>4

\* Whatever is killed, and however often the power fails, the profile file is to
\* its users one store that is edited whole under one password, and loses an
\* edit only if two commands have raced.
THEOREM FileIsAStore == StoreSpec => FileIsAtomic
<1>1. StoreInit => FileContract!Init
  BY StoreAssumption DEF StoreInit, FileContract!Init, FileContract!Empty, Stands, Stored
<1>. QED
  BY <1>1, StoreInductive, FileSteps, PTL DEF StoreSpec, FileIsAtomic, FileContract!Spec

-----------------------------------------------------------------------------
(* The phone.                                                              *)


Editing(t) == task[t] \in Edit
Adding(t, x) == Editing(t) /\ task[t].command = "add" /\ task[t].entry = x

Known == \A t \in Tasks : ~Idle(t) =>
    /\ \A x \in task[t].seen : told[x] # "new"
    /\ Editing(t) => told[task[t].entry] # "new"

Apart == \A t \in Tasks : \A x \in Entries : Adding(t, x) =>
    /\ told[x] = "made"
    /\ x \notin prefs /\ x \notin disk /\ x \notin screen
    /\ \A u \in Tasks : /\ ~Idle(u) => x \notin task[u].seen
                        /\ Editing(u) /\ task[u].entry = x => u = t

UpToDate == /\ behind \subseteq Loaded
            /\ \A t \in Loaded : t \notin behind => task[t].seen = prefs

Coming == \/ screen = prefs \/ overtaken
          \/ \E t \in Tasks : task[t].at = "reload" \/ (task[t].at = "show" /\ t \notin behind)

PhoneIInv == PhoneTypeOK /\ Known /\ Apart /\ UpToDate /\ Coming /\ EditsLast

-----------------------------------------------------------------------------
(* The shape of the coroutines.                                            *)

LEMMA TaskShapes ==
    ASSUME PhoneTypeOK, NEW t \in Tasks
    PROVE  /\ task[t].at \in {"load", "save"} => Editing(t) /\ ~Idle(t)
           /\ task[t].at \in {"reload", "show"} => task[t] \in Reload /\ ~Editing(t) /\ ~Idle(t)
           /\ Idle(t) => task[t].at = "idle" /\ ~Editing(t)
           /\ ~Idle(t) => task[t].at \in {"load", "save", "reload", "show"}
           /\ ~Idle(t) => task[t].seen \in SUBSET Entries
           /\ Editing(t) => task[t].at \in {"load", "save"} /\ task[t].entry \in Entries
                            /\ task[t].command \in {"add", "remove"}
  BY DEF PhoneTypeOK, Edit, Reload, NoTask, Editing, Idle

LEMMA EditUpdates ==
    ASSUME NEW c \in Edit, NEW seen \in SUBSET Entries
    PROVE  [c EXCEPT !.at = "save", !.seen = seen] \in Edit
  BY DEF Edit

LEMMA NewEdit ==
    ASSUME NEW command \in {"add", "remove"}, NEW x \in Entries
    PROVE  [at |-> "load", command |-> command, entry |-> x, seen |-> {}] \in Edit
  BY DEF Edit

LEMMA NewReload ==
    /\ [at |-> "reload", seen |-> {}] \in Reload
    /\ \A c \in Reload, seen \in SUBSET Entries : [c EXCEPT !.at = "show", !.seen = seen] \in Reload
  BY DEF Reload

\* What the steps of a coroutine make of it.
LEMMA LoadTask ==
    ASSUME PhoneTypeOK, NEW t \in Tasks, Load(t)
    PROVE  /\ Editing(t) /\ Editing(t)' /\ task'[t].at = "save" /\ task'[t].seen = prefs
           /\ task'[t].command = task[t].command /\ task'[t].entry = task[t].entry
           /\ task' \in [Tasks -> Edit \cup Reload \cup {NoTask}]
           /\ \A u \in Tasks : u # t => task'[u] = task[u]
<1>1. Editing(t) /\ task[t] \in Edit
  BY TaskShapes DEF Load, Editing
<1>2. task' = [task EXCEPT ![t] = [task[t] EXCEPT !.at = "save", !.seen = prefs]]
  BY DEF Load
<1>3. [task[t] EXCEPT !.at = "save", !.seen = prefs] \in Edit
  BY <1>1, EditUpdates DEF PhoneTypeOK
<1>4. task'[t] = [task[t] EXCEPT !.at = "save", !.seen = prefs]
  BY <1>2 DEF PhoneTypeOK
<1>5. /\ task'[t].at = "save" /\ task'[t].seen = prefs
      /\ task'[t].command = task[t].command /\ task'[t].entry = task[t].entry
  BY <1>1, <1>4 DEF Edit
<1>6. task' \in [Tasks -> Edit \cup Reload \cup {NoTask}]
      /\ \A u \in Tasks : u # t => task'[u] = task[u]
  BY <1>2, <1>3 DEF PhoneTypeOK
<1>. QED
  BY <1>1, <1>3, <1>4, <1>5, <1>6 DEF Editing

LEMMA LoadAgainTask ==
    ASSUME PhoneTypeOK, NEW t \in Tasks, LoadAgain(t)
    PROVE  /\ task'[t] \in Reload /\ task'[t].at = "show" /\ task'[t].seen = prefs
           /\ task' \in [Tasks -> Edit \cup Reload \cup {NoTask}]
           /\ \A u \in Tasks : u # t => task'[u] = task[u]
<1>1. task[t] \in Reload
  BY TaskShapes DEF LoadAgain
<1>2. task' = [task EXCEPT ![t] = [task[t] EXCEPT !.at = "show", !.seen = prefs]]
  BY DEF LoadAgain
<1>3. [task[t] EXCEPT !.at = "show", !.seen = prefs] \in Reload
  BY <1>1, NewReload DEF PhoneTypeOK
<1>4. task'[t] = [task[t] EXCEPT !.at = "show", !.seen = prefs]
  BY <1>2 DEF PhoneTypeOK
<1>5. task'[t].at = "show" /\ task'[t].seen = prefs
  BY <1>1, <1>4 DEF Reload
<1>6. task' \in [Tasks -> Edit \cup Reload \cup {NoTask}]
      /\ \A u \in Tasks : u # t => task'[u] = task[u]
  BY <1>2, <1>3 DEF PhoneTypeOK
<1>. QED
  BY <1>3, <1>4, <1>5, <1>6

LEMMA SaveTask ==
    ASSUME PhoneTypeOK, NEW t \in Tasks, Save(t)
    PROVE  /\ Editing(t) /\ task[t].at = "save"
           /\ task'[t] \in Reload /\ task'[t].at = "reload" /\ task'[t].seen = {}
           /\ task' \in [Tasks -> Edit \cup Reload \cup {NoTask}]
           /\ \A u \in Tasks : u # t => task'[u] = task[u]
           /\ told' \in [Entries -> {"new", "made", "saved", "unwanted", "gone"}]
           /\ \A x \in Entries : x # task[t].entry => told'[x] = told[x]
           /\ task[t].command = "remove" => told'[task[t].entry] = "gone"
           /\ task[t].command = "add" =>
                /\ told[task[t].entry] = "made" => told'[task[t].entry] = "saved"
                /\ told[task[t].entry] # "made" => told'[task[t].entry] = told[task[t].entry]
<1>1. Editing(t) /\ task[t].at = "save" /\ task[t].entry \in Entries
  BY TaskShapes DEF Save
<1>2. task' = [task EXCEPT ![t] = [at |-> "reload", seen |-> {}]]
  BY DEF Save
<1>3. /\ task'[t] = [at |-> "reload", seen |-> {}]
      /\ task'[t] \in Reload /\ task'[t].at = "reload" /\ task'[t].seen = {}
      /\ task' \in [Tasks -> Edit \cup Reload \cup {NoTask}]
      /\ \A u \in Tasks : u # t => task'[u] = task[u]
  BY <1>2, NewReload DEF PhoneTypeOK
<1>4. /\ told' \in [Entries -> {"new", "made", "saved", "unwanted", "gone"}]
      /\ \A x \in Entries : x # task[t].entry => told'[x] = told[x]
      /\ task[t].command = "remove" => told'[task[t].entry] = "gone"
      /\ task[t].command = "add" =>
           /\ told[task[t].entry] = "made" => told'[task[t].entry] = "saved"
           /\ told[task[t].entry] # "made" => told'[task[t].entry] = told[task[t].entry]
  BY <1>1 DEF Save, PhoneTypeOK
<1>. QED
  BY <1>1, <1>3, <1>4

\* The other steps leave a coroutine new, at its end or killed.
LEMMA TapTask ==
    ASSUME PhoneTypeOK, NEW t \in Tasks, NEW command \in {"add", "remove"}, NEW x \in Entries,
           task' = [task EXCEPT ![t] = [at |-> "load", command |-> command, entry |-> x,
                                        seen |-> {}]]
    PROVE  /\ Editing(t)' /\ ~Idle(t)' /\ task'[t].at = "load" /\ task'[t].seen = {}
           /\ task'[t].command = command /\ task'[t].entry = x
           /\ task' \in [Tasks -> Edit \cup Reload \cup {NoTask}]
           /\ \A u \in Tasks : u # t => task'[u] = task[u]
  BY NewEdit DEF PhoneTypeOK, Editing, Idle, NoTask

LEMMA ShowTask ==
    ASSUME PhoneTypeOK, NEW t \in Tasks, Show(t)
    PROVE  /\ task[t] \in Reload /\ task'[t] = NoTask
           /\ task' \in [Tasks -> Edit \cup Reload \cup {NoTask}]
           /\ \A u \in Tasks : u # t => task'[u] = task[u]
  BY TaskShapes DEF Show, PhoneTypeOK

LEMMA RestartTask ==
    ASSUME PhoneTypeOK, Restart
    PROVE  \E t \in Tasks : /\ task'[t] \in Reload /\ task'[t].at = "reload" /\ task'[t].seen = {}
                            /\ \A u \in Tasks : u # t => task'[u] = NoTask
                            /\ task' \in [Tasks -> Edit \cup Reload \cup {NoTask}]
<1>1. PICK t \in Tasks : task' = [u \in Tasks |-> IF u = t THEN [at |-> "reload", seen |-> {}]
                                                  ELSE NoTask]
  BY DEF Restart
<1>. QED
  BY <1>1, NewReload

LEMMA ReloadShape ==
    /\ \A c \in Reload : c \notin Edit /\ c # NoTask /\ c.at \in {"reload", "show"}
    /\ \A c \in Edit : c \notin Reload /\ c # NoTask /\ c.at \in {"load", "save"}
    /\ NoTask \notin Edit /\ NoTask \notin Reload /\ NoTask.at = "idle"
  BY DEF Reload, Edit, NoTask

-----------------------------------------------------------------------------
LEMMA PhoneTypeInductive == PhoneTypeOK /\ Known /\ [PhoneNext]_phoneVars => PhoneTypeOK'
<1>. SUFFICES ASSUME PhoneTypeOK, Known, [PhoneNext]_phoneVars PROVE PhoneTypeOK'
  OBVIOUS
<1>1. ASSUME NEW t \in Tasks, TapAdd(t) PROVE PhoneTypeOK'
  <2>1. PICK x \in Entries :
          /\ told' = [told EXCEPT ![x] = "made"]
          /\ task' = [task EXCEPT ![t] = [at |-> "load", command |-> "add", entry |-> x,
                                          seen |-> {}]]
    BY <1>1 DEF TapAdd
  <2>2. task' \in [Tasks -> Edit \cup Reload \cup {NoTask}]
    BY <2>1, TapTask
  <2>3. /\ told' \in [Entries -> {"new", "made", "saved", "unwanted", "gone"}]
        /\ \A y \in Entries : told[y] # "new" => told'[y] # "new"
    BY <2>1 DEF PhoneTypeOK
  <2>. QED
    BY <1>1, <2>2, <2>3 DEF TapAdd, PhoneTypeOK
<1>2. ASSUME NEW t \in Tasks, TapRemove(t) PROVE PhoneTypeOK'
  <2>1. PICK x \in screen :
          /\ told' = [told EXCEPT ![x] = "unwanted"]
          /\ task' = [task EXCEPT ![t] = [at |-> "load", command |-> "remove", entry |-> x,
                                          seen |-> {}]]
    BY <1>2 DEF TapRemove
  <2>2. x \in Entries
    BY DEF PhoneTypeOK
  <2>3. task' \in [Tasks -> Edit \cup Reload \cup {NoTask}]
    BY <2>1, <2>2, TapTask
  <2>4. /\ told' \in [Entries -> {"new", "made", "saved", "unwanted", "gone"}]
        /\ \A y \in Entries : told[y] # "new" => told'[y] # "new"
    BY <2>1, <2>2 DEF PhoneTypeOK
  <2>5. prefs' \cup disk' \cup screen' \subseteq {y \in Entries : told'[y] # "new"}
    BY <1>2, <2>4 DEF TapRemove, PhoneTypeOK
  <2>6. UNCHANGED <<behind, overtaken, overlaid, unflushed>>
    BY <1>2 DEF TapRemove
  <2>. QED
    BY <2>3, <2>4, <2>5, <2>6 DEF PhoneTypeOK
<1>3. ASSUME NEW t \in Tasks, Load(t) PROVE PhoneTypeOK'
  BY <1>3, LoadTask DEF Load, PhoneTypeOK
<1>4. ASSUME NEW t \in Tasks, Save(t) PROVE PhoneTypeOK'
  <2>1. \A x \in Edited(t) : x \in Entries /\ told[x] # "new"
    BY <1>4, SaveTask, TaskShapes DEF Edited, Known
  <2>2. \A x \in Entries : told[x] # "new" => told'[x] # "new"
    BY <1>4, SaveTask, TaskShapes
  <2>3. prefs' \cup disk' \cup screen' \subseteq {y \in Entries : told'[y] # "new"}
    BY <1>4, <2>1, <2>2 DEF Save, PhoneTypeOK
  <2>4. behind' \subseteq Tasks /\ overlaid' \in BOOLEAN
    BY <1>4 DEF Save, PhoneTypeOK, Loaded
  <2>5. UNCHANGED <<overtaken, unflushed>>
    BY <1>4 DEF Save
  <2>. QED
    BY <1>4, <2>3, <2>4, <2>5, SaveTask DEF PhoneTypeOK
<1>5. ASSUME NEW t \in Tasks, LoadAgain(t) PROVE PhoneTypeOK'
  BY <1>5, LoadAgainTask DEF LoadAgain, PhoneTypeOK
<1>6. ASSUME NEW t \in Tasks, Show(t) PROVE PhoneTypeOK'
  <2>1. \A x \in task[t].seen : x \in Entries /\ told[x] # "new"
    BY <1>6, TaskShapes DEF Show, Known
  <2>. QED
    BY <1>6, <2>1, ShowTask DEF Show, PhoneTypeOK
<1>7. CASE Flushed
  BY <1>7 DEF Flushed, PhoneTypeOK
<1>8. CASE Restart
  BY <1>8, RestartTask DEF Restart, PhoneTypeOK
<1>9. CASE UNCHANGED phoneVars
  BY <1>9 DEF phoneVars, PhoneTypeOK
<1>. QED
  BY <1>1, <1>2, <1>3, <1>4, <1>5, <1>6, <1>7, <1>8, <1>9 DEF PhoneNext, PhoneRest

LEMMA KnownInductive == PhoneTypeOK /\ Known /\ [PhoneNext]_phoneVars => Known'
<1>. SUFFICES ASSUME PhoneTypeOK, Known, [PhoneNext]_phoneVars PROVE Known'
  OBVIOUS
<1>. USE DEF Idle, Editing
<1>1. ASSUME NEW t \in Tasks, TapAdd(t) PROVE Known'
  <2>1. PICK x \in Entries :
          /\ told' = [told EXCEPT ![x] = "made"]
          /\ task' = [task EXCEPT ![t] = [at |-> "load", command |-> "add", entry |-> x,
                                          seen |-> {}]]
    BY <1>1 DEF TapAdd
  <2>2. /\ task'[t].entry = x /\ task'[t].seen = {}
        /\ \A u \in Tasks : u # t => task'[u] = task[u]
    BY <2>1, TapTask
  <2>3. \A y \in Entries : told'[y] = "new" => told[y] = "new" /\ y # x
    BY <2>1 DEF PhoneTypeOK
  <2>. QED
    BY <2>2, <2>3, TaskShapes DEF Known
<1>2. ASSUME NEW t \in Tasks, TapRemove(t) PROVE Known'
  <2>1. PICK x \in screen :
          /\ told' = [told EXCEPT ![x] = "unwanted"]
          /\ task' = [task EXCEPT ![t] = [at |-> "load", command |-> "remove", entry |-> x,
                                          seen |-> {}]]
    BY <1>2 DEF TapRemove
  <2>2. x \in Entries
    BY DEF PhoneTypeOK
  <2>3. /\ task'[t].entry = x /\ task'[t].seen = {}
        /\ \A u \in Tasks : u # t => task'[u] = task[u]
    BY <2>1, <2>2, TapTask
  <2>4. \A y \in Entries : told'[y] = "new" => told[y] = "new" /\ y # x
    BY <2>1, <2>2 DEF PhoneTypeOK
  <2>. QED
    BY <2>2, <2>3, <2>4, TaskShapes DEF Known
<1>3. ASSUME NEW t \in Tasks, Load(t) PROVE Known'
  <2>1. told' = told /\ \A x \in prefs : told[x] # "new"
    BY <1>3 DEF Load, PhoneTypeOK
  <2>2. Editing(t) /\ ~Idle(t)
    BY <1>3, TaskShapes DEF Load
  <2>. QED
    BY <1>3, <2>1, <2>2, LoadTask DEF Known
<1>4. ASSUME NEW t \in Tasks, Save(t) PROVE Known'
  <2>1. \A x \in Entries : told[x] # "new" => told'[x] # "new"
    BY <1>4, SaveTask, TaskShapes
  <2>2. task'[t] \notin Edit /\ task'[t].seen = {}
    BY <1>4, SaveTask, ReloadShape
  <2>. QED
    BY <1>4, <2>1, <2>2, SaveTask, TaskShapes DEF Known
<1>5. ASSUME NEW t \in Tasks, LoadAgain(t) PROVE Known'
  <2>1. told' = told /\ \A x \in prefs : told[x] # "new"
    BY <1>5 DEF LoadAgain, PhoneTypeOK
  <2>. QED
    BY <1>5, <2>1, LoadAgainTask, ReloadShape DEF Known
<1>6. ASSUME NEW t \in Tasks, Show(t) PROVE Known'
  BY <1>6, ShowTask DEF Show, Known
<1>7. CASE Flushed
  BY <1>7 DEF Flushed, Known
<1>8. CASE Restart
  <2>1. \A t \in Tasks : task'[t] = NoTask \/ (task'[t] \in Reload /\ task'[t].seen = {})
    BY <1>8, RestartTask
  <2>. QED
    BY <2>1, ReloadShape DEF Known
<1>9. CASE UNCHANGED phoneVars
  BY <1>9 DEF phoneVars, Known
<1>. QED
  BY <1>1, <1>2, <1>3, <1>4, <1>5, <1>6, <1>7, <1>8, <1>9 DEF PhoneNext, PhoneRest

LEMMA UpToDateInductive == PhoneTypeOK /\ UpToDate /\ [PhoneNext]_phoneVars => UpToDate'
<1>. SUFFICES ASSUME PhoneTypeOK, UpToDate, [PhoneNext]_phoneVars PROVE UpToDate'
  OBVIOUS
<1>. USE DEF UpToDate, Loaded
<1>1. ASSUME NEW t \in Tasks, TapAdd(t) PROVE UpToDate'
  BY <1>1, TapTask, TaskShapes DEF TapAdd
<1>2. ASSUME NEW t \in Tasks, TapRemove(t) PROVE UpToDate'
  <2>1. PICK x \in Entries :
          task' = [task EXCEPT ![t] = [at |-> "load", command |-> "remove", entry |-> x,
                                       seen |-> {}]]
    BY <1>2 DEF TapRemove, PhoneTypeOK
  <2>. QED
    BY <1>2, <2>1, TapTask, TaskShapes DEF TapRemove
<1>3. ASSUME NEW t \in Tasks, Load(t) PROVE UpToDate'
  BY <1>3, LoadTask DEF Load
<1>4. ASSUME NEW t \in Tasks, Save(t) PROVE UpToDate'
  BY <1>4, SaveTask DEF Save
<1>5. ASSUME NEW t \in Tasks, LoadAgain(t) PROVE UpToDate'
  BY <1>5, LoadAgainTask DEF LoadAgain
<1>6. ASSUME NEW t \in Tasks, Show(t) PROVE UpToDate'
  BY <1>6, ShowTask, ReloadShape DEF Show
<1>7. CASE Flushed
  BY <1>7 DEF Flushed
<1>8. CASE Restart
  <2>1. \A t \in Tasks : task'[t] = NoTask \/ task'[t].at = "reload"
    BY <1>8, RestartTask
  <2>. QED
    BY <1>8, <2>1, ReloadShape DEF Restart
<1>9. CASE UNCHANGED phoneVars
  BY <1>9 DEF phoneVars
<1>. QED
  BY <1>1, <1>2, <1>3, <1>4, <1>5, <1>6, <1>7, <1>8, <1>9 DEF PhoneNext, PhoneRest

LEMMA ComingInductive == PhoneTypeOK /\ UpToDate /\ Coming /\ [PhoneNext]_phoneVars => Coming'
<1>. SUFFICES ASSUME PhoneTypeOK, UpToDate, Coming, [PhoneNext]_phoneVars PROVE Coming'
  OBVIOUS
<1>1. ASSUME NEW t \in Tasks, TapAdd(t) PROVE Coming'
  BY <1>1, TapTask, TaskShapes DEF TapAdd, Coming
<1>2. ASSUME NEW t \in Tasks, TapRemove(t) PROVE Coming'
  <2>1. PICK x \in Entries :
          task' = [task EXCEPT ![t] = [at |-> "load", command |-> "remove", entry |-> x,
                                       seen |-> {}]]
    BY <1>2 DEF TapRemove, PhoneTypeOK
  <2>. QED
    BY <1>2, <2>1, TapTask, TaskShapes DEF TapRemove, Coming
<1>3. ASSUME NEW t \in Tasks, Load(t) PROVE Coming'
  BY <1>3, LoadTask DEF Load, Coming
<1>4. ASSUME NEW t \in Tasks, Save(t) PROVE Coming'
  BY <1>4, SaveTask DEF Coming
<1>5. ASSUME NEW t \in Tasks, LoadAgain(t) PROVE Coming'
  <2>1. t \notin behind
    BY <1>5 DEF LoadAgain, UpToDate, Loaded
  <2>. QED
    BY <1>5, <2>1, LoadAgainTask DEF LoadAgain, Coming
<1>6. ASSUME NEW t \in Tasks, Show(t) PROVE Coming'
  <2>1. CASE t \in behind
    BY <1>6, <2>1 DEF Show, Coming
  <2>2. CASE t \notin behind
    BY <1>6, <2>2 DEF Show, UpToDate, Loaded, Coming
  <2>. QED
    BY <2>1, <2>2
<1>7. CASE Flushed
  BY <1>7 DEF Flushed, Coming
<1>8. CASE Restart
  BY <1>8, RestartTask DEF Coming
<1>9. CASE UNCHANGED phoneVars
  BY <1>9 DEF phoneVars, Coming
<1>. QED
  BY <1>1, <1>2, <1>3, <1>4, <1>5, <1>6, <1>7, <1>8, <1>9 DEF PhoneNext, PhoneRest

LEMMA ApartInductive == PhoneTypeOK /\ Known /\ Apart /\ [PhoneNext]_phoneVars => Apart'
<1>. SUFFICES ASSUME PhoneTypeOK, Known, Apart, [PhoneNext]_phoneVars PROVE Apart'
  OBVIOUS
<1>1. ASSUME NEW t \in Tasks, TapAdd(t) PROVE Apart'
  <2>1. PICK x \in Entries :
          /\ told[x] = "new"
          /\ told' = [told EXCEPT ![x] = "made"]
          /\ task' = [task EXCEPT ![t] = [at |-> "load", command |-> "add", entry |-> x,
                                          seen |-> {}]]
    BY <1>1 DEF TapAdd
  <2>2. /\ task'[t].entry = x /\ task'[t].seen = {}
        /\ \A u \in Tasks : u # t => task'[u] = task[u]
    BY <2>1, TapTask
  <2>3. \A u \in Tasks : /\ ~Idle(u) => x \notin task[u].seen
                         /\ Editing(u) => task[u].entry # x
    BY <2>1, TaskShapes DEF Known
  <2>4. x \notin prefs /\ x \notin disk /\ x \notin screen /\ told'[x] = "made"
    BY <2>1 DEF PhoneTypeOK
  <2>5. \A y \in Entries : y # x => told'[y] = told[y]
    BY <2>1 DEF PhoneTypeOK
  <2>6. prefs' = prefs /\ disk' = disk /\ screen' = screen
    BY <1>1 DEF TapAdd
  <2>7. SUFFICES ASSUME NEW a \in Tasks, NEW y \in Entries, Adding(a, y)'
                 PROVE  /\ told'[y] = "made" /\ y \notin prefs /\ y \notin disk /\ y \notin screen
                        /\ \A u \in Tasks : /\ ~Idle(u)' => y \notin task'[u].seen
                                            /\ Editing(u)' /\ task'[u].entry = y => u = a
    BY <2>6 DEF Apart
  <2>8. CASE a = t
    BY <2>2, <2>3, <2>4, <2>7, <2>8 DEF Adding, Editing, Idle
  <2>9. CASE a # t
    <3>1. Adding(a, y) /\ y # x
      BY <2>2, <2>3, <2>7, <2>9 DEF Adding, Editing
    <3>. QED
      BY <2>2, <2>5, <2>9, <3>1 DEF Apart, Editing, Idle
  <2>. QED
    BY <2>8, <2>9
<1>2. ASSUME NEW t \in Tasks, TapRemove(t) PROVE Apart'
  <2>1. PICK x \in screen :
          /\ told' = [told EXCEPT ![x] = "unwanted"]
          /\ task' = [task EXCEPT ![t] = [at |-> "load", command |-> "remove", entry |-> x,
                                          seen |-> {}]]
    BY <1>2 DEF TapRemove
  <2>2. x \in Entries
    BY DEF PhoneTypeOK
  <2>3. /\ task'[t].entry = x /\ task'[t].seen = {} /\ task'[t].command = "remove"
        /\ \A u \in Tasks : u # t => task'[u] = task[u]
    BY <2>1, <2>2, TapTask
  <2>4. \A y \in Entries : y # x => told'[y] = told[y]
    BY <2>1, <2>2 DEF PhoneTypeOK
  <2>5. prefs' = prefs /\ disk' = disk /\ screen' = screen
    BY <1>2 DEF TapRemove
  <2>6. SUFFICES ASSUME NEW a \in Tasks, NEW y \in Entries, Adding(a, y)'
                 PROVE  /\ told'[y] = "made" /\ y \notin prefs /\ y \notin disk /\ y \notin screen
                        /\ \A u \in Tasks : /\ ~Idle(u)' => y \notin task'[u].seen
                                            /\ Editing(u)' /\ task'[u].entry = y => u = a
    BY <2>5 DEF Apart
  <2>7. a # t /\ Adding(a, y)
    BY <2>3, <2>6 DEF Adding, Editing
  <2>8. y # x
    BY <2>7 DEF Apart
  <2>. QED
    BY <2>3, <2>4, <2>7, <2>8 DEF Apart, Editing, Idle
<1>3. ASSUME NEW t \in Tasks, Load(t) PROVE Apart'
  <2>1. /\ task'[t].seen = prefs /\ Editing(t) /\ ~Idle(t)
        /\ task'[t].command = task[t].command /\ task'[t].entry = task[t].entry
        /\ \A u \in Tasks : u # t => task'[u] = task[u]
    BY <1>3, LoadTask, TaskShapes
  <2>2. told' = told /\ prefs' = prefs /\ disk' = disk /\ screen' = screen
    BY <1>3 DEF Load
  <2>3. \A a \in Tasks, y \in Entries : Adding(a, y)' => Adding(a, y)
    BY <2>1 DEF Adding, Editing
  <2>4. \A a \in Tasks, y \in Entries :
          Editing(a)' /\ task'[a].entry = y => Editing(a) /\ task[a].entry = y
    BY <2>1 DEF Editing
  <2>5. \A a \in Tasks : task'[a].seen = prefs \/ (task'[a] = task[a])
    BY <2>1
  <2>. QED
    BY <2>2, <2>3, <2>4, <2>5 DEF Apart, Idle
<1>4. ASSUME NEW t \in Tasks, Save(t) PROVE Apart'
  <2>1. /\ Editing(t) /\ ~Editing(t)' /\ task'[t].seen = {}
        /\ task[t].seen \in SUBSET Entries /\ ~Idle(t)
        /\ \A u \in Tasks : u # t => task'[u] = task[u]
        /\ \A x \in Entries : x # task[t].entry => told'[x] = told[x]
    BY <1>4, SaveTask, ReloadShape, TaskShapes DEF Editing
  <2>2. prefs' \subseteq task[t].seen \cup {task[t].entry} /\ disk' = disk /\ screen' = screen
    BY <1>4 DEF Save, Edited
  <2>3. SUFFICES ASSUME NEW a \in Tasks, NEW y \in Entries, Adding(a, y)'
                 PROVE  /\ told'[y] = "made" /\ y \notin prefs' /\ y \notin disk /\ y \notin screen
                        /\ \A u \in Tasks : /\ ~Idle(u)' => y \notin task'[u].seen
                                            /\ Editing(u)' /\ task'[u].entry = y => u = a
    BY <2>2 DEF Apart
  <2>4. a # t /\ Adding(a, y)
    BY <2>1, <2>3 DEF Adding, Editing
  <2>5. y # task[t].entry /\ y \notin task[t].seen
    BY <2>1, <2>4 DEF Apart
  <2>. QED
    BY <2>1, <2>2, <2>4, <2>5 DEF Apart, Editing, Idle
<1>5. ASSUME NEW t \in Tasks, LoadAgain(t) PROVE Apart'
  <2>1. /\ task'[t].seen = prefs /\ ~Editing(t)'
        /\ \A u \in Tasks : u # t => task'[u] = task[u]
    BY <1>5, LoadAgainTask, ReloadShape DEF Editing
  <2>2. told' = told /\ prefs' = prefs /\ disk' = disk /\ screen' = screen
    BY <1>5 DEF LoadAgain
  <2>3. \A a \in Tasks : task'[a].seen = prefs \/ (task'[a] = task[a])
    BY <2>1
  <2>4. \A a \in Tasks : Editing(a)' => task'[a] = task[a] /\ Editing(a)
    BY <2>1 DEF Editing
  <2>. QED
    BY <2>2, <2>3, <2>4 DEF Apart, Adding, Idle
<1>6. ASSUME NEW t \in Tasks, Show(t) PROVE Apart'
  <2>1. /\ ~Idle(t) /\ ~Editing(t)' /\ Idle(t)'
        /\ \A u \in Tasks : u # t => task'[u] = task[u]
    BY <1>6, ShowTask, ReloadShape DEF Editing, Idle
  <2>2. told' = told /\ prefs' = prefs /\ disk' = disk /\ screen' = task[t].seen
    BY <1>6 DEF Show
  <2>3. \A a \in Tasks : Editing(a)' => task'[a] = task[a] /\ Editing(a)
    BY <2>1 DEF Editing
  <2>4. \A a \in Tasks : ~Idle(a)' => task'[a] = task[a] /\ ~Idle(a)
    BY <2>1 DEF Idle
  <2>. QED
    BY <2>1, <2>2, <2>3, <2>4 DEF Apart, Adding
<1>7. CASE Flushed
  BY <1>7 DEF Flushed, Apart, Adding, Editing, Idle
<1>8. CASE Restart
  <2>1. \A t \in Tasks : ~Editing(t)'
    BY <1>8, RestartTask, ReloadShape DEF Editing
  <2>. QED
    BY <2>1 DEF Apart, Adding
<1>9. CASE UNCHANGED phoneVars
  BY <1>9 DEF phoneVars, Apart, Adding, Editing, Idle
<1>. QED
  BY <1>1, <1>2, <1>3, <1>4, <1>5, <1>6, <1>7, <1>8, <1>9 DEF PhoneNext, PhoneRest

LEMMA EditsLastInductive ==
    PhoneTypeOK /\ Apart /\ UpToDate /\ EditsLast /\ [PhoneNext]_phoneVars => EditsLast'
<1>. SUFFICES ASSUME PhoneTypeOK, Apart, UpToDate, EditsLast, [PhoneNext]_phoneVars PROVE EditsLast'
  OBVIOUS
<1>1. ASSUME NEW t \in Tasks, TapAdd(t) PROVE EditsLast'
  BY <1>1 DEF TapAdd, PhoneTypeOK, EditsLast
<1>2. ASSUME NEW t \in Tasks, TapRemove(t) PROVE EditsLast'
  BY <1>2 DEF TapRemove, PhoneTypeOK, EditsLast
<1>3. ASSUME NEW t \in Tasks, Load(t) PROVE EditsLast'
  BY <1>3 DEF Load, EditsLast
<1>4. ASSUME NEW t \in Tasks, Save(t) PROVE EditsLast'
  <2>1. SUFFICES ASSUME ~overlaid', ~unflushed', NEW x \in Entries
                 PROVE  /\ told'[x] = "saved" => x \in prefs'
                        /\ told'[x] = "gone" => x \notin prefs'
    BY DEF EditsLast
  <2>2. ~overlaid /\ ~unflushed /\ t \notin behind /\ prefs' = Edited(t)
    BY <1>4, <2>1 DEF Save
  <2>3. task[t].seen = prefs
    BY <1>4, <2>2 DEF Save, UpToDate, Loaded
  <2>4. /\ Editing(t) /\ task[t].entry \in Entries /\ task[t].command \in {"add", "remove"}
    BY <1>4, SaveTask, TaskShapes
  <2>5. CASE x # task[t].entry
    <3>1. told'[x] = told[x] /\ (x \in prefs' <=> x \in prefs)
      BY <1>4, <2>2, <2>3, <2>5, SaveTask DEF Edited
    <3>. QED
      BY <2>2, <3>1 DEF EditsLast
  <2>6. CASE x = task[t].entry /\ task[t].command = "add"
    <3>1. told[x] = "made"
      BY <2>4, <2>6 DEF Apart, Adding
    <3>. QED
      BY <1>4, <2>2, <2>6, <3>1, SaveTask DEF Edited
  <2>7. CASE x = task[t].entry /\ task[t].command = "remove"
    BY <1>4, <2>2, <2>7, SaveTask DEF Edited
  <2>. QED
    BY <2>4, <2>5, <2>6, <2>7
<1>5. ASSUME NEW t \in Tasks, LoadAgain(t) PROVE EditsLast'
  BY <1>5 DEF LoadAgain, EditsLast
<1>6. ASSUME NEW t \in Tasks, Show(t) PROVE EditsLast'
  BY <1>6 DEF Show, EditsLast
<1>7. CASE Flushed
  BY <1>7 DEF Flushed, EditsLast
<1>8. CASE Restart
  BY <1>8 DEF Restart, EditsLast
<1>9. CASE UNCHANGED phoneVars
  BY <1>9 DEF phoneVars, EditsLast
<1>. QED
  BY <1>1, <1>2, <1>3, <1>4, <1>5, <1>6, <1>7, <1>8, <1>9 DEF PhoneNext, PhoneRest

-----------------------------------------------------------------------------
LEMMA PhoneInitially == PhoneInit => PhoneIInv
<1>. SUFFICES ASSUME PhoneInit PROVE PhoneIInv
  OBVIOUS
<1>1. \A t \in Tasks : task[t] = NoTask /\ Idle(t) /\ ~Editing(t) /\ t \notin Loaded
  BY ReloadShape DEF PhoneInit, Idle, Editing, Loaded
<1>2. PhoneTypeOK
  BY DEF PhoneInit, PhoneTypeOK
<1>3. Known /\ Apart /\ UpToDate
  BY <1>1 DEF PhoneInit, Known, Apart, UpToDate, Adding, Loaded
<1>4. Coming /\ EditsLast
  BY DEF PhoneInit, Coming, EditsLast
<1>. QED
  BY <1>2, <1>3, <1>4 DEF PhoneIInv

LEMMA PhoneInductive == PhoneIInv /\ [PhoneNext]_phoneVars => PhoneIInv'
BY PhoneTypeInductive, KnownInductive, ApartInductive, UpToDateInductive, ComingInductive,
   EditsLastInductive DEF PhoneIInv

LEMMA PhoneInvariant == PhoneSpec => []PhoneIInv
BY PhoneInitially, PhoneInductive, PTL DEF PhoneSpec

\* Whatever coroutines run, the variables keep their shapes and neither the
\* disk nor the list knows a profile that nobody made.
THEOREM PhoneTypeCorrect == PhoneSpec => []PhoneTypeOK
<1>1. PhoneIInv => PhoneTypeOK
  BY DEF PhoneIInv
<1>. QED
  BY <1>1, PhoneInvariant, PTL

\* However many taps overlap, once all coroutines have ended the list is what
\* is stored, unless one that had loaded too early set it last.
THEOREM ScreenIsRight == PhoneSpec => []ScreenShowsStored
<1>1. PhoneIInv => ScreenShowsStored
  BY TaskShapes, ReloadShape DEF PhoneIInv, Coming, ScreenShowsStored, Quiet, Idle
<1>. QED
  BY <1>1, PhoneInvariant, PTL

\* Whatever else is edited meanwhile, a profile added stays and one removed
\* stays away, unless a save overlaid another or a kill lost one.
THEOREM EditsAreKept == PhoneSpec => []EditsLast
<1>1. PhoneIInv => EditsLast
  BY DEF PhoneIInv
<1>. QED
  BY <1>1, PhoneInvariant, PTL

-----------------------------------------------------------------------------
(* The preference keeps the promise of StoreContract.                      *)

LEMMA PreferenceSteps ==
    PhoneIInv /\ [PhoneNext]_phoneVars => [PreferenceContract!Next]_(PreferenceContract!vars)
<1>. SUFFICES ASSUME PhoneIInv, [PhoneNext]_phoneVars
              PROVE  PreferenceContract!Next \/ UNCHANGED <<prefs, disk, overlaid>>
  BY DEF PreferenceContract!vars
<1>. USE DEF PhoneIInv
<1>1. ASSUME NEW t \in Tasks, Save(t) PROVE PreferenceContract!Next
  <2>1. /\ Editing(t) /\ t \in Loaded /\ task[t].entry \in Entries
        /\ task[t].command \in {"add", "remove"} /\ task[t].seen \in SUBSET Entries
    BY <1>1, TaskShapes DEF Save, Loaded
  <2>2. prefs' = Edited(t) /\ overlaid' = (overlaid \/ t \in behind) /\ UNCHANGED disk
    BY <1>1 DEF Save
  <2>3. CASE t \in behind
    <3>1. overlaid' /\ prefs' \in SUBSET Entries
      BY <2>1, <2>2, <2>3 DEF Edited
    <3>. QED
      BY <2>2, <3>1 DEF PreferenceContract!Next, PreferenceContract!Overlap,
                        PreferenceContract!Stores
  <2>4. CASE t \notin behind
    <3>1. task[t].seen = prefs /\ UNCHANGED overlaid
      BY <2>1, <2>2, <2>4 DEF UpToDate, PhoneTypeOK
    <3>2. CASE task[t].command = "add"
      <4>1. PreferenceContract!Add(task[t].entry, "plain")
        BY <2>2, <3>1, <3>2 DEF PreferenceContract!Add, Edited
      <4>. QED
        BY <2>1, <4>1 DEF PreferenceContract!Next
    <3>3. CASE task[t].command = "remove"
      <4>1. PreferenceContract!Remove(task[t].entry)
        BY <2>2, <3>1, <3>3 DEF PreferenceContract!Remove, Edited
      <4>. QED
        BY <2>1, <4>1 DEF PreferenceContract!Next
    <3>. QED
      BY <2>1, <3>2, <3>3
  <2>. QED
    BY <2>3, <2>4
<1>2. CASE Flushed
  BY <1>2 DEF Flushed, PreferenceContract!Next, PreferenceContract!Flush
<1>3. CASE Restart
  BY <1>3 DEF Restart, PreferenceContract!Next, PreferenceContract!Crash
<1>4. \/ UNCHANGED <<prefs, disk, overlaid>>
      \/ \E t \in Tasks : Save(t)
      \/ Flushed \/ Restart
  BY DEF PhoneNext, PhoneRest, TapAdd, TapRemove, Load, LoadAgain, Show, phoneVars
<1>. QED
  BY <1>1, <1>2, <1>3, <1>4

\* However the loads and saves of taps interleave and whenever Android kills the
\* program, the preference is one store that is edited whole, and loses an edit
\* only if two have overlapped.
THEOREM PreferenceIsAStore == PhoneSpec => PreferenceIsAtomic
<1>1. PhoneInit => PreferenceContract!Init
  BY DEF PhoneInit, PreferenceContract!Init, PreferenceContract!Empty
<1>. QED
  BY <1>1, PhoneInvariant, PreferenceSteps, PTL
     DEF PhoneSpec, PreferenceIsAtomic, PreferenceContract!Spec
=============================================================================
