----------------------------- MODULE ProfileStore -----------------------------
(***************************************************************************)
(* The desktop's encrypted profile file and the command line processes     *)
(* that read and replace it (profiles.py, `bimarz profile`).               *)
(*                                                                         *)
(* Each process reads the whole file, changes what it has read, writes it  *)
(* to a temporary file and renames that over the old one.  There is no     *)
(* lock.  A process may be killed and the power may fail at any step; of a *)
(* rename not yet flushed to the directory either outcome may survive, and *)
(* of a file not flushed any part.  The salt goes with the ciphertext in   *)
(* one file and is left out: the password decides whether it can be read.  *)
(***************************************************************************)
EXTENDS Naturals, FiniteSets

CONSTANTS Processes,   \* command line processes at a time
          Profiles,    \* profile identifiers; each is made once
          Passwords,
          Absent, Torn \* no file; a file of which only a part reached the disk

\* What a file may hold; synced: it has reached the disk.
Contents == [password : Passwords, profiles : SUBSET Profiles, synced : BOOLEAN]

ASSUME StoreAssumption == Absent # Torn /\ {Absent, Torn} \cap Contents = {}

VARIABLES file,     \* the profile file as processes see it
          durable,  \* the file the directory on the disk names
          temp,     \* each process's temporary file
          proc,     \* each process: its command, how far it is, what it has read
          fate,     \* history: what the user was told of each profile
          stale,    \* history: processes whose reading another has replaced
          raced     \* history: one of them has replaced the file

files == <<file, durable, temp>>
history == <<fate, stale, raced>>
storeVars == <<files, proc, history>>

NoProcess == [at |-> "idle"]
Steps == {"read", "create", "write", "rename", "flush", "tidy", "done", "failed"}
Command == [at : Steps, command : {"add", "remove"}, profile : Profiles,
            password : Passwords, seen : Contents \cup {Absent}]

\* One invariant per module says what the variables may hold; a file is
\* always encrypted with somebody's password.
StoreTypeOK ==
    /\ file \in Contents \cup {Absent, Torn}
    /\ durable \in Contents \cup {Absent, Torn}
    /\ temp \in [Processes -> {"none", "empty", "written", "synced"}]
    /\ proc \in [Processes -> Command \cup {NoProcess}]
    /\ fate \in [Profiles -> {"new", "made", "saved", "unwanted", "gone"}]
    /\ stale \subseteq Processes
    /\ raced \in BOOLEAN

StoreInit == /\ file = Absent /\ durable = Absent
             /\ temp = [p \in Processes |-> "none"]
             /\ proc = [p \in Processes |-> NoProcess]
             /\ fate = [x \in Profiles |-> "new"]
             /\ stale = {} /\ raced = FALSE

-----------------------------------------------------------------------------
Running(p) == proc[p] # NoProcess
At(p, step) == proc[p].at = step
Goto(p, step) == proc' = [proc EXCEPT ![p].at = step]
Stored(content) == IF content \in Contents THEN content.profiles ELSE {}

Readable(p) == file \in Contents /\ file.password = proc[p].password

\* Processes that have read the file and not yet replaced it.
Holding == {p \in Processes : proc[p].at \in {"create", "write", "rename"}}

\* What the command makes of the profiles it has read.
Changed(p) == IF proc[p].command = "add" THEN Stored(proc[p].seen) \cup {proc[p].profile}
              ELSE Stored(proc[p].seen) \ {proc[p].profile}

-----------------------------------------------------------------------------
(* Faulty variants of the definitions below: what would go wrong without    *)
(* the line they change.                                                   *)

\* A file that cannot be decrypted is taken for none.
ReadTolerant(p) ==
    /\ At(p, "read")
    /\ proc' = [proc EXCEPT ![p].at = "create", ![p].seen = IF Readable(p) THEN file ELSE Absent]
    /\ UNCHANGED <<files, history>>

WriteUnsynced(p) ==
    /\ At(p, "write")
    /\ temp' = [temp EXCEPT ![p] = "written"] /\ Goto(p, "rename")
    /\ UNCHANGED <<file, durable, history>>

FlushNothing(p) ==
    /\ At(p, "flush")
    /\ Goto(p, "done")
    /\ UNCHANGED <<files, history>>

-----------------------------------------------------------------------------
(* The commands                                                            *)

Start(p, command, profile, password) ==
    proc' = [proc EXCEPT ![p] = [at |-> "read", command |-> command, profile |-> profile,
                                 password |-> password, seen |-> Absent]]

\* `bimarz profile add`: the link has been parsed, its profile has an identifier.
AddProfile(p) ==
    /\ ~Running(p)
    /\ \E x \in Profiles, password \in Passwords :
         /\ fate[x] = "new"
         /\ Start(p, "add", x, password) /\ fate' = [fate EXCEPT ![x] = "made"]
    /\ UNCHANGED <<files, stale, raced>>

RemoveProfile(p) ==
    /\ ~Running(p)
    /\ \E x \in Profiles, password \in Passwords :
         /\ fate[x] # "new"
         /\ Start(p, "remove", x, password) /\ fate' = [fate EXCEPT ![x] = "unwanted"]
    /\ UNCHANGED <<files, stale, raced>>

\* _read_encrypted_state; a profile that is not there cannot be removed.
Read(p) ==
    /\ At(p, "read")
    /\ \/ /\ file = Absent \/ Readable(p)
          /\ proc[p].command = "remove" => proc[p].profile \in Stored(file)
          /\ proc' = [proc EXCEPT ![p].at = "create", ![p].seen = file]
       \/ Goto(p, "failed")
    /\ UNCHANGED <<files, history>>

Create(p) == /\ At(p, "create")
             /\ \/ temp' = [temp EXCEPT ![p] = "empty"] /\ Goto(p, "write")
                \/ UNCHANGED temp /\ Goto(p, "failed")
             /\ UNCHANGED <<file, durable, history>>

\* The text is written and flushed to the disk before it gets its name.
Write(p) == /\ At(p, "write")
            /\ \/ temp' = [temp EXCEPT ![p] = "synced"] /\ Goto(p, "rename")
               \/ \E part \in {"empty", "written"} :
                    temp' = [temp EXCEPT ![p] = part] /\ Goto(p, "tidy")
            /\ UNCHANGED <<file, durable, history>>

Written(p) == [password |-> proc[p].password, profiles |-> Changed(p),
               synced |-> temp[p] = "synced"]

Rename(p) == /\ At(p, "rename")
             /\ \/ /\ file' = Written(p) /\ temp' = [temp EXCEPT ![p] = "none"]
                   /\ raced' = (raced \/ p \in stale)
                   /\ stale' = (stale \cup Holding) \ {p}
                   /\ Goto(p, "flush")
                \/ UNCHANGED <<file, temp, raced, stale>> /\ Goto(p, "tidy")
             /\ UNCHANGED <<durable, fate>>

\* The directory is flushed.  If that fails the command fails, its effect stays.
Flush(p) == /\ At(p, "flush")
            /\ \/ durable' = file /\ Goto(p, "done")
               \/ UNCHANGED durable /\ Goto(p, "tidy")
            /\ UNCHANGED <<file, temp, history>>

Tidy(p) == /\ At(p, "tidy")
           /\ temp' = [temp EXCEPT ![p] = "none"]
           /\ Goto(p, "failed")
           /\ UNCHANGED <<file, durable, history>>

\* The process ends with status 0 or 1, and the user believes the 0.
Exit(p) ==
    /\ proc[p].at \in {"done", "failed"}
    /\ proc' = [proc EXCEPT ![p] = NoProcess]
    /\ stale' = stale \ {p}
    /\ fate' = [fate EXCEPT ![proc[p].profile] =
                   IF ~At(p, "done") THEN @
                   ELSE IF proc[p].command = "remove" THEN "gone"
                   ELSE IF @ = "made" THEN "saved" ELSE @]
    /\ UNCHANGED <<files, raced>>

Step(p) == \/ AddProfile(p) \/ RemoveProfile(p) \/ Read(p) \/ Create(p) \/ Write(p)
           \/ Rename(p) \/ Flush(p) \/ Tidy(p) \/ Exit(p)

-----------------------------------------------------------------------------
(* Crashes                                                                 *)

\* The temporary file of a killed process stays, and nothing reads it again.
Kill(p) == /\ Running(p)
           /\ proc' = [proc EXCEPT ![p] = NoProcess]
           /\ temp' = [temp EXCEPT ![p] = "none"]
           /\ stale' = stale \ {p}
           /\ UNCHANGED <<file, durable, fate, raced>>

Survives(content) == IF content \in Contents /\ ~content.synced THEN {content, Torn}
                     ELSE {content}

PowerFails ==
    /\ file' \in Survives(file) \cup Survives(durable) /\ durable' = file'
    /\ proc' = [p \in Processes |-> NoProcess]
    /\ temp' = [p \in Processes |-> "none"]
    /\ stale' = {}
    /\ UNCHANGED <<fate, raced>>

\* Nobody has to use the program.
StoreRest == (\A p \in Processes : ~Running(p)) /\ UNCHANGED storeVars

StoreNext == (\E p \in Processes : Step(p) \/ Kill(p)) \/ PowerFails \/ StoreRest

StoreSpec == StoreInit /\ [][StoreNext]_storeVars

-----------------------------------------------------------------------------
(* Properties                                                              *)

\* Wherever a process was killed or the power failed, the file is whole: the
\* new text is flushed before it is renamed over the old (profiles.py:188).
NeverTorn == Torn \notin {file, durable}

\* What a command that ended with status 0 has done lasts through kills and
\* power failures, unless two commands have raced: the second to rename undoes
\* the first, as nothing locks the file between reading and replacing it.
SuccessLasts == ~raced => \A x \in Profiles :
    /\ fate[x] = "saved" => x \in Stored(file) \cap Stored(durable)
    /\ fate[x] = "gone" => x \notin Stored(file) \cup Stored(durable)

\* What the file is to its users: the profiles and the password they need.
Stands(content) == [secret |-> IF content \in Contents THEN content.password ELSE content,
                    keys |-> Stored(content)]

FileContract == INSTANCE StoreContract WITH Keys <- Profiles, Secrets <- Passwords,
    None <- Absent, content <- Stands(file), safe <- Stands(durable), lost <- raced

\* Seen from outside, a command changes one profile under one password in one
\* step, and a power failure leaves that step done or not done, unless two
\* commands have raced.
FileIsAtomic == FileContract!Spec
=============================================================================
