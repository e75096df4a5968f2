------------------------------ MODULE AndroidVpn ------------------------------
(***************************************************************************)
(* The Android client's connection: BimarzVpnService with the process      *)
(* manager, the button of the connect screen and the state both share.     *)
(*                                                                         *)
(* Every command, revocation and destruction launches a coroutine on a     *)
(* pool of threads.  Nothing keeps two of them apart: they share the       *)
(* fields of their service, and with those of another service the state    *)
(* shown and the one native tunnel of the program.  A service that stops   *)
(* itself is destroyed, and the next command makes a new one, while        *)
(* coroutines of the old one still run.                                    *)
(***************************************************************************)
EXTENDS Naturals, FiniteSets

CONSTANTS Services,  \* instances of the service
          Jobs,      \* bound: coroutines at a time
          None

ASSUME NoneAssumption == None \notin Services \cup Jobs

VARIABLES life,        \* the state of each instance of the service
          process,     \* XrayProcessManager.process
          tun,         \* tunInterface is set
          engine,      \* engineClient is set
          tunnel,      \* tunnelThread is set
          starting,    \* services whose tunnel thread has not entered native code
          bridge,      \* the service whose tun the native tunnel forwards
          job,         \* the coroutines: what each does next, and for which service
          state,       \* VpnStateHolder
          permitted,   \* the user has allowed a VPN
          asking,      \* pendingConnectProfileId: the permission dialog is open
          orphan,      \* an xray runs that no process manager knows
          clash,       \* history: services where a connect met another coroutine
          mishap       \* history: a coroutine overlapped another service's, or a
                       \* tunnel was stopped before its thread began

native == <<starting, bridge>>
fields == <<process, tun, engine, tunnel, orphan, native>>
shared == <<permitted, asking>>
history == <<clash, mishap>>
vars == <<life, fields, job, state, shared, history>>

ConnectSteps == {"connecting", "check", "spawn", "dial", "establish",
                 "bridge", "announce"}
DisconnectSteps == {"disconnecting", "unbridge", "untun", "halt",
                    "forget", "disconnected", "stopSelf"}
States == {"Disconnected", "Connecting", "Connected", "Disconnecting", "Error"}
Idle == [at |-> "idle", service |-> None]

\* One invariant per module says what the variables may hold.
TypeOK == /\ life \in [Services -> {"absent", "live", "stopping", "destroyed"}]
          /\ process \in [Services -> {"none", "running", "gone"}]
          /\ tun \in [Services -> BOOLEAN]
          /\ engine \in [Services -> BOOLEAN]
          /\ tunnel \in [Services -> BOOLEAN]
          /\ bridge \in Services \cup {None}
          /\ job \in [Jobs -> [at : ConnectSteps \cup DisconnectSteps, service : Services]
                                \cup {Idle}]
          /\ state \in States
          /\ permitted \in BOOLEAN /\ asking \in BOOLEAN /\ orphan \in BOOLEAN
          /\ clash \subseteq Services /\ starting \subseteq Services
          /\ mishap \subseteq {"overlap", "late"}

Init == /\ life = [s \in Services |-> "absent"]
        /\ process = [s \in Services |-> "none"]
        /\ tun = [s \in Services |-> FALSE]
        /\ engine = [s \in Services |-> FALSE]
        /\ tunnel = [s \in Services |-> FALSE]
        /\ bridge = None
        /\ job = [j \in Jobs |-> Idle]
        /\ state = "Disconnected"
        /\ permitted \in BOOLEAN /\ asking = FALSE /\ orphan = FALSE
        /\ clash = {} /\ starting = {} /\ mishap = {}

-----------------------------------------------------------------------------
JobsOf(s) == {j \in Jobs : job[j].service = s}
AtRest == /\ \A j \in Jobs : job[j] = Idle
          /\ \A s \in Services : life[s] # "stopping"
Holds(s) == {process[s] # "none", tun[s], engine[s], tunnel[s]}

At(j, step) == job[j].at = step
Goto(j, step) == job' = [job EXCEPT ![j].at = step]
Fallible(j) == job[j].at \in ConnectSteps \ {"connecting"}
Show(shown) == state' = shown

\* A coroutine of service s begins.  It clashes with one that is under way if
\* one of the two connects.
Launch(s, step) ==
    /\ \E j \in Jobs : job[j] = Idle /\ job' = [job EXCEPT ![j] = [at |-> step, service |-> s]]
    /\ clash' = IF \E j \in JobsOf(s) : step = "connecting" \/ job[j].at \in ConnectSteps
                THEN clash \cup {s} ELSE clash
    /\ mishap' = IF \/ \E j \in Jobs : job[j].service \notin {s, None}
                    \/ \E r \in Services \ {s} : life[r] = "stopping"
                 THEN mishap \cup {"overlap"} ELSE mishap

\* A command goes to the service there is, or to a new one.
Command(step) ==
    IF \E s \in Services : life[s] = "live"
    THEN \E s \in Services : life[s] = "live" /\ Launch(s, step) /\ UNCHANGED life
    ELSE \E s \in Services : /\ life[s] = "absent" /\ Launch(s, step)
                             /\ life' = [life EXCEPT ![s] = "live"]

-----------------------------------------------------------------------------
(* ConnectScreen and MainActivity                                          *)

\* The button connects unless the screen says that it is connected or busy.
TapConnect == /\ state \in {"Disconnected", "Error"}
              /\ IF permitted THEN Command("connecting") /\ UNCHANGED asking
                 ELSE asking' = TRUE /\ UNCHANGED <<life, job, history>>
              /\ UNCHANGED <<fields, state, permitted>>

Grant == /\ asking
         /\ asking' = FALSE /\ permitted' = TRUE
         /\ Command("connecting")
         /\ UNCHANGED <<fields, state>>

Deny == /\ asking
        /\ asking' = FALSE
        /\ UNCHANGED <<life, fields, job, state, permitted, history>>

TapDisconnect == /\ state = "Connected"
                 /\ Command("disconnecting")
                 /\ UNCHANGED <<fields, state, permitted, asking>>

\* onRevoke: the user takes the permission back, or another VPN takes over.
\* The system's part of it stops the service, which is destroyed a little later.
Revoke == \E s \in Services :
    /\ permitted /\ life[s] = "live"
    /\ permitted' = FALSE
    /\ Launch(s, "disconnecting")
    /\ life' = [life EXCEPT ![s] = "stopping"]
    /\ UNCHANGED <<fields, state, asking>>

Destroy(s) == /\ life[s] = "stopping"
              /\ Launch(s, "disconnecting")
              /\ life' = [life EXCEPT ![s] = "destroyed"]
              /\ UNCHANGED <<fields, state, shared>>

-----------------------------------------------------------------------------
(* Faulty variants of the definitions below: what would go wrong without    *)
(* the line they change.                                                   *)

FailedUnnamed(j) == /\ Fallible(j)
                    /\ Show("Failed") /\ Goto(j, "disconnecting")
                    /\ UNCHANGED <<life, fields, shared, history>>

FailedSilently(j) == /\ Fallible(j)
                     /\ job' = [job EXCEPT ![j] = Idle]
                     /\ UNCHANGED <<life, fields, state, shared, history>>

FailedKeeps(j) == /\ Fallible(j)
                  /\ Show("Error") /\ job' = [job EXCEPT ![j] = Idle]
                  /\ UNCHANGED <<life, fields, shared, history>>

CheckNothing(j, s) == /\ At(j, "check") /\ Goto(j, "spawn")
                      /\ UNCHANGED <<life, fields, state, shared, history>>

EstablishTolerant(j, s) == /\ At(j, "establish")
                           /\ \/ tun' = [tun EXCEPT ![s] = TRUE] /\ Goto(j, "bridge")
                              \/ UNCHANGED tun /\ Goto(j, "announce")
                           /\ UNCHANGED <<life, process, engine, tunnel, orphan, native, state,
                                          shared, history>>

UnbridgeInterrupts(j, s) == /\ At(j, "unbridge")
                            /\ tunnel' = [tunnel EXCEPT ![s] = FALSE]
                            /\ Goto(j, "untun")
                            /\ UNCHANGED <<life, process, tun, engine, orphan, native, state,
                                           shared, history>>

-----------------------------------------------------------------------------
(* connect                                                                 *)

Connecting(j) == /\ At(j, "connecting")
                 /\ Show("Connecting") /\ Goto(j, "check")
                 /\ UNCHANGED <<life, fields, shared, history>>

Check(j, s) == /\ At(j, "check") /\ process[s] # "running"
               /\ Goto(j, "spawn")
               /\ UNCHANGED <<life, fields, state, shared, history>>

\* The check was another step: a process started since is forgotten.
Spawn(j, s) == /\ At(j, "spawn")
               /\ process' = [process EXCEPT ![s] = "running"]
               /\ orphan' = (orphan \/ process[s] = "running")
               /\ Goto(j, "dial")
               /\ UNCHANGED <<life, tun, engine, tunnel, native, state, shared, history>>

\* connectEngineWithRetry, all attempts together, and the outbound: the client
\* is kept when both have succeeded.  Another connect's process may be the one
\* that answers, or this one's may be forgotten.
Dial(j, s) == /\ At(j, "dial") /\ (process[s] = "running" \/ orphan)
              /\ engine' = [engine EXCEPT ![s] = TRUE]
              /\ Goto(j, "establish")
              /\ UNCHANGED <<life, process, tun, tunnel, orphan, native, state, shared, history>>

Establish(j, s) == /\ At(j, "establish") /\ permitted
                   /\ tun' = [tun EXCEPT ![s] = TRUE]
                   /\ Goto(j, "bridge")
                   /\ UNCHANGED <<life, process, engine, tunnel, orphan, native, state, shared,
                                  history>>

\* The thread is started; it enters native code later.
Bridge(j, s) == /\ At(j, "bridge") /\ tun[s]
                /\ tunnel' = [tunnel EXCEPT ![s] = TRUE] /\ starting' = starting \cup {s}
                /\ Goto(j, "announce")
                /\ UNCHANGED <<life, process, tun, engine, orphan, bridge, state, shared, history>>

Announce(j) == /\ At(j, "announce")
               /\ Show("Connected") /\ job' = [job EXCEPT ![j] = Idle]
               /\ UNCHANGED <<life, fields, shared, history>>

\* The handler of connect: any of the steps may fail instead of being done.
Failed(j) == /\ Fallible(j)
             /\ Show("Error") /\ Goto(j, "disconnecting")
             /\ UNCHANGED <<life, fields, shared, history>>

-----------------------------------------------------------------------------
(* disconnect                                                              *)

Disconnecting(j) == /\ At(j, "disconnecting")
                    /\ Show("Disconnecting") /\ Goto(j, "unbridge")
                    /\ UNCHANGED <<life, fields, shared, history>>

\* TunToSocksBridge.stop knows no service, and does not stop a thread that has
\* not called start.
Unbridge(j, s) == /\ At(j, "unbridge")
                  /\ bridge' = None /\ tunnel' = [tunnel EXCEPT ![s] = FALSE]
                  /\ mishap' = IF s \in starting THEN mishap \cup {"late"} ELSE mishap
                  /\ Goto(j, "untun")
                  /\ UNCHANGED <<life, process, tun, engine, orphan, starting, state, shared,
                                 clash>>

\* The interface is closed and the client dropped, whatever fails.
Untun(j, s) == /\ At(j, "untun")
               /\ tun' = [tun EXCEPT ![s] = FALSE]
               /\ engine' = [engine EXCEPT ![s] = FALSE]
               /\ Goto(j, "halt")
               /\ UNCHANGED <<life, process, tunnel, orphan, native, state, shared, history>>

\* destroy, and destroyForcibly after three seconds.
Halt(j, s) == /\ At(j, "halt")
              /\ IF process[s] = "none" THEN Goto(j, "disconnected") /\ UNCHANGED process
                 ELSE process' = [process EXCEPT ![s] = "gone"] /\ Goto(j, "forget")
              /\ UNCHANGED <<life, tun, engine, tunnel, orphan, native, state, shared, history>>

Forget(j, s) == /\ At(j, "forget")
                /\ process' = [process EXCEPT ![s] = "none"]
                /\ orphan' = (orphan \/ process[s] = "running")
                /\ Goto(j, "disconnected")
                /\ UNCHANGED <<life, tun, engine, tunnel, native, state, shared, history>>

Disconnected(j) == /\ At(j, "disconnected")
                   /\ Show("Disconnected") /\ Goto(j, "stopSelf")
                   /\ UNCHANGED <<life, fields, shared, history>>

\* The first stop destroys the service; onDestroy launches another disconnect.
StopSelf(j, s) ==
    /\ At(j, "stopSelf")
    /\ IF life[s] = "live"
       THEN /\ life' = [life EXCEPT ![s] = "destroyed"]
            /\ Goto(j, "disconnecting")
            /\ clash' = IF \E k \in JobsOf(s) : job[k].at \in ConnectSteps
                        THEN clash \cup {s} ELSE clash
       ELSE job' = [job EXCEPT ![j] = Idle] /\ UNCHANGED <<life, clash>>
    /\ UNCHANGED <<fields, state, shared, mishap>>

Step(j, s) == \/ Connecting(j) \/ Check(j, s) \/ Spawn(j, s) \/ Dial(j, s)
              \/ Establish(j, s) \/ Bridge(j, s) \/ Announce(j)
              \/ Failed(j) \/ Disconnecting(j) \/ Unbridge(j, s) \/ Untun(j, s)
              \/ Halt(j, s) \/ Forget(j, s) \/ Disconnected(j)
              \/ StopSelf(j, s)

-----------------------------------------------------------------------------
(* The outside world.                                                      *)

\* The tunnel's thread calls start, whose result nobody reads.
TunnelStarts(s) == /\ s \in starting
                   /\ starting' = starting \ {s}
                   /\ bridge' \in {bridge, s}
                   /\ UNCHANGED <<life, process, tun, engine, tunnel, orphan, job, state, shared,
                                  history>>

XrayDies(s) == /\ process[s] = "running"
               /\ process' = [process EXCEPT ![s] = "gone"]
               /\ UNCHANGED <<life, tun, engine, tunnel, orphan, native, job, state, shared,
                              history>>

\* A destroyed service is garbage once no coroutine runs; its identity is free.
\* One that has clashed is not watched any further.
Collect(s) == /\ life[s] = "destroyed" /\ s \notin clash /\ AtRest /\ Holds(s) = {FALSE}
              /\ s \notin starting /\ s # bridge
              /\ life' = [life EXCEPT ![s] = "absent"]
              /\ UNCHANGED <<fields, job, state, shared, history>>

\* Nothing has to happen to a program at rest.
Rest == AtRest /\ UNCHANGED vars

User == TapConnect \/ Grant \/ Deny \/ TapDisconnect \/ Revoke

Next == \/ User
        \/ \E j \in Jobs : \E s \in Services : job[j].service = s /\ Step(j, s)
        \/ \E s \in Services : Destroy(s) \/ TunnelStarts(s) \/ XrayDies(s) \/ Collect(s)
        \/ Rest

Spec == Init /\ [][Next]_vars

-----------------------------------------------------------------------------
(* Properties                                                              *)

\* The screen is never left busy, its button disabled for good: whatever
\* coroutines ran at once, when the last has ended the state is a final one.
NotStuck == AtRest => state \notin {"Connecting", "Disconnecting"}

\* A service without coroutines holds all that a connection needs or nothing,
\* wherever its connects failed, and nothing once it is destroyed, unless a
\* connect of its own met another of its coroutines.
AllOrNothing == \A s \in Services : JobsOf(s) = {} /\ s \notin clash =>
    /\ Holds(s) \in {{TRUE}, {FALSE}}
    /\ life[s] # "live" => Holds(s) = {FALSE}

\* At rest the screen says "Connected" exactly when a service holds a
\* connection, unless a connect met a coroutine of its own service or of one
\* being destroyed.
ScreenTellsTheTruth == AtRest /\ clash = {} /\ mishap \subseteq {"late"} =>
    (state = "Connected" <=> \E s \in Services : Holds(s) = {TRUE})

\* The native tunnel reads the descriptor only of a service that holds it
\* open: it is stopped before the interface is closed, unless the stop came
\* before the thread's start, or during a connect.
TunnelReadsAnOpenTun == \A s \in Services : bridge = s /\ s \notin clash /\ "late" \notin mishap =>
    tun[s] /\ tunnel[s]

\* An xray is lost from sight only where a connect met another coroutine of
\* its service.
OrphanHasACause == [][~orphan /\ orphan' => clash # {}]_vars
=============================================================================
