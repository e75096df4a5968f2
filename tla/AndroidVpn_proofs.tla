--------------------------- MODULE AndroidVpn_proofs ---------------------------
(***************************************************************************)
(* Safety of AndroidVpn for any number of services and coroutines.  The    *)
(* invariant has these parts:                                              *)
(*   Busy      while the screen says so, a coroutine is about to change it *)
(*   Alone     a connect shares its service with no other coroutine        *)
(*   Progress  what a service holds fits the step its coroutines are at    *)
(*   Whole     a service without coroutines holds everything or nothing    *)
(*   Reading   the native tunnel, and a thread about to start it, belong   *)
(*             to a service that holds the interface                       *)
(*   Shown     one service at a time is in use, and the screen follows it  *)
(* Alone and Progress speak of services without a clash, Shown of a        *)
(* program without one and without an overlap of two services.             *)
(***************************************************************************)
EXTENDS AndroidVpn, TLAPS

AllSteps == ConnectSteps \cup DisconnectSteps
JobRecord == [at : AllSteps, service : Services]

Busy == state \in {"Connecting", "Disconnecting"} =>
    \E j \in Jobs : job[j].at \notin {"idle", "stopSelf"}

Alone == \A s \in Services \ clash : \A j \in JobsOf(s) : job[j].at \in ConnectSteps =>
    /\ life[s] = "live"
    /\ \A k \in JobsOf(s) : k = j

Fits(step, s) ==
    /\ step = "spawn" => process[s] # "running"
    /\ step \in {"dial", "establish", "bridge", "announce"} => process[s] # "none"
    /\ step \in {"establish", "bridge", "announce"} => engine[s]
    /\ step \in {"bridge", "announce"} => tun[s]
    /\ step = "announce" => tunnel[s]
    /\ step \in {"untun", "halt", "forget", "disconnected", "stopSelf"} => ~tunnel[s]
    /\ step \in {"halt", "forget", "disconnected", "stopSelf"} => ~tun[s] /\ ~engine[s]
    /\ step = "forget" => process[s] # "running"
    /\ step \in {"disconnected", "stopSelf"} => process[s] = "none"

Progress == \A s \in Services \ clash : \A j \in JobsOf(s) : Fits(job[j].at, s)

Reading == \A s \in Services \ clash :
    (bridge = s \/ s \in starting) /\ "late" \notin mishap => tun[s] /\ tunnel[s]

Full(s) == process[s] # "none" /\ tun[s] /\ engine[s] /\ tunnel[s]
Empty(s) == process[s] = "none" /\ ~tun[s] /\ ~engine[s] /\ ~tunnel[s]

Whole == \A s \in Services \ clash : JobsOf(s) = {} =>
    /\ Full(s) \/ Empty(s)
    /\ life[s] # "live" => Empty(s)

Quitting == DisconnectSteps \ {"disconnecting"}

Shown == clash = {} /\ "overlap" \notin mishap =>
    /\ \A s, r \in Services : life[s] = "live" /\ r # s => life[r] \notin {"live", "stopping"}
    /\ \A j \in Jobs : \A r \in Services : job[j] # Idle /\ r # job[j].service =>
         life[r] \notin {"live", "stopping"} /\ JobsOf(r) = {}
    /\ \A j \in Jobs : job[j].at \in Quitting => state # "Connected"
    /\ (\A j \in Jobs : job[j] = Idle) =>
         (state = "Connected" <=> \E s \in Services : Full(s))

VpnIInv == TypeOK /\ Busy /\ Alone /\ Progress /\ Whole /\ Reading /\ Shown

-----------------------------------------------------------------------------
(* The shape of the coroutines, and what a step does to them.              *)

LEMMA JobShapes ==
    ASSUME TypeOK, NEW j \in Jobs
    PROVE  /\ Idle.at = "idle" /\ Idle.service = None /\ None \notin Services
           /\ "idle" \notin AllSteps
           /\ job[j] # Idle <=> job[j] \in JobRecord
           /\ job[j] # Idle <=> job[j].service \in Services
           /\ job[j] # Idle <=> job[j].at \in AllSteps
           /\ job[j] = Idle <=> job[j].at = "idle"
  BY NoneAssumption DEF TypeOK, Idle, JobRecord, AllSteps, ConnectSteps, DisconnectSteps

LEMMA RecordIsTyped ==
    ASSUME TypeOK, NEW j \in Jobs, NEW c \in JobRecord \cup {Idle}, job' = [job EXCEPT ![j] = c]
    PROVE  /\ job'[j] = c
           /\ \A k \in Jobs : k # j => job'[k] = job[k]
           /\ job' \in [Jobs -> JobRecord \cup {Idle}]
  BY DEF TypeOK, JobRecord, AllSteps

LEMMA GotoMoves ==
    ASSUME TypeOK, NEW j \in Jobs, NEW s \in Services, job[j].service = s,
           NEW step \in AllSteps, Goto(j, step)
    PROVE  /\ job'[j].at = step /\ job'[j].service = s
           /\ \A k \in Jobs : k # j => job'[k] = job[k]
           /\ job' \in [Jobs -> JobRecord \cup {Idle}]
<1>1. job[j] \in JobRecord
  BY JobShapes
<1>2. [job[j] EXCEPT !.at = step] = [at |-> step, service |-> s]
  BY <1>1 DEF JobRecord
<1>3. [at |-> step, service |-> s] \in JobRecord
  BY DEF JobRecord
<1>4. job' = [job EXCEPT ![j] = [at |-> step, service |-> s]]
  BY <1>2 DEF Goto
<1>. QED
  BY <1>3, <1>4, RecordIsTyped

LEMMA LaunchMoves ==
    ASSUME TypeOK, NEW s \in Services, NEW step \in AllSteps, Launch(s, step)
    PROVE  /\ \E j \in Jobs : /\ job[j] = Idle
                              /\ job'[j].at = step /\ job'[j].service = s
                              /\ \A k \in Jobs : k # j => job'[k] = job[k]
           /\ job' \in [Jobs -> JobRecord \cup {Idle}]
           /\ clash' = IF \E j \in JobsOf(s) : step = "connecting" \/ job[j].at \in ConnectSteps
                       THEN clash \cup {s} ELSE clash
           /\ clash \subseteq clash' /\ clash' \subseteq clash \cup {s}
           /\ mishap \subseteq mishap' /\ mishap' \subseteq mishap \cup {"overlap"}
           /\ "overlap" \notin mishap' =>
                /\ \A j \in Jobs : job[j].service \in {s, None}
                /\ \A r \in Services \ {s} : life[r] # "stopping"
<1>1. PICK j \in Jobs : job[j] = Idle /\ job' = [job EXCEPT ![j] = [at |-> step, service |-> s]]
  BY DEF Launch
<1>2. [at |-> step, service |-> s] \in JobRecord
  BY DEF JobRecord
<1>3. /\ job'[j] = [at |-> step, service |-> s]
      /\ \A k \in Jobs : k # j => job'[k] = job[k]
      /\ job' \in [Jobs -> JobRecord \cup {Idle}]
  BY <1>1, <1>2, RecordIsTyped
<1>4. /\ mishap \subseteq mishap' /\ mishap' \subseteq mishap \cup {"overlap"}
      /\ "overlap" \notin mishap' =>
           /\ \A k \in Jobs : job[k].service \in {s, None}
           /\ \A r \in Services \ {s} : life[r] # "stopping"
  BY DEF Launch
<1>5. clash' = IF \E k \in JobsOf(s) : step = "connecting" \/ job[k].at \in ConnectSteps
               THEN clash \cup {s} ELSE clash
  BY DEF Launch
<1>6. clash \subseteq clash' /\ clash' \subseteq clash \cup {s}
  BY <1>5
<1>. QED
  BY <1>1, <1>3, <1>4, <1>5, <1>6

\* Who launches a coroutine, and what becomes of the service it is for.
Started(s, step) ==
    /\ Launch(s, step)
    /\ \A r \in Services : r # s => life'[r] = life[r]
    /\ life' \in [Services -> {"absent", "live", "stopping", "destroyed"}]
    /\ \/ life[s] = "live" /\ life'[s] = "live"
       \/ /\ life[s] = "absent" /\ life'[s] = "live"
          /\ \A r \in Services : life[r] # "live"
       \/ /\ life[s] \in {"live", "stopping"} /\ life'[s] \in {"stopping", "destroyed"}
          /\ step = "disconnecting"
    /\ UNCHANGED <<fields, state>>
    /\ permitted' \in BOOLEAN /\ asking' \in BOOLEAN

Launching == \E s \in Services : \E step \in {"connecting", "disconnecting"} : Started(s, step)

LEMMA CommandStarts ==
    ASSUME TypeOK, NEW step \in {"connecting", "disconnecting"}, Command(step),
           UNCHANGED <<fields, state>>, permitted' \in BOOLEAN, asking' \in BOOLEAN
    PROVE  Launching
<1>1. CASE \E s \in Services : life[s] = "live"
  BY <1>1 DEF Command, Started, Launching, TypeOK
<1>2. CASE ~\E s \in Services : life[s] = "live"
  <2>1. PICK s \in Services : /\ life[s] = "absent" /\ Launch(s, step)
                              /\ life' = [life EXCEPT ![s] = "live"]
    BY <1>2 DEF Command
  <2>2. Started(s, step)
    BY <1>2, <2>1 DEF Started, TypeOK
  <2>. QED
    BY <2>2 DEF Launching
<1>. QED
  BY <1>1, <1>2

Asking == /\ asking' \in BOOLEAN
          /\ UNCHANGED <<life, fields, job, state, permitted, history>>

LEMMA UserLaunches ==
    ASSUME TypeOK, User \/ \E s \in Services : Destroy(s)
    PROVE  Launching \/ Asking
<1>1. CASE TapConnect
  <2>1. CASE permitted
    BY <1>1, <2>1, CommandStarts DEF TapConnect, TypeOK
  <2>2. CASE ~permitted
    BY <1>1, <2>2 DEF TapConnect, Asking
  <2>. QED
    BY <2>1, <2>2
<1>2. CASE Grant
  BY <1>2, CommandStarts DEF Grant
<1>3. CASE Deny
  BY <1>3 DEF Deny, Asking
<1>4. CASE TapDisconnect
  BY <1>4, CommandStarts DEF TapDisconnect, TypeOK
<1>5. CASE Revoke
  <2>1. PICK s \in Services : /\ life[s] = "live" /\ permitted' = FALSE
                              /\ Launch(s, "disconnecting")
                              /\ life' = [life EXCEPT ![s] = "stopping"]
                              /\ UNCHANGED <<fields, state, asking>>
    BY <1>5 DEF Revoke
  <2>2. Started(s, "disconnecting")
    BY <2>1 DEF Started, TypeOK
  <2>. QED
    BY <2>2 DEF Launching
<1>6. ASSUME NEW s \in Services, Destroy(s) PROVE Launching
  <2>1. Started(s, "disconnecting")
    BY <1>6 DEF Destroy, Started, TypeOK, shared
  <2>. QED
    BY <2>1 DEF Launching
<1>. QED
  BY <1>1, <1>2, <1>3, <1>4, <1>5, <1>6 DEF User

LEMMA NextSteps ==
    ASSUME TypeOK, [Next]_vars
    PROVE  \/ Launching \/ Asking
           \/ \E j \in Jobs, s \in Services : job[j].service = s /\ Step(j, s)
           \/ \E s \in Services : TunnelStarts(s) \/ XrayDies(s) \/ Collect(s)
           \/ UNCHANGED vars
  BY UserLaunches DEF Next, Rest

-----------------------------------------------------------------------------
LEMMA TypeInductive ==
    TypeOK /\ [Next]_vars => TypeOK'
<1>. SUFFICES ASSUME TypeOK, [Next]_vars PROVE TypeOK'
  OBVIOUS
<1>. USE DEF fields, native, shared, history, JobRecord, AllSteps
<1>1. CASE Launching
  <2>1. PICK s \in Services, step \in {"connecting", "disconnecting"} : Started(s, step)
    BY <1>1 DEF Launching
  <2>2. /\ job' \in [Jobs -> JobRecord \cup {Idle}]
        /\ clash' \subseteq clash \cup {s} /\ mishap' \subseteq mishap \cup {"overlap"}
    BY <2>1, LaunchMoves DEF Started, AllSteps, ConnectSteps, DisconnectSteps
  <2>. QED
    BY <2>1, <2>2 DEF Started, TypeOK
<1>2. CASE Asking
  BY <1>2 DEF Asking, TypeOK
<1>3. ASSUME NEW j \in Jobs, NEW s \in Services, job[j].service = s, Connecting(j)
      PROVE  TypeOK'
  <2>1. job' \in [Jobs -> JobRecord \cup {Idle}]
    BY <1>3, GotoMoves DEF Connecting, AllSteps, ConnectSteps, DisconnectSteps
  <2>. QED
    BY <1>3, <2>1 DEF Connecting, TypeOK, Show, States
<1>4. ASSUME NEW j \in Jobs, NEW s \in Services, job[j].service = s, Check(j, s)
      PROVE  TypeOK'
  <2>1. job' \in [Jobs -> JobRecord \cup {Idle}]
    BY <1>4, GotoMoves DEF Check, AllSteps, ConnectSteps, DisconnectSteps
  <2>. QED
    BY <1>4, <2>1 DEF Check, TypeOK, Show, States
<1>5. ASSUME NEW j \in Jobs, NEW s \in Services, job[j].service = s, Spawn(j, s)
      PROVE  TypeOK'
  <2>1. job' \in [Jobs -> JobRecord \cup {Idle}]
    BY <1>5, GotoMoves DEF Spawn, AllSteps, ConnectSteps, DisconnectSteps
  <2>. QED
    BY <1>5, <2>1 DEF Spawn, TypeOK, Show, States
<1>6. ASSUME NEW j \in Jobs, NEW s \in Services, job[j].service = s, Dial(j, s)
      PROVE  TypeOK'
  <2>1. job' \in [Jobs -> JobRecord \cup {Idle}]
    BY <1>6, GotoMoves DEF Dial, AllSteps, ConnectSteps, DisconnectSteps
  <2>. QED
    BY <1>6, <2>1 DEF Dial, TypeOK, Show, States
<1>7. ASSUME NEW j \in Jobs, NEW s \in Services, job[j].service = s, Establish(j, s)
      PROVE  TypeOK'
  <2>1. job' \in [Jobs -> JobRecord \cup {Idle}]
    BY <1>7, GotoMoves DEF Establish, AllSteps, ConnectSteps, DisconnectSteps
  <2>. QED
    BY <1>7, <2>1 DEF Establish, TypeOK, Show, States
<1>8. ASSUME NEW j \in Jobs, NEW s \in Services, job[j].service = s, Bridge(j, s)
      PROVE  TypeOK'
  <2>1. job' \in [Jobs -> JobRecord \cup {Idle}]
    BY <1>8, GotoMoves DEF Bridge, AllSteps, ConnectSteps, DisconnectSteps
  <2>. QED
    BY <1>8, <2>1 DEF Bridge, TypeOK, Show, States
<1>9. ASSUME NEW j \in Jobs, NEW s \in Services, job[j].service = s, Announce(j)
      PROVE  TypeOK'
  <2>1. job' \in [Jobs -> JobRecord \cup {Idle}]
    BY <1>9, RecordIsTyped DEF Announce
  <2>. QED
    BY <1>9, <2>1 DEF Announce, TypeOK, Show, States
<1>10. ASSUME NEW j \in Jobs, NEW s \in Services, job[j].service = s, Failed(j)
      PROVE  TypeOK'
  <2>1. job' \in [Jobs -> JobRecord \cup {Idle}]
    BY <1>10, GotoMoves DEF Failed, AllSteps, ConnectSteps, DisconnectSteps
  <2>. QED
    BY <1>10, <2>1 DEF Failed, TypeOK, Show, States
<1>11. ASSUME NEW j \in Jobs, NEW s \in Services, job[j].service = s, Disconnecting(j)
      PROVE  TypeOK'
  <2>1. job' \in [Jobs -> JobRecord \cup {Idle}]
    BY <1>11, GotoMoves DEF Disconnecting, AllSteps, ConnectSteps, DisconnectSteps
  <2>. QED
    BY <1>11, <2>1 DEF Disconnecting, TypeOK, Show, States
<1>12. ASSUME NEW j \in Jobs, NEW s \in Services, job[j].service = s, Unbridge(j, s)
      PROVE  TypeOK'
  <2>1. job' \in [Jobs -> JobRecord \cup {Idle}]
    BY <1>12, GotoMoves DEF Unbridge, AllSteps, ConnectSteps, DisconnectSteps
  <2>. QED
    BY <1>12, <2>1 DEF Unbridge, TypeOK, Show, States
<1>13. ASSUME NEW j \in Jobs, NEW s \in Services, job[j].service = s, Untun(j, s)
      PROVE  TypeOK'
  <2>1. job' \in [Jobs -> JobRecord \cup {Idle}]
    BY <1>13, GotoMoves DEF Untun, AllSteps, ConnectSteps, DisconnectSteps
  <2>. QED
    BY <1>13, <2>1 DEF Untun, TypeOK, Show, States
<1>14. ASSUME NEW j \in Jobs, NEW s \in Services, job[j].service = s, Halt(j, s)
      PROVE  TypeOK'
  <2>1. job' \in [Jobs -> JobRecord \cup {Idle}]
    BY <1>14, GotoMoves DEF Halt, AllSteps, ConnectSteps, DisconnectSteps
  <2>. QED
    BY <1>14, <2>1 DEF Halt, TypeOK, Show, States
<1>15. ASSUME NEW j \in Jobs, NEW s \in Services, job[j].service = s, Forget(j, s)
      PROVE  TypeOK'
  <2>1. job' \in [Jobs -> JobRecord \cup {Idle}]
    BY <1>15, GotoMoves DEF Forget, AllSteps, ConnectSteps, DisconnectSteps
  <2>. QED
    BY <1>15, <2>1 DEF Forget, TypeOK, Show, States
<1>16. ASSUME NEW j \in Jobs, NEW s \in Services, job[j].service = s, Disconnected(j)
      PROVE  TypeOK'
  <2>1. job' \in [Jobs -> JobRecord \cup {Idle}]
    BY <1>16, GotoMoves DEF Disconnected, AllSteps, ConnectSteps, DisconnectSteps
  <2>. QED
    BY <1>16, <2>1 DEF Disconnected, TypeOK, Show, States
<1>17. ASSUME NEW j \in Jobs, NEW s \in Services, job[j].service = s, StopSelf(j, s)
      PROVE  TypeOK'
  <2>1. job' \in [Jobs -> JobRecord \cup {Idle}]
    BY <1>17, GotoMoves, RecordIsTyped DEF StopSelf, AllSteps, DisconnectSteps
  <2>. QED
    BY <1>17, <2>1 DEF StopSelf, TypeOK, Show, States
<1>18. ASSUME NEW s \in Services, TunnelStarts(s) PROVE TypeOK'
  BY <1>18 DEF TunnelStarts, TypeOK
<1>19. ASSUME NEW s \in Services, XrayDies(s) PROVE TypeOK'
  BY <1>19 DEF XrayDies, TypeOK
<1>20. ASSUME NEW s \in Services, Collect(s) PROVE TypeOK'
  BY <1>20 DEF Collect, TypeOK
<1>21. CASE UNCHANGED vars
  BY <1>21 DEF vars, TypeOK
<1>. QED
  BY <1>1, <1>2, <1>3, <1>4, <1>5, <1>6, <1>7, <1>8, <1>9, <1>10, <1>11, <1>12, <1>13,
     <1>14, <1>15, <1>16, <1>17, <1>18, <1>19, <1>20, <1>21, NextSteps DEF Step

LEMMA BusyInductive ==
    TypeOK /\ Busy /\ [Next]_vars => Busy'
<1>. SUFFICES ASSUME TypeOK, Busy, [Next]_vars PROVE Busy'
  OBVIOUS
<1>1. CASE Launching
  <2>1. PICK s \in Services, step \in {"connecting", "disconnecting"} : Started(s, step)
    BY <1>1 DEF Launching
  <2>2. PICK j \in Jobs : job[j] = Idle /\ \A k \in Jobs : k # j => job'[k] = job[k]
    BY <2>1, LaunchMoves DEF Started, AllSteps, ConnectSteps, DisconnectSteps
  <2>. QED
    BY <2>1, <2>2, JobShapes DEF Started, Busy
<1>2. CASE Asking
  BY <1>2 DEF Asking, Busy
<1>3. ASSUME NEW j \in Jobs, NEW s \in Services, job[j].service = s, Connecting(j)
      PROVE  Busy'
  <2>1. job'[j].at \in {"check"}
    BY <1>3, GotoMoves DEF Connecting, AllSteps, ConnectSteps, DisconnectSteps
  <2>. QED
    BY <1>3, <2>1 DEF Busy
<1>4. ASSUME NEW j \in Jobs, NEW s \in Services, job[j].service = s, Check(j, s)
      PROVE  Busy'
  <2>1. job'[j].at \in {"spawn"}
    BY <1>4, GotoMoves DEF Check, AllSteps, ConnectSteps, DisconnectSteps
  <2>. QED
    BY <1>4, <2>1 DEF Busy
<1>5. ASSUME NEW j \in Jobs, NEW s \in Services, job[j].service = s, Spawn(j, s)
      PROVE  Busy'
  <2>1. job'[j].at \in {"dial"}
    BY <1>5, GotoMoves DEF Spawn, AllSteps, ConnectSteps, DisconnectSteps
  <2>. QED
    BY <1>5, <2>1 DEF Busy
<1>6. ASSUME NEW j \in Jobs, NEW s \in Services, job[j].service = s, Dial(j, s)
      PROVE  Busy'
  <2>1. job'[j].at \in {"establish"}
    BY <1>6, GotoMoves DEF Dial, AllSteps, ConnectSteps, DisconnectSteps
  <2>. QED
    BY <1>6, <2>1 DEF Busy
<1>7. ASSUME NEW j \in Jobs, NEW s \in Services, job[j].service = s, Establish(j, s)
      PROVE  Busy'
  <2>1. job'[j].at \in {"bridge"}
    BY <1>7, GotoMoves DEF Establish, AllSteps, ConnectSteps, DisconnectSteps
  <2>. QED
    BY <1>7, <2>1 DEF Busy
<1>8. ASSUME NEW j \in Jobs, NEW s \in Services, job[j].service = s, Bridge(j, s)
      PROVE  Busy'
  <2>1. job'[j].at \in {"announce"}
    BY <1>8, GotoMoves DEF Bridge, AllSteps, ConnectSteps, DisconnectSteps
  <2>. QED
    BY <1>8, <2>1 DEF Busy
<1>9. ASSUME NEW j \in Jobs, NEW s \in Services, job[j].service = s, Announce(j)
      PROVE  Busy'
  BY <1>9 DEF Announce, Show, Busy
<1>10. ASSUME NEW j \in Jobs, NEW s \in Services, job[j].service = s, Failed(j)
      PROVE  Busy'
  BY <1>10 DEF Failed, Show, Busy
<1>11. ASSUME NEW j \in Jobs, NEW s \in Services, job[j].service = s, Disconnecting(j)
      PROVE  Busy'
  <2>1. job'[j].at \in {"unbridge"}
    BY <1>11, GotoMoves DEF Disconnecting, AllSteps, ConnectSteps, DisconnectSteps
  <2>. QED
    BY <1>11, <2>1 DEF Busy
<1>12. ASSUME NEW j \in Jobs, NEW s \in Services, job[j].service = s, Unbridge(j, s)
      PROVE  Busy'
  <2>1. job'[j].at \in {"untun"}
    BY <1>12, GotoMoves DEF Unbridge, AllSteps, ConnectSteps, DisconnectSteps
  <2>. QED
    BY <1>12, <2>1 DEF Busy
<1>13. ASSUME NEW j \in Jobs, NEW s \in Services, job[j].service = s, Untun(j, s)
      PROVE  Busy'
  <2>1. job'[j].at \in {"halt"}
    BY <1>13, GotoMoves DEF Untun, AllSteps, ConnectSteps, DisconnectSteps
  <2>. QED
    BY <1>13, <2>1 DEF Busy
<1>14. ASSUME NEW j \in Jobs, NEW s \in Services, job[j].service = s, Halt(j, s)
      PROVE  Busy'
  <2>1. job'[j].at \in {"forget", "disconnected"}
    BY <1>14, GotoMoves DEF Halt, AllSteps, ConnectSteps, DisconnectSteps
  <2>. QED
    BY <1>14, <2>1 DEF Busy
<1>15. ASSUME NEW j \in Jobs, NEW s \in Services, job[j].service = s, Forget(j, s)
      PROVE  Busy'
  <2>1. job'[j].at \in {"disconnected"}
    BY <1>15, GotoMoves DEF Forget, AllSteps, ConnectSteps, DisconnectSteps
  <2>. QED
    BY <1>15, <2>1 DEF Busy
<1>16. ASSUME NEW j \in Jobs, NEW s \in Services, job[j].service = s, Disconnected(j)
      PROVE  Busy'
  BY <1>16 DEF Disconnected, Show, Busy
<1>17. ASSUME NEW j \in Jobs, NEW s \in Services, job[j].service = s, StopSelf(j, s)
      PROVE  Busy'
  <2>1. \A k \in Jobs : k # j => job'[k] = job[k]
    BY <1>17, GotoMoves, RecordIsTyped DEF StopSelf, AllSteps, DisconnectSteps
  <2>. QED
    BY <1>17, <2>1 DEF StopSelf, At, Busy
<1>18. ASSUME NEW s \in Services, TunnelStarts(s) PROVE Busy'
  BY <1>18 DEF TunnelStarts, Busy
<1>19. ASSUME NEW s \in Services, XrayDies(s) PROVE Busy'
  BY <1>19 DEF XrayDies, Busy
<1>20. ASSUME NEW s \in Services, Collect(s) PROVE Busy'
  BY <1>20 DEF Collect, Busy
<1>21. CASE UNCHANGED vars
  BY <1>21 DEF vars, Busy
<1>. QED
  BY <1>1, <1>2, <1>3, <1>4, <1>5, <1>6, <1>7, <1>8, <1>9, <1>10, <1>11, <1>12, <1>13,
     <1>14, <1>15, <1>16, <1>17, <1>18, <1>19, <1>20, <1>21, NextSteps DEF Step

\* Every step but the last one of a service stays with connect, goes over to
\* disconnect or stays with disconnect.
Moved(j, s) == /\ UNCHANGED <<life, clash>> /\ mishap \subseteq mishap'
               /\ \A k \in Jobs : k # j => job'[k] = job[k]
               /\ \/ job'[j] = Idle
                  \/ /\ job'[j].service = s
                     /\ job'[j].at \in ConnectSteps => job[j].at \in ConnectSteps
               /\ state' = "Connected" => Announce(j) \/ state' = state
               /\ job'[j] = Idle => Announce(j)
               /\ job'[j].at \in Quitting =>
                    state' # "Connected" \/ (state' = state /\ job[j].at \in Quitting)

LEMMA StepMoves ==
    ASSUME TypeOK, NEW j \in Jobs, NEW s \in Services, job[j].service = s, Step(j, s)
    PROVE  Moved(j, s) \/ StopSelf(j, s)
<1>. USE DEF At, Fallible, AllSteps, ConnectSteps, DisconnectSteps, history, Show, Idle, Quitting
<1>1. CASE Connecting(j)
  BY <1>1, GotoMoves DEF Connecting, Moved
<1>2. CASE Check(j, s)
  BY <1>2, GotoMoves DEF Check, Moved
<1>3. CASE Spawn(j, s)
  BY <1>3, GotoMoves DEF Spawn, Moved
<1>4. CASE Dial(j, s)
  BY <1>4, GotoMoves DEF Dial, Moved
<1>5. CASE Establish(j, s)
  BY <1>5, GotoMoves DEF Establish, Moved
<1>6. CASE Bridge(j, s)
  BY <1>6, GotoMoves DEF Bridge, Moved
<1>7. CASE Announce(j)
  BY <1>7, RecordIsTyped DEF Announce, Moved
<1>8. CASE Failed(j)
  BY <1>8, GotoMoves DEF Failed, Moved
<1>9. CASE Disconnecting(j)
  BY <1>9, GotoMoves DEF Disconnecting, Moved
<1>10. CASE Unbridge(j, s)
  BY <1>10, GotoMoves DEF Unbridge, Moved
<1>11. CASE Untun(j, s)
  BY <1>11, GotoMoves DEF Untun, Moved
<1>12. CASE Halt(j, s)
  BY <1>12, GotoMoves DEF Halt, Moved
<1>13. CASE Forget(j, s)
  BY <1>13, GotoMoves DEF Forget, Moved
<1>14. CASE Disconnected(j)
  BY <1>14, GotoMoves DEF Disconnected, Moved
<1>. QED
  BY <1>1, <1>2, <1>3, <1>4, <1>5, <1>6, <1>7, <1>8, <1>9, <1>10, <1>11, <1>12, <1>13,
     <1>14 DEF Step

LEMMA StopSelfMoves ==
    ASSUME TypeOK, NEW j \in Jobs, NEW s \in Services, job[j].service = s, StopSelf(j, s)
    PROVE  /\ \A k \in Jobs : k # j => job'[k] = job[k]
           /\ \A r \in Services : r # s => life'[r] = life[r]
           /\ life'[s] = IF life[s] = "live" THEN "destroyed" ELSE life[s]
           /\ life[s] = "live" => job'[j].at = "disconnecting" /\ job'[j].service = s
           /\ life[s] # "live" => job'[j] = Idle
           /\ clash \subseteq clash' /\ clash' \subseteq clash \cup {s}
           /\ life[s] = "live" /\ s \notin clash' =>
                \A k \in JobsOf(s) : job[k].at \notin ConnectSteps
           /\ UNCHANGED <<fields, state, shared, mishap>>
<1>1. /\ \A k \in Jobs : k # j => job'[k] = job[k]
      /\ life[s] = "live" => job'[j].at = "disconnecting" /\ job'[j].service = s
      /\ life[s] # "live" => job'[j] = Idle
  BY GotoMoves, RecordIsTyped DEF StopSelf, AllSteps, DisconnectSteps
<1>2. /\ \A r \in Services : r # s => life'[r] = life[r]
      /\ life'[s] = IF life[s] = "live" THEN "destroyed" ELSE life[s]
  BY DEF StopSelf, TypeOK
<1>3. /\ clash \subseteq clash' /\ clash' \subseteq clash \cup {s}
      /\ life[s] = "live" /\ s \notin clash' => \A k \in JobsOf(s) : job[k].at \notin ConnectSteps
  BY DEF StopSelf
<1>4. UNCHANGED <<fields, state, shared, mishap>>
  BY DEF StopSelf
<1>. QED
  BY <1>1, <1>2, <1>3, <1>4

LEMMA AloneInductive == TypeOK /\ Alone /\ [Next]_vars => Alone'
<1>. SUFFICES ASSUME TypeOK, Alone, [Next]_vars PROVE Alone'
  OBVIOUS
<1>. USE DEF Alone, JobsOf
<1>1. CASE Launching
  <2>1. PICK s \in Services, step \in {"connecting", "disconnecting"} : Started(s, step)
    BY <1>1 DEF Launching
  <2>. step \in AllSteps
    BY DEF AllSteps, ConnectSteps, DisconnectSteps
  <2>2. PICK j \in Jobs : /\ job[j] = Idle
                          /\ job'[j].at = step /\ job'[j].service = s
                          /\ \A k \in Jobs : k # j => job'[k] = job[k]
    BY <2>1, LaunchMoves DEF Started
  <2>3. /\ clash \subseteq clash'
        /\ s \notin clash' =>
             \A k \in JobsOf(s) : step # "connecting" /\ job[k].at \notin ConnectSteps
    BY <2>1, LaunchMoves DEF Started
  <2>4. ASSUME NEW r \in Services \ clash', r # s, NEW k \in JobsOf(r)', job'[k].at \in ConnectSteps
        PROVE  life'[r] = "live" /\ \A i \in JobsOf(r)' : i = k
    BY <2>1, <2>2, <2>3, <2>4, JobShapes DEF Started
  <2>5. ASSUME s \notin clash', NEW k \in JobsOf(s)', job'[k].at \in ConnectSteps
        PROVE  life'[s] = "live" /\ \A i \in JobsOf(s)' : i = k
    <3>1. k = j /\ step = "connecting"
      BY <2>2, <2>3, <2>5 DEF ConnectSteps
    <3>. QED
      BY <2>1, <2>2, <2>3, <2>5, <3>1 DEF Started
  <2>. QED
    BY <2>4, <2>5
<1>2. CASE Asking
  BY <1>2 DEF Asking, history
<1>3. ASSUME NEW j \in Jobs, NEW s \in Services, job[j].service = s, Moved(j, s) PROVE Alone'
  BY <1>3, JobShapes DEF Moved, Idle, ConnectSteps
<1>4. ASSUME NEW j \in Jobs, NEW s \in Services, job[j].service = s, StopSelf(j, s) PROVE Alone'
  <2>1. job'[j].at \notin ConnectSteps
    BY <1>4, StopSelfMoves DEF ConnectSteps, Idle
  <2>2. ASSUME NEW r \in Services \ clash', NEW k \in JobsOf(r)', job'[k].at \in ConnectSteps
        PROVE  /\ k \in JobsOf(r) /\ job[k].at \in ConnectSteps
               /\ r \notin clash /\ life'[r] = "live"
    BY <1>4, <2>1, <2>2, StopSelfMoves
  <2>3. ASSUME NEW r \in Services \ clash', NEW k \in JobsOf(r)', job'[k].at \in ConnectSteps,
               NEW i \in JobsOf(r)'
        PROVE  i = k
    BY <1>4, <2>1, <2>2, <2>3, StopSelfMoves, JobShapes DEF Idle
  <2>. QED
    BY <2>2, <2>3
<1>5. ASSUME NEW s \in Services, TunnelStarts(s) \/ XrayDies(s) PROVE Alone'
  BY <1>5 DEF TunnelStarts, XrayDies, history
<1>6. ASSUME NEW s \in Services, Collect(s) PROVE Alone'
  BY <1>6 DEF Collect, history, TypeOK
<1>7. CASE UNCHANGED vars
  BY <1>7 DEF vars, history
<1>. QED
  BY <1>1, <1>2, <1>3, <1>4, <1>5, <1>6, <1>7, NextSteps, StepMoves

\* A step of j touches only what its service holds.
Confined(j, s) ==
    /\ \A k \in Jobs : k # j => job'[k] = job[k]
    /\ job'[j] = Idle \/ job'[j].service = s
    /\ clash \subseteq clash'
    /\ \A r \in Services : r # s => /\ process'[r] = process[r] /\ tun'[r] = tun[r]
                                     /\ engine'[r] = engine[r] /\ tunnel'[r] = tunnel[r]

LEMMA ProgressKept ==
    ASSUME TypeOK, Progress, NEW j \in Jobs, NEW s \in Services, job[j].service = s,
           Confined(j, s),
           s \notin clash' => job'[j] = Idle \/ (job'[j].service = s /\ Fits(job[j].at, s)'),
           s \notin clash' => \A k \in JobsOf(s) : k # j => Fits(job[k].at, s)'
    PROVE  Progress'
<1>. SUFFICES ASSUME NEW r \in Services \ clash', NEW k \in JobsOf(r)' PROVE Fits(job[k].at, r)'
  BY DEF Progress
<1>1. CASE r # s
  <2>1. k # j /\ job'[k] = job[k] /\ k \in JobsOf(r) /\ r \notin clash
    BY <1>1, JobShapes DEF JobsOf, Confined, Idle
  <2>2. Fits(job[k].at, r)
    BY <2>1 DEF Progress
  <2>. QED
    BY <1>1, <2>1, <2>2 DEF Confined, Fits
<1>2. CASE r = s /\ k = j
  BY <1>2, JobShapes DEF JobsOf, Idle
<1>3. CASE r = s /\ k # j
  BY <1>3 DEF JobsOf, Confined
<1>. QED
  BY <1>1, <1>2, <1>3

LEMMA StepIsConfined ==
    ASSUME TypeOK, NEW j \in Jobs, NEW s \in Services, job[j].service = s, Step(j, s)
    PROVE  Confined(j, s)
<1>. USE DEF Confined, fields, native, history
<1>1. CASE Connecting(j)
  BY <1>1, GotoMoves DEF Connecting, TypeOK, AllSteps, ConnectSteps, DisconnectSteps
<1>2. CASE Check(j, s)
  BY <1>2, GotoMoves DEF Check, TypeOK, AllSteps, ConnectSteps, DisconnectSteps
<1>3. CASE Spawn(j, s)
  BY <1>3, GotoMoves DEF Spawn, TypeOK, AllSteps, ConnectSteps, DisconnectSteps
<1>4. CASE Dial(j, s)
  BY <1>4, GotoMoves DEF Dial, TypeOK, AllSteps, ConnectSteps, DisconnectSteps
<1>5. CASE Establish(j, s)
  BY <1>5, GotoMoves DEF Establish, TypeOK, AllSteps, ConnectSteps, DisconnectSteps
<1>6. CASE Bridge(j, s)
  BY <1>6, GotoMoves DEF Bridge, TypeOK, AllSteps, ConnectSteps, DisconnectSteps
<1>7. CASE Announce(j)
  BY <1>7, RecordIsTyped DEF Announce, TypeOK, AllSteps, ConnectSteps, DisconnectSteps
<1>8. CASE Failed(j)
  BY <1>8, GotoMoves DEF Failed, TypeOK, AllSteps, ConnectSteps, DisconnectSteps
<1>9. CASE Disconnecting(j)
  BY <1>9, GotoMoves DEF Disconnecting, TypeOK, AllSteps, ConnectSteps, DisconnectSteps
<1>10. CASE Unbridge(j, s)
  BY <1>10, GotoMoves DEF Unbridge, TypeOK, AllSteps, ConnectSteps, DisconnectSteps
<1>11. CASE Untun(j, s)
  BY <1>11, GotoMoves DEF Untun, TypeOK, AllSteps, ConnectSteps, DisconnectSteps
<1>12. CASE Halt(j, s)
  BY <1>12, GotoMoves DEF Halt, TypeOK, AllSteps, ConnectSteps, DisconnectSteps
<1>13. CASE Forget(j, s)
  BY <1>13, GotoMoves DEF Forget, TypeOK, AllSteps, ConnectSteps, DisconnectSteps
<1>14. CASE Disconnected(j)
  BY <1>14, GotoMoves DEF Disconnected, TypeOK, AllSteps, ConnectSteps, DisconnectSteps
<1>15. CASE StopSelf(j, s)
  BY <1>15, StopSelfMoves
<1>. QED
  BY <1>1, <1>2, <1>3, <1>4, <1>5, <1>6, <1>7, <1>8, <1>9, <1>10, <1>11, <1>12, <1>13,
     <1>14, <1>15 DEF Step

LEMMA ProgressInductive ==
    TypeOK /\ Alone /\ Progress /\ [Next]_vars => Progress'
<1>. SUFFICES ASSUME TypeOK, Alone, Progress, [Next]_vars PROVE Progress'
  OBVIOUS
<1>1. CASE Launching
  <2>1. PICK s \in Services, step \in {"connecting", "disconnecting"} : Started(s, step)
    BY <1>1 DEF Launching
  <2>2. PICK j \in Jobs : /\ job[j] = Idle
                          /\ job'[j].at = step /\ job'[j].service = s
                          /\ \A k \in Jobs : k # j => job'[k] = job[k]
    BY <2>1, LaunchMoves DEF Started, AllSteps, ConnectSteps, DisconnectSteps
  <2>3. clash \subseteq clash'
    BY <2>1, LaunchMoves DEF Started, AllSteps, ConnectSteps, DisconnectSteps
  <2>4. \A r \in Services \ clash' : \A k \in JobsOf(r)' : Fits(job'[k].at, r)
    <3>. SUFFICES ASSUME NEW r \in Services \ clash', NEW k \in JobsOf(r)'
                  PROVE  Fits(job'[k].at, r)
      OBVIOUS
    <3>1. CASE k = j
      BY <2>2, <3>1 DEF Fits
    <3>2. CASE k # j
      BY <2>2, <2>3, <3>2 DEF Progress, JobsOf
    <3>. QED
      BY <3>1, <3>2
  <2>. QED
    BY <2>1, <2>4 DEF Started, Progress, Fits, fields
<1>2. CASE Asking
  BY <1>2 DEF Asking, Progress, Fits, JobsOf, fields, history
<1>3. ASSUME NEW j \in Jobs, NEW s \in Services, job[j].service = s, Connecting(j)
      PROVE  Progress'
  <2>1. job'[j].service = s /\ job'[j].at = "check"
    BY <1>3, GotoMoves DEF Connecting, AllSteps, ConnectSteps, DisconnectSteps
  <2>2. Confined(j, s)
    BY <1>3, StepIsConfined DEF Step
  <2>3. s \notin clash' => Fits(job[j].at, s)
    BY <1>3, <2>2 DEF Progress, JobsOf, Confined
  <2>4. s \notin clash' => job'[j] = Idle \/ (job'[j].service = s /\ Fits(job[j].at, s)')
    BY <1>3, <2>1, <2>3 DEF Connecting, At, Fits, TypeOK, fields
  <2>5. s \notin clash' => \A k \in JobsOf(s) : k = j
    BY <1>3, <2>2 DEF Alone, JobsOf, Confined, At, ConnectSteps, Connecting
  <2>. QED
    BY <1>3, <2>1, <2>2, <2>4, <2>5, ProgressKept
<1>4. ASSUME NEW j \in Jobs, NEW s \in Services, job[j].service = s, Check(j, s)
      PROVE  Progress'
  <2>1. job'[j].service = s /\ job'[j].at = "spawn"
    BY <1>4, GotoMoves DEF Check, AllSteps, ConnectSteps, DisconnectSteps
  <2>2. Confined(j, s)
    BY <1>4, StepIsConfined DEF Step
  <2>3. s \notin clash' => Fits(job[j].at, s)
    BY <1>4, <2>2 DEF Progress, JobsOf, Confined
  <2>4. s \notin clash' => job'[j] = Idle \/ (job'[j].service = s /\ Fits(job[j].at, s)')
    BY <1>4, <2>1, <2>3 DEF Check, At, Fits, TypeOK, fields
  <2>5. s \notin clash' => \A k \in JobsOf(s) : k = j
    BY <1>4, <2>2 DEF Alone, JobsOf, Confined, At, ConnectSteps, Check
  <2>. QED
    BY <1>4, <2>1, <2>2, <2>4, <2>5, ProgressKept
<1>5. ASSUME NEW j \in Jobs, NEW s \in Services, job[j].service = s, Spawn(j, s)
      PROVE  Progress'
  <2>1. job'[j].service = s /\ job'[j].at = "dial"
    BY <1>5, GotoMoves DEF Spawn, AllSteps, ConnectSteps, DisconnectSteps
  <2>2. Confined(j, s)
    BY <1>5, StepIsConfined DEF Step
  <2>3. s \notin clash' => Fits(job[j].at, s)
    BY <1>5, <2>2 DEF Progress, JobsOf, Confined
  <2>4. s \notin clash' => job'[j] = Idle \/ (job'[j].service = s /\ Fits(job[j].at, s)')
    BY <1>5, <2>1, <2>3 DEF Spawn, At, Fits, TypeOK, fields
  <2>5. s \notin clash' => \A k \in JobsOf(s) : k = j
    BY <1>5, <2>2 DEF Alone, JobsOf, Confined, At, ConnectSteps, Spawn
  <2>. QED
    BY <1>5, <2>1, <2>2, <2>4, <2>5, ProgressKept
<1>6. ASSUME NEW j \in Jobs, NEW s \in Services, job[j].service = s, Dial(j, s)
      PROVE  Progress'
  <2>1. job'[j].service = s /\ job'[j].at = "establish"
    BY <1>6, GotoMoves DEF Dial, AllSteps, ConnectSteps, DisconnectSteps
  <2>2. Confined(j, s)
    BY <1>6, StepIsConfined DEF Step
  <2>3. s \notin clash' => Fits(job[j].at, s)
    BY <1>6, <2>2 DEF Progress, JobsOf, Confined
  <2>4. s \notin clash' => job'[j] = Idle \/ (job'[j].service = s /\ Fits(job[j].at, s)')
    BY <1>6, <2>1, <2>3 DEF Dial, At, Fits, TypeOK, fields
  <2>5. s \notin clash' => \A k \in JobsOf(s) : k = j
    BY <1>6, <2>2 DEF Alone, JobsOf, Confined, At, ConnectSteps, Dial
  <2>. QED
    BY <1>6, <2>1, <2>2, <2>4, <2>5, ProgressKept
<1>7. ASSUME NEW j \in Jobs, NEW s \in Services, job[j].service = s, Establish(j, s)
      PROVE  Progress'
  <2>1. job'[j].service = s /\ job'[j].at = "bridge"
    BY <1>7, GotoMoves DEF Establish, AllSteps, ConnectSteps, DisconnectSteps
  <2>2. Confined(j, s)
    BY <1>7, StepIsConfined DEF Step
  <2>3. s \notin clash' => Fits(job[j].at, s)
    BY <1>7, <2>2 DEF Progress, JobsOf, Confined
  <2>4. s \notin clash' => job'[j] = Idle \/ (job'[j].service = s /\ Fits(job[j].at, s)')
    BY <1>7, <2>1, <2>3 DEF Establish, At, Fits, TypeOK, fields
  <2>5. s \notin clash' => \A k \in JobsOf(s) : k = j
    BY <1>7, <2>2 DEF Alone, JobsOf, Confined, At, ConnectSteps, Establish
  <2>. QED
    BY <1>7, <2>1, <2>2, <2>4, <2>5, ProgressKept
<1>8. ASSUME NEW j \in Jobs, NEW s \in Services, job[j].service = s, Bridge(j, s)
      PROVE  Progress'
  <2>1. job'[j].service = s /\ job'[j].at = "announce"
    BY <1>8, GotoMoves DEF Bridge, AllSteps, ConnectSteps, DisconnectSteps
  <2>2. Confined(j, s)
    BY <1>8, StepIsConfined DEF Step
  <2>3. s \notin clash' => Fits(job[j].at, s)
    BY <1>8, <2>2 DEF Progress, JobsOf, Confined
  <2>4. s \notin clash' => job'[j] = Idle \/ (job'[j].service = s /\ Fits(job[j].at, s)')
    BY <1>8, <2>1, <2>3 DEF Bridge, At, Fits, TypeOK, fields
  <2>5. s \notin clash' => \A k \in JobsOf(s) : k = j
    BY <1>8, <2>2 DEF Alone, JobsOf, Confined, At, ConnectSteps, Bridge
  <2>. QED
    BY <1>8, <2>1, <2>2, <2>4, <2>5, ProgressKept
<1>9. ASSUME NEW j \in Jobs, NEW s \in Services, job[j].service = s, Announce(j)
      PROVE  Progress'
  <2>1. job'[j] = Idle
    BY <1>9, RecordIsTyped DEF Announce
  <2>2. Confined(j, s)
    BY <1>9, StepIsConfined DEF Step
  <2>3. s \notin clash' => Fits(job[j].at, s)
    BY <1>9, <2>2 DEF Progress, JobsOf, Confined
  <2>4. s \notin clash' => job'[j] = Idle \/ (job'[j].service = s /\ Fits(job[j].at, s)')
    BY <1>9, <2>1, <2>3 DEF Announce, At, Fits, TypeOK, fields
  <2>5. s \notin clash' => \A k \in JobsOf(s) : k = j
    BY <1>9, <2>2 DEF Alone, JobsOf, Confined, At, ConnectSteps, Announce
  <2>. QED
    BY <1>9, <2>1, <2>2, <2>4, <2>5, ProgressKept
<1>10. ASSUME NEW j \in Jobs, NEW s \in Services, job[j].service = s, Failed(j)
      PROVE  Progress'
  <2>1. job'[j].service = s /\ job'[j].at = "disconnecting"
    BY <1>10, GotoMoves DEF Failed, AllSteps, ConnectSteps, DisconnectSteps
  <2>2. Confined(j, s)
    BY <1>10, StepIsConfined DEF Step
  <2>3. s \notin clash' => Fits(job[j].at, s)
    BY <1>10, <2>2 DEF Progress, JobsOf, Confined
  <2>4. s \notin clash' => job'[j] = Idle \/ (job'[j].service = s /\ Fits(job[j].at, s)')
    BY <1>10, <2>1, <2>3 DEF Failed, At, Fits, TypeOK, fields
  <2>5. s \notin clash' => \A k \in JobsOf(s) : k # j =>
          Fits(job[k].at, s) /\ job[k].at \in DisconnectSteps
    BY <1>10, <2>2, JobShapes DEF Progress, Alone, JobsOf, Confined, AllSteps
  <2>6. \A step \in DisconnectSteps : Fits(step, s) => Fits(step, s)'
    BY <1>10 DEF Failed, Fits, TypeOK, fields, DisconnectSteps
  <2>7. s \notin clash' => \A k \in JobsOf(s) : k # j => Fits(job[k].at, s)'
    BY <2>2, <2>5, <2>6 DEF Confined, JobsOf
  <2>. QED
    BY <1>10, <2>2, <2>4, <2>7, ProgressKept
<1>11. ASSUME NEW j \in Jobs, NEW s \in Services, job[j].service = s, Disconnecting(j)
      PROVE  Progress'
  <2>1. job'[j].service = s /\ job'[j].at = "unbridge"
    BY <1>11, GotoMoves DEF Disconnecting, AllSteps, ConnectSteps, DisconnectSteps
  <2>2. Confined(j, s)
    BY <1>11, StepIsConfined DEF Step
  <2>3. s \notin clash' => Fits(job[j].at, s)
    BY <1>11, <2>2 DEF Progress, JobsOf, Confined
  <2>4. s \notin clash' => job'[j] = Idle \/ (job'[j].service = s /\ Fits(job[j].at, s)')
    BY <1>11, <2>1, <2>3 DEF Disconnecting, At, Fits, TypeOK, fields
  <2>5. s \notin clash' => \A k \in JobsOf(s) : k # j =>
          Fits(job[k].at, s) /\ job[k].at \in DisconnectSteps
    BY <1>11, <2>2, JobShapes DEF Progress, Alone, JobsOf, Confined, AllSteps
  <2>6. \A step \in DisconnectSteps : Fits(step, s) => Fits(step, s)'
    BY <1>11 DEF Disconnecting, Fits, TypeOK, fields, DisconnectSteps
  <2>7. s \notin clash' => \A k \in JobsOf(s) : k # j => Fits(job[k].at, s)'
    BY <2>2, <2>5, <2>6 DEF Confined, JobsOf
  <2>. QED
    BY <1>11, <2>2, <2>4, <2>7, ProgressKept
<1>12. ASSUME NEW j \in Jobs, NEW s \in Services, job[j].service = s, Unbridge(j, s)
      PROVE  Progress'
  <2>1. job'[j].service = s /\ job'[j].at = "untun"
    BY <1>12, GotoMoves DEF Unbridge, AllSteps, ConnectSteps, DisconnectSteps
  <2>2. Confined(j, s)
    BY <1>12, StepIsConfined DEF Step
  <2>3. s \notin clash' => Fits(job[j].at, s)
    BY <1>12, <2>2 DEF Progress, JobsOf, Confined
  <2>4. s \notin clash' => job'[j] = Idle \/ (job'[j].service = s /\ Fits(job[j].at, s)')
    BY <1>12, <2>1, <2>3 DEF Unbridge, At, Fits, TypeOK, fields
  <2>5. s \notin clash' => \A k \in JobsOf(s) : k # j =>
          Fits(job[k].at, s) /\ job[k].at \in DisconnectSteps
    BY <1>12, <2>2, JobShapes DEF Progress, Alone, JobsOf, Confined, AllSteps
  <2>6. \A step \in DisconnectSteps : Fits(step, s) => Fits(step, s)'
    BY <1>12 DEF Unbridge, Fits, TypeOK, fields, DisconnectSteps
  <2>7. s \notin clash' => \A k \in JobsOf(s) : k # j => Fits(job[k].at, s)'
    BY <2>2, <2>5, <2>6 DEF Confined, JobsOf
  <2>. QED
    BY <1>12, <2>2, <2>4, <2>7, ProgressKept
<1>13. ASSUME NEW j \in Jobs, NEW s \in Services, job[j].service = s, Untun(j, s)
      PROVE  Progress'
  <2>1. job'[j].service = s /\ job'[j].at = "halt"
    BY <1>13, GotoMoves DEF Untun, AllSteps, ConnectSteps, DisconnectSteps
  <2>2. Confined(j, s)
    BY <1>13, StepIsConfined DEF Step
  <2>3. s \notin clash' => Fits(job[j].at, s)
    BY <1>13, <2>2 DEF Progress, JobsOf, Confined
  <2>4. s \notin clash' => job'[j] = Idle \/ (job'[j].service = s /\ Fits(job[j].at, s)')
    BY <1>13, <2>1, <2>3 DEF Untun, At, Fits, TypeOK, fields
  <2>5. s \notin clash' => \A k \in JobsOf(s) : k # j =>
          Fits(job[k].at, s) /\ job[k].at \in DisconnectSteps
    BY <1>13, <2>2, JobShapes DEF Progress, Alone, JobsOf, Confined, AllSteps
  <2>6. \A step \in DisconnectSteps : Fits(step, s) => Fits(step, s)'
    BY <1>13 DEF Untun, Fits, TypeOK, fields, DisconnectSteps
  <2>7. s \notin clash' => \A k \in JobsOf(s) : k # j => Fits(job[k].at, s)'
    BY <2>2, <2>5, <2>6 DEF Confined, JobsOf
  <2>. QED
    BY <1>13, <2>2, <2>4, <2>7, ProgressKept
<1>14. ASSUME NEW j \in Jobs, NEW s \in Services, job[j].service = s, Halt(j, s)
      PROVE  Progress'
  <2>1. job'[j].service = s /\ job'[j].at \in {"forget", "disconnected"}
    BY <1>14, GotoMoves DEF Halt, AllSteps, ConnectSteps, DisconnectSteps
  <2>2. Confined(j, s)
    BY <1>14, StepIsConfined DEF Step
  <2>0. \/ process[s] = "none" /\ process' = process /\ job'[j].at = "disconnected"
        \/ process'[s] = "gone" /\ job'[j].at = "forget"
    BY <1>14, GotoMoves DEF Halt, AllSteps, DisconnectSteps, TypeOK
  <2>3. s \notin clash' => Fits(job[j].at, s)
    BY <1>14, <2>2 DEF Progress, JobsOf, Confined
  <2>4. s \notin clash' => job'[j] = Idle \/ (job'[j].service = s /\ Fits(job[j].at, s)')
    BY <1>14, <2>0, <2>1, <2>3 DEF Halt, At, Fits, TypeOK, fields
  <2>5. s \notin clash' => \A k \in JobsOf(s) : k # j =>
          Fits(job[k].at, s) /\ job[k].at \in DisconnectSteps
    BY <1>14, <2>2, JobShapes DEF Progress, Alone, JobsOf, Confined, AllSteps
  <2>6. \A step \in DisconnectSteps : Fits(step, s) => Fits(step, s)'
    BY <1>14 DEF Halt, Fits, TypeOK, fields, DisconnectSteps
  <2>7. s \notin clash' => \A k \in JobsOf(s) : k # j => Fits(job[k].at, s)'
    BY <2>2, <2>5, <2>6 DEF Confined, JobsOf
  <2>. QED
    BY <1>14, <2>2, <2>4, <2>7, ProgressKept
<1>15. ASSUME NEW j \in Jobs, NEW s \in Services, job[j].service = s, Forget(j, s)
      PROVE  Progress'
  <2>1. job'[j].service = s /\ job'[j].at = "disconnected"
    BY <1>15, GotoMoves DEF Forget, AllSteps, ConnectSteps, DisconnectSteps
  <2>2. Confined(j, s)
    BY <1>15, StepIsConfined DEF Step
  <2>3. s \notin clash' => Fits(job[j].at, s)
    BY <1>15, <2>2 DEF Progress, JobsOf, Confined
  <2>4. s \notin clash' => job'[j] = Idle \/ (job'[j].service = s /\ Fits(job[j].at, s)')
    BY <1>15, <2>1, <2>3 DEF Forget, At, Fits, TypeOK, fields
  <2>5. s \notin clash' => \A k \in JobsOf(s) : k # j =>
          Fits(job[k].at, s) /\ job[k].at \in DisconnectSteps
    BY <1>15, <2>2, JobShapes DEF Progress, Alone, JobsOf, Confined, AllSteps
  <2>6. \A step \in DisconnectSteps : Fits(step, s) => Fits(step, s)'
    BY <1>15 DEF Forget, Fits, TypeOK, fields, DisconnectSteps
  <2>7. s \notin clash' => \A k \in JobsOf(s) : k # j => Fits(job[k].at, s)'
    BY <2>2, <2>5, <2>6 DEF Confined, JobsOf
  <2>. QED
    BY <1>15, <2>2, <2>4, <2>7, ProgressKept
<1>16. ASSUME NEW j \in Jobs, NEW s \in Services, job[j].service = s, Disconnected(j)
      PROVE  Progress'
  <2>1. job'[j].service = s /\ job'[j].at = "stopSelf"
    BY <1>16, GotoMoves DEF Disconnected, AllSteps, ConnectSteps, DisconnectSteps
  <2>2. Confined(j, s)
    BY <1>16, StepIsConfined DEF Step
  <2>3. s \notin clash' => Fits(job[j].at, s)
    BY <1>16, <2>2 DEF Progress, JobsOf, Confined
  <2>4. s \notin clash' => job'[j] = Idle \/ (job'[j].service = s /\ Fits(job[j].at, s)')
    BY <1>16, <2>1, <2>3 DEF Disconnected, At, Fits, TypeOK, fields
  <2>5. s \notin clash' => \A k \in JobsOf(s) : k # j =>
          Fits(job[k].at, s) /\ job[k].at \in DisconnectSteps
    BY <1>16, <2>2, JobShapes DEF Progress, Alone, JobsOf, Confined, AllSteps
  <2>6. \A step \in DisconnectSteps : Fits(step, s) => Fits(step, s)'
    BY <1>16 DEF Disconnected, Fits, TypeOK, fields, DisconnectSteps
  <2>7. s \notin clash' => \A k \in JobsOf(s) : k # j => Fits(job[k].at, s)'
    BY <2>2, <2>5, <2>6 DEF Confined, JobsOf
  <2>. QED
    BY <1>16, <2>2, <2>4, <2>7, ProgressKept
<1>17. ASSUME NEW j \in Jobs, NEW s \in Services, job[j].service = s, StopSelf(j, s)
      PROVE  Progress'
  <2>1. job'[j] = Idle \/ (job'[j].service = s /\ job'[j].at = "disconnecting")
    BY <1>17, StopSelfMoves DEF At
  <2>2. Confined(j, s)
    BY <1>17, StepIsConfined DEF Step
  <2>3. s \notin clash' => Fits(job[j].at, s)
    BY <1>17, <2>2 DEF Progress, JobsOf, Confined
  <2>4. s \notin clash' => job'[j] = Idle \/ (job'[j].service = s /\ Fits(job[j].at, s)')
    BY <1>17, <2>1, <2>3 DEF StopSelf, At, Fits, TypeOK, fields
  <2>5. s \notin clash' => \A k \in JobsOf(s) : k # j =>
          Fits(job[k].at, s) /\ job[k].at \in DisconnectSteps
    BY <1>17, <2>2, JobShapes DEF Progress, Alone, JobsOf, Confined, AllSteps
  <2>6. \A step \in DisconnectSteps : Fits(step, s) => Fits(step, s)'
    BY <1>17 DEF StopSelf, Fits, TypeOK, fields, DisconnectSteps
  <2>7. s \notin clash' => \A k \in JobsOf(s) : k # j => Fits(job[k].at, s)'
    BY <2>2, <2>5, <2>6 DEF Confined, JobsOf
  <2>. QED
    BY <1>17, <2>2, <2>4, <2>7, ProgressKept
<1>18. ASSUME NEW s \in Services, TunnelStarts(s) PROVE Progress'
  BY <1>18 DEF TunnelStarts, Progress, Fits, JobsOf, fields, history
<1>19. ASSUME NEW s \in Services, XrayDies(s) PROVE Progress'
  <2>1. \A step : \A r \in Services : Fits(step, r) => Fits(step, r)'
    BY <1>19 DEF XrayDies, Fits, TypeOK
  <2>. QED
    BY <1>19, <2>1 DEF XrayDies, Progress, JobsOf, history
<1>20. ASSUME NEW s \in Services, Collect(s) PROVE Progress'
  BY <1>20 DEF Collect, Progress, Fits, JobsOf, fields, history
<1>21. CASE UNCHANGED vars
  BY <1>21 DEF vars, Progress, Fits, JobsOf, fields, history
<1>. QED
  BY <1>1, <1>2, <1>3, <1>4, <1>5, <1>6, <1>7, <1>8, <1>9, <1>10, <1>11, <1>12, <1>13,
     <1>14, <1>15, <1>16, <1>17, <1>18, <1>19, <1>20, <1>21, NextSteps DEF Step

-----------------------------------------------------------------------------
\* What launching a coroutine leaves alone.
LEMMA Launched ==
    ASSUME TypeOK, NEW s \in Services, NEW step \in {"connecting", "disconnecting"},
           Started(s, step)
    PROVE  /\ \E j \in Jobs : /\ job[j] = Idle
                              /\ job'[j].at = step /\ job'[j].service = s
                              /\ \A k \in Jobs : k # j => job'[k] = job[k]
           /\ JobsOf(s)' # {}
           /\ \A r \in Services : r # s => JobsOf(r)' = JobsOf(r) /\ life'[r] = life[r]
           /\ clash \subseteq clash' /\ mishap \subseteq mishap'
           /\ mishap' \subseteq mishap \cup {"overlap"}
           /\ "overlap" \notin mishap' =>
                /\ \A k \in Jobs : job[k].service \in {s, None}
                /\ \A r \in Services \ {s} : life[r] # "stopping"
           /\ UNCHANGED <<fields, state>>
<1>. step \in AllSteps /\ Launch(s, step)
  BY DEF AllSteps, ConnectSteps, DisconnectSteps, Started
<1>1. PICK j \in Jobs : /\ job[j] = Idle
                        /\ job'[j].at = step /\ job'[j].service = s
                        /\ \A k \in Jobs : k # j => job'[k] = job[k]
  BY LaunchMoves
<1>2. \A r \in Services : r # s => JobsOf(r)' = JobsOf(r)
  BY <1>1, JobShapes DEF JobsOf
<1>3. JobsOf(s)' # {}
  BY <1>1 DEF JobsOf
<1>. QED
  BY <1>1, <1>2, <1>3, LaunchMoves DEF Started

LEMMA WholeInductive == TypeOK /\ Alone /\ Progress /\ Whole /\ [Next]_vars => Whole'
<1>. SUFFICES ASSUME TypeOK, Alone, Progress, Whole, [Next]_vars PROVE Whole'
  OBVIOUS
<1>1. CASE Launching
  <2>1. PICK s \in Services, step \in {"connecting", "disconnecting"} : Started(s, step)
    BY <1>1 DEF Launching
  <2>. QED
    BY <2>1, Launched DEF Whole, Full, Empty, fields
<1>2. CASE Asking
  BY <1>2 DEF Asking, Whole, Full, Empty, JobsOf, fields, history
<1>3. ASSUME NEW j \in Jobs, NEW s \in Services, job[j].service = s, Step(j, s) PROVE Whole'
  <2>1. Confined(j, s)
    BY <1>3, StepIsConfined
  <2>2. \A r \in Services : r # s => JobsOf(r)' = JobsOf(r) /\ life'[r] = life[r]
    BY <1>3, <2>1, StepMoves, StopSelfMoves, JobShapes DEF JobsOf, Confined, Moved
  <2>3. ASSUME NEW r \in Services \ clash', r # s, JobsOf(r)' = {}
        PROVE  (Full(r) \/ Empty(r))' /\ (life'[r] # "live" => Empty(r)')
    BY <2>1, <2>2, <2>3 DEF Whole, Full, Empty, Confined
  <2>4. ASSUME s \notin clash', JobsOf(s)' = {}
        PROVE  (Full(s) \/ Empty(s))' /\ (life'[s] # "live" => Empty(s)')
    <3>1. job'[j].service # s /\ j \in JobsOf(s) /\ s \notin clash /\ Fits(job[j].at, s)
      BY <1>3, <2>1, <2>4 DEF JobsOf, Confined, Progress
    <3>2. CASE Announce(j)
      <4>1. Full(s) /\ life[s] = "live"
        BY <3>1, <3>2 DEF Announce, At, Fits, Full, Alone, ConnectSteps
      <4>. QED
        BY <3>2, <4>1 DEF Announce, Full, fields
    <3>3. CASE StopSelf(j, s)
      <4>1. Empty(s)
        BY <3>1, <3>3 DEF StopSelf, At, Fits, Empty
      <4>. QED
        BY <3>3, <4>1 DEF StopSelf, Empty, fields
    <3>. QED
      BY <1>3, <3>1, <3>2, <3>3, StepMoves DEF Moved
  <2>. QED
    BY <2>3, <2>4 DEF Whole
<1>4. ASSUME NEW s \in Services, TunnelStarts(s) PROVE Whole'
  BY <1>4 DEF TunnelStarts, Whole, Full, Empty, JobsOf, history
<1>5. ASSUME NEW s \in Services, XrayDies(s) PROVE Whole'
  BY <1>5 DEF XrayDies, Whole, Full, Empty, JobsOf, history, TypeOK
<1>6. ASSUME NEW s \in Services, Collect(s) PROVE Whole'
  BY <1>6 DEF Collect, Whole, Full, Empty, JobsOf, fields, history, TypeOK
<1>7. CASE UNCHANGED vars
  BY <1>7 DEF vars, Whole, Full, Empty, JobsOf, fields, history
<1>. QED
  BY <1>1, <1>2, <1>3, <1>4, <1>5, <1>6, <1>7, NextSteps

LEMMA ReadingInductive == TypeOK /\ Progress /\ Reading /\ [Next]_vars => Reading'
<1>. SUFFICES ASSUME TypeOK, Progress, Reading, [Next]_vars PROVE Reading'
  OBVIOUS
<1>. USE DEF Reading
<1>1. CASE Launching
  <2>1. PICK s \in Services, step \in {"connecting", "disconnecting"} : Started(s, step)
    BY <1>1 DEF Launching
  <2>. QED
    BY <2>1, Launched DEF fields, native
<1>2. CASE Asking
  BY <1>2 DEF Asking, fields, native, history
<1>3. ASSUME NEW j \in Jobs, NEW s \in Services, job[j].service = s, Step(j, s) PROVE Reading'
  <2>1. Confined(j, s) /\ clash \subseteq clash' /\ mishap \subseteq mishap'
    BY <1>3, StepIsConfined, StepMoves, StopSelfMoves DEF Confined, Moved
  <2>2. CASE Establish(j, s)
    BY <2>1, <2>2 DEF Establish, TypeOK, native
  <2>3. CASE Bridge(j, s)
    BY <2>1, <2>3 DEF Bridge, TypeOK
  <2>4. CASE Unbridge(j, s)
    <3>1. /\ bridge' = None /\ starting' = starting /\ tun' = tun
          /\ \A r \in Services : r # s => tunnel'[r] = tunnel[r]
          /\ "late" \notin mishap' => s \notin starting
      BY <2>4 DEF Unbridge, TypeOK
    <3>. QED
      BY <2>1, <3>1, NoneAssumption
  <2>5. CASE Untun(j, s)
    <3>1. s \notin clash => ~tunnel[s]
      BY <1>3, <2>5 DEF Untun, At, Progress, Fits, JobsOf
    <3>2. /\ UNCHANGED <<bridge, starting, tunnel>>
          /\ \A r \in Services : r # s => tun'[r] = tun[r]
      BY <2>5 DEF Untun, native, TypeOK
    <3>. QED
      BY <2>1, <3>1, <3>2
  <2>6. \/ UNCHANGED <<native, tun, tunnel>>
        \/ Establish(j, s) \/ Bridge(j, s) \/ Unbridge(j, s) \/ Untun(j, s)
    BY <1>3 DEF Step, Connecting, Check, Spawn, Dial, Announce, Failed, Disconnecting, Halt,
                Forget, Disconnected, StopSelf, fields
  <2>. QED
    BY <2>1, <2>2, <2>3, <2>4, <2>5, <2>6 DEF native
<1>4. ASSUME NEW s \in Services, TunnelStarts(s) PROVE Reading'
  BY <1>4 DEF TunnelStarts, history
<1>5. ASSUME NEW s \in Services, XrayDies(s) \/ Collect(s) PROVE Reading'
  BY <1>5 DEF XrayDies, Collect, fields, native, history
<1>6. CASE UNCHANGED vars
  BY <1>6 DEF vars, fields, native, history
<1>. QED
  BY <1>1, <1>2, <1>3, <1>4, <1>5, <1>6, NextSteps

\* The parts of Shown, for the step from a program in which it says something.
OneService ==
    /\ \A s, r \in Services : life[s] = "live" /\ r # s => life[r] \notin {"live", "stopping"}
    /\ \A j \in Jobs : \A r \in Services : job[j] # Idle /\ r # job[j].service =>
         life[r] \notin {"live", "stopping"} /\ JobsOf(r) = {}
Settled == (\A j \in Jobs : job[j] = Idle) =>
    (state = "Connected" <=> \E s \in Services : Full(s))
Leaving == \A j \in Jobs : job[j].at \in Quitting => state # "Connected"

LEMMA ShownByParts ==
    Shown <=> (clash = {} /\ "overlap" \notin mishap => OneService /\ Leaving /\ Settled)
BY DEF Shown, OneService, Leaving, Settled

LEMMA LaunchShown ==
    ASSUME TypeOK, OneService, Leaving, NEW s \in Services,
           NEW step \in {"connecting", "disconnecting"}, Started(s, step), "overlap" \notin mishap'
    PROVE  OneService' /\ Leaving' /\ Settled'
<1>1. PICK j \in Jobs : /\ job[j] = Idle
                        /\ job'[j].at = step /\ job'[j].service = s
                        /\ \A k \in Jobs : k # j => job'[k] = job[k]
  BY Launched
<1>2. /\ \A k \in Jobs : job[k].service \in {s, None}
      /\ \A r \in Services \ {s} : life[r] # "stopping"
      /\ \A r \in Services : r # s => JobsOf(r)' = JobsOf(r) /\ life'[r] = life[r]
      /\ state' = state
  BY Launched
<1>3. \A r \in Services : r # s => JobsOf(r) = {}
  BY <1>2, NoneAssumption DEF JobsOf
<1>4. \A r \in Services : r # s => life[r] \notin {"live", "stopping"}
  <2>1. CASE life[s] = "live"
    BY <2>1 DEF OneService
  <2>2. CASE \A r \in Services : life[r] # "live"
    BY <1>2, <2>2
  <2>3. CASE life[s] = "stopping"
    BY <1>2, <2>3 DEF OneService
  <2>. QED
    BY <2>1, <2>2, <2>3 DEF Started
<1>5. OneService'
  <2>1. \A k \in Jobs : job'[k].service \in {s, None}
    BY <1>1, <1>2
  <2>2. \A k \in Jobs : job'[k] # Idle => job'[k].service = s
    BY <1>1, <1>2, JobShapes
  <2>. QED
    BY <1>2, <1>3, <1>4, <2>2 DEF OneService
<1>6. Leaving'
  BY <1>1, <1>2 DEF Leaving, Quitting, DisconnectSteps
<1>7. Settled'
  BY <1>1, NoneAssumption DEF Settled, Idle
<1>. QED
  BY <1>5, <1>6, <1>7

LEMMA StepShown ==
    ASSUME TypeOK, Alone, Progress, Whole, OneService, Leaving, Settled, clash' = {},
           NEW j \in Jobs, NEW s \in Services, job[j].service = s, Step(j, s)
    PROVE  OneService' /\ Leaving' /\ Settled'
<1>1. Confined(j, s) /\ clash = {} /\ job[j] # Idle /\ j \in JobsOf(s)
  BY StepIsConfined, JobShapes DEF Confined, JobsOf
<1>2. \A r \in Services : r # s => /\ life'[r] = life[r] /\ life[r] \notin {"live", "stopping"}
                                   /\ JobsOf(r) = {} /\ JobsOf(r)' = {}
  <2>1. \A r \in Services : r # s => life'[r] = life[r]
    BY StepMoves, StopSelfMoves DEF Moved
  <2>2. \A r \in Services : r # s => life[r] \notin {"live", "stopping"} /\ JobsOf(r) = {}
    BY <1>1 DEF OneService
  <2>3. \A r \in Services : r # s => JobsOf(r)' = {}
    BY <1>1, <2>2, NoneAssumption DEF JobsOf, Confined, Idle
  <2>. QED
    BY <2>1, <2>2, <2>3
<1>3. OneService'
  <2>1. \A k \in Jobs : job'[k] # Idle => job'[k].service = s
    BY <1>1, <1>2, TypeInductive, JobShapes DEF Confined, JobsOf
  <2>. QED
    BY <1>2, <2>1 DEF OneService
<1>4. \A k \in Jobs : k # j => job'[k] = job[k]
  BY <1>1 DEF Confined
<1>5. CASE StopSelf(j, s)
  <2>1. job[j].at = "stopSelf" /\ state # "Connected" /\ state' = state
    BY <1>5 DEF StopSelf, At, Leaving, Quitting, DisconnectSteps
  <2>2. Empty(s) /\ Empty(s)'
    BY <1>1, <1>5, <2>1 DEF StopSelf, Progress, Fits, Empty, fields
  <2>3. \A r \in Services : r # s => ~Full(r)'
    BY <1>1, <1>2, <1>5 DEF Whole, Full, Empty, Confined
  <2>. QED
    BY <1>3, <2>1, <2>2, <2>3 DEF Leaving, Settled, Full, Empty
<1>6. CASE Announce(j)
  <2>1. job[j].at = "announce" /\ state' = "Connected" /\ job'[j] = Idle
    BY <1>6, RecordIsTyped DEF Announce, At, Show
  <2>2. \A k \in JobsOf(s) : k = j
    BY <1>1, <2>1 DEF Alone, ConnectSteps
  <2>3. \A k \in Jobs : k # j => job[k] = Idle
    BY <1>1, <2>2, JobShapes DEF OneService, JobsOf
  <2>4. Full(s)'
    BY <1>1, <1>6, <2>1 DEF Announce, Progress, Fits, Full, fields
  <2>. QED
    BY <1>3, <1>4, <2>1, <2>3, <2>4 DEF Leaving, Settled, Quitting, DisconnectSteps, Idle
<1>7. CASE Moved(j, s) /\ ~Announce(j)
  BY <1>3, <1>4, <1>7 DEF Moved, Leaving, Settled
<1>. QED
  BY <1>5, <1>6, <1>7, StepMoves

LEMMA ShownInductive ==
    TypeOK /\ Alone /\ Progress /\ Whole /\ Shown /\ [Next]_vars => Shown'
<1>. SUFFICES ASSUME TypeOK, Alone, Progress, Whole, Shown, [Next]_vars,
                     clash' = {}, "overlap" \notin mishap'
              PROVE  OneService' /\ Leaving' /\ Settled'
  BY DEF Shown, OneService, Leaving, Settled
<1>. USE DEF OneService, Leaving, Settled
<1>1. clash = {} /\ "overlap" \notin mishap /\ OneService /\ Leaving /\ Settled
  <2>1. clash \subseteq clash' /\ mishap \subseteq mishap'
    <3>1. CASE Launching
      BY <3>1, Launched DEF Launching
    <3>2. ASSUME NEW j \in Jobs, NEW s \in Services, job[j].service = s, Step(j, s)
          PROVE  clash \subseteq clash' /\ mishap \subseteq mishap'
      BY <3>2, StepMoves, StopSelfMoves DEF Moved
    <3>. QED
      BY <3>1, <3>2, NextSteps DEF Asking, TunnelStarts, XrayDies, Collect, vars, history
  <2>. QED
    BY <2>1, ShownByParts
<1>2. CASE Launching
  BY <1>1, <1>2, LaunchShown DEF Launching
<1>3. ASSUME NEW j \in Jobs, NEW s \in Services, job[j].service = s, Step(j, s)
      PROVE  OneService' /\ Leaving' /\ Settled'
  BY <1>1, <1>3, StepShown
<1>4. CASE Asking
  BY <1>1, <1>4 DEF Asking, Full, JobsOf, fields
<1>5. ASSUME NEW s \in Services, TunnelStarts(s) PROVE OneService' /\ Leaving' /\ Settled'
  BY <1>1, <1>5 DEF TunnelStarts, Full, JobsOf
<1>6. ASSUME NEW s \in Services, XrayDies(s) PROVE OneService' /\ Leaving' /\ Settled'
  <2>1. \A r \in Services : Full(r) <=> Full(r)'
    BY <1>6 DEF XrayDies, Full, TypeOK
  <2>. QED
    BY <1>1, <1>6, <2>1 DEF XrayDies, JobsOf
<1>7. ASSUME NEW s \in Services, Collect(s) PROVE OneService' /\ Leaving' /\ Settled'
  <2>1. \A r \in Services : life'[r] \in {"live", "stopping"} => life'[r] = life[r]
    BY <1>7 DEF Collect, TypeOK
  <2>2. \A r \in Services : Full(r) <=> Full(r)'
    BY <1>7 DEF Collect, Full, fields
  <2>. QED
    BY <1>1, <1>7, <2>1, <2>2 DEF Collect, JobsOf
<1>8. CASE UNCHANGED vars
  BY <1>1, <1>8 DEF vars, Full, JobsOf, fields
<1>. QED
  BY <1>2, <1>3, <1>4, <1>5, <1>6, <1>7, <1>8, NextSteps

-----------------------------------------------------------------------------
LEMMA Initially == Init => VpnIInv
<1>. SUFFICES ASSUME Init PROVE VpnIInv
  OBVIOUS
<1>1. TypeOK
  BY DEF Init, TypeOK, States
<1>2. \A j \in Jobs : job[j] = Idle /\ job[j].at = "idle"
  BY DEF Init, Idle
<1>3. \A s \in Services : JobsOf(s) = {} /\ Empty(s) /\ ~Full(s) /\ life[s] = "absent"
  BY <1>2, NoneAssumption DEF Init, JobsOf, Idle, Empty, Full
<1>4. Busy /\ Alone /\ Progress /\ Whole /\ Reading
  BY <1>3, NoneAssumption DEF Init, Busy, Alone, Progress, Whole, Reading
<1>5. Shown
  BY <1>2, <1>3 DEF Init, Shown, Quitting, DisconnectSteps
<1>. QED
  BY <1>1, <1>4, <1>5 DEF VpnIInv

LEMMA Inductive == VpnIInv /\ [Next]_vars => VpnIInv'
BY TypeInductive, BusyInductive, AloneInductive, ProgressInductive, WholeInductive,
   ReadingInductive, ShownInductive DEF VpnIInv

LEMMA Invariant == Spec => []VpnIInv
BY Initially, Inductive, PTL DEF Spec

LEMMA HoldsShape ==
    ASSUME TypeOK, NEW s \in Services
    PROVE  (Holds(s) = {TRUE} <=> Full(s)) /\ (Holds(s) = {FALSE} <=> Empty(s))
<1>1. tun[s] \in BOOLEAN /\ engine[s] \in BOOLEAN /\ tunnel[s] \in BOOLEAN
  BY DEF TypeOK
<1>. QED
  BY <1>1 DEF Holds, Full, Empty

\* The variables keep their shapes for any number of services and coroutines.
THEOREM TypeCorrect == Spec => []TypeOK
<1>1. VpnIInv => TypeOK
  BY DEF VpnIInv
<1>. QED
  BY <1>1, Invariant, PTL

\* However many coroutines overlap, and whether or not they clash, the last to
\* end leaves a final state on the screen (connect's handler and disconnect
\* both set one).
THEOREM NeverLeftBusy == Spec => []NotStuck
<1>1. VpnIInv => NotStuck
  BY JobShapes DEF VpnIInv, Busy, NotStuck, AtRest
<1>. QED
  BY <1>1, Invariant, PTL

\* Wherever a connect fails, and however the service ends, it holds all of a
\* connection or none of it when its coroutines are over.
THEOREM AllOrNothingHolds == Spec => []AllOrNothing
<1>1. VpnIInv => AllOrNothing
  BY HoldsShape DEF VpnIInv, Whole, AllOrNothing
<1>. QED
  BY <1>1, Invariant, PTL

\* At rest the screen says whether there is a connection.
THEOREM ScreenIsTrue == Spec => []ScreenTellsTheTruth
<1>1. VpnIInv => ScreenTellsTheTruth
  <2>. SUFFICES ASSUME VpnIInv, AtRest, clash = {}, mishap \subseteq {"late"}
                PROVE  state = "Connected" <=> \E s \in Services : Holds(s) = {TRUE}
    BY DEF ScreenTellsTheTruth
  <2>. QED
    BY HoldsShape DEF VpnIInv, Shown, AtRest
<1>. QED
  BY <1>1, Invariant, PTL

\* The tunnel never reads a descriptor that its service has closed.
THEOREM TunnelReadsOpenly == Spec => []TunnelReadsAnOpenTun
<1>1. VpnIInv => TunnelReadsAnOpenTun
  BY DEF VpnIInv, Reading, TunnelReadsAnOpenTun
<1>. QED
  BY <1>1, Invariant, PTL

\* No process is lost from sight without a clash (connect asks isRunning
\* before it starts one).
THEOREM OrphansHaveACause == Spec => OrphanHasACause
<1>1. VpnIInv /\ [Next]_vars => [~orphan /\ orphan' => clash # {}]_vars
  <2>. SUFFICES ASSUME VpnIInv, [Next]_vars, ~orphan, orphan' PROVE clash # {}
    OBVIOUS
  <2>1. ASSUME NEW j \in Jobs, NEW s \in Services, job[j].service = s, Step(j, s)
        PROVE  clash # {}
    <3>1. /\ process[s] = "running" /\ job[j].at \in {"spawn", "forget"}
      BY <2>1 DEF Step, Connecting, Check, Spawn, Dial, Establish, Bridge, Announce, Failed,
                  Disconnecting, Unbridge, Untun, Halt, Forget, Disconnected, StopSelf, fields, At
    <3>. QED
      BY <2>1, <3>1 DEF VpnIInv, Progress, Fits, JobsOf
  <2>. QED
    BY <2>1, NextSteps DEF VpnIInv, Launching, Started, Asking, TunnelStarts, XrayDies, Collect,
                           vars, fields
<1>. QED
  BY <1>1, Invariant, PTL DEF Spec, OrphanHasACause
=============================================================================
