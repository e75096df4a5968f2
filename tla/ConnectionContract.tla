-------------------------- MODULE ConnectionContract --------------------------
(***************************************************************************)
(* What a connection promises its user, whichever client opens it: the     *)
(* command line or the graphical one.  Steps, threads, handlers and flags  *)
(* are left out; so is every cause of what happens.                        *)
(*                                                                         *)
(* A connection takes xray, then the client of its engine, and the block   *)
(* of the kill-switch if that is asked for, before it is up.  While it is  *)
(* up it lets go of none of them, and traffic takes one profile's route    *)
(* at a time.  It ends by trying to give back each of them, and is over    *)
(* only when it holds nothing but what it tried and could not give back.   *)
(* What is exempt is named: a cleanup that is cut short, and the death of  *)
(* the program, give up all that is still held; xray may die at any time.  *)
(***************************************************************************)
CONSTANTS Profiles, None

VARIABLES phase,     \* "starting", "up", "ending" or "over"
          holds,     \* what the connection has taken and not given back
          spoiled,   \* what nobody will give back any more
          route,     \* the profile traffic is sent by, None when over
          protected  \* the kill-switch is asked for

vars == <<phase, holds, spoiled, route, protected>>

Resources == {"process", "client", "block"}

Fresh(p) == phase = "starting" /\ route = p
Init == /\ holds = {} /\ spoiled = {} /\ protected \in BOOLEAN
        /\ \/ phase = "over" /\ route = None
           \/ \E p \in Profiles : Fresh(p)

\* The block, for a connection that has asked for it.
Shielded == IF protected THEN holds \cup {"block"} ELSE holds

\* A new connection does not know what an earlier one could not give back.
Begin(p) == /\ phase = "over" /\ Fresh(p)'
            /\ holds' = {} /\ spoiled' = {} /\ protected' \in BOOLEAN

Take(r) == /\ phase = "starting"
           /\ holds' = holds \cup {r}
           /\ UNCHANGED <<phase, spoiled, route, protected>>

Up == /\ phase = "starting" /\ "client" \in holds
      /\ phase' = "up" /\ holds' = Shielded
      /\ UNCHANGED <<spoiled, route, protected>>

StartFails == /\ phase = "starting"
              /\ phase' = "ending" /\ holds' \in {holds, Shielded}
              /\ UNCHANGED <<spoiled, route, protected>>

Switch(p) == /\ phase = "up"
             /\ route' = p
             /\ UNCHANGED <<phase, holds, spoiled, protected>>

End == /\ phase = "up"
       /\ phase' = "ending"
       /\ UNCHANGED <<holds, spoiled, route, protected>>

\* What is tried is given back, or marked as what could not be.
TryGiveBack(r) == /\ phase = "ending"
                  /\ holds' \in {holds, holds \ {r}}
                  /\ spoiled' \in {spoiled, spoiled \cup {r}}
                  /\ r \notin holds' \/ r \in spoiled'
                  /\ UNCHANGED <<phase, route, protected>>

CutShort == /\ phase = "ending"
            /\ spoiled' = Resources /\ holds' \subseteq holds
            /\ UNCHANGED <<phase, route, protected>>

Close == /\ phase = "ending" /\ holds \subseteq spoiled
         /\ phase' = "over" /\ route' = None
         /\ UNCHANGED <<holds, spoiled, protected>>

XrayDies == /\ holds' = holds \ {"process"}
            /\ UNCHANGED <<phase, spoiled, route, protected>>

Killed == /\ phase # "over"
          /\ phase' = "over" /\ route' = None
          /\ spoiled' = Resources /\ holds' \subseteq holds
          /\ protected' \in BOOLEAN

\* The program that opened the connection ends after it.
Forget == /\ phase = "over"
          /\ holds' = {} /\ spoiled' = {} /\ protected' \in BOOLEAN
          /\ UNCHANGED <<phase, route>>

Next == \/ \E p \in Profiles : Begin(p) \/ Switch(p)
        \/ \E r \in {"process", "client"} : Take(r)
        \/ Up \/ StartFails \/ End
        \/ \E r \in Resources : TryGiveBack(r)
        \/ CutShort \/ Close \/ XrayDies \/ Killed \/ Forget

Spec == Init /\ [][Next]_vars
=============================================================================
