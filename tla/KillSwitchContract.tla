------------------------- MODULE KillSwitchContract -------------------------
(***************************************************************************)
(* What a kill-switch manager promises its caller, with threads, locks and *)
(* kernel commands left out: it is off, armed for one target, or tripped   *)
(* for that target.  A tripped kill-switch stays tripped until the caller  *)
(* disarms it: no watcher start, second activation or late report of a     *)
(* watcher thread may turn "tripped" back into "armed", retarget an armed  *)
(* switch, or arm a switch nobody activated.                               *)
(***************************************************************************)
CONSTANTS Targets,   \* (interface, uid) pairs a caller may protect
          None

VARIABLES phase,     \* "off", "armed" or "tripped"
          target     \* what is protected, None when off

vars == <<phase, target>>

TypeOK == /\ phase \in {"off", "armed", "tripped"}
          /\ target \in Targets \cup {None}

Init == phase = "off" /\ target = None

Arm(t) == /\ phase = "off"
          /\ phase' = "armed"
          /\ target' = t

Trip == /\ phase = "armed"
        /\ phase' = "tripped"
        /\ UNCHANGED target

Disarm == /\ phase \in {"armed", "tripped"}
          /\ phase' = "off"
          /\ target' = None

Next == Trip \/ Disarm \/ \E t \in Targets : Arm(t)

Spec == Init /\ [][Next]_vars
=============================================================================
