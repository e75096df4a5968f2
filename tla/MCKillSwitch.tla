---------------------------- MODULE MCKillSwitch ----------------------------
(* Two targets, one of them without a uid; two watcher threads so that a   *)
(* second one could be started beside a first.                             *)
EXTENDS KillSwitch
CONSTANTS tun, nouid, w1, w2
MCTargets == {tun, nouid}
MCNoUid == {nouid}
MCThreads == {w1, w2}
=============================================================================
