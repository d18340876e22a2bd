-------------------------- MODULE MCMonitorManager --------------------------
(***************************************************************************)
(* Instances of MonitorManager for TLC: two monitors that share one        *)
(* discovery key, or one monitor alone with the discovery of its key.      *)
(***************************************************************************)
EXTENDS MonitorManager

CONSTANTS m1, m2, k

Both    == {m1, m2}
Shared  == [m \in Both |-> k]
Alone   == [m \in {m1} |-> k]
Apart   == [m \in {} |-> k]
=============================================================================
