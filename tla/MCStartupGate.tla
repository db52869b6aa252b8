---------------------------- MODULE MCStartupGate ----------------------------
(* The gates the run of StartupGate gives a cluster: up to two peers, both     *)
(* values of onTimeout, a new cluster and one that is up.                      *)
EXTENDS StartupGate

Gates == [minPeers : {0, 1, 2}, startAnyway : BOOLEAN, up : {{}, Pods}]
===============================================================================
