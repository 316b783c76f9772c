------------------------------ MODULE MCRemote ------------------------------
(* Small instances of Call and Cluster for TLC, side by side: a behaviour   *)
(* is one of either.                                                        *)
EXTENDS Call, Cluster

VARIABLE part

RemoteInit == part \in {"call", "cluster"} /\ CallInit /\ ClusterInit

RemoteNext ==
  /\ \/ part = "call" /\ CallNext /\ UNCHANGED clusterVars
     \/ part = "cluster" /\ ClusterNext /\ UNCHANGED callVars
  /\ UNCHANGED part

RemoteSpec == RemoteInit /\ [][RemoteNext]_<<part, callVars, clusterVars>> /\ CallFairness
=============================================================================
