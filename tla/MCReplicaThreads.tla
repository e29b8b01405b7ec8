--------------------------- MODULE MCReplicaThreads ---------------------------
(* Three replicas, of which every one may be at any point of its initialisation. *)
EXTENDS ReplicaThreads
===============================================================================
