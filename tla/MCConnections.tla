---------------------------- MODULE MCConnections -----------------------------
(* Two peers and three connections: a peer can be back before the replica has
   seen the end of its old connection. *)
EXTENDS Connections
===============================================================================
