------------------------------ MODULE MCAcceptor ------------------------------
(* Acceptors of a flat group. *)
EXTENDS Acceptor

MCflat == [r \in Replica |-> 0]
===============================================================================
