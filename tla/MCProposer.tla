------------------------------ MODULE MCProposer ------------------------------
(* One proposer of a flat group, against an environment of acceptors. *)
EXTENDS Proposer, TLC

(* Who is given which value. *)
MCall == [p \in Active |-> Value]
MCflat == [r \in Replica |-> 0]

(* Client values are interchangeable. *)
MCsymmetry == Permutations(Value)
===============================================================================
