------------------------------- MODULE MCLearner -------------------------------
(* One learner of a flat group, against an environment of acceptors. *)
EXTENDS Learner, TLC

MCflat == [r \in Replica |-> 0]

(* Values are interchangeable. *)
MCsymmetry == Permutations(Value)
===============================================================================
