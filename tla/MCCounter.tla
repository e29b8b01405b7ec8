------------------------------- MODULE MCCounter ------------------------------
(* A replica, a relay and a replica below it, which the first does not count. *)
EXTENDS Counter

MCrelaygroup == [r \in Replica |-> IF r = 0 THEN 0 ELSE 1]
MCrelayparent == [r \in Replica |-> IF r = 2 THEN 1 ELSE 0]
===============================================================================
