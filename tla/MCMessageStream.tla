--------------------------- MODULE MCMessageStream ----------------------------
(* Messages of all types; lists of one and two acceptors; values that are there,
   empty or missing.  The numbers of a message differ, so that none can be
   mistaken for another. *)
EXTENDS MessageStream

CONSTANT v1

MCpromise(n, v) ==
    [type |-> "PROMISE", src |-> 1, iid |-> 2, ballot_0 |-> 3, value_ballot_0 |-> 4,
     n_aids |-> n, value_0 |-> v, aids |-> [i \in 1 .. n |-> 4 + i],
     values |-> [i \in 1 .. n |-> IF i = 1 THEN v ELSE v1],
     ballots |-> [i \in 1 .. n |-> 6 + i], value_ballots |-> [i \in 1 .. n |-> 8 + i]]

MCaccepted(n, vs) ==
    [type |-> "ACCEPTED", src |-> 1, iid |-> 2, ballot_0 |-> 3, value_ballot_0 |-> 4,
     n_aids |-> n, value_0 |-> v1, aids |-> [i \in 1 .. n |-> 4 + i], values |-> vs,
     ballots |-> [i \in 1 .. n |-> 6 + i], value_ballots |-> [i \in 1 .. n |-> 8 + i]]

MCmessages ==
    {[type |-> "PREPARE", src |-> 1, iid |-> 2, ballot |-> 3],
     [type |-> "PREEMPTED", aid |-> 1, iid |-> 2, ballot |-> 3],
     [type |-> "REPEAT", from |-> 1, to |-> 2], [type |-> "TRIM", iid |-> 1],
     [type |-> "ACCEPTOR_STATE", aid |-> 1, trim_iid |-> 2]}
    \cup {[type |-> "CLIENT_VALUE", value |-> v] : v \in {v1, EmptyValue}}
    \cup {[type |-> "ACCEPT", src |-> 1, iid |-> 2, ballot |-> 3, value |-> v] :
              v \in {v1, EmptyValue}}
    \cup {MCpromise(n, v) : n \in {1, 2}, v \in {v1, NULL}}
    \cup {MCaccepted(1, <<v1>>), MCaccepted(2, <<v1, EmptyValue>>),
          MCaccepted(2, NULL)}
===============================================================================
