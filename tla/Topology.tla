------------------------------- MODULE Topology -------------------------------
(***************************************************************************)
(* Who talks to whom.  A configuration file gives every replica a group    *)
(* and a parent group.  A replica whose group is its own parent is a plain *)
(* member; any other replica is a relay that hangs its group below the     *)
(* parent group.  The operators below are the tests of evpaxos/peers.c,    *)
(* evpaxos/evacceptor.c and evpaxos/evreplica.c on that configuration.     *)
(***************************************************************************)
EXTENDS Integers, FiniteSets

CONSTANTS
    N,          \* acceptors_count: the replicas are 0 .. N-1
    groupid,    \* config->acceptors[r].groupid
    parentid    \* config->acceptors[r].parentid

Replica == 0 .. N-1

ASSUME TopologyAssumption ==
    /\ N \in Nat \ {0}
    /\ groupid \in [Replica -> Int]
    /\ parentid \in [Replica -> Int]

Relay(r) == groupid[r] # parentid[r]

(* The four cases of peers_connect_to_acceptors, in the code's order. *)
ConnectsTo(r, i) ==
    \/ groupid[i] = groupid[r]
    \/ Relay(r) /\ groupid[i] = parentid[r]
    \/ Relay(r) /\ Relay(i) /\ parentid[i] = parentid[r]
    \/ Relay(i) /\ parentid[i] = groupid[r]

(* The peers array of r, as a set; connections are opened by increasing id. *)
Peers == [r \in Replica |-> {i \in Replica : ConnectsTo(r, i)}]

(* The connections r has accepted: peers_foreach_client reaches these. *)
Clients == [r \in Replica |-> {q \in Replica : r \in Peers[q]}]

(* The position of peer p in r's peers array. *)
PeerIndex(r, p) == Cardinality({q \in Peers[r] : q < p})

(***************************************************************************)
(* peers_foreach_down_acceptor: a relay passes a request on to peers[i]    *)
(* when config->acceptors[i] is below it.  The index i into the peers      *)
(* array is also used as an index into the configuration.                  *)
(***************************************************************************)
BelowAt(r, i) ==
    \/ groupid[r] = groupid[i] /\ ~Relay(i)
    \/ groupid[r] = parentid[i] /\ Relay(i)

Down ==
    [r \in Replica |->
        {p \in Peers[r] : Relay(r) /\ BelowAt(r, PeerIndex(r, p))}]

(* evpaxos_replica_init: only members of the top group run a proposer. *)
HasProposer(r) == parentid[r] <= 0 /\ ~Relay(r)

Proposers == {r \in Replica : HasProposer(r)}

(***************************************************************************)
(* The group scan of evacceptor_init_internal: the groups reachable from   *)
(* r's group through parent links, and how many replicas were counted.     *)
(***************************************************************************)
ScannedGroups(r) ==
    LET scan[n \in 0 .. N] ==
            IF n = 0
            THEN {groupid[q] : q \in {p \in {r} : Relay(p)}}
            ELSE LET seen == scan[n-1]
                 IN  seen \cup {groupid[i] : i \in {j \in Replica : parentid[j] \in seen}}
    IN  scan[N]

subordinates ==
    [r \in Replica |->
        Cardinality({c \in ScannedGroups(r) \X Replica :
                        \/ groupid[c[2]] = c[1] /\ c[1] = parentid[r]
                        \/ parentid[c[2]] = c[1]})]
===============================================================================
