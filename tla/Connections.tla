------------------------------ MODULE Connections -----------------------------
(***************************************************************************)
(* The connections of evpaxos/peers.c: peers that connect to one replica,  *)
(* with their reconnect timers, and the table of clients at that replica.  *)
(* A struct peer at the replica is named by its connection.  The process   *)
(* of the replica may end and be started again, and a connection may break *)
(* at any time; each end learns of it by a callback of its own.            *)
(***************************************************************************)
EXTENDS Integers

CONSTANTS
    Peer,       \* the struct peers that connect to the replica
    Conn,       \* TCP connections, used again once both ends are gone
    Connecting, \* a bev on which bufferevent_socket_connect was called
    Idle        \* a bev made by on_peer_event, not connected yet

ASSUME ConnAssumption == Connecting # Idle /\ {Connecting, Idle} \cap Conn = {}

VARIABLES
    up,         \* the replica is listening
    backlog,    \* connections that on_accept was not yet called for
    clients_count, clients, \* clients[0 .. clients_count-1]
    id,         \* the id field of the struct peer of an accepted connection
    broken,     \* connections that were closed or failed
    bev,        \* bev[p]: what the bufferevent of p stands for
    status,     \* status[p]: the last event of p
    timer       \* the p with a pending reconnect_ev

connVars == <<up, backlog, clients_count, clients, id, broken, bev, status, timer>>
serverVars == <<backlog, clients_count, clients, id>>

Table == {clients[i] : i \in 0 .. clients_count - 1}
InUse == backlog \cup Table \cup {bev[p] : p \in Peer}

(* peers_new and peers_connect: make_peer leaves the status EOF. *)
ConnInit ==
    /\ up = TRUE /\ backlog = {} /\ broken = {}
    /\ clients_count = 0 /\ clients = [i \in {} |-> i] /\ id = [c \in Conn |-> 0]
    /\ bev = [p \in Peer |-> Connecting]
    /\ status = [p \in Peer |-> "EOF"] /\ timer = {}

-------------------------------------------------------------------------------
(* on_peer_event with CONNECTED: the connection waits to be accepted. *)
Connected(p) ==
    /\ up /\ bev[p] = Connecting
    /\ \E c \in Conn \ InUse :
        /\ bev' = [bev EXCEPT ![p] = c]
        /\ backlog' = backlog \cup {c}
        /\ broken' = broken \ {c}
    /\ status' = [status EXCEPT ![p] = "CONNECTED"]
    /\ UNCHANGED <<up, clients_count, clients, id, timer>>

(* on_peer_event with ERROR or EOF: a new bev, and the timer that connects it. *)
start_over_no_timer(p, ev) ==
    /\ bev' = [bev EXCEPT ![p] = Idle]
    /\ status' = [status EXCEPT ![p] = ev]
    /\ UNCHANGED <<timer, up, broken, serverVars>>

start_over(p, ev) ==
    /\ bev' = [bev EXCEPT ![p] = Idle]
    /\ timer' = timer \cup {p}
    /\ status' = [status EXCEPT ![p] = ev]
    /\ UNCHANGED <<up, broken, serverVars>>

Refused(p) == ~up /\ bev[p] = Connecting /\ start_over(p, "ERROR")

Closed(p) == bev[p] \in broken /\ start_over(p, "EOF")

on_connection_timeout_waits_again(p) == p \in timer /\ UNCHANGED connVars
on_connection_timeout(p) ==
    /\ p \in timer /\ timer' = timer \ {p}
    /\ bev' = [bev EXCEPT ![p] = Connecting]
    /\ UNCHANGED <<up, broken, status, serverVars>>

-------------------------------------------------------------------------------
on_accept_uncounted(c) ==
    /\ up /\ c \in backlog
    /\ backlog' = backlog \ {c}
    /\ clients' = [i \in 0 .. clients_count |-> IF i = clients_count THEN c ELSE clients[i]]
    /\ UNCHANGED <<up, broken, bev, status, timer, id, clients_count>>

on_accept(c) ==
    /\ up /\ c \in backlog
    /\ backlog' = backlog \ {c}
    /\ clients' = [i \in 0 .. clients_count |-> IF i = clients_count THEN c ELSE clients[i]]
    /\ id' = [id EXCEPT ![c] = clients_count]
    /\ clients_count' = clients_count + 1
    /\ UNCHANGED <<up, broken, bev, status, timer>>

(* on_client_event with EOF or ERROR: the clients behind c move up by one and
   get their new place as id.  The struct of c is freed. *)
shifted_one_late(k) ==
    [i \in 0 .. clients_count - 2 |-> IF i <= k THEN clients[i] ELSE clients[i + 1]]
shifted(k) ==
    [i \in 0 .. clients_count - 2 |-> IF i < k THEN clients[i] ELSE clients[i + 1]]

renumbered_not(k) == id
renumbered(k) ==
    [c \in Conn |->
        IF \E i \in k .. clients_count - 2 : clients[i + 1] = c
        THEN CHOOSE i \in k .. clients_count - 2 : clients[i + 1] = c
        ELSE id[c]]

on_client_event(c) ==
    /\ up /\ c \in Table \cap broken
    /\ clients' = shifted(id[c])
    /\ id' = renumbered(id[c])
    /\ clients_count' = clients_count - 1
    /\ UNCHANGED <<up, backlog, broken, bev, status, timer>>

-------------------------------------------------------------------------------
(* What the network and the operating system do. *)
Break(c) ==
    /\ c \in InUse /\ c \in Conn \ broken
    /\ broken' = broken \cup {c}
    /\ UNCHANGED <<up, bev, status, timer, serverVars>>

TimedOut(p) == up /\ bev[p] = Connecting /\ start_over(p, "ERROR")

Stop ==
    /\ up /\ up' = FALSE
    /\ backlog' = {} /\ clients_count' = 0 /\ clients' = [i \in {} |-> i]
    /\ broken' = broken \cup (InUse \cap Conn)
    /\ UNCHANGED <<id, bev, status, timer>>

Start ==
    /\ ~up /\ up' = TRUE
    /\ UNCHANGED <<broken, bev, status, timer, serverVars>>

Fault == Stop \/ (\E c \in Conn : Break(c)) \/ (\E p \in Peer : TimedOut(p))

PeerStep(p) ==
    Connected(p) \/ Refused(p) \/ Closed(p) \/ on_connection_timeout(p)

ConnStep(c) == on_accept(c) \/ on_client_event(c)

ConnNext ==
    \/ \E p \in Peer : PeerStep(p)
    \/ \E c \in Conn : ConnStep(c)
    \/ Start \/ Fault

(* libevent runs every callback that is due, and the replica is started again.
   Settled: the network and the replica fail finitely often. *)
Fairness ==
    /\ \A p \in Peer : WF_connVars(PeerStep(p))
    /\ \A c \in Conn : WF_connVars(ConnStep(c))
    /\ WF_connVars(Start)

Settled == <>[][~Fault]_connVars

ConnSpec == ConnInit /\ [][ConnNext]_connVars
FairConnSpec == ConnSpec /\ Fairness /\ Settled

-------------------------------------------------------------------------------
(* Every field has a value it can have; only connections that exist wait. *)
ConnTypeOK ==
    /\ up \in BOOLEAN /\ backlog \subseteq Conn /\ broken \subseteq Conn
    /\ clients_count \in Nat /\ clients \in [0 .. clients_count - 1 -> Conn]
    /\ id \in [Conn -> Nat]
    /\ bev \in [Peer -> Conn \cup {Connecting, Idle}]
    /\ status \in [Peer -> {"CONNECTED", "EOF", "ERROR"}]
    /\ timer \subseteq Peer

(* The id of a client is its place in the table, however clients come and go:
   on_client_event starts to shift at that id, so that a stale one would drop
   another client and leave a freed struct peer in the table. *)
IdIsPlace == \A i \in 0 .. clients_count - 1 : id[clients[i]] = i

(* A connection that was accepted and not closed is in the table exactly once,
   and none that waits to be accepted is: peers_foreach_client sends every
   announcement to every client, and once. *)
TableExact ==
    /\ \A i, j \in 0 .. clients_count - 1 : clients[i] = clients[j] => i = j
    /\ Table \cap backlog = {}
    /\ \A p \in Peer : bev[p] \in Conn \ broken => bev[p] \in Table \cup backlog

(* A peer without a connection is never forgotten: it has a pending timer or a
   pending attempt, and never both, so that no bev is connected twice. *)
PeerPursued ==
    \A p \in Peer :
        /\ status[p] # "CONNECTED" => p \in timer \/ bev[p] = Connecting
        /\ p \in timer <=> bev[p] = Idle

(* Once the network and the replica are stable, every peer is connected for good
   and is the client of one live entry of the table, the old ones being gone. *)
EveryoneReconnects ==
    <>[](/\ \A p \in Peer : status[p] = "CONNECTED" /\ bev[p] \in Table
         /\ Table = {bev[p] : p \in Peer})
===============================================================================
