------------------------------- MODULE Acceptor -------------------------------
(***************************************************************************)
(* The acceptors: paxos/acceptor.c on top of paxos/storage_mem.c, and the  *)
(* event handlers of evpaxos/evacceptor.c that call it.                    *)
(***************************************************************************)
EXTENDS PaxosMessages

VARIABLES
    records,    \* records[a][iid]: the paxos_accepted kept by the storage
    trim_iid    \* trim_iid[a]: instances up to it have been trimmed

acceptorVars == <<records, trim_iid>>

(* aid[0] is always the acceptor itself; aids is the whole array. *)
Record ==
    [src : Replica \cup {-1}, ballot : Ballot, value_ballot : Ballot,
     value : Value \cup {None}, aids : SUBSET Replica]

(* What memset leaves when the storage has no record of an instance. *)
NoRecord ==
    [src |-> -1, ballot |-> 0, value_ballot |-> 0, value |-> None, aids |-> {}]

Found(acc) == acc # NoRecord

(* The two tests of the receive functions: an instance up to trim_iid is
   dropped, and a record gives way to a request whose ballot is not smaller. *)
trimmed_off_by_one(a, iid) == iid < trim_iid[a]
trimmed(a, iid) == iid <= trim_iid[a]

gives_way_always(acc, ballot) == TRUE
gives_way(acc, ballot) == ~Found(acc) \/ acc.ballot <= ballot

(* storage_put_record and storage_trim of the in-memory backend. *)
storage_put_record(a, iid, acc) ==
    records' = [records EXCEPT ![a][iid] = acc]

storage_trim(a, iid) ==
    records' = [records EXCEPT
        ![a] = [i \in Iid |-> IF i <= iid THEN NoRecord ELSE records[a][i]]]

acceptor_new ==
    /\ records = [a \in Replica |-> [i \in Iid |-> NoRecord]]
    /\ trim_iid = [a \in Replica |-> 0]

(* paxos_accepted_to_promise, paxos_accepted_to_preempted and the ACCEPTED
   that a stored record becomes when it is sent again. *)
paxos_accepted_to_promise(a, iid, acc, to) ==
    [type |-> "PROMISE", to |-> to, aid |-> a, iid |-> iid,
     ballot |-> acc.ballot, value_ballot |-> acc.value_ballot,
     value |-> acc.value]

paxos_accepted_to_preempted(a, iid, acc, to) ==
    [type |-> "PREEMPTED", to |-> to, aid |-> a, iid |-> iid,
     ballot |-> acc.ballot]

accepted_message(a, iid, acc, to) ==
    [type |-> "ACCEPTED", to |-> to, aid |-> a, iid |-> iid,
     ballot |-> acc.ballot, value |-> acc.value, aids |-> acc.aids]

(* The record a PREPARE leaves behind.  A record whose ballot is not larger
   is replaced by one that holds no value. *)
prepared_record_anonymous(a, acc, req) ==
    [src |-> req.src, ballot |-> req.ballot, value_ballot |-> req.ballot,
     value |-> None, aids |-> {}]

prepared_record_raises_value_ballot(a, acc, req) ==
    IF gives_way(acc, req.ballot)
    THEN [src |-> req.src, ballot |-> req.ballot, value_ballot |-> req.ballot,
          value |-> acc.value, aids |-> {a}]
    ELSE acc

prepared_record(a, acc, req) ==
    IF gives_way(acc, req.ballot)
    THEN [src |-> req.src, ballot |-> req.ballot, value_ballot |-> req.ballot,
          value |-> None, aids |-> {a}]
    ELSE [acc EXCEPT !.aids = @ \cup {a}]

paxos_accept_to_accepted(a, req) ==
    [src |-> req.src, ballot |-> req.ballot, value_ballot |-> req.ballot,
     value |-> req.value, aids |-> {a}]

(* peers_foreach_down_acceptor with peer_send_paxos_message.  A PREPARE is
   passed on in the relay's own name, the other requests as they are. *)
pass_down(a, m) ==
    requests' = requests \cup ToAll([m EXCEPT !.from = a], Down[a])

pass_down_prepare(a, m) ==
    requests' = requests \cup
                ToAll([m EXCEPT !.from = a, !.src = a], Down[a])

-------------------------------------------------------------------------------
(* The handlers.  Each receives a message m at acceptor a. *)

evacceptor_handle_prepare(a, m) ==
    /\ pass_down_prepare(a, m)
    /\ UNCHANGED trim_iid
    /\ \/ /\ trimmed(a, m.iid)
          /\ UNCHANGED <<records, replies>>
       \/ /\ ~trimmed(a, m.iid)
          /\ LET acc == prepared_record(a, records[a][m.iid], m)
             IN  /\ storage_put_record(a, m.iid, acc)
                 /\ replies' = replies \cup
                        {paxos_accepted_to_promise(a, m.iid, acc, m.from)}

evacceptor_handle_accept_unconditionally(a, m) ==
    LET new == paxos_accept_to_accepted(a, m)
    IN  /\ pass_down(a, m)
        /\ replies' = replies \cup
              ToAll(accepted_message(a, m.iid, new, a), Clients[a])
        /\ IF gives_way(records[a][m.iid], m.ballot)
           THEN storage_put_record(a, m.iid, new)
           ELSE UNCHANGED records
        /\ UNCHANGED trim_iid

evacceptor_handle_accept(a, m) ==
    /\ pass_down(a, m)
    /\ UNCHANGED trim_iid
    /\ LET acc == records[a][m.iid]
           new == paxos_accept_to_accepted(a, m)
       IN  \/ /\ trimmed(a, m.iid)
              /\ UNCHANGED <<records, replies>>
           \/ /\ ~trimmed(a, m.iid)
              /\ gives_way(acc, m.ballot)
              /\ storage_put_record(a, m.iid, new)
              /\ replies' = replies \cup
                    ToAll(accepted_message(a, m.iid, new, a), Clients[a])
           \/ /\ ~trimmed(a, m.iid)
              /\ ~gives_way(acc, m.ballot)
              /\ replies' = replies \cup
                    {paxos_accepted_to_preempted(a, m.iid, acc, m.from)}
              /\ UNCHANGED records

(* acceptor_receive_repeat on every instance of the requested range. *)
evacceptor_handle_repeat(a, m) ==
    /\ replies' = replies \cup
          {accepted_message(a, i, records[a][i], m.from) :
              i \in {j \in Iid : /\ m.first <= j /\ j <= m.last
                                 /\ records[a][j].value # None}}
    /\ UNCHANGED <<records, trim_iid, requests>>

evacceptor_handle_trim(a, m) ==
    /\ pass_down(a, m)
    /\ UNCHANGED replies
    /\ \/ trimmed(a, m.iid) /\ UNCHANGED acceptorVars
       \/ /\ ~trimmed(a, m.iid)
          /\ trim_iid' = [trim_iid EXCEPT ![a] = m.iid]
          /\ storage_trim(a, m.iid)

(***************************************************************************)
(* evacceptor_fwd_promise, evacceptor_fwd_accepted: an answer that reaches *)
(* a replica is noted in the replica's own record of the instance and sent *)
(* on to the source of that record, once half of the subordinates answered.*)
(***************************************************************************)
note_answer(a, m, aids) ==
    LET acc   == records[a][m.iid]
        all   == acc.aids \cup aids
        heard == IF aids \subseteq acc.aids THEN 0 ELSE Cardinality(all)
    IN  \/ ~Found(acc) /\ UNCHANGED <<records, replies>>
        \/ /\ Found(acc)
           /\ storage_put_record(a, m.iid, [acc EXCEPT !.aids = all])
           /\ replies' = replies \cup
                 {[m EXCEPT !.to = s] :
                     s \in {p \in Peers[a] : /\ p = acc.src
                                             /\ heard >= subordinates[a] \div 2}}

evacceptor_fwd_promise(a, m) == note_answer(a, m, {m.aid})

evacceptor_fwd_accepted(a, m) == note_answer(a, m, m.aids)

evacceptor_fwd_preempted(a, m) ==
    /\ replies' = replies \cup
          {[m EXCEPT !.to = s] :
              s \in {p \in Peers[a] : p = records[a][m.iid].src}}
    /\ UNCHANGED records

-------------------------------------------------------------------------------
(***************************************************************************)
(* The acceptors on their own: proposers may send any request at any time. *)
(***************************************************************************)
ProposerRequests ==
    {m \in Request :
        /\ m.from \in Active /\ m.to \in Peers[m.from]
        /\ m.type \in {"PREPARE", "ACCEPT"} => m.src = m.from}

HandleRequest(m) ==
    \/ m.type = "PREPARE" /\ evacceptor_handle_prepare(m.to, m)
    \/ m.type = "ACCEPT" /\ evacceptor_handle_accept(m.to, m)
    \/ m.type = "REPEAT" /\ evacceptor_handle_repeat(m.to, m)
    \/ m.type = "TRIM" /\ evacceptor_handle_trim(m.to, m)

ForwardReply(m) ==
    /\ \/ m.type = "PROMISE" /\ evacceptor_fwd_promise(m.to, m)
       \/ m.type = "ACCEPTED" /\ evacceptor_fwd_accepted(m.to, m)
       \/ m.type = "PREEMPTED" /\ evacceptor_fwd_preempted(m.to, m)
    /\ UNCHANGED <<trim_iid, requests>>

AcceptorInit ==
    /\ acceptor_new
    /\ requests = {} /\ replies = {}

AcceptorNext ==
    \/ \E m \in ProposerRequests \cup requests : HandleRequest(m)
    \/ \E m \in replies : ForwardReply(m)

AcceptorSpec ==
    AcceptorInit /\ [][AcceptorNext]_<<acceptorVars, requests, replies>>

-------------------------------------------------------------------------------
(* Every stored record and every message has the shape the C structures give
   it, and a stored record names its own acceptor first. *)
AcceptorTypeOK ==
    /\ records \in [Replica -> [Iid -> Record]]
    /\ trim_iid \in [Replica -> Iid \cup {0}]
    /\ requests \subseteq Request
    /\ replies \subseteq Reply
    /\ \A a \in Replica, i \in Iid :
          Found(records[a][i]) => /\ a \in records[a][i].aids
                                  /\ records[a][i].src \in Replica

(* storage_trim and the trim_iid test of every handler together keep a trimmed
   instance out of the storage for good: no later PREPARE, ACCEPT or forwarded
   answer brings its record back. *)
TrimmedStayGone ==
    \A a \in Replica, i \in Iid : i <= trim_iid[a] => ~Found(records[a][i])

(* What an acceptor has answered binds it: as long as the instance is not
   trimmed, its record has at least the ballot of every PROMISE, ACCEPTED and
   PREEMPTED it ever sent, whatever was prepared, accepted or forwarded since. *)
AnswersBind ==
    \A m \in replies :
        \/ m.iid <= trim_iid[m.aid]
        \/ m.ballot <= records[m.aid][m.iid].ballot

(* A stored value is one the acceptor voted for, at the ballot stored with it: it
   was sent as ACCEPTED with the record's value_ballot, not necessarily its
   ballot, to every connected client.  A record that claims more would let a
   PROMISE report a vote that was never cast. *)
StoredWasAnnounced ==
    \A a \in Replica, i \in Iid :
        records[a][i].value # None =>
            \A c \in Clients[a] :
                \E m \in replies :
                    /\ m.type = "ACCEPTED" /\ m.to = c /\ m.aid = a /\ m.iid = i
                    /\ m.ballot = records[a][i].value_ballot
                    /\ m.value = records[a][i].value

(* The votes cast: an acceptor, instance, ballot and value. *)
Votes ==
    {<<m.aid, m.iid, m.ballot, m.value>> :
        m \in {k \in replies : k.type = "ACCEPTED"}}

(* A new vote is never cast below a ballot the acceptor has promised or voted
   in, nor for an instance it has trimmed: acceptor_receive_accept against
   every earlier acceptor_receive_prepare, over any number of steps between. *)
NoVoteBelowPromise ==
    [][\A v \in Votes' \ Votes :
          /\ v[2] > trim_iid[v[1]]
          /\ \A m \in replies :
                (m.aid = v[1] /\ m.iid = v[2]) => m.ballot <= v[3]
      ]_<<acceptorVars, requests, replies>>
===============================================================================
