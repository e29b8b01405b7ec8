---------------------------- MODULE AcceptorProofs ----------------------------
(***************************************************************************)
(* The invariants of module Acceptor, proved for any topology, any set of  *)
(* instances, any values and any bound on ballots.                         *)
(***************************************************************************)
EXTENDS Acceptor, TLAPS

vars == <<acceptorVars, requests, replies>>

-------------------------------------------------------------------------------
(* Peers, the clients and the down acceptors of a replica are replicas. *)
LEMMA NeighboursAreReplicas ==
    ASSUME NEW a \in Replica
    PROVE  /\ Peers[a] \subseteq Replica
           /\ Clients[a] \subseteq Replica
           /\ Down[a] \subseteq Replica
BY DEF Peers, Clients, Down

(* Readdressing an answer changes nothing but its receiver. *)
LEMMA ReplyReaddressed ==
    ASSUME NEW m \in Reply, NEW r \in Replica
    PROVE  LET k == [m EXCEPT !.to = r]
           IN  /\ k \in Reply
               /\ k.type = m.type /\ k.aid = m.aid /\ k.iid = m.iid
               /\ k.ballot = m.ballot /\ k.to = r
BY DEF Reply

(* The fields a handler reads exist and have their types. *)
LEMMA RequestFields ==
    ASSUME NEW m \in Request
    PROVE  /\ m.from \in Replica /\ m.to \in Replica
           /\ m.type = "PREPARE" =>
                 m.src \in Replica /\ m.iid \in Iid /\ m.ballot \in Ballot
           /\ m.type = "ACCEPT" =>
                 /\ m.src \in Replica /\ m.iid \in Iid /\ m.ballot \in Ballot
                 /\ m.value \in Value
           /\ m.type = "TRIM" => m.iid \in Iid
           /\ m.type = "REPEAT" => m.first \in Iid /\ m.last \in Iid
BY DEF Request, Ballot

(* The fields of a reply, by type. *)
LEMMA ReplyFields ==
    ASSUME NEW m \in Reply
    PROVE  /\ m.to \in Replica /\ m.aid \in Replica /\ m.iid \in Iid
           /\ m.ballot \in Ballot
           /\ m.type \in {"PROMISE", "ACCEPTED", "PREEMPTED"}
           /\ m.type = "ACCEPTED" =>
                 m.value \in Value /\ m.aids \in SUBSET Replica
BY DEF Reply

(* A request a relay passes on is still a request. *)
LEMMA RequestPassedDown ==
    ASSUME NEW m \in Request, NEW a \in Replica, NEW d \in Replica
    PROVE  /\ [[m EXCEPT !.from = a] EXCEPT !.to = d] \in Request
           /\ m.type = "PREPARE" =>
                 [[m EXCEPT !.from = a, !.src = a] EXCEPT !.to = d] \in Request
BY DEF Request

(* What a relay passes down is a well-formed request. *)
LEMMA PassDownTyped ==
    ASSUME requests \subseteq Request, NEW m \in Request, NEW a \in Replica
    PROVE  /\ pass_down(a, m) => requests' \subseteq Request
           /\ m.type = "PREPARE" /\ pass_down_prepare(a, m)
                 => requests' \subseteq Request
BY NeighboursAreReplicas, RequestPassedDown
   DEF pass_down, pass_down_prepare, ToAll

(* The absence of a record is itself a well-formed, smallest record. *)
LEMMA NoRecordTyped ==
    /\ NoRecord \in Record
    /\ NoRecord.ballot = 0 /\ NoRecord.value = None /\ NoRecord.aids = {}
BY MessagesAssumption DEF NoRecord, Record, Ballot

(* A stored record of acceptor a: it names a, and its source is a replica. *)
OwnRecord(a, acc) ==
    /\ acc \in Record
    /\ Found(acc) => a \in acc.aids /\ acc.src \in Replica

(* Overwriting one record with a well-formed one keeps the storage typed. *)
LEMMA PutTyped ==
    ASSUME AcceptorTypeOK, NEW a \in Replica, NEW i \in Iid,
           NEW acc, OwnRecord(a, acc), storage_put_record(a, i, acc)
    PROVE  /\ records' \in [Replica -> [Iid -> Record]]
           /\ \A b \in Replica, j \in Iid : OwnRecord(b, records[b][j])'
BY DEF AcceptorTypeOK, OwnRecord, storage_put_record

(* Adding answers to a record leaves its other fields alone. *)
LEMMA AidsAdded ==
    ASSUME NEW acc \in Record, NEW S \in SUBSET Replica
    PROVE  LET new == [acc EXCEPT !.aids = acc.aids \cup S]
           IN  /\ new \in Record
               /\ new.src = acc.src /\ new.ballot = acc.ballot
               /\ new.value_ballot = acc.value_ballot
               /\ new.value = acc.value /\ new.aids = acc.aids \cup S
BY DEF Record

(* A PREPARE leaves a well-formed record whose ballot is neither below the
   request's nor below the one it replaces, and which holds the old value only
   if the ballot stays as it was. *)
LEMMA PreparedRecord ==
    ASSUME NEW a \in Replica, NEW old, OwnRecord(a, old),
           NEW m, m.src \in Replica, m.ballot \in Ballot
    PROVE  LET new == prepared_record(a, old, m)
           IN  /\ OwnRecord(a, new) /\ Found(new)
               /\ m.ballot <= new.ballot /\ old.ballot <= new.ballot
               /\ new.value # None =>
                     /\ new.value = old.value /\ new.ballot = old.ballot
                     /\ new.value_ballot = old.value_ballot
<1>1. old \in Record /\ old.ballot \in Nat /\ m.ballot \in Nat
  BY MessagesAssumption DEF OwnRecord, Record, Ballot
<1>2. CASE gives_way(old, m.ballot)
  <2> DEFINE new == [src |-> m.src, ballot |-> m.ballot,
                     value_ballot |-> m.ballot, value |-> None, aids |-> {a}]
  <2>1. prepared_record(a, old, m) = new
    BY <1>2 DEF prepared_record
  <2>2. new \in Record /\ a \in new.aids /\ new.src \in Replica
    BY DEF Record
  <2>3. Found(new)
    BY <2>2, NoRecordTyped DEF Found
  <2>4. old.ballot <= m.ballot
    BY <1>1, <1>2, NoRecordTyped DEF gives_way, Found
  <2> QED  BY <1>1, <2>1, <2>2, <2>3, <2>4 DEF OwnRecord
<1>3. CASE ~gives_way(old, m.ballot)
  <2> DEFINE new == [old EXCEPT !.aids = old.aids \cup {a}]
  <2>1. prepared_record(a, old, m) = new
    BY <1>3 DEF prepared_record
  <2>2. /\ new \in Record /\ new.src = old.src /\ new.ballot = old.ballot
        /\ new.value_ballot = old.value_ballot
        /\ new.value = old.value /\ new.aids = old.aids \cup {a}
    BY <1>1 DEF Record
  <2>3. Found(old) /\ m.ballot <= old.ballot
    BY <1>1, <1>3 DEF gives_way
  <2>4. Found(new)
    BY <2>2, NoRecordTyped DEF Found
  <2> QED  BY <1>1, <2>1, <2>2, <2>3, <2>4 DEF OwnRecord
<1> QED  BY <1>2, <1>3

(* Trimming empties the records up to iid and keeps the others. *)
LEMMA TrimEffect ==
    ASSUME AcceptorTypeOK, NEW a \in Replica, NEW iid \in Iid,
           storage_trim(a, iid)
    PROVE  /\ records' \in [Replica -> [Iid -> Record]]
           /\ \A b \in Replica, i \in Iid :
                 records'[b][i] = IF b = a /\ i <= iid THEN NoRecord
                                  ELSE records[b][i]
<1> DEFINE f == [i \in Iid |-> IF i <= iid THEN NoRecord ELSE records[a][i]]
<1>1. records \in [Replica -> [Iid -> Record]]
  BY DEF AcceptorTypeOK
<1>2. f \in [Iid -> Record]
  BY <1>1, NoRecordTyped
<1>3. records' = [records EXCEPT ![a] = f]
  BY DEF storage_trim
<1> HIDE DEF f
<1>4. \A b \in Replica : records'[b] = IF b = a THEN f ELSE records[b]
  BY <1>1, <1>3
<1>5. records' \in [Replica -> [Iid -> Record]]
  BY <1>1, <1>2, <1>3
<1> QED  BY <1>4, <1>5 DEF f

(***************************************************************************)
(* Type correctness.  One step per handler; each builds a well-formed      *)
(* record and a well-formed answer.                                        *)
(***************************************************************************)
LEMMA PrepareTyped ==
    ASSUME AcceptorTypeOK, NEW m \in Request, m.type = "PREPARE",
           evacceptor_handle_prepare(m.to, m)
    PROVE  AcceptorTypeOK'
<1> DEFINE a == m.to
           acc == prepared_record(a, records[a][m.iid], m)
<1>1. /\ a \in Replica /\ m.from \in Replica /\ m.src \in Replica
      /\ m.iid \in Iid /\ m.ballot \in Ballot
  BY RequestFields
<1>2. requests' \subseteq Request /\ trim_iid' = trim_iid
  BY <1>1, PassDownTyped DEF evacceptor_handle_prepare, AcceptorTypeOK
<1>3. CASE trimmed(a, m.iid)
  BY <1>2, <1>3 DEF evacceptor_handle_prepare, AcceptorTypeOK
<1>4. CASE ~trimmed(a, m.iid)
  <2>1. OwnRecord(a, acc)
    <3>1. OwnRecord(a, records[a][m.iid])
      BY <1>1 DEF AcceptorTypeOK, OwnRecord
    <3> QED  BY <1>1, <3>1, PreparedRecord
  <2>2. paxos_accepted_to_promise(a, m.iid, acc, m.from) \in Reply
    BY <1>1, <2>1 DEF OwnRecord, Record, paxos_accepted_to_promise, Reply
  <2>3. storage_put_record(a, m.iid, acc)
    BY <1>4 DEF evacceptor_handle_prepare
  <2>4. replies' \subseteq Reply
    BY <1>4, <2>2 DEF evacceptor_handle_prepare, AcceptorTypeOK
  <2> QED
    BY <1>1, <1>2, <2>1, <2>3, <2>4, PutTyped DEF AcceptorTypeOK, OwnRecord
<1> QED  BY <1>3, <1>4

(* The record an accepted value becomes. *)
LEMMA AcceptedRecord ==
    ASSUME NEW a \in Replica, NEW m, m.src \in Replica, m.ballot \in Ballot,
           m.value \in Value
    PROVE  LET new == paxos_accept_to_accepted(a, m)
           IN  /\ OwnRecord(a, new) /\ Found(new)
               /\ new.ballot = m.ballot /\ new.value = m.value
               /\ new.value_ballot = m.ballot /\ new.aids = {a}
<1> DEFINE new == paxos_accept_to_accepted(a, m)
<1>1. /\ new \in Record /\ a \in new.aids /\ new.src \in Replica
      /\ new.ballot = m.ballot /\ new.value = m.value /\ new.aids = {a}
      /\ new.value_ballot = m.ballot
  BY DEF paxos_accept_to_accepted, Record
<1>2. Found(new)
  BY <1>1, NoRecordTyped DEF Found
<1> QED  BY <1>1, <1>2 DEF OwnRecord

(* A record that holds a value can be sent as an ACCEPTED message. *)
LEMMA AcceptedMessage ==
    ASSUME NEW a \in Replica, NEW i \in Iid, NEW acc \in Record,
           acc.value # None, NEW to \in Replica
    PROVE  LET k == accepted_message(a, i, acc, to)
           IN  /\ k \in Reply /\ k.type = "ACCEPTED" /\ k.to = to
               /\ k.aid = a /\ k.iid = i
               /\ k.ballot = acc.ballot /\ k.value = acc.value
BY DEF accepted_message, Reply, Record

(* evacceptor_handle_accept keeps the types. *)
LEMMA AcceptTyped ==
    ASSUME AcceptorTypeOK, NEW m \in Request, m.type = "ACCEPT",
           evacceptor_handle_accept(m.to, m)
    PROVE  AcceptorTypeOK'
<1> DEFINE a == m.to
           old == records[a][m.iid]
           new == paxos_accept_to_accepted(a, m)
<1>1. /\ a \in Replica /\ m.from \in Replica /\ m.src \in Replica
      /\ m.iid \in Iid /\ m.ballot \in Ballot /\ m.value \in Value
  BY RequestFields
<1>2. requests' \subseteq Request /\ trim_iid' = trim_iid
  BY <1>1, PassDownTyped DEF evacceptor_handle_accept, AcceptorTypeOK
<1>3. CASE trimmed(a, m.iid)
  BY <1>2, <1>3 DEF evacceptor_handle_accept, AcceptorTypeOK
<1>4. CASE ~trimmed(a, m.iid) /\ gives_way(old, m.ballot)
  <2>1. OwnRecord(a, new) /\ new.value \in Value /\ new \in Record
    BY <1>1, AcceptedRecord DEF OwnRecord
  <2>2. accepted_message(a, m.iid, new, a) \in Reply
    BY <1>1, <2>1, AcceptedMessage, MessagesAssumption
  <2>3. ToAll(accepted_message(a, m.iid, new, a), Clients[a]) \subseteq Reply
    BY <1>1, <2>2, ReplyReaddressed, NeighboursAreReplicas DEF ToAll
  <2>4. /\ storage_put_record(a, m.iid, new)
        /\ replies' = replies \cup
              ToAll(accepted_message(a, m.iid, new, a), Clients[a])
    BY <1>4 DEF evacceptor_handle_accept
  <2> QED
    BY <1>1, <1>2, <2>1, <2>3, <2>4, PutTyped DEF AcceptorTypeOK, OwnRecord
<1>5. CASE ~trimmed(a, m.iid) /\ ~gives_way(old, m.ballot)
  <2>1. old \in Record
    BY <1>1 DEF AcceptorTypeOK
  <2>2. paxos_accepted_to_preempted(a, m.iid, old, m.from) \in Reply
    BY <1>1, <2>1 DEF paxos_accepted_to_preempted, Reply, Record
  <2> QED
    BY <1>2, <1>5, <2>2 DEF evacceptor_handle_accept, AcceptorTypeOK
<1> QED  BY <1>3, <1>4, <1>5

(* evacceptor_handle_repeat keeps the types. *)
LEMMA RepeatTyped ==
    ASSUME AcceptorTypeOK, NEW m \in Request, m.type = "REPEAT",
           evacceptor_handle_repeat(m.to, m)
    PROVE  AcceptorTypeOK'
<1>1. m.to \in Replica /\ m.from \in Replica
  BY RequestFields
<1>2. \A j \in Iid : records[m.to][j].value # None =>
          accepted_message(m.to, j, records[m.to][j], m.from) \in Reply
  BY <1>1, AcceptedMessage DEF AcceptorTypeOK
<1> QED
  BY <1>2 DEF evacceptor_handle_repeat, AcceptorTypeOK

(* evacceptor_handle_trim keeps the types. *)
LEMMA TrimTyped ==
    ASSUME AcceptorTypeOK, NEW m \in Request, m.type = "TRIM",
           evacceptor_handle_trim(m.to, m)
    PROVE  AcceptorTypeOK'
<1>1. m.to \in Replica /\ m.iid \in Iid
  BY RequestFields
<1>2. requests' \subseteq Request /\ replies' = replies
  BY <1>1, PassDownTyped DEF evacceptor_handle_trim, AcceptorTypeOK
<1>3. CASE trimmed(m.to, m.iid)
  BY <1>2, <1>3 DEF evacceptor_handle_trim, AcceptorTypeOK, acceptorVars
<1>4. CASE ~trimmed(m.to, m.iid)
  <2>1. /\ storage_trim(m.to, m.iid)
        /\ trim_iid' = [trim_iid EXCEPT ![m.to] = m.iid]
    BY <1>4 DEF evacceptor_handle_trim
  <2>2. trim_iid' \in [Replica -> Iid \cup {0}]
    BY <1>1, <2>1 DEF AcceptorTypeOK
  <2> QED
    BY <1>1, <1>2, <2>1, <2>2, TrimEffect DEF AcceptorTypeOK, Found
<1> QED  BY <1>3, <1>4

(* A handler evacceptor_fwd_* runs; a proposer at the same replica may send requests. *)
Forwards(m) ==
    /\ \/ m.type = "PROMISE" /\ evacceptor_fwd_promise(m.to, m)
       \/ m.type = "ACCEPTED" /\ evacceptor_fwd_accepted(m.to, m)
       \/ m.type = "PREEMPTED" /\ evacceptor_fwd_preempted(m.to, m)
    /\ UNCHANGED trim_iid

(* What forwarding an answer does: at most a record's aids grow, and copies of
   the answer are sent to replicas. *)
Forwarded(m) ==
    /\ trim_iid' = trim_iid
    /\ records' \in [Replica -> [Iid -> Record]]
    /\ \A b \in Replica, i \in Iid :
          /\ OwnRecord(b, records[b][i])'
          /\ Found(records[b][i])' => Found(records[b][i])
          /\ records'[b][i].ballot = records[b][i].ballot
          /\ records'[b][i].value_ballot = records[b][i].value_ballot
          /\ records'[b][i].value = records[b][i].value
    /\ replies \subseteq replies'
    /\ \A k \in replies' \ replies : \E r \in Replica : k = [m EXCEPT !.to = r]

(* Noting an answer in the own record only forwards it. *)
LEMMA NoteAnswerForwards ==
    ASSUME AcceptorTypeOK, NEW m \in Reply, NEW S \in SUBSET Replica,
           note_answer(m.to, m, S), UNCHANGED trim_iid
    PROVE  Forwarded(m)
<1> DEFINE a == m.to
           acc == records[a][m.iid]
           new == [acc EXCEPT !.aids = acc.aids \cup S]
<1>1. a \in Replica /\ m.iid \in Iid
  BY ReplyFields
<1>2. \A b \in Replica, i \in Iid : OwnRecord(b, records[b][i])
  BY DEF AcceptorTypeOK, OwnRecord
<1>3. CASE ~Found(acc)
  <2>1. records' = records /\ replies' = replies
    BY <1>3 DEF note_answer
  <2> QED
    BY <1>2, <2>1 DEF Forwarded, AcceptorTypeOK, OwnRecord
<1>4. CASE Found(acc)
  <2>1. /\ storage_put_record(a, m.iid, new)
        /\ \E T \in SUBSET Peers[a] :
              replies' = replies \cup {[m EXCEPT !.to = s] : s \in T}
    BY <1>4 DEF note_answer
  <2>2. /\ new \in Record /\ new.src = acc.src /\ new.ballot = acc.ballot
        /\ new.value_ballot = acc.value_ballot
        /\ new.value = acc.value /\ new.aids = acc.aids \cup S
    BY <1>1, <1>2, AidsAdded DEF OwnRecord
  <2>3. OwnRecord(a, new)
    BY <1>1, <1>2, <1>4, <2>2 DEF OwnRecord
  <2>4. /\ records' \in [Replica -> [Iid -> Record]]
        /\ \A b \in Replica, i \in Iid : OwnRecord(b, records[b][i])'
    BY <1>1, <2>1, <2>3, PutTyped
  <2>5. \A b \in Replica, i \in Iid :
            records'[b][i] = IF b = a /\ i = m.iid THEN new ELSE records[b][i]
    BY <1>1, <2>1 DEF storage_put_record, AcceptorTypeOK
  <2>6. /\ replies \subseteq replies'
        /\ \A k \in replies' \ replies :
              \E r \in Replica : k = [m EXCEPT !.to = r]
    BY <1>1, <2>1, NeighboursAreReplicas
  <2> HIDE DEF new
  <2> QED
    BY <1>4, <2>2, <2>4, <2>5, <2>6 DEF Forwarded
<1> QED  BY <1>3, <1>4

(* Each of the three evacceptor_fwd_* handlers only forwards. *)
LEMMA ForwardReplyForwards ==
    ASSUME AcceptorTypeOK, NEW m \in Reply, Forwards(m)
    PROVE  Forwarded(m)
<1>1. /\ m.to \in Replica /\ m.aid \in Replica
      /\ m.type = "ACCEPTED" => m.aids \in SUBSET Replica
  BY ReplyFields
<1>2. UNCHANGED trim_iid
  BY DEF Forwards
<1>3. CASE m.type = "PROMISE" /\ evacceptor_fwd_promise(m.to, m)
  BY <1>1, <1>2, <1>3, NoteAnswerForwards DEF evacceptor_fwd_promise
<1>4. CASE m.type = "ACCEPTED" /\ evacceptor_fwd_accepted(m.to, m)
  BY <1>1, <1>2, <1>4, NoteAnswerForwards DEF evacceptor_fwd_accepted
<1>5. CASE m.type = "PREEMPTED" /\ evacceptor_fwd_preempted(m.to, m)
  <2>1. /\ replies \subseteq replies'
        /\ \A k \in replies' \ replies :
              \E r \in Replica : k = [m EXCEPT !.to = r]
    BY <1>1, <1>5, NeighboursAreReplicas DEF evacceptor_fwd_preempted
  <2>2. records' = records
    BY <1>5 DEF evacceptor_fwd_preempted
  <2> QED
    BY <1>2, <2>1, <2>2 DEF Forwarded, AcceptorTypeOK, OwnRecord
<1> QED  BY <1>3, <1>4, <1>5 DEF Forwards

(* The evacceptor_fwd_* handlers keep the types. *)
LEMMA ForwardTyped ==
    ASSUME AcceptorTypeOK, NEW m \in replies, Forwards(m), requests' \subseteq Request
    PROVE  AcceptorTypeOK'
<1>1. m \in Reply
  BY DEF AcceptorTypeOK
<1>2. Forwarded(m)
  BY <1>1, ForwardReplyForwards
<1>3. replies' \subseteq Reply
  BY <1>1, <1>2, ReplyReaddressed DEF Forwarded, AcceptorTypeOK
<1> QED  BY <1>2, <1>3 DEF Forwarded, AcceptorTypeOK, OwnRecord

(* Every value in the storage, every message and the trim mark keep their
   types in every reachable state, for all four request handlers and the three
   forwarding handlers. *)
THEOREM AcceptorTypeInvariant == AcceptorSpec => []AcceptorTypeOK
<1>1. AcceptorInit => AcceptorTypeOK
  BY NoRecordTyped DEF AcceptorInit, acceptor_new, AcceptorTypeOK, Found
<1>2. AcceptorTypeOK /\ [AcceptorNext]_vars => AcceptorTypeOK'
  <2> SUFFICES ASSUME AcceptorTypeOK, [AcceptorNext]_vars
               PROVE  AcceptorTypeOK'
    OBVIOUS
  <2>1. ASSUME NEW m \in ProposerRequests \cup requests, HandleRequest(m)
        PROVE  AcceptorTypeOK'
    <3>1. m \in Request
      BY DEF ProposerRequests, AcceptorTypeOK
    <3> QED
      BY <2>1, <3>1, PrepareTyped, AcceptTyped, RepeatTyped, TrimTyped
      DEF HandleRequest
  <2>2. ASSUME NEW m \in replies, ForwardReply(m)
        PROVE  AcceptorTypeOK'
    BY <2>2, ForwardTyped DEF ForwardReply, Forwards, AcceptorTypeOK
  <2>3. CASE UNCHANGED vars
    BY <2>3 DEF vars, acceptorVars, AcceptorTypeOK
  <2> QED  BY <2>1, <2>2, <2>3 DEF AcceptorNext
<1> QED  BY <1>1, <1>2, PTL DEF AcceptorSpec, vars

-------------------------------------------------------------------------------
(* The inductive invariant. *)
IInv == AcceptorTypeOK /\ TrimmedStayGone /\ AnswersBind /\ StoredWasAnnounced

Announced(b, i, acc, R) ==
    \A c \in Clients[b] :
        \E m \in R : /\ m.type = "ACCEPTED" /\ m.to = c /\ m.aid = b
                     /\ m.iid = i /\ m.ballot = acc.value_ballot
                     /\ m.value = acc.value

(***************************************************************************)
(* What every step of an acceptor does: ballots only grow on instances     *)
(* that are not trimmed, a value enters the storage only together with its *)
(* announcement, and an answer is backed by the record it leaves behind.   *)
(***************************************************************************)
LawfulRecord(b, i) ==
    /\ Found(records'[b][i]) => i > trim_iid'[b]
    /\ i <= trim_iid'[b] \/ records[b][i].ballot <= records'[b][i].ballot
    /\ records'[b][i].value # None =>
          \/ /\ records'[b][i].value = records[b][i].value
             /\ records'[b][i].value_ballot = records[b][i].value_ballot
          \/ Announced(b, i, records'[b][i], replies')

LawfulAnswer(k) ==
    /\ \/ k.iid <= trim_iid'[k.aid]
       \/ k.ballot <= records'[k.aid][k.iid].ballot
    /\ k.type = "ACCEPTED" =>
          \/ <<k.aid, k.iid, k.ballot, k.value>> \in Votes
          \/ /\ k.iid > trim_iid[k.aid]
             /\ records[k.aid][k.iid].ballot <= k.ballot

Lawful ==
    /\ replies \subseteq replies'
    /\ \A b \in Replica : trim_iid[b] <= trim_iid'[b]
    /\ \A b \in Replica, i \in Iid : LawfulRecord(b, i)
    /\ \A k \in replies' \ replies : LawfulAnswer(k)

(* Instances and ballots are natural numbers. *)
LEMMA Numbers ==
    /\ \A i \in Iid : i \in Nat /\ i > 0
    /\ \A b \in Ballot : b \in Nat
BY MessagesAssumption DEF Ballot

(* Numbers that occur in a typed state. *)
LEMMA StateNumbers ==
    ASSUME AcceptorTypeOK
    PROVE  /\ \A b \in Replica : trim_iid[b] \in Nat
           /\ \A b \in Replica, i \in Iid :
                 i \in Nat /\ records[b][i].ballot \in Nat
           /\ \A k \in replies :
                 /\ k.aid \in Replica /\ k.iid \in Iid /\ k.iid \in Nat
                 /\ k.ballot \in Nat
<1>1. \A b \in Replica : trim_iid[b] \in Nat
  BY Numbers DEF AcceptorTypeOK
<1>2. ASSUME NEW b \in Replica, NEW i \in Iid
      PROVE  i \in Nat /\ records[b][i].ballot \in Nat
  <2>1. records[b][i] \in Record
    BY DEF AcceptorTypeOK
  <2> QED  BY <2>1, Numbers DEF Record
<1>3. ASSUME NEW k \in replies
      PROVE  k.aid \in Replica /\ k.iid \in Iid /\ k.iid \in Nat /\ k.ballot \in Nat
  BY Numbers, ReplyFields DEF AcceptorTypeOK
<1> QED  BY <1>1, <1>2, <1>3

(* Forwarding an answer is lawful. *)
LEMMA ForwardLawful ==
    ASSUME IInv, NEW m \in replies, Forwards(m)
    PROVE  Lawful
<1>1. m \in Reply
  BY DEF IInv, AcceptorTypeOK
<1>2. Forwarded(m)
  BY <1>1, ForwardReplyForwards DEF IInv
<1>3. \A b \in Replica, i \in Iid : LawfulRecord(b, i)
  BY <1>2, StateNumbers DEF IInv, Forwarded, LawfulRecord, TrimmedStayGone
<1>4. \A k \in replies' \ replies : LawfulAnswer(k)
  <2> SUFFICES ASSUME NEW r \in Replica
               PROVE  LawfulAnswer([m EXCEPT !.to = r])
    BY <1>2 DEF Forwarded
  <2> DEFINE k == [m EXCEPT !.to = r]
  <2>1. /\ k.type = m.type /\ k.aid = m.aid /\ k.iid = m.iid
        /\ k.ballot = m.ballot
        /\ m.type = "ACCEPTED" => k.value = m.value
    BY <1>1 DEF Reply
  <2>2. m.aid \in Replica /\ m.iid \in Iid
    BY <1>1, ReplyFields
  <2>3. m.type = "ACCEPTED" => <<m.aid, m.iid, m.ballot, m.value>> \in Votes
    BY DEF Votes
  <2> HIDE DEF k
  <2>4. \/ m.iid <= trim_iid[m.aid]
        \/ m.ballot <= records[m.aid][m.iid].ballot
    BY DEF IInv, AnswersBind
  <2>5. /\ trim_iid'[m.aid] = trim_iid[m.aid]
        /\ records'[m.aid][m.iid].ballot = records[m.aid][m.iid].ballot
    BY <1>2, <2>2 DEF Forwarded
  <2>6. LawfulAnswer(k)
    BY <2>1, <2>3, <2>4, <2>5 DEF LawfulAnswer
  <2> QED  BY <2>6 DEF k
<1> QED
  BY <1>2, <1>3, <1>4, StateNumbers DEF Lawful, Forwarded, IInv

(* A handler that leaves the storage and the answers alone is lawful. *)
LEMMA SilentLawful ==
    ASSUME IInv, UNCHANGED <<records, trim_iid, replies>>
    PROVE  Lawful
BY StateNumbers
DEF IInv, Lawful, LawfulRecord, TrimmedStayGone

(* Overwriting one record, not trimmed, is lawful for all records if it is for
   that one. *)
LEMMA PutLawful ==
    ASSUME IInv, NEW a \in Replica, NEW i \in Iid, NEW acc,
           storage_put_record(a, i, acc), UNCHANGED trim_iid,
           i > trim_iid[a], records[a][i].ballot <= acc.ballot,
           acc.value # None =>
              \/ /\ acc.value = records[a][i].value
                 /\ acc.value_ballot = records[a][i].value_ballot
              \/ Announced(a, i, acc, replies')
    PROVE  /\ records'[a][i] = acc
           /\ \A b \in Replica, j \in Iid : LawfulRecord(b, j)
<1>1. \A b \in Replica, j \in Iid :
          records'[b][j] = IF b = a /\ j = i THEN acc ELSE records[b][j]
  BY DEF storage_put_record, IInv, AcceptorTypeOK
<1>2. ASSUME NEW b \in Replica, NEW j \in Iid
      PROVE  LawfulRecord(b, j)
  <2>1. CASE b = a /\ j = i
    BY <1>1, <2>1 DEF LawfulRecord
  <2>2. CASE ~(b = a /\ j = i)
    BY <1>1, <2>2, StateNumbers DEF LawfulRecord, IInv, TrimmedStayGone
  <2> QED  BY <2>1, <2>2
<1> QED  BY <1>1, <1>2

(* acceptor_receive_prepare is lawful: the ballot never goes down. *)
LEMMA PrepareLawful ==
    ASSUME IInv, NEW m \in Request, m.type = "PREPARE",
           evacceptor_handle_prepare(m.to, m)
    PROVE  Lawful
<1> DEFINE a == m.to
           old == records[a][m.iid]
           acc == prepared_record(a, old, m)
           k == paxos_accepted_to_promise(a, m.iid, acc, m.from)
<1>1. /\ a \in Replica /\ m.src \in Replica
      /\ m.iid \in Iid /\ m.ballot \in Ballot
  BY RequestFields
<1>2. CASE trimmed(a, m.iid)
  BY <1>2, SilentLawful DEF evacceptor_handle_prepare
<1>3. CASE ~trimmed(a, m.iid)
  <2>1. OwnRecord(a, old)
    BY <1>1 DEF IInv, AcceptorTypeOK, OwnRecord
  <2>2. /\ old.ballot <= acc.ballot
        /\ acc.value # None =>
              acc.value = old.value /\ acc.value_ballot = old.value_ballot
    BY <1>1, <2>1, PreparedRecord
  <2>3. /\ storage_put_record(a, m.iid, acc) /\ trim_iid' = trim_iid
        /\ replies' = replies \cup {k}
    BY <1>3 DEF evacceptor_handle_prepare
  <2>4. m.iid > trim_iid[a]
    BY <1>1, <1>3, StateNumbers DEF trimmed, IInv
  <2>5. /\ records'[a][m.iid] = acc
        /\ \A b \in Replica, j \in Iid : LawfulRecord(b, j)
    <3> HIDE DEF acc, k
    <3> QED  BY <1>1, <2>2, <2>3, <2>4, PutLawful
  <2>6. acc.ballot \in Nat
    BY <1>1, <2>1, PreparedRecord, Numbers DEF OwnRecord, Record
  <2>7. k.type = "PROMISE" /\ k.aid = a /\ k.iid = m.iid /\ k.ballot = acc.ballot
    BY DEF paxos_accepted_to_promise
  <2> HIDE DEF acc, k
  <2>8. LawfulAnswer(k)
    BY <2>5, <2>6, <2>7 DEF LawfulAnswer
  <2> QED
    BY <2>3, <2>5, <2>8, StateNumbers DEF Lawful, IInv
<1> QED  BY <1>2, <1>3

(* acceptor_receive_accept is lawful: what it stores it announces. *)
LEMMA AcceptLawful ==
    ASSUME IInv, NEW m \in Request, m.type = "ACCEPT",
           evacceptor_handle_accept(m.to, m)
    PROVE  Lawful
<1> DEFINE a == m.to
           old == records[a][m.iid]
           acc == paxos_accept_to_accepted(a, m)
           k == accepted_message(a, m.iid, acc, a)
           p == paxos_accepted_to_preempted(a, m.iid, old, m.from)
<1>1. /\ a \in Replica /\ m.src \in Replica
      /\ m.iid \in Iid /\ m.ballot \in Ballot /\ m.value \in Value
  BY RequestFields
<1>2. CASE trimmed(a, m.iid)
  BY <1>2, SilentLawful DEF evacceptor_handle_accept
<1>3. CASE ~trimmed(a, m.iid) /\ gives_way(old, m.ballot)
  <2>1. /\ acc \in Record /\ acc.ballot = m.ballot /\ acc.value = m.value
        /\ acc.value # None /\ acc.value_ballot = m.ballot
    BY <1>1, AcceptedRecord, MessagesAssumption DEF OwnRecord
  <2>2. /\ k \in Reply /\ k.type = "ACCEPTED" /\ k.aid = a /\ k.iid = m.iid
        /\ k.ballot = m.ballot /\ k.value = m.value
    BY <1>1, <2>1, AcceptedMessage
  <2>3. /\ storage_put_record(a, m.iid, acc) /\ trim_iid' = trim_iid
        /\ replies' = replies \cup ToAll(k, Clients[a])
    BY <1>3 DEF evacceptor_handle_accept
  <2>4. m.iid > trim_iid[a]
    BY <1>1, <1>3, StateNumbers DEF trimmed, IInv
  <2>5. old.ballot <= m.ballot
    BY <1>1, <1>3, StateNumbers, NoRecordTyped, Numbers
    DEF gives_way, Found, IInv
  <2> HIDE DEF acc, k
  <2>6. ASSUME NEW c \in Clients[a]
        PROVE  LET h == [k EXCEPT !.to = c]
               IN  /\ h \in replies' /\ h.type = "ACCEPTED" /\ h.to = c
                   /\ h.aid = a /\ h.iid = m.iid
                   /\ h.ballot = m.ballot /\ h.value = m.value
    <3>1. [k EXCEPT !.to = c].value = k.value
      BY <2>2 DEF Reply
    <3> QED
      BY <1>1, <2>2, <2>3, <3>1, ReplyReaddressed, NeighboursAreReplicas
      DEF ToAll
  <2>7. Announced(a, m.iid, acc, replies')
    <3> SUFFICES ASSUME NEW c \in Clients[a]
                 PROVE  \E h \in replies' :
                            /\ h.type = "ACCEPTED" /\ h.to = c /\ h.aid = a
                            /\ h.iid = m.iid /\ h.ballot = acc.value_ballot
                            /\ h.value = acc.value
      BY DEF Announced
    <3> [k EXCEPT !.to = c] \in replies'
      BY <2>6
    <3> WITNESS [k EXCEPT !.to = c] \in replies'
    <3> QED  BY <2>1, <2>6
  <2>8. /\ records'[a][m.iid] = acc
        /\ \A b \in Replica, j \in Iid : LawfulRecord(b, j)
    BY <1>1, <2>1, <2>3, <2>4, <2>5, <2>7, PutLawful
  <2>9. ASSUME NEW h \in replies' \ replies
        PROVE  LawfulAnswer(h)
    <3>1. PICK c \in Clients[a] : h = [k EXCEPT !.to = c]
      BY <2>3 DEF ToAll
    <3>2. /\ h.aid = a /\ h.iid = m.iid /\ h.ballot = m.ballot
      BY <2>6, <3>1
    <3>3. m.ballot \in Nat
      BY <1>1, Numbers
    <3> QED
      BY <2>1, <2>4, <2>5, <2>8, <3>2, <3>3 DEF LawfulAnswer
  <2> QED
    BY <2>3, <2>8, <2>9, StateNumbers DEF Lawful, IInv
<1>4. CASE ~trimmed(a, m.iid) /\ ~gives_way(old, m.ballot)
  <2>1. /\ records' = records /\ trim_iid' = trim_iid
        /\ replies' = replies \cup {p}
    BY <1>4 DEF evacceptor_handle_accept
  <2>2. /\ p.type = "PREEMPTED" /\ p.aid = a /\ p.iid = m.iid
        /\ p.ballot = old.ballot
    BY DEF paxos_accepted_to_preempted
  <2> HIDE DEF p
  <2>3. LawfulAnswer(p)
    BY <1>1, <2>1, <2>2, StateNumbers DEF LawfulAnswer, IInv
  <2>4. \A b \in Replica, j \in Iid : LawfulRecord(b, j)
    BY <2>1, StateNumbers DEF LawfulRecord, IInv, TrimmedStayGone
  <2> QED
    BY <2>1, <2>3, <2>4, StateNumbers DEF Lawful, IInv
<1> QED  BY <1>2, <1>3, <1>4

(* acceptor_receive_repeat is lawful: it repeats what is stored. *)
LEMMA RepeatLawful ==
    ASSUME IInv, NEW m \in Request, m.type = "REPEAT",
           evacceptor_handle_repeat(m.to, m)
    PROVE  Lawful
<1>1. m.to \in Replica /\ m.from \in Replica
  BY RequestFields
<1>2. /\ records' = records /\ trim_iid' = trim_iid /\ replies \subseteq replies'
      /\ \A k \in replies' \ replies : \E j \in Iid :
            /\ records[m.to][j].value # None
            /\ k = accepted_message(m.to, j, records[m.to][j], m.from)
  BY DEF evacceptor_handle_repeat
<1>3. ASSUME NEW k \in replies' \ replies
      PROVE  LawfulAnswer(k)
  <2>1. PICK j \in Iid :
            /\ records[m.to][j].value # None
            /\ k = accepted_message(m.to, j, records[m.to][j], m.from)
    BY <1>2
  <2>2. k.aid = m.to /\ k.iid = j /\ k.ballot = records[m.to][j].ballot
    BY <2>1 DEF accepted_message
  <2>3. j > trim_iid[m.to]
    BY <1>1, <2>1, StateNumbers, NoRecordTyped
    DEF IInv, TrimmedStayGone, Found
  <2> QED
    BY <1>1, <1>2, <2>2, <2>3, StateNumbers DEF LawfulAnswer, IInv
<1>4. \A b \in Replica, j \in Iid : LawfulRecord(b, j)
  BY <1>2, StateNumbers DEF LawfulRecord, IInv, TrimmedStayGone
<1> QED
  BY <1>2, <1>3, <1>4, StateNumbers DEF Lawful, IInv

(* acceptor_receive_trim is lawful: it drops what it counts as trimmed. *)
LEMMA TrimLawful ==
    ASSUME IInv, NEW m \in Request, m.type = "TRIM",
           evacceptor_handle_trim(m.to, m)
    PROVE  Lawful
<1> DEFINE a == m.to
<1>1. a \in Replica /\ m.iid \in Iid
  BY RequestFields
<1>2. CASE trimmed(a, m.iid)
  BY <1>2, SilentLawful DEF evacceptor_handle_trim, acceptorVars
<1>3. CASE ~trimmed(a, m.iid)
  <2>1. /\ storage_trim(a, m.iid) /\ replies' = replies
        /\ trim_iid' = [trim_iid EXCEPT ![a] = m.iid]
    BY <1>3 DEF evacceptor_handle_trim
  <2>2. \A b \in Replica, i \in Iid :
            records'[b][i] = IF b = a /\ i <= m.iid THEN NoRecord
                             ELSE records[b][i]
    BY <1>1, <2>1, TrimEffect DEF IInv
  <2>3. \A b \in Replica :
            /\ trim_iid'[b] = IF b = a THEN m.iid ELSE trim_iid[b]
            /\ trim_iid[b] <= trim_iid'[b]
    BY <1>1, <1>3, <2>1, StateNumbers DEF IInv, AcceptorTypeOK, trimmed
  <2>4. ASSUME NEW b \in Replica, NEW i \in Iid
        PROVE  LawfulRecord(b, i)
    <3>1. CASE b = a /\ i <= m.iid
      BY <2>2, <2>3, <3>1, NoRecordTyped DEF LawfulRecord, Found
    <3>2. CASE ~(b = a /\ i <= m.iid)
      <4>1. records'[b][i] = records[b][i]
        BY <2>2, <3>2
      <4>2. Found(records[b][i]) => i > trim_iid'[b]
        BY <1>1, <2>3, <3>2, StateNumbers DEF IInv, TrimmedStayGone
      <4> QED
        BY <4>1, <4>2, StateNumbers DEF LawfulRecord, IInv
    <3> QED  BY <3>1, <3>2
  <2> QED  BY <2>1, <2>3, <2>4 DEF Lawful
<1> QED  BY <1>2, <1>3

(* Every step of the acceptors keeps the types and is lawful. *)
LEMMA StepsAreLawful ==
    ASSUME IInv, [AcceptorNext]_vars
    PROVE  AcceptorTypeOK' /\ Lawful
<1>1. ASSUME NEW m \in ProposerRequests \cup requests, HandleRequest(m)
      PROVE  AcceptorTypeOK' /\ Lawful
  <2>1. m \in Request
    BY DEF ProposerRequests, IInv, AcceptorTypeOK
  <2> QED
    BY <1>1, <2>1, PrepareTyped, AcceptTyped, RepeatTyped, TrimTyped,
       PrepareLawful, AcceptLawful, RepeatLawful, TrimLawful
    DEF HandleRequest, IInv
<1>2. ASSUME NEW m \in replies, ForwardReply(m)
      PROVE  AcceptorTypeOK' /\ Lawful
  BY <1>2, ForwardTyped, ForwardLawful DEF IInv, ForwardReply, Forwards, AcceptorTypeOK
<1>3. CASE UNCHANGED vars
  BY <1>3, SilentLawful DEF vars, acceptorVars, AcceptorTypeOK, IInv
<1> QED  BY <1>1, <1>2, <1>3 DEF AcceptorNext

(* A lawful step preserves the inductive invariant. *)
LEMMA LawfulPreserves ==
    ASSUME IInv, AcceptorTypeOK', Lawful
    PROVE  IInv'
<1>1. TrimmedStayGone'
  <2> SUFFICES ASSUME NEW b \in Replica, NEW i \in Iid, i <= trim_iid'[b]
               PROVE  ~Found(records'[b][i])
    BY DEF TrimmedStayGone, Found, NoRecord
  <2>1. Found(records'[b][i]) => i > trim_iid'[b]
    BY DEF Lawful, LawfulRecord
  <2>2. i \in Nat /\ trim_iid'[b] \in Nat
    BY Numbers DEF AcceptorTypeOK
  <2> QED  BY <2>1, <2>2
<1>2. AnswersBind'
  <2> SUFFICES ASSUME NEW k \in replies'
               PROVE  \/ k.iid <= trim_iid'[k.aid]
                      \/ k.ballot <= records'[k.aid][k.iid].ballot
    BY DEF AnswersBind
  <2>1. CASE k \in replies
    <3>1. /\ k.aid \in Replica /\ k.iid \in Iid /\ k.iid \in Nat
          /\ k.ballot \in Nat /\ trim_iid[k.aid] \in Nat
          /\ records[k.aid][k.iid].ballot \in Nat
      BY <2>1, StateNumbers DEF IInv
    <3>2. /\ trim_iid'[k.aid] \in Nat /\ records'[k.aid][k.iid] \in Record
      BY <3>1, Numbers DEF AcceptorTypeOK
    <3>3. records'[k.aid][k.iid].ballot \in Nat
      BY <3>2, Numbers DEF Record
    <3>4. \/ k.iid <= trim_iid[k.aid]
          \/ k.ballot <= records[k.aid][k.iid].ballot
      BY <2>1 DEF IInv, AnswersBind
    <3>5. /\ trim_iid[k.aid] <= trim_iid'[k.aid]
          /\ \/ k.iid <= trim_iid'[k.aid]
             \/ records[k.aid][k.iid].ballot <= records'[k.aid][k.iid].ballot
      BY <3>1 DEF Lawful, LawfulRecord
    <3> QED  BY <3>1, <3>2, <3>3, <3>4, <3>5
  <2>2. CASE k \notin replies
    BY <2>2 DEF Lawful, LawfulAnswer
  <2> QED  BY <2>1, <2>2
<1>3. StoredWasAnnounced'
  <2> SUFFICES ASSUME NEW b \in Replica, NEW i \in Iid,
                      records'[b][i].value # None
               PROVE  Announced(b, i, records'[b][i], replies')
    BY DEF StoredWasAnnounced, Announced
  <2>1. CASE /\ records'[b][i].value = records[b][i].value
             /\ records'[b][i].value_ballot = records[b][i].value_ballot
    <3>1. Announced(b, i, records[b][i], replies)
      BY <2>1 DEF IInv, StoredWasAnnounced, Announced
    <3>2. replies \subseteq replies'
      BY DEF Lawful
    <3> QED  BY <2>1, <3>1, <3>2 DEF Announced
  <2> QED  BY <2>1 DEF Lawful, LawfulRecord
<1> QED  BY <1>1, <1>2, <1>3 DEF IInv

(* In every reachable state the four invariants of the acceptor hold: trimmed
   instances stay gone, every answer binds the acceptor that sent it, and every
   stored value was announced to the acceptor's clients. *)
THEOREM AcceptorInvariant ==
    AcceptorSpec => [](TrimmedStayGone /\ AnswersBind /\ StoredWasAnnounced)
<1>1. AcceptorInit => IInv
  BY NoRecordTyped
  DEF AcceptorInit, acceptor_new, IInv, AcceptorTypeOK, TrimmedStayGone,
      AnswersBind, StoredWasAnnounced, Found
<1>2. IInv /\ [AcceptorNext]_vars => IInv'
  BY StepsAreLawful, LawfulPreserves
<1>3. IInv => TrimmedStayGone /\ AnswersBind /\ StoredWasAnnounced
  BY DEF IInv
<1> QED  BY <1>1, <1>2, <1>3, PTL DEF AcceptorSpec, vars

(* No acceptor ever votes below a ballot it has promised or voted in, nor for
   an instance it has trimmed, however requests and forwarded answers are
   delayed, repeated and reordered. *)
THEOREM AcceptorVotes == AcceptorSpec => NoVoteBelowPromise
<1> DEFINE A == \A v \in Votes' \ Votes :
                   /\ v[2] > trim_iid[v[1]]
                   /\ \A m \in replies :
                         (m.aid = v[1] /\ m.iid = v[2]) => m.ballot <= v[3]
<1>1. AcceptorInit => IInv
  BY NoRecordTyped
  DEF AcceptorInit, acceptor_new, IInv, AcceptorTypeOK, TrimmedStayGone,
      AnswersBind, StoredWasAnnounced, Found
<1>2. IInv /\ [AcceptorNext]_vars => IInv'
  BY StepsAreLawful, LawfulPreserves
<1>3. ASSUME IInv, [AcceptorNext]_vars
      PROVE  A
  <2> SUFFICES ASSUME NEW v \in Votes', v \notin Votes
               PROVE  /\ v[2] > trim_iid[v[1]]
                      /\ \A m \in replies :
                            (m.aid = v[1] /\ m.iid = v[2]) => m.ballot <= v[3]
    OBVIOUS
  <2>1. AcceptorTypeOK' /\ Lawful
    BY <1>3, StepsAreLawful
  <2>2. PICK k \in replies' : /\ k.type = "ACCEPTED"
                              /\ v = <<k.aid, k.iid, k.ballot, k.value>>
    BY DEF Votes
  <2>3. k \notin replies
    BY <2>2 DEF Votes
  <2>4. /\ k.iid > trim_iid[k.aid]
        /\ records[k.aid][k.iid].ballot <= k.ballot
    BY <2>1, <2>2, <2>3 DEF Lawful, LawfulAnswer
  <2>5. k.aid \in Replica /\ k.iid \in Iid /\ k.ballot \in Nat
    BY <2>1, ReplyFields, Numbers DEF AcceptorTypeOK
  <2>6. ASSUME NEW m \in replies, m.aid = k.aid, m.iid = k.iid
        PROVE  m.ballot <= k.ballot
    <3>1. \/ k.iid <= trim_iid[k.aid]
          \/ m.ballot <= records[k.aid][k.iid].ballot
      BY <1>3, <2>6 DEF IInv, AnswersBind
    <3>2. /\ m.ballot \in Nat /\ trim_iid[k.aid] \in Nat /\ k.iid \in Nat
          /\ records[k.aid][k.iid].ballot \in Nat
      BY <1>3, <2>5, StateNumbers DEF IInv
    <3> QED  BY <2>4, <2>5, <3>1, <3>2
  <2> QED  BY <2>2, <2>4, <2>6
<1>4. IInv /\ [AcceptorNext]_vars => [A]_vars
  BY <1>3
<1> QED
  BY <1>1, <1>2, <1>4, PTL DEF AcceptorSpec, NoVoteBelowPromise, vars

-------------------------------------------------------------------------------
(***************************************************************************)
(* Where the values come from: every value that is stored, promised or     *)
(* announced was asked for by one of the requests Q, at its ballot.        *)
(***************************************************************************)
AskedFor(Q, i, b, v) ==
    \E k \in Q : k.type = "ACCEPT" /\ k.iid = i /\ k.ballot = b /\ k.value = v

BackedRecord(Q, i, acc) ==
    acc.value # None =>
        /\ acc.value_ballot = acc.ballot /\ acc.ballot > 0
        /\ AskedFor(Q, i, acc.ballot, acc.value)

BackedReply(Q, m) ==
    /\ m.type = "ACCEPTED" => AskedFor(Q, m.iid, m.ballot, m.value)
    /\ m.type = "PROMISE" /\ m.value # None =>
          /\ m.value_ballot > 0
          /\ AskedFor(Q, m.iid, m.value_ballot, m.value)

Backed(Q, S, R) ==
    /\ \A a \in Replica, i \in Iid : BackedRecord(Q, i, S[a][i])
    /\ \A m \in R : BackedReply(Q, m)

(* A copy of an answer is as good as the answer. *)
LEMMA CopyBacked ==
    ASSUME NEW Q, NEW m \in Reply, NEW r \in Replica, BackedReply(Q, m)
    PROVE  BackedReply(Q, [m EXCEPT !.to = r])
<1> DEFINE k == [m EXCEPT !.to = r]
<1>1. /\ k.type = m.type /\ k.iid = m.iid /\ k.ballot = m.ballot
      /\ m.type = "PROMISE" => k.value = m.value /\ k.value_ballot = m.value_ballot
      /\ m.type = "ACCEPTED" => k.value = m.value
  BY DEF Reply
<1> HIDE DEF k
<1>2. BackedReply(Q, k)
  BY <1>1 DEF BackedReply
<1> QED  BY <1>2 DEF k

(* Forwarding an answer brings up no new value. *)
LEMMA ForwardBacked ==
    ASSUME AcceptorTypeOK, NEW m \in replies, Forwards(m),
           NEW Q, Backed(Q, records, replies)
    PROVE  Backed(Q, records', replies')
<1>1. m \in Reply
  BY DEF AcceptorTypeOK
<1>2. Forwarded(m)
  BY <1>1, ForwardReplyForwards
<1>3. \A a \in Replica, i \in Iid : BackedRecord(Q, i, records'[a][i])
  BY <1>2 DEF Forwarded, Backed, BackedRecord
<1>4. \A k \in replies' : k \in replies \/ \E r \in Replica : k = [m EXCEPT !.to = r]
  BY <1>2 DEF Forwarded
<1>5. \A k \in replies' : BackedReply(Q, k)
  BY <1>1, <1>4, CopyBacked DEF Backed
<1> QED  BY <1>3, <1>5 DEF Backed

(* acceptor_receive_prepare keeps a value only with its ballot. *)
LEMMA PrepareBacked ==
    ASSUME AcceptorTypeOK, NEW m \in Request, m.type = "PREPARE",
           evacceptor_handle_prepare(m.to, m), NEW Q, Backed(Q, records, replies)
    PROVE  Backed(Q, records', replies')
<1> DEFINE a == m.to
           old == records[a][m.iid]
           acc == prepared_record(a, old, m)
           k == paxos_accepted_to_promise(a, m.iid, acc, m.from)
<1>1. /\ a \in Replica /\ m.src \in Replica
      /\ m.iid \in Iid /\ m.ballot \in Ballot
  BY RequestFields
<1>2. CASE trimmed(a, m.iid)
  BY <1>2 DEF evacceptor_handle_prepare, Backed
<1>3. CASE ~trimmed(a, m.iid)
  <2>1. OwnRecord(a, old) /\ BackedRecord(Q, m.iid, old)
    BY <1>1 DEF AcceptorTypeOK, OwnRecord, Backed
  <2>2. acc.value # None => /\ acc.value = old.value /\ acc.ballot = old.ballot
                            /\ acc.value_ballot = old.value_ballot
    BY <1>1, <2>1, PreparedRecord
  <2>3. /\ storage_put_record(a, m.iid, acc)
        /\ replies' = replies \cup {k}
    BY <1>3 DEF evacceptor_handle_prepare
  <2>4. /\ k.type = "PROMISE" /\ k.iid = m.iid
        /\ k.value_ballot = acc.value_ballot /\ k.value = acc.value
    BY DEF paxos_accepted_to_promise
  <2> HIDE DEF acc, k
  <2>5. BackedRecord(Q, m.iid, acc)
    BY <2>1, <2>2 DEF BackedRecord
  <2>6. BackedReply(Q, k)
    BY <2>4, <2>5 DEF BackedReply, BackedRecord
  <2>7. \A b \in Replica, j \in Iid :
            records'[b][j] = IF b = a /\ j = m.iid THEN acc ELSE records[b][j]
    BY <1>1, <2>3 DEF storage_put_record, AcceptorTypeOK
  <2> QED
    BY <2>3, <2>5, <2>6, <2>7 DEF Backed
<1> QED  BY <1>2, <1>3

(* acceptor_receive_accept stores and announces what it is asked to. *)
LEMMA AcceptBacked ==
    ASSUME AcceptorTypeOK, NEW m \in Request, m.type = "ACCEPT",
           evacceptor_handle_accept(m.to, m), NEW Q, m \in Q,
           Backed(Q, records, replies)
    PROVE  Backed(Q, records', replies')
<1> DEFINE a == m.to
           old == records[a][m.iid]
           acc == paxos_accept_to_accepted(a, m)
           k == accepted_message(a, m.iid, acc, a)
           p == paxos_accepted_to_preempted(a, m.iid, old, m.from)
<1>1. /\ a \in Replica /\ m.src \in Replica /\ m.iid \in Iid
      /\ m.ballot \in Ballot \ {0} /\ m.value \in Value
  BY DEF Request
<1>2. CASE trimmed(a, m.iid)
  BY <1>2 DEF evacceptor_handle_accept, Backed
<1>3. CASE ~trimmed(a, m.iid) /\ gives_way(old, m.ballot)
  <2>1. /\ acc \in Record /\ acc.ballot = m.ballot /\ acc.value = m.value
        /\ acc.value_ballot = m.ballot /\ acc.value # None
    BY <1>1, AcceptedRecord, MessagesAssumption DEF OwnRecord
  <2>2. /\ k \in Reply /\ k.type = "ACCEPTED" /\ k.iid = m.iid
        /\ k.ballot = m.ballot /\ k.value = m.value
    BY <1>1, <2>1, AcceptedMessage
  <2>3. /\ storage_put_record(a, m.iid, acc)
        /\ replies' = replies \cup ToAll(k, Clients[a])
    BY <1>3 DEF evacceptor_handle_accept
  <2> HIDE DEF acc, k
  <2>4. AskedFor(Q, m.iid, m.ballot, m.value) /\ m.ballot > 0
    BY <1>1, Numbers DEF AskedFor
  <2>5. BackedRecord(Q, m.iid, acc) /\ BackedReply(Q, k)
    BY <2>1, <2>2, <2>4 DEF BackedRecord, BackedReply
  <2>6. \A h \in ToAll(k, Clients[a]) : BackedReply(Q, h)
    BY <1>1, <2>2, <2>5, CopyBacked, NeighboursAreReplicas DEF ToAll
  <2>7. \A b \in Replica, j \in Iid :
            records'[b][j] = IF b = a /\ j = m.iid THEN acc ELSE records[b][j]
    BY <1>1, <2>3 DEF storage_put_record, AcceptorTypeOK
  <2> QED
    BY <2>3, <2>5, <2>6, <2>7 DEF Backed
<1>4. CASE ~trimmed(a, m.iid) /\ ~gives_way(old, m.ballot)
  <2>1. records' = records /\ replies' = replies \cup {p}
    BY <1>4 DEF evacceptor_handle_accept
  <2>2. p.type = "PREEMPTED"
    BY DEF paxos_accepted_to_preempted
  <2> QED
    BY <2>1, <2>2 DEF Backed, BackedReply
<1> QED  BY <1>2, <1>3, <1>4

(* The four request handlers bring up no value but a request's. *)
LEMMA RequestBacked ==
    ASSUME AcceptorTypeOK, NEW Q, Q \subseteq Request, NEW m \in Q, HandleRequest(m),
           Backed(Q, records, replies)
    PROVE  Backed(Q, records', replies')
<1>1. m \in Request
  OBVIOUS
<1>2. CASE m.type = "REPEAT" /\ evacceptor_handle_repeat(m.to, m)
  <2>1. m.to \in Replica
    BY <1>1, RequestFields
  <2>2. records' = records /\ \A k \in replies' : k \in replies \/ \E j \in Iid :
            /\ records[m.to][j].value # None
            /\ k = accepted_message(m.to, j, records[m.to][j], m.from)
    BY <1>2 DEF evacceptor_handle_repeat
  <2>3. \A j \in Iid : records[m.to][j].value # None =>
            BackedReply(Q, accepted_message(m.to, j, records[m.to][j], m.from))
    BY <2>1 DEF Backed, BackedRecord, BackedReply, accepted_message
  <2> QED  BY <2>2, <2>3 DEF Backed
<1>3. CASE m.type = "TRIM" /\ evacceptor_handle_trim(m.to, m)
  <2>1. m.to \in Replica /\ m.iid \in Iid /\ replies' = replies
    BY <1>1, <1>3, RequestFields DEF evacceptor_handle_trim
  <2>2. CASE trimmed(m.to, m.iid)
    BY <1>3, <2>1, <2>2 DEF evacceptor_handle_trim, acceptorVars, Backed
  <2>3. CASE ~trimmed(m.to, m.iid)
    <3>1. storage_trim(m.to, m.iid)
      BY <1>3, <2>3 DEF evacceptor_handle_trim
    <3>2. \A b \in Replica, i \in Iid :
              records'[b][i] = NoRecord \/ records'[b][i] = records[b][i]
      BY <2>1, <3>1, TrimEffect
    <3>3. \A i \in Iid : BackedRecord(Q, i, NoRecord)
      BY NoRecordTyped DEF BackedRecord
    <3> QED  BY <2>1, <3>2, <3>3 DEF Backed
  <2> QED  BY <2>2, <2>3
<1> QED
  BY <1>1, <1>2, <1>3, PrepareBacked, AcceptBacked DEF HandleRequest

-------------------------------------------------------------------------------
(***************************************************************************)
(* When all requests have one ballot, no acceptor ever reports another     *)
(* ballot, nor a value with a promise: a PREPARE that comes again replaces *)
(* even the record of a vote in its own ballot.                            *)
(***************************************************************************)
RecordsAt(b, S) == \A a \in Replica, i \in Iid : Found(S[a][i]) => S[a][i].ballot = b
SentAt(b, Q) == \A m \in Q : m.type \in {"PREPARE", "ACCEPT"} => m.ballot = b
RepliesAt(b, R) == \A m \in R : m.ballot = b /\ (m.type = "PROMISE" => m.value = None)

(* Forwarding an answer brings up no new ballot. *)
LEMMA ForwardAt ==
    ASSUME AcceptorTypeOK, NEW m \in replies, Forwards(m),
           NEW b, RecordsAt(b, records), RepliesAt(b, replies)
    PROVE  RecordsAt(b, records') /\ RepliesAt(b, replies')
<1>1. m \in Reply /\ m.ballot = b /\ (m.type = "PROMISE" => m.value = None)
  BY DEF AcceptorTypeOK, RepliesAt
<1>2. Forwarded(m)
  BY <1>1, ForwardReplyForwards
<1>3. \A a \in Replica, i \in Iid :
          /\ records'[a][i].ballot = records[a][i].ballot
          /\ Found(records'[a][i]) => Found(records[a][i])
  BY <1>2 DEF Forwarded, Found
<1>4. \A k \in replies' : k \in replies \/ \E r \in Replica : k = [m EXCEPT !.to = r]
  BY <1>2 DEF Forwarded
<1>5. ASSUME NEW r \in Replica
      PROVE  LET k == [m EXCEPT !.to = r]
             IN  k.ballot = b /\ (k.type = "PROMISE" => k.value = None)
  BY <1>1 DEF Reply
<1>6. RepliesAt(b, replies')
  BY <1>4, <1>5 DEF RepliesAt
<1> QED  BY <1>3, <1>6 DEF RecordsAt

(* The four request handlers answer at the ballot of the request. *)
LEMMA RequestAt ==
    ASSUME AcceptorTypeOK, NEW m \in Request, HandleRequest(m), NEW b \in Nat,
           m.type \in {"PREPARE", "ACCEPT"} => m.ballot = b,
           RecordsAt(b, records), RepliesAt(b, replies)
    PROVE  RecordsAt(b, records') /\ RepliesAt(b, replies')
<1> DEFINE a == m.to
           old == records[a][m.iid]
<1>1. a \in Replica /\ m.from \in Replica
  BY RequestFields
<1>2. CASE m.type = "PREPARE" /\ evacceptor_handle_prepare(a, m)
  <2>1. m.iid \in Iid /\ m.ballot = b
    BY <1>2, RequestFields
  <2>2. CASE trimmed(a, m.iid)
    BY <1>2, <2>2 DEF evacceptor_handle_prepare
  <2>3. CASE ~trimmed(a, m.iid)
    <3> DEFINE acc == prepared_record(a, old, m)
               k == paxos_accepted_to_promise(a, m.iid, acc, m.from)
    <3>1. gives_way(old, b)
      BY <1>1, <2>1 DEF gives_way, RecordsAt
    <3>2. acc.ballot = b /\ acc.value = None
      BY <2>1, <3>1 DEF prepared_record
    <3>3. storage_put_record(a, m.iid, acc) /\ replies' = replies \cup {k}
      BY <1>2, <2>3 DEF evacceptor_handle_prepare
    <3>4. k.ballot = b /\ k.value = None
      BY <3>2 DEF paxos_accepted_to_promise
    <3> HIDE DEF acc, k
    <3>5. \A c \in Replica, i \in Iid :
              records'[c][i] = IF c = a /\ i = m.iid THEN acc ELSE records[c][i]
      BY <1>1, <2>1, <3>3 DEF storage_put_record, AcceptorTypeOK
    <3> QED  BY <3>2, <3>3, <3>4, <3>5 DEF RecordsAt, RepliesAt
  <2> QED  BY <2>2, <2>3
<1>3. CASE m.type = "ACCEPT" /\ evacceptor_handle_accept(a, m)
  <2>1. m.iid \in Iid /\ m.ballot = b
    BY <1>3, RequestFields
  <2>2. CASE trimmed(a, m.iid)
    BY <1>3, <2>2 DEF evacceptor_handle_accept
  <2>3. CASE ~trimmed(a, m.iid)
    <3> DEFINE acc == paxos_accept_to_accepted(a, m)
               k == accepted_message(a, m.iid, acc, a)
    <3>1. gives_way(old, m.ballot)
      BY <1>1, <2>1 DEF gives_way, RecordsAt
    <3>2. acc.ballot = b
      BY <2>1 DEF paxos_accept_to_accepted
    <3>3. /\ storage_put_record(a, m.iid, acc)
          /\ replies' = replies \cup ToAll(k, Clients[a])
      BY <1>3, <2>3, <3>1 DEF evacceptor_handle_accept
    <3>4. \A h \in ToAll(k, Clients[a]) : h.ballot = b /\ h.type = "ACCEPTED"
      BY <3>2 DEF ToAll, accepted_message
    <3> HIDE DEF acc, k
    <3>5. \A c \in Replica, i \in Iid :
              records'[c][i] = IF c = a /\ i = m.iid THEN acc ELSE records[c][i]
      BY <1>1, <2>1, <3>3 DEF storage_put_record, AcceptorTypeOK
    <3> QED  BY <3>2, <3>3, <3>4, <3>5 DEF RecordsAt, RepliesAt
  <2> QED  BY <2>2, <2>3
<1>4. CASE m.type = "REPEAT" /\ evacceptor_handle_repeat(a, m)
  <2>1. records' = records /\ \A k \in replies' : k \in replies \/ \E j \in Iid :
            /\ records[a][j].value # None
            /\ k = accepted_message(a, j, records[a][j], m.from)
    BY <1>4 DEF evacceptor_handle_repeat
  <2>2. \A j \in Iid : records[a][j].value # None => records[a][j].ballot = b
    BY <1>1 DEF RecordsAt, Found, NoRecord
  <2>3. \A j \in Iid : records[a][j].value # None =>
            LET k == accepted_message(a, j, records[a][j], m.from)
            IN  k.ballot = b /\ k.type = "ACCEPTED"
    BY <2>2 DEF accepted_message
  <2> QED  BY <2>1, <2>3 DEF RepliesAt
<1>5. CASE m.type = "TRIM" /\ evacceptor_handle_trim(a, m)
  <2>1. replies' = replies /\ m.iid \in Iid
    BY <1>5, RequestFields DEF evacceptor_handle_trim
  <2>2. CASE trimmed(a, m.iid)
    BY <1>5, <2>1, <2>2 DEF evacceptor_handle_trim, acceptorVars
  <2>3. CASE ~trimmed(a, m.iid)
    <3>1. storage_trim(a, m.iid)
      BY <1>5, <2>3 DEF evacceptor_handle_trim
    <3>2. \A c \in Replica, i \in Iid :
              records'[c][i] = NoRecord \/ records'[c][i] = records[c][i]
      BY <1>1, <2>1, <3>1, TrimEffect
    <3> QED  BY <2>1, <3>2 DEF RecordsAt, Found
  <2> QED  BY <2>2, <2>3
<1> QED  BY <1>2, <1>3, <1>4, <1>5 DEF HandleRequest

(* What a relay passes on is at the ballot it came with. *)
LEMMA PassedAt ==
    ASSUME requests \subseteq Request, NEW m \in requests, HandleRequest(m),
           NEW b, SentAt(b, requests)
    PROVE  SentAt(b, requests')
<1>1. m \in Request /\ (m.type \in {"PREPARE", "ACCEPT"} => m.ballot = b)
    BY DEF SentAt
<1>2. ASSUME NEW to, NEW a, \/ a = [[m EXCEPT !.from = m.to, !.src = m.to] EXCEPT !.to = to]
                            \/ a = [[m EXCEPT !.from = m.to] EXCEPT !.to = to]
      PROVE  a.type \in {"PREPARE", "ACCEPT"} => a.ballot = b
    <2>1. a.type = m.type /\ (m.type \in {"PREPARE", "ACCEPT"} => a.ballot = m.ballot)
        BY <1>1, <1>2 DEF Request
    <2> QED
        BY <1>1, <2>1
<1>3. CASE requests' = requests \cup ToAll([m EXCEPT !.from = m.to, !.src = m.to], Down[m.to])
    BY <1>2, <1>3 DEF ToAll, SentAt
<1>4. CASE requests' = requests \cup ToAll([m EXCEPT !.from = m.to], Down[m.to])
    BY <1>2, <1>4 DEF ToAll, SentAt
<1>5. CASE requests' = requests
    BY <1>5
<1> QED
    BY <1>3, <1>4, <1>5 DEF HandleRequest, evacceptor_handle_prepare, evacceptor_handle_accept,
       evacceptor_handle_repeat, evacceptor_handle_trim, pass_down, pass_down_prepare

-------------------------------------------------------------------------------
(* A relay passes a PREPARE on in its own name, which is no proposer's, and an
   ACCEPT as it is: what it passes on is news to no proposer. *)
CopyOf(a, k) ==
    /\ a.type = k.type /\ a.src = k.src /\ a.iid = k.iid /\ a.ballot = k.ballot
    /\ a.type = "ACCEPT" => a.value = k.value
Relayed(Q, Qn) ==
    \A a \in Qn : \/ \E k \in Q : CopyOf(a, k)
                  \/ a.type # "ACCEPT" /\ (a.type = "PREPARE" => a.src \notin Proposers)

(* Every request handler keeps to this. *)
LEMMA RequestRelayed ==
    ASSUME requests \subseteq Request, NEW m \in requests, HandleRequest(m)
    PROVE  requests \subseteq requests' /\ Relayed(requests, requests')
<1>1. m \in Request
    OBVIOUS
<1>2. CASE m.type = "PREPARE" /\ evacceptor_handle_prepare(m.to, m)
    <2>1. requests' = requests \cup ToAll([m EXCEPT !.from = m.to, !.src = m.to], Down[m.to])
        BY <1>2 DEF evacceptor_handle_prepare, pass_down_prepare
    <2>2. m.to \in Replica
        BY <1>1, RequestFields
    <2>3. \A r \in Down[m.to] : m.to \notin Proposers
        BY <2>2 DEF Down, Proposers, HasProposer
    <2>4. ASSUME NEW r \in Down[m.to], NEW a,
                 a = [[m EXCEPT !.from = m.to, !.src = m.to] EXCEPT !.to = r]
          PROVE  a.type # "ACCEPT" /\ (a.type = "PREPARE" => a.src \notin Proposers)
        <3>1. a.type = "PREPARE" /\ a.src = m.to
            BY <1>1, <1>2, <2>4 DEF Request
        <3> QED
            BY <2>3, <3>1
    <2> QED
        BY <2>1, <2>4 DEF ToAll, Relayed, CopyOf
<1>3. CASE m.type \in {"ACCEPT", "TRIM"} /\ pass_down(m.to, m)
    <2>1. requests' = requests \cup ToAll([m EXCEPT !.from = m.to], Down[m.to])
        BY <1>3 DEF pass_down
    <2>2. ASSUME NEW r \in Down[m.to], NEW a, a = [[m EXCEPT !.from = m.to] EXCEPT !.to = r]
          PROVE  \/ CopyOf(a, m)
                 \/ a.type # "ACCEPT" /\ (a.type = "PREPARE" => a.src \notin Proposers)
        <3>1. CASE m.type = "ACCEPT"
            BY <1>1, <2>2, <3>1 DEF Request, CopyOf
        <3>2. CASE m.type = "TRIM"
            <4>1. a.type = "TRIM"
                BY <1>1, <2>2, <3>2 DEF Request
            <4> QED
                BY <4>1
        <3> QED
            BY <1>3, <3>1, <3>2
    <2> QED
        BY <2>1, <2>2 DEF ToAll, Relayed, CopyOf
<1>4. CASE requests' = requests
    BY <1>4 DEF Relayed, CopyOf
<1> QED
    BY <1>2, <1>3, <1>4 DEF HandleRequest, evacceptor_handle_accept, evacceptor_handle_repeat,
       evacceptor_handle_trim
===============================================================================
