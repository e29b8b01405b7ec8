----------------------------- MODULE MessageStream ----------------------------
(***************************************************************************)
(* One connection: evpaxos/paxos_types_pack.c writes a message as an array *)
(* of MessagePack objects, the objects arrive in pieces, and the read      *)
(* callback of evpaxos/message.c and evpaxos/peers.c takes the complete    *)
(* messages from the input buffer.  A unit is the header of an array or    *)
(* one of its objects.                                                     *)
(***************************************************************************)
EXTENDS Integers, SequencesExt

CONSTANTS
    Message,    \* messages as the senders build them
    MaxSent,    \* bound on the messages sent over a connection
    NULL,       \* a null pointer
    EmptyValue  \* a value of length 0 that is not a null pointer

VARIABLES
    sent,       \* the messages sent over the connection
    wire,       \* units that were written and have not arrived
    input,      \* the evbuffer of the receiver
    due,        \* whether libevent is about to call on_read
    received    \* the messages that were dispatched

streamVars == <<sent, wire, input, due, received>>

unit(kind, val) == [kind |-> kind, val |-> val]
uint32s(s) == [i \in DOMAIN s |-> unit("uint", s[i])]

(* msgpack_pack_paxos_value, msgpack_unpack_paxos_value_at *)
packed_value(v) == IF v \in {NULL, EmptyValue} THEN unit("bin", EmptyValue)
                   ELSE unit("bin", v)
unpacked_value(u) == IF u.val = EmptyValue THEN NULL ELSE u.val
packed_values(vs) == [i \in DOMAIN vs |-> packed_value(vs[i])]

-------------------------------------------------------------------------------
(* The msgpack_pack functions: the length of the array and what follows the type. *)
pack_promise(m) ==
    [n |-> 7 + 4 * m.n_aids,
     body |-> uint32s(<<m.src, m.iid, m.ballot_0, m.value_ballot_0, m.n_aids>>)
              \o <<packed_value(m.value_0)>>
              \o uint32s(m.aids) \o packed_values(m.values)
              \o uint32s(m.ballots) \o uint32s(m.value_ballots)]

(* An ACCEPTED is packed without its source and without the fields ..._0; what
   is a null pointer is left out, and two flags say so. *)
pack_accepted(m) ==
    LET is_aids   == IF m.aids # NULL /\ m.n_aids > 0 THEN 1 ELSE 0
        is_values == IF m.values # NULL /\ m.n_aids > 0 THEN 1 ELSE 0
        only(is, s) == IF is = 1 THEN s ELSE <<>>
        orzero(s) == IF s = NULL THEN [i \in 1 .. m.n_aids |-> 0] ELSE s
    IN  [n |-> 6 + (3 * is_aids + is_values) * m.n_aids,
         body |-> uint32s(<<0, m.iid, m.n_aids, is_aids, is_values>>)
                  \o uint32s(only(is_aids, m.aids))
                  \o packed_values(only(is_values, m.values))
                  \o uint32s(only(is_aids, orzero(m.ballots)))
                  \o uint32s(only(is_aids, orzero(m.value_ballots)))]

pack_prepare(m) == [n |-> 4, body |-> uint32s(<<m.src, m.iid, m.ballot>>)]
pack_accept(m) ==
    [n |-> 5, body |-> Append(uint32s(<<m.src, m.iid, m.ballot>>), packed_value(m.value))]
pack_preempted(m) == [n |-> 4, body |-> uint32s(<<m.aid, m.iid, m.ballot>>)]
pack_repeat(m) == [n |-> 3, body |-> uint32s(<<m.from, m.to>>)]
pack_trim(m) == [n |-> 2, body |-> uint32s(<<m.iid>>)]
pack_acceptor_state(m) == [n |-> 3, body |-> uint32s(<<m.aid, m.trim_iid>>)]
pack_client_value(m) == [n |-> 2, body |-> <<packed_value(m.value)>>]

packed(m) ==
    CASE m.type = "PREPARE" -> pack_prepare(m)
      [] m.type = "PROMISE" -> pack_promise(m)
      [] m.type = "ACCEPT" -> pack_accept(m)
      [] m.type = "ACCEPTED" -> pack_accepted(m)
      [] m.type = "PREEMPTED" -> pack_preempted(m)
      [] m.type = "REPEAT" -> pack_repeat(m)
      [] m.type = "TRIM" -> pack_trim(m)
      [] m.type = "ACCEPTOR_STATE" -> pack_acceptor_state(m)
      [] m.type = "CLIENT_VALUE" -> pack_client_value(m)

msgpack_pack_paxos_message(m) ==
    <<unit("array", packed(m).n), unit("type", m.type)>> \o packed(m).body

-------------------------------------------------------------------------------
(* The msgpack_unpack functions, on the objects o behind the type.  The lists of a
   PROMISE or an ACCEPTED begin at an index that the earlier ones determine. *)
numbers(o, from, n) == [i \in 1 .. n |-> o[from + i].val]
values(o, from, n) == [i \in 1 .. n |-> unpacked_value(o[from + i])]

unpack_promise(o) ==
    LET n == o[5].val
    IN  [type |-> "PROMISE", src |-> o[1].val, iid |-> o[2].val, ballot_0 |-> o[3].val,
         value_ballot_0 |-> o[4].val, n_aids |-> n, value_0 |-> unpacked_value(o[6]),
         aids |-> numbers(o, 6, n), values |-> values(o, 6 + n, n),
         ballots |-> numbers(o, 6 + 2 * n, n), value_ballots |-> numbers(o, 6 + 3 * n, n)]

unpack_accepted_values_first(o) ==
    LET n == o[3].val
        a == o[4].val * n
        v == o[5].val * n
        list(is, s) == IF is = 1 THEN s ELSE NULL
    IN  [type |-> "ACCEPTED", src |-> -1, iid |-> o[2].val, n_aids |-> n,
         aids |-> list(o[4].val, numbers(o, 5, a)),
         values |-> list(o[5].val, values(o, 5 + a, v)),
         ballots |-> list(o[4].val, numbers(o, 5 + a, a)),
         value_ballots |-> list(o[4].val, numbers(o, 5 + a + v + a, a))]
unpack_accepted(o) ==
    LET n == o[3].val
        a == o[4].val * n
        v == o[5].val * n
        list(is, s) == IF is = 1 THEN s ELSE NULL
    IN  [type |-> "ACCEPTED", src |-> -1, iid |-> o[2].val, n_aids |-> n,
         aids |-> list(o[4].val, numbers(o, 5, a)),
         values |-> list(o[5].val, values(o, 5 + a, v)),
         ballots |-> list(o[4].val, numbers(o, 5 + a + v, a)),
         value_ballots |-> list(o[4].val, numbers(o, 5 + a + v + a, a))]

unpack_prepare(o) ==
    [type |-> "PREPARE", src |-> o[1].val, iid |-> o[2].val, ballot |-> o[3].val]
unpack_accept(o) ==
    [type |-> "ACCEPT", src |-> o[1].val, iid |-> o[2].val, ballot |-> o[3].val,
     value |-> unpacked_value(o[4])]
unpack_preempted(o) ==
    [type |-> "PREEMPTED", aid |-> o[1].val, iid |-> o[2].val, ballot |-> o[3].val]
unpack_repeat(o) == [type |-> "REPEAT", from |-> o[1].val, to |-> o[2].val]
unpack_trim(o) == [type |-> "TRIM", iid |-> o[1].val]
unpack_acceptor_state(o) ==
    [type |-> "ACCEPTOR_STATE", aid |-> o[1].val, trim_iid |-> o[2].val]
unpack_client_value(o) == [type |-> "CLIENT_VALUE", value |-> unpacked_value(o[1])]

msgpack_unpack_paxos_message(t, o) ==
    CASE t = "PREPARE" -> unpack_prepare(o)
      [] t = "PROMISE" -> unpack_promise(o)
      [] t = "ACCEPT" -> unpack_accept(o)
      [] t = "ACCEPTED" -> unpack_accepted(o)
      [] t = "PREEMPTED" -> unpack_preempted(o)
      [] t = "REPEAT" -> unpack_repeat(o)
      [] t = "TRIM" -> unpack_trim(o)
      [] t = "ACCEPTOR_STATE" -> unpack_acceptor_state(o)
      [] t = "CLIENT_VALUE" -> unpack_client_value(o)

-------------------------------------------------------------------------------
send_paxos_message(m) ==
    /\ Len(sent) < MaxSent
    /\ sent' = Append(sent, m)
    /\ wire' = wire \o msgpack_pack_paxos_message(m)
    /\ UNCHANGED <<input, due, received>>

(* Some of the bytes arrive, and libevent will call the read callback. *)
Arrive ==
    \E n \in 1 .. Len(wire) :
        /\ input' = input \o SubSeq(wire, 1, n)
        /\ wire' = SubSeq(wire, n + 1, Len(wire))
        /\ due' = TRUE
        /\ UNCHANGED <<sent, received>>

(* msgpack_unpack_next: the length of the object at the front of the buffer.  One
   that is no array of which the first object is a type is not a message; what
   its fields are taken for is arbitrary. *)
object_size(in) == IF in[1].kind = "array" THEN 1 + in[1].val ELSE 1
Garbage == [type |-> "GARBAGE"]

(* The calls of recv_paxos_message by on_read, until one returns 0. *)
RECURSIVE recv_all(_)
recv_all_one(in) ==
    IF in = <<>> \/ Len(in) < object_size(in) THEN [msgs |-> <<>>, rest |-> in]
    ELSE [msgs |-> <<msgpack_unpack_paxos_message(in[2].val, SubSeq(in, 3, object_size(in)))>>,
          rest |-> SubSeq(in, object_size(in) + 1, Len(in))]
recv_all(in) ==
    IF in = <<>> \/ Len(in) < object_size(in) THEN [msgs |-> <<>>, rest |-> in]
    ELSE LET size == object_size(in)
             more == recv_all(SubSeq(in, size + 1, Len(in)))
             m    == IF in[1].kind = "array" /\ in[2].kind = "type"
                     THEN msgpack_unpack_paxos_message(in[2].val, SubSeq(in, 3, size))
                     ELSE Garbage
         IN  [msgs |-> <<m>> \o more.msgs, rest |-> more.rest]

on_read ==
    /\ due /\ due' = FALSE
    /\ received' = received \o recv_all(input).msgs
    /\ input' = recv_all(input).rest
    /\ UNCHANGED <<sent, wire>>

StreamInit == sent = <<>> /\ wire = <<>> /\ input = <<>> /\ due = FALSE /\ received = <<>>

(* on_peer_event, on_client_event: the bufferevent is freed with all it holds, and
   the next connection begins with an empty one. *)
Reconnect ==
    /\ sent # <<>>
    /\ sent' = <<>> /\ wire' = <<>> /\ input' = <<>> /\ due' = FALSE /\ received' = <<>>

StreamNext == Arrive \/ on_read \/ Reconnect \/ \E m \in Message : send_paxos_message(m)

StreamSpec == StreamInit /\ [][StreamNext]_streamVars

-------------------------------------------------------------------------------
(* What of a message survives the coding: the source and the ..._0 fields of an
   ACCEPTED do not, and a value without bytes becomes none. *)
Kept(m) ==
    LET val(v) == IF v = EmptyValue THEN NULL ELSE v
    IN  CASE m.type \in {"ACCEPT", "CLIENT_VALUE"} -> [m EXCEPT !.value = val(@)]
          [] m.type = "PROMISE" ->
                [m EXCEPT !.value_0 = val(@), !.values = [i \in DOMAIN @ |-> val(@[i])]]
          [] m.type = "ACCEPTED" ->
                [type |-> m.type, src |-> -1, iid |-> m.iid, n_aids |-> m.n_aids,
                 aids |-> m.aids,
                 values |-> IF m.values = NULL THEN NULL
                            ELSE [i \in DOMAIN m.values |-> val(m.values[i])],
                 ballots |-> m.ballots, value_ballots |-> m.value_ballots]
          [] OTHER -> m

(* However the bytes are cut up, the messages of a connection are dispatched in
   the order they were sent, none twice, none skipped, each with its fields: the
   lengths that the pack functions write are the lengths of what they write, and
   the unpack functions find every list where it begins. *)
ReceivedAsSent ==
    /\ Len(received) <= Len(sent)
    /\ \A i \in DOMAIN received : received[i] = Kept(sent[i])

(* No complete message is left in the buffer when the callback returns: libevent
   calls it only when more bytes arrive, which may never happen. *)
NothingLeftUnread ==
    ~due => input = <<>> \/ Len(input) < object_size(input)
===============================================================================
