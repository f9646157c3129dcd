------------------------------- MODULE MCDgram -------------------------------
(***************************************************************************)
(* Every type of message, with no update up to one more than the cap, and  *)
(* payloads up to one byte more than the cap.                              *)
(***************************************************************************)
EXTENDS Dgram

ids == {<<1, 2>>}

us == {[id |-> <<1, 0>>, port |-> 258, state |-> 3], [id |-> <<2, 87>>, port |-> 2, state |-> 1]}

UpTo(S, n) == UNION {[1 .. k -> S] : k \in 0 .. n}

MCMessages ==
  [type : {PING, ACK}, sender : ids, target : {<<>>}, updates : UpTo(us, 3),
   msg_id : {<<>>}, payload : {<<>>}]
  \cup [type : {PING_REQ}, sender : ids, target : {<<3, 1>>}, updates : UpTo(us, 3),
        msg_id : {<<>>}, payload : {<<>>}]
  \cup [type : {GOSSIP}, sender : ids, target : {<<>>}, updates : {<<>>},
        msg_id : {<<1, 7>>}, payload : UpTo({0, 2}, 3)]
  \cup [type : {IHAVE, GRAFT}, sender : ids, target : {<<>>}, updates : {<<>>},
        msg_id : {<<1, 7>>}, payload : {<<>>}]
  \cup [type : {PRUNE}, sender : ids, target : {<<>>}, updates : {<<>>},
        msg_id : {<<>>}, payload : {<<>>}]
=============================================================================
