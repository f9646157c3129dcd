-------------------------------- MODULE Dgram --------------------------------
(***************************************************************************)
(* The datagram codec of SWIM and PlumTree (wake_dgram.c) between a sender *)
(* and a receiver: the encoders, a transport that may cut, damage or pad a *)
(* datagram, and the decoder.  Identifiers and payloads keep their place   *)
(* in the datagram with shorter lengths; of an update's scalars one stands *)
(* for all.                                                                *)
(***************************************************************************)
EXTENDS Integers, Sequences

CONSTANTS
  NODE_ID_LEN, MSG_ID_LEN, MAX_UPDATES, MAX_PAYLOAD,
  Messages,   \* what hosts hand to the encoders
  Caps,       \* sizes of the buffers they hand with it
  Values      \* the byte values damage may leave

PING == 0
ACK == 1
PING_REQ == 2
GOSSIP == 3
IHAVE == 4
GRAFT == 5
PRUNE == 6

W == 87
D == 68
VERSION == 1
HDR_SIZE == 4 + NODE_ID_LEN
UPDATE_SIZE == NODE_ID_LEN + 4

Byte == 0 .. 255

\* A count fits one byte and a payload length fits two.
ASSUME DgramAssumption ==
  /\ NODE_ID_LEN \in Nat /\ MSG_ID_LEN \in Nat
  /\ MAX_UPDATES \in Byte /\ MAX_PAYLOAD \in Nat /\ MAX_PAYLOAD < 65536
  /\ Caps \subseteq Nat
  /\ Values \subseteq Byte

Update == [id : Seq(Byte), port : Nat, state : Byte]

Message == [type : PING .. PRUNE, sender : Seq(Byte), target : Seq(Byte),
            updates : Seq(Update), msg_id : Seq(Byte), payload : Seq(Byte)]

\* The arguments of the encoders; what a type does not carry is empty.
ASSUME MessageAssumption ==
  \A m \in Messages :
    /\ m \in Message
    /\ Len(m.sender) = NODE_ID_LEN
    /\ Len(m.target) = IF m.type = PING_REQ THEN NODE_ID_LEN ELSE 0
    /\ Len(m.msg_id) = IF m.type \in {GOSSIP, IHAVE, GRAFT} THEN MSG_ID_LEN ELSE 0
    /\ \A i \in 1 .. Len(m.updates) :
         Len(m.updates[i].id) = NODE_ID_LEN /\ m.updates[i].port < 65536
    /\ m.type \notin {PING, ACK, PING_REQ} => m.updates = <<>>
    /\ m.type # GOSSIP => m.payload = <<>>

VARIABLES
  sent,    \* the message given to the encoder
  wire,    \* the bytes in flight
  state,   \* "ready", "sent", "cut", "damaged", "padded"
  out      \* what the decoder returned

vars == <<sent, wire, state, out>>

-----------------------------------------------------------------------------
(* Encoders: the bytes, or none when they do not fit the buffer            *)

wr16(v) == <<v % 256, v \div 256>>

rd16(b, off) == b[off + 1] + 256 * b[off + 2]

enc_update(u) == u.id \o wr16(u.port) \o <<u.state, 0>>

enc_header(m) == <<W, D, VERSION, m.type>> \o m.sender

Lesser(a, b) == IF a < b THEN a ELSE b

\* The n updates one after the other.
UpdateBytes(us, n) ==
  LET all[i \in 0 .. n] == IF i = 0 THEN <<>> ELSE all[i - 1] \o enc_update(us[i])
  IN  all[n]

Fit(bytes, cap) == IF Len(bytes) <= cap THEN bytes ELSE <<>>

\* Mutant: the count is not clamped.
wake_dgram_encode_swim_unclamped(m, cap) ==
  Fit(enc_header(m) \o m.target \o <<Len(m.updates)>>
        \o UpdateBytes(m.updates, Lesser(Len(m.updates), MAX_UPDATES)), cap)

wake_dgram_encode_swim(m, cap) ==
  LET n == Lesser(Len(m.updates), MAX_UPDATES)
  IN  Fit(enc_header(m) \o m.target \o <<n>> \o UpdateBytes(m.updates, n), cap)

wake_dgram_encode_pt_gossip(m, cap) ==
  IF Len(m.payload) > MAX_PAYLOAD THEN <<>>
  ELSE Fit(enc_header(m) \o m.msg_id \o wr16(Len(m.payload)) \o m.payload, cap)

wake_dgram_encode_pt_ctrl(m, cap) == Fit(enc_header(m) \o m.msg_id, cap)

Encode(m, cap) ==
  CASE m.type \in {PING, ACK, PING_REQ} -> wake_dgram_encode_swim(m, cap)
    [] m.type = GOSSIP                  -> wake_dgram_encode_pt_gossip(m, cap)
    [] OTHER                            -> wake_dgram_encode_pt_ctrl(m, cap)

-----------------------------------------------------------------------------
(* Decoder.  A read past the end of b has no value in this model.          *)

Rejected == [type |-> "rejected"]

Blank == [type |-> 0, sender |-> <<>>, target |-> <<>>, updates |-> <<>>,
          msg_id |-> <<>>, payload |-> <<>>]

Bytes(b, off, n) == [i \in 1 .. n |-> b[off + i]]

dec_update(b, off) ==
  [id |-> Bytes(b, off, NODE_ID_LEN), port |-> rd16(b, off + NODE_ID_LEN),
   state |-> b[off + NODE_ID_LEN + 3]]

\* A missing count means no updates.
dec_updates(b, off, m) ==
  IF off >= Len(b) THEN m
  ELSE IF \/ b[off + 1] > MAX_UPDATES
          \/ off + 1 + b[off + 1] * UPDATE_SIZE > Len(b)
  THEN Rejected
  ELSE [m EXCEPT !.updates = [i \in 1 .. b[off + 1] |->
                                dec_update(b, off + 1 + (i - 1) * UPDATE_SIZE)]]

dec_gossip(b, off, m) ==
  IF Len(b) < off + MSG_ID_LEN + 2 THEN Rejected
  ELSE LET plen == rd16(b, off + MSG_ID_LEN)
       IN  IF plen > MAX_PAYLOAD \/ off + MSG_ID_LEN + 2 + plen > Len(b) THEN Rejected
           ELSE [m EXCEPT !.msg_id = Bytes(b, off, MSG_ID_LEN),
                          !.payload = Bytes(b, off + MSG_ID_LEN + 2, plen)]

\* Mutant: a control message cut inside its identifier is let through.
dec_ctrl_short(b, off, m) ==
  [m EXCEPT !.msg_id = Bytes(b, off, Lesser(MSG_ID_LEN, Len(b) - off))]

dec_ctrl(b, off, m) ==
  IF Len(b) < off + MSG_ID_LEN THEN Rejected
  ELSE [m EXCEPT !.msg_id = Bytes(b, off, MSG_ID_LEN)]

dec_ping_req(b, off, m) ==
  IF Len(b) < off + NODE_ID_LEN THEN Rejected
  ELSE dec_updates(b, off + NODE_ID_LEN, [m EXCEPT !.target = Bytes(b, off, NODE_ID_LEN)])

HeaderOK(b) == Len(b) >= HDR_SIZE /\ b[1] = W /\ b[2] = D /\ b[3] = VERSION

wake_dgram_decode(b) ==
  IF ~ HeaderOK(b) THEN Rejected
  ELSE LET m == [Blank EXCEPT !.type = b[4], !.sender = Bytes(b, 4, NODE_ID_LEN)]
       IN  CASE m.type \in {PING, ACK}    -> dec_updates(b, HDR_SIZE, m)
             [] m.type = PING_REQ         -> dec_ping_req(b, HDR_SIZE, m)
             [] m.type = GOSSIP           -> dec_gossip(b, HDR_SIZE, m)
             [] m.type \in {IHAVE, GRAFT} -> dec_ctrl(b, HDR_SIZE, m)
             [] m.type = PRUNE            -> m
             [] OTHER                     -> Rejected

-----------------------------------------------------------------------------
(* The way of a datagram                                                   *)

Init == sent = Blank /\ wire = <<>> /\ state = "ready" /\ out = Rejected

Send(m, cap) ==
  /\ state = "ready" /\ Encode(m, cap) # <<>>
  /\ sent' = m
  /\ wire' = Encode(m, cap)
  /\ state' = "sent"
  /\ out' = Rejected

Harm(how, bytes) ==
  /\ state = "sent"
  /\ wire' = bytes
  /\ state' = how
  /\ UNCHANGED <<sent, out>>

Cut == \E n \in 0 .. Len(wire) - 1 : Harm("cut", SubSeq(wire, 1, n))

Damage == \E i \in 1 .. Len(wire) : \E v \in Values \ {wire[i]} :
            Harm("damaged", [wire EXCEPT ![i] = v])

Pad == \E v \in Values : Harm("padded", Append(wire, v))

Receive ==
  /\ state # "ready"
  /\ out' = wake_dgram_decode(wire)
  /\ state' = "ready"
  /\ UNCHANGED <<sent, wire>>

Next == (\E m \in Messages, c \in Caps : Send(m, c)) \/ Cut \/ Damage \/ Pad \/ Receive

Spec == Init /\ [][Next]_vars

-----------------------------------------------------------------------------
(* Properties                                                              *)

\* What the decoder lets through is within the bounds the protocols rely on,
\* whatever the transport did: at most MAX_UPDATES updates, a payload of at
\* most MAX_PAYLOAD bytes, whole identifiers, and every part of it made of bytes
\* of the datagram ("never reads past buf[len]").
TypeOK ==
  /\ wire \in Seq(Byte)
  /\ out # Rejected =>
       /\ out \in Message
       /\ Len(out.sender) = NODE_ID_LEN
       /\ Len(out.updates) <= MAX_UPDATES /\ Len(out.payload) <= MAX_PAYLOAD
       /\ out.type = PING_REQ => Len(out.target) = NODE_ID_LEN
       /\ out.type \in {GOSSIP, IHAVE, GRAFT} => Len(out.msg_id) = MSG_ID_LEN
       /\ \A i \in 1 .. Len(out.updates) : Len(out.updates[i].id) = NODE_ID_LEN

Clamped(m) == [m EXCEPT !.updates = SubSeq(@, 1, Lesser(Len(@), MAX_UPDATES))]

\* A datagram that arrives whole, with or without bytes after its end, decodes
\* to the message the sender encoded, its updates cut to MAX_UPDATES.
RoundTrip == [][Receive /\ state \in {"sent", "padded"} => out' = Clamped(sent)]_vars

\* A datagram that has lost its end is rejected; a SWIM message that was cut
\* right before the count of its updates is taken for one without updates
\* (dec_updates: "a missing count byte means zero updates").
CutNoticed ==
  [][Receive /\ state = "cut" =>
       \/ out' = Rejected
       \/ /\ sent.type \in {PING, ACK, PING_REQ}
          /\ Len(wire) = HDR_SIZE + Len(sent.target)
          /\ out' = [sent EXCEPT !.updates = <<>>]]_vars
=============================================================================
