----------------------------- MODULE DgramProofs ------------------------------
(***************************************************************************)
(* Proofs about the datagram codec, for every length of identifiers, every *)
(* cap on updates and payload, every message, buffer and transport: what   *)
(* the decoder lets through is within bounds, it inverts the encoders, and *)
(* it notices a datagram that has lost its end.                            *)
(***************************************************************************)
EXTENDS Dgram, NatFacts, SequenceTheorems

\* An update as a host hands it to the encoder.
UpdateOK(u) == u \in Update /\ Len(u.id) = NODE_ID_LEN /\ u.port < 65536

LEMMA Consts ==
    /\ NODE_ID_LEN \in Nat /\ MSG_ID_LEN \in Nat
    /\ MAX_UPDATES \in Nat /\ MAX_UPDATES <= 255
    /\ MAX_PAYLOAD \in Nat /\ MAX_PAYLOAD < 65536
    /\ HDR_SIZE \in Nat /\ HDR_SIZE = 4 + NODE_ID_LEN
    /\ UPDATE_SIZE \in Nat /\ UPDATE_SIZE = NODE_ID_LEN + 4
    /\ Values \subseteq Byte
BY DgramAssumption DEF HDR_SIZE, UPDATE_SIZE, Byte

-----------------------------------------------------------------------------
(* Bytes at a place of a datagram                                          *)

\* From off on, b agrees with s as far as b goes.
Agrees(b, off, s) == \A i \in 1 .. Len(s) : off + i <= Len(b) => b[off + i] = s[i]

LEMMA AgreesSplit ==
    ASSUME NEW b \in Seq(Byte), NEW off \in Nat, NEW s \in Seq(Byte), NEW t \in Seq(Byte),
           Agrees(b, off, s \o t)
    PROVE  Agrees(b, off, s) /\ Agrees(b, off + Len(s), t)
<1>1. /\ Len(s) \in Nat /\ Len(t) \in Nat /\ Len(b) \in Nat
      /\ Len(s \o t) = Len(s) + Len(t)
      /\ \A i \in 1 .. Len(s) + Len(t) :
           (s \o t)[i] = IF i <= Len(s) THEN s[i] ELSE t[i - Len(s)]
  BY ConcatProperties, LenProperties
<1>2. ASSUME NEW i \in 1 .. Len(s), off + i <= Len(b) PROVE b[off + i] = s[i]
  <2>1. i \in 1 .. Len(s) + Len(t) /\ i <= Len(s)
    BY <1>1
  <2> QED BY <2>1, <1>1, <1>2 DEF Agrees
<1>3. ASSUME NEW i \in 1 .. Len(t), (off + Len(s)) + i <= Len(b)
      PROVE  b[(off + Len(s)) + i] = t[i]
  <2> DEFINE k == Len(s) + i
  <2>1. /\ k \in 1 .. Len(s) + Len(t) /\ ~ (k <= Len(s)) /\ k - Len(s) = i
        /\ off + k = (off + Len(s)) + i
    BY <1>1
  <2> HIDE DEF k
  <2>2. (s \o t)[k] = t[i] /\ k \in 1 .. Len(s \o t)
    BY <2>1, <1>1
  <2>3. b[off + k] = (s \o t)[k]
    BY <2>1, <2>2, <1>3 DEF Agrees
  <2> QED BY <2>1, <2>2, <2>3
<1> QED BY <1>2, <1>3 DEF Agrees

LEMMA Joined ==
    ASSUME NEW s \in Seq(Byte), NEW t \in Seq(Byte)
    PROVE  s \o t \in Seq(Byte) /\ Len(s \o t) = Len(s) + Len(t)
BY ConcatProperties

LEMMA BytesOK ==
    ASSUME NEW b \in Seq(Byte), NEW off \in Nat, NEW n \in Nat, off + n <= Len(b)
    PROVE  Bytes(b, off, n) \in Seq(Byte) /\ Len(Bytes(b, off, n)) = n
<1>1. ASSUME NEW i \in 1 .. n PROVE b[off + i] \in Byte
  <2>1. off + i \in 1 .. Len(b)
    BY LenProperties
  <2> QED BY <2>1, ElementOfSeq
<1>2. Bytes(b, off, n) \in [1 .. n -> Byte]
  BY <1>1 DEF Bytes
<1> QED BY <1>2

LEMMA BytesAre ==
    ASSUME NEW b \in Seq(Byte), NEW off \in Nat, NEW s \in Seq(Byte),
           Agrees(b, off, s), off + Len(s) <= Len(b)
    PROVE  Bytes(b, off, Len(s)) = s
<1>1. Len(s) \in Nat /\ Len(b) \in Nat
  BY LenProperties
<1>2. Bytes(b, off, Len(s)) \in Seq(Byte) /\ Len(Bytes(b, off, Len(s))) = Len(s)
  BY <1>1, BytesOK
<1>3. ASSUME NEW i \in 1 .. Len(s) PROVE Bytes(b, off, Len(s))[i] = s[i]
  <2>1. off + i <= Len(b)
    BY <1>1
  <2>2. b[off + i] = s[i]
    BY <2>1 DEF Agrees
  <2> QED BY <2>2 DEF Bytes
<1> QED BY <1>2, <1>3, SeqEqual

LEMMA OneByte ==
    ASSUME NEW x \in Byte
    PROVE  <<x>> \in Seq(Byte) /\ Len(<<x>>) = 1 /\ <<x>>[1] = x
OBVIOUS

\* rd16 reads what wr16 has written.
LEMMA Word ==
    ASSUME NEW v \in Nat, v < 65536
    PROVE  /\ wr16(v) \in Seq(Byte) /\ Len(wr16(v)) = 2
           /\ \A b \in Seq(Byte), off \in Nat :
                Agrees(b, off, wr16(v)) /\ off + 2 <= Len(b) => rd16(b, off) = v
<1>1. v % 256 \in Byte /\ v \div 256 \in Byte /\ (v % 256) + 256 * (v \div 256) = v
  BY DEF Byte
<1>2. wr16(v) \in Seq(Byte) /\ Len(wr16(v)) = 2 /\ wr16(v)[1] = v % 256 /\ wr16(v)[2] = v \div 256
  BY <1>1 DEF wr16
<1>3. ASSUME NEW b \in Seq(Byte), NEW off \in Nat, Agrees(b, off, wr16(v)), off + 2 <= Len(b)
      PROVE  rd16(b, off) = v
  <2>1. Len(b) \in Nat
    BY LenProperties
  <2>2. b[off + 1] = wr16(v)[1] /\ b[off + 2] = wr16(v)[2]
    BY <1>2, <1>3, <2>1 DEF Agrees
  <2> QED BY <2>2, <1>1, <1>2 DEF rd16
<1> QED BY <1>2, <1>3

-----------------------------------------------------------------------------
(* Updates                                                                 *)

LEMMA EncUpdate ==
    ASSUME NEW u, UpdateOK(u)
    PROVE  /\ enc_update(u) \in Seq(Byte) /\ Len(enc_update(u)) = UPDATE_SIZE
           /\ \A b \in Seq(Byte), off \in Nat :
                Agrees(b, off, enc_update(u)) /\ off + UPDATE_SIZE <= Len(b) =>
                  dec_update(b, off) = u
<1> DEFINE w == wr16(u.port)
           z == <<u.state, 0>>
           uw == u.id \o w
<1>1. /\ u.id \in Seq(Byte) /\ Len(u.id) = NODE_ID_LEN /\ u.port \in Nat /\ u.port < 65536
      /\ u.state \in Byte /\ u = [id |-> u.id, port |-> u.port, state |-> u.state]
  BY DEF UpdateOK, Update
<1>2. w \in Seq(Byte) /\ Len(w) = 2
  BY <1>1, Word
<1>3. z \in Seq(Byte) /\ Len(z) = 2 /\ z[1] = u.state
  BY <1>1 DEF Byte
<1>4. enc_update(u) = uw \o z
  BY DEF enc_update
<1> HIDE DEF z, w
<1>5. uw \in Seq(Byte) /\ Len(uw) = NODE_ID_LEN + 2
  <2>0. u.id \in Seq(Byte) /\ w \in Seq(Byte)
    BY <1>1, <1>2
  <2>1. uw \in Seq(Byte) /\ Len(uw) = Len(u.id) + Len(w)
    BY ONLY <2>0, Joined
  <2> QED BY <1>1, <1>2, <2>1
<1>6. uw \o z \in Seq(Byte) /\ Len(uw \o z) = UPDATE_SIZE
  <2> HIDE DEF uw
  <2>1. uw \o z \in Seq(Byte) /\ Len(uw \o z) = Len(uw) + Len(z)
    BY <1>3, <1>5, Joined
  <2> QED BY <1>3, <1>5, <2>1, Consts
<1>7. ASSUME NEW b \in Seq(Byte), NEW off \in Nat, Agrees(b, off, uw \o z),
             off + UPDATE_SIZE <= Len(b)
      PROVE  dec_update(b, off) = u
  <2>1. Len(b) \in Nat /\ off + NODE_ID_LEN \in Nat
    BY LenProperties, Consts
  <2>2. Agrees(b, off, uw) /\ Agrees(b, off + (NODE_ID_LEN + 2), z)
    BY <1>3, <1>5, <1>7, AgreesSplit
  <2>3. Agrees(b, off, u.id) /\ Agrees(b, off + NODE_ID_LEN, w)
    BY <1>1, <1>2, <2>2, AgreesSplit
  <2>4. Bytes(b, off, NODE_ID_LEN) = u.id
    <3>1. off + Len(u.id) <= Len(b)
      BY <1>1, <1>7, <2>1, Consts
    <3> QED BY <1>1, <2>3, <3>1, BytesAre
  <2>5. rd16(b, off + NODE_ID_LEN) = u.port
    <3>1. (off + NODE_ID_LEN) + 2 <= Len(b)
      BY <1>7, <2>1, Consts
    <3> QED BY <1>1, <2>1, <2>3, <3>1, Word DEF w
  <2>6. b[off + NODE_ID_LEN + 3] = u.state
    <3>1. (off + (NODE_ID_LEN + 2)) + 1 = off + NODE_ID_LEN + 3
          /\ off + NODE_ID_LEN + 3 <= Len(b)
      BY <1>7, <2>1, Consts
    <3>2. 1 \in 1 .. Len(z)
      BY <1>3
    <3> QED BY <1>3, <2>2, <3>1, <3>2 DEF Agrees
  <2> QED BY <1>1, <2>4, <2>5, <2>6 DEF dec_update
<1> HIDE DEF uw
<1> QED BY <1>4, <1>6, <1>7

\* The n updates lie one after the other.
LEMMA UpdateBytesOK ==
    ASSUME NEW us, NEW n \in Nat, \A i \in 1 .. n : UpdateOK(us[i])
    PROVE  /\ UpdateBytes(us, n) \in Seq(Byte) /\ Len(UpdateBytes(us, n)) = n * UPDATE_SIZE
           /\ \A b \in Seq(Byte), off \in Nat :
                Agrees(b, off, UpdateBytes(us, n)) =>
                  \A i \in 1 .. n :
                    Agrees(b, off + (i - 1) * UPDATE_SIZE, enc_update(us[i]))
<1> DEFINE all[i \in 0 .. n] == IF i = 0 THEN <<>> ELSE all[i - 1] \o enc_update(us[i])
<1>1. UpdateBytes(us, n) = all[n]
  BY DEF UpdateBytes
<1>2. ASSUME NEW i \in 1 .. n
      PROVE  enc_update(us[i]) \in Seq(Byte) /\ Len(enc_update(us[i])) = UPDATE_SIZE
  BY EncUpdate
<1>3. PICK f \in [0 .. n -> Seq(Byte)] :
        \A m \in 0 .. n : f[m] = IF m = 0 THEN <<>> ELSE f[m - 1] \o enc_update(us[m])
  <2> DEFINE g == [i \in 1 .. n |-> [s \in Seq(Byte) |-> s \o enc_update(us[i])]]
  <2>1. g \in [1 .. n -> [Seq(Byte) -> Seq(Byte)]]
    BY <1>2, Joined
  <2>2. <<>> \in Seq(Byte)
    OBVIOUS
  <2>3. \A i \in 1 .. n : \A s \in Seq(Byte) : g[i][s] = s \o enc_update(us[i])
    OBVIOUS
  <2> HIDE DEF g
  <2>4. PICK f \in [0 .. n -> Seq(Byte)] :
          \A m \in 0 .. n : f[m] = IF m = 0 THEN <<>> ELSE g[m][f[m - 1]]
    <3>1. \E f \in [0 .. n -> Seq(Byte)] : Follows(f, n, <<>>, g)
      BY <2>1, <2>2, NatRecursion
    <3> QED BY <3>1 DEF Follows
  <2>5. ASSUME NEW m \in 0 .. n, m # 0 PROVE f[m] = f[m - 1] \o enc_update(us[m])
    <3>1. m \in 1 .. n /\ m - 1 \in 0 .. n
      BY <2>5
    <3>2. f[m - 1] \in Seq(Byte)
      BY <3>1
    <3> QED BY <2>3, <2>4, <2>5, <3>1, <3>2
  <2>6. \A m \in 0 .. n : f[m] = IF m = 0 THEN <<>> ELSE f[m - 1] \o enc_update(us[m])
    BY <2>4, <2>5
  <2> QED BY <2>6
<1>4. f = [i \in 0 .. n |-> IF i = 0 THEN <<>> ELSE f[i - 1] \o enc_update(us[i])]
  BY <1>3
<1>5. all = [i \in 0 .. n |-> IF i = 0 THEN <<>> ELSE all[i - 1] \o enc_update(us[i])]
  BY <1>4
<1> HIDE DEF all
<1> DEFINE Fine(k) ==
             /\ all[k] \in Seq(Byte) /\ Len(all[k]) = k * UPDATE_SIZE
             /\ \A b \in Seq(Byte), off \in Nat : Agrees(b, off, all[k]) =>
                  \A i \in 1 .. k :
                    Agrees(b, off + (i - 1) * UPDATE_SIZE, enc_update(us[i]))
           S == {k \in Nat : k <= n => Fine(k)}
<1>6. 0 \in S
  <2>1. all[0] = <<>>
    BY <1>5
  <2>2. 0 * UPDATE_SIZE = 0
    BY Consts
  <2>3. all[0] \in Seq(Byte) /\ Len(all[0]) = 0
    BY <2>1
  <2> QED BY <2>2, <2>3
<1>7. ASSUME NEW k \in Nat, k \in S PROVE k + 1 \in S
  <2> SUFFICES ASSUME k + 1 <= n PROVE Fine(k + 1)
    OBVIOUS
  <2> DEFINE t == enc_update(us[k + 1])
  <2>1. Fine(k)
    <3> HIDE DEF Fine
    <3>1. k <= n
      OBVIOUS
    <3> QED BY <1>7, <3>1
  <2>2. all[k + 1] = all[k] \o t
    <3>1. k + 1 \in 0 .. n /\ k + 1 # 0 /\ (k + 1) - 1 = k
      OBVIOUS
    <3> QED BY <1>5, <3>1
  <2>3. t \in Seq(Byte) /\ Len(t) = UPDATE_SIZE
    <3>1. k + 1 \in 1 .. n
      OBVIOUS
    <3> QED BY <1>2, <3>1
  <2> HIDE DEF t
  <2>4. (k + 1) * UPDATE_SIZE = k * UPDATE_SIZE + UPDATE_SIZE /\ k * UPDATE_SIZE \in Nat
    BY Consts
  <2>5. all[k] \o t \in Seq(Byte) /\ Len(all[k] \o t) = (k + 1) * UPDATE_SIZE
    <3>1. all[k] \o t \in Seq(Byte) /\ Len(all[k] \o t) = Len(all[k]) + Len(t)
      BY <2>1, <2>3, Joined
    <3> QED BY <2>1, <2>3, <2>4, <3>1
  <2>6. ASSUME NEW b \in Seq(Byte), NEW off \in Nat, Agrees(b, off, all[k + 1]),
               NEW i \in 1 .. (k + 1)
        PROVE  Agrees(b, off + (i - 1) * UPDATE_SIZE, enc_update(us[i]))
    <3>1. Agrees(b, off, all[k]) /\ Agrees(b, off + k * UPDATE_SIZE, t)
      BY <2>1, <2>2, <2>3, <2>6, AgreesSplit
    <3>2. CASE i \in 1 .. k
      BY <2>1, <3>1, <3>2
    <3>3. CASE i = k + 1
      <4>1. i - 1 = k
        BY <3>3
      <4> QED BY <3>1, <3>3, <4>1 DEF t
    <3> QED BY <3>2, <3>3
  <2> QED BY <2>2, <2>5, <2>6
<1>8. Nat \subseteq S
  <2> HIDE DEF S
  <2> QED BY <1>6, <1>7, NatSetInduction
<1>9. Fine(n)
  <2> HIDE DEF Fine
  <2>1. n \in S /\ n <= n
    <3> HIDE DEF S
    <3> QED BY <1>8
  <2> QED BY <2>1
<1> QED BY <1>1, <1>9

-----------------------------------------------------------------------------
(* The decoder on what an encoder wrote                                    *)

\* The i-th of n updates lies before the end of the n-th.
LEMMA Span ==
    ASSUME NEW off \in Nat, NEW n \in Nat, NEW len \in Nat, NEW i \in 1 .. n,
           off + 1 + n * UPDATE_SIZE <= len
    PROVE  /\ off + 1 + (i - 1) * UPDATE_SIZE \in Nat
           /\ off + 1 + (i - 1) * UPDATE_SIZE + UPDATE_SIZE <= len
<1>1. i \in Nat /\ i >= 1 /\ i <= n /\ UPDATE_SIZE \in Nat
  BY Consts
<1>2. (i - 1) * UPDATE_SIZE + UPDATE_SIZE = i * UPDATE_SIZE
      /\ (i - 1) * UPDATE_SIZE \in Nat /\ i * UPDATE_SIZE \in Nat
  BY <1>1
<1>3. n - i \in Nat /\ (n - i) * UPDATE_SIZE \in Nat
      /\ i * UPDATE_SIZE + (n - i) * UPDATE_SIZE = n * UPDATE_SIZE
  BY <1>1
<1> DEFINE x == (i - 1) * UPDATE_SIZE
           y == i * UPDATE_SIZE
           z == n * UPDATE_SIZE
<1>4. x \in Nat /\ x + UPDATE_SIZE = y /\ y <= z /\ z \in Nat /\ off + 1 + z <= len
  BY <1>1, <1>2, <1>3
<1> HIDE DEF x, y, z
<1>5. off + 1 + x \in Nat /\ (off + 1 + x) + UPDATE_SIZE <= len
  BY <1>1, <1>4
<1> QED BY <1>5 DEF x

AllOK(us) == us \in Seq(Update) /\ \A i \in 1 .. Len(us) : UpdateOK(us[i])

\* The decoder finds the first n of us at off, or the datagram ends there.
FindsUpdates(b, off, r, us, n) ==
  /\ Len(b) <= off => dec_updates(b, off, r) = r
  /\ off < Len(b) /\ Len(b) < off + 1 + n * UPDATE_SIZE => dec_updates(b, off, r) = Rejected
  /\ off + 1 + n * UPDATE_SIZE <= Len(b) =>
       dec_updates(b, off, r) = [r EXCEPT !.updates = SubSeq(us, 1, n)]

\* The count is there when the sequence reaches past off.
LEMMA DecUpdates ==
    ASSUME NEW b \in Seq(Byte), NEW off \in Nat, NEW r, NEW us, AllOK(us),
           NEW n \in Nat, n = Lesser(Len(us), MAX_UPDATES),
           Agrees(b, off, <<n>>), Agrees(b, off + 1, UpdateBytes(us, n))
    PROVE  FindsUpdates(b, off, r, us, n)
<1>0. us \in Seq(Update) /\ \A i \in 1 .. Len(us) : UpdateOK(us[i])
  BY DEF AllOK
<1>1. /\ Len(b) \in Nat /\ Len(us) \in Nat /\ UPDATE_SIZE \in Nat /\ n * UPDATE_SIZE \in Nat
      /\ MAX_UPDATES \in Nat /\ MAX_UPDATES <= 255
  BY <1>0, Consts, LenProperties
<1>2. n <= MAX_UPDATES /\ n <= Len(us)
  BY <1>1 DEF Lesser
<1>3. off < Len(b) => b[off + 1] = n
  BY <1>1 DEF Agrees
<1>4. ASSUME Len(b) <= off PROVE dec_updates(b, off, r) = r
  BY <1>1, <1>4 DEF dec_updates
<1>5. ASSUME off < Len(b), Len(b) < off + 1 + n * UPDATE_SIZE
      PROVE  dec_updates(b, off, r) = Rejected
  BY <1>1, <1>3, <1>5 DEF dec_updates
<1>6. ASSUME off + 1 + n * UPDATE_SIZE <= Len(b)
      PROVE  dec_updates(b, off, r) = [r EXCEPT !.updates = SubSeq(us, 1, n)]
  <2>1. off < Len(b) /\ b[off + 1] = n
    BY <1>1, <1>3, <1>6
  <2> DEFINE d == [i \in 1 .. n |-> dec_update(b, off + 1 + (i - 1) * UPDATE_SIZE)]
  <2>2. dec_updates(b, off, r) = [r EXCEPT !.updates = d]
    BY <2>1, <1>1, <1>2, <1>6 DEF dec_updates
  <2>3. ASSUME NEW i \in 1 .. n
        PROVE  dec_update(b, off + 1 + (i - 1) * UPDATE_SIZE) = us[i]
    <3> DEFINE k == off + 1 + (i - 1) * UPDATE_SIZE
    <3>1. k \in Nat /\ k + UPDATE_SIZE <= Len(b)
      BY <1>1, <1>6, Span
    <3>2. UpdateOK(us[i]) /\ \A j \in 1 .. n : UpdateOK(us[j])
      BY <1>0, <1>1, <1>2
    <3>3. Agrees(b, k, enc_update(us[i]))
      <4>1. \A j \in 1 .. n : Agrees(b, (off + 1) + (j - 1) * UPDATE_SIZE, enc_update(us[j]))
        BY <3>2, UpdateBytesOK
      <4> QED BY <4>1
    <3> HIDE DEF k
    <3>4. dec_update(b, k) = us[i]
      BY <3>1, <3>2, <3>3, EncUpdate
    <3> QED BY <3>4 DEF k
  <2>4. d = SubSeq(us, 1, n)
    <3>1. \A i \in 1 .. n : us[i] \in Update
      BY <1>0, <1>1, <1>2, ElementOfSeq
    <3>2. /\ SubSeq(us, 1, n) \in Seq(Update) /\ Len(SubSeq(us, 1, n)) = n
          /\ \A i \in 1 .. n : SubSeq(us, 1, n)[i] = us[i]
      BY <1>0, <1>1, <1>2, <3>1, SubSeqProperties
    <3>3. d \in [1 .. n -> Update] /\ \A i \in 1 .. n : d[i] = us[i]
      BY <2>3, <3>1
    <3> HIDE DEF d
    <3>4. d \in Seq(Update) /\ Len(d) = n
      BY <3>3
    <3> QED BY <3>2, <3>3, <3>4, SeqEqual
  <2> HIDE DEF d
  <2> QED BY <2>2, <2>4
<1> QED BY <1>4, <1>5, <1>6 DEF FindsUpdates

LEMMA MessageOK ==
    ASSUME NEW m \in Messages
    PROVE  /\ m \in Message /\ Len(m.sender) = NODE_ID_LEN
           /\ Len(m.target) = IF m.type = PING_REQ THEN NODE_ID_LEN ELSE 0
           /\ Len(m.msg_id) = IF m.type \in {GOSSIP, IHAVE, GRAFT} THEN MSG_ID_LEN ELSE 0
           /\ \A i \in 1 .. Len(m.updates) : UpdateOK(m.updates[i])
           /\ m.type \notin {PING, ACK, PING_REQ} => m.updates = <<>>
           /\ m.type # GOSSIP => m.payload = <<>>
<1>1. m \in Message
  BY MessageAssumption
<1>2. \A i \in 1 .. Len(m.updates) : m.updates[i] \in Update
  BY <1>1, ElementOfSeq DEF Message
<1> QED BY <1>1, <1>2, MessageAssumption DEF UpdateOK

\* What is left of a message once its header is decoded.
Header(m) == [Blank EXCEPT !.type = m.type, !.sender = m.sender]

LEMMA MessageIs ==
    ASSUME NEW m \in Message
    PROVE  m = [type |-> m.type, sender |-> m.sender, target |-> m.target,
                updates |-> m.updates, msg_id |-> m.msg_id, payload |-> m.payload]
BY DEF Message

LEMMA HeaderIs ==
    ASSUME NEW m
    PROVE  Header(m) = [type |-> m.type, sender |-> m.sender, target |-> <<>>,
                        updates |-> <<>>, msg_id |-> <<>>, payload |-> <<>>]
<1> DEFINE e == <<>>
<1>1. Blank = [type |-> 0, sender |-> e, target |-> e, updates |-> e, msg_id |-> e, payload |-> e]
  BY DEF Blank
<1> DEFINE r == [Blank EXCEPT !.type = m.type]
           t == m.type
           s == m.sender
<1> HIDE DEF e, t, s
<1>2. r = [type |-> t, sender |-> e, target |-> e, updates |-> e, msg_id |-> e, payload |-> e]
  BY <1>1 DEF t
<1>3. Header(m) = [r EXCEPT !.sender = s]
  BY DEF Header, s
<1> HIDE DEF r
<1>4. Header(m) = [type |-> t, sender |-> s, target |-> e, updates |-> e,
                   msg_id |-> e, payload |-> e]
  BY <1>2, <1>3
<1> QED BY <1>4 DEF e, t, s

LEMMA EncHeader ==
    ASSUME NEW m \in Messages
    PROVE  /\ enc_header(m) \in Seq(Byte) /\ Len(enc_header(m)) = HDR_SIZE
           /\ \A b \in Seq(Byte) : Agrees(b, 0, enc_header(m)) /\ HDR_SIZE <= Len(b) =>
                /\ HeaderOK(b) /\ b[4] = m.type
                /\ [Blank EXCEPT !.type = b[4], !.sender = Bytes(b, 4, NODE_ID_LEN)] = Header(m)
<1> DEFINE h == <<W, D, VERSION, m.type>>
           s == m.sender
<1>1. s \in Seq(Byte) /\ Len(s) = NODE_ID_LEN /\ m.type \in PING .. PRUNE
  BY MessageOK DEF Message
<1>2. m.type \in Byte
  BY <1>1 DEF PING, PRUNE, Byte
<1>3. /\ h \in Seq(Byte) /\ Len(h) = 4
      /\ h[1] = W /\ h[2] = D /\ h[3] = VERSION /\ h[4] = m.type
  BY <1>2 DEF W, D, VERSION, Byte
<1>4. enc_header(m) = h \o s
  BY DEF enc_header
<1> HIDE DEF h, s
<1>5. h \o s \in Seq(Byte) /\ Len(h \o s) = HDR_SIZE
  <2>1. h \o s \in Seq(Byte) /\ Len(h \o s) = Len(h) + Len(s)
    BY <1>1, <1>3, Joined
  <2> QED BY <1>1, <1>3, <2>1, Consts
<1>6. ASSUME NEW b \in Seq(Byte), Agrees(b, 0, h \o s), HDR_SIZE <= Len(b)
      PROVE  /\ HeaderOK(b) /\ b[4] = m.type /\ Bytes(b, 4, NODE_ID_LEN) = s
  <2>1. Agrees(b, 0, h) /\ Agrees(b, 0 + Len(h), s)
    BY <1>1, <1>3, <1>6, AgreesSplit
  <2>2. Len(b) \in Nat /\ 4 + NODE_ID_LEN <= Len(b) /\ 0 + Len(h) = 4 /\ NODE_ID_LEN \in Nat
    BY <1>3, <1>6, Consts, LenProperties
  <2>3. \A i \in 1 .. 4 : b[0 + i] = h[i]
    BY <2>1, <2>2, <1>3 DEF Agrees
  <2>4. b[1] = W /\ b[2] = D /\ b[3] = VERSION /\ b[4] = m.type
    BY <2>3, <1>3
  <2>5. Bytes(b, 4, NODE_ID_LEN) = s
    BY <2>1, <2>2, <1>1, BytesAre
  <2> QED BY <2>4, <2>5, <1>6 DEF HeaderOK
<1> QED BY <1>4, <1>5, <1>6 DEF Header, s

\* Which part of the decoder a type leads to.
LEMMA DecodeCases ==
    ASSUME NEW b, HeaderOK(b), NEW m \in Messages,
           [Blank EXCEPT !.type = b[4], !.sender = Bytes(b, 4, NODE_ID_LEN)] = Header(m)
    PROVE  /\ m.type \in {PING, ACK} => wake_dgram_decode(b) = dec_updates(b, HDR_SIZE, Header(m))
           /\ m.type = PING_REQ => wake_dgram_decode(b) = dec_ping_req(b, HDR_SIZE, Header(m))
           /\ m.type = GOSSIP => wake_dgram_decode(b) = dec_gossip(b, HDR_SIZE, Header(m))
           /\ m.type \in {IHAVE, GRAFT} => wake_dgram_decode(b) = dec_ctrl(b, HDR_SIZE, Header(m))
           /\ m.type = PRUNE => wake_dgram_decode(b) = Header(m)
<1> DEFINE h == Header(m)
<1>1. h.type = m.type
  BY DEF Header, Blank
<1>2. wake_dgram_decode(b) =
        CASE h.type \in {PING, ACK}    -> dec_updates(b, HDR_SIZE, h)
          [] h.type = PING_REQ         -> dec_ping_req(b, HDR_SIZE, h)
          [] h.type = GOSSIP           -> dec_gossip(b, HDR_SIZE, h)
          [] h.type \in {IHAVE, GRAFT} -> dec_ctrl(b, HDR_SIZE, h)
          [] h.type = PRUNE            -> h
          [] OTHER                     -> Rejected
  BY DEF wake_dgram_decode
<1> HIDE DEF h
<1>3. CASE m.type \in {PING, ACK}
  BY <1>1, <1>2, <1>3 DEF PING, ACK, PING_REQ, GOSSIP, IHAVE, GRAFT, PRUNE, h
<1>4. CASE m.type = PING_REQ
  BY <1>1, <1>2, <1>4 DEF PING, ACK, PING_REQ, GOSSIP, IHAVE, GRAFT, PRUNE, h
<1>5. CASE m.type = GOSSIP
  BY <1>1, <1>2, <1>5 DEF PING, ACK, PING_REQ, GOSSIP, IHAVE, GRAFT, PRUNE, h
<1>6. CASE m.type \in {IHAVE, GRAFT}
  BY <1>1, <1>2, <1>6 DEF PING, ACK, PING_REQ, GOSSIP, IHAVE, GRAFT, PRUNE, h
<1>7. CASE m.type = PRUNE
  BY <1>1, <1>2, <1>7 DEF PING, ACK, PING_REQ, GOSSIP, IHAVE, GRAFT, PRUNE, h
<1> QED BY <1>3, <1>4, <1>5, <1>6, <1>7

Sent(m) == Lesser(Len(m.updates), MAX_UPDATES)

SwimBytes(m) == enc_header(m) \o m.target \o <<Sent(m)>> \o UpdateBytes(m.updates, Sent(m))

GossipBytes(m) == enc_header(m) \o m.msg_id \o wr16(Len(m.payload)) \o m.payload

CtrlBytes(m) == enc_header(m) \o m.msg_id

\* All bytes of a message.
Full(m) ==
  IF m.type \in {PING, ACK, PING_REQ} THEN SwimBytes(m)
  ELSE IF m.type = GOSSIP THEN GossipBytes(m) ELSE CtrlBytes(m)

\* A message an encoder does not refuse.
Sendable(m) == m \in Messages /\ (m.type = GOSSIP => Len(m.payload) <= MAX_PAYLOAD)

\* What the decoder makes of the bytes b that agree with F, the bytes of m: the
\* message if they are all there, else nothing, or a SWIM message up to its count.
Decodes(b, F, m) ==
  /\ F \in Seq(Byte)
  /\ Len(F) <= Len(b) => wake_dgram_decode(b) = Clamped(m)
  /\ Len(b) < Len(F) =>
       \/ wake_dgram_decode(b) = Rejected
       \/ /\ m.type \in {PING, ACK, PING_REQ} /\ Len(b) = HDR_SIZE + Len(m.target)
          /\ wake_dgram_decode(b) = [m EXCEPT !.updates = <<>>]

\* The bytes after the header are of no use without it.
LEMMA NoHeader ==
    ASSUME NEW b, ~ (HDR_SIZE <= Len(b)), Len(b) \in Nat PROVE wake_dgram_decode(b) = Rejected
<1>1. ~ HeaderOK(b)
  BY Consts DEF HeaderOK
<1> QED BY <1>1 DEF wake_dgram_decode

\* A message with no updates is its own clamped form.
LEMMA Unclamped ==
    ASSUME NEW m \in Message, m.updates = <<>>
    PROVE  Clamped(m) = m
<1>1. Len(m.updates) = 0 /\ Lesser(Len(m.updates), MAX_UPDATES) = 0
  BY Consts DEF Lesser
<1>2. SubSeq(m.updates, 1, 0) = <<>>
  BY SubSeqEmpty
<1>3. Clamped(m) = [m EXCEPT !.updates = SubSeq(m.updates, 1, Lesser(Len(m.updates), MAX_UPDATES))]
  BY DEF Clamped
<1>4. Clamped(m) = [m EXCEPT !.updates = <<>>]
  BY <1>1, <1>2, <1>3
<1> QED BY <1>4 DEF Message

LEMMA CtrlDecodes ==
    ASSUME NEW m \in Messages, m.type \in {IHAVE, GRAFT, PRUNE},
           NEW b \in Seq(Byte), Agrees(b, 0, CtrlBytes(m))
    PROVE  Decodes(b, CtrlBytes(m), m)
<1> DEFINE h == enc_header(m)
           d == m.msg_id
<1>1. /\ m \in Message /\ d \in Seq(Byte) /\ m.target = <<>> /\ m.updates = <<>>
      /\ m.payload = <<>> /\ Len(d) = IF m.type = PRUNE THEN 0 ELSE MSG_ID_LEN
  <2>1. m.type # GOSSIP /\ m.type \notin {PING, ACK, PING_REQ}
        /\ (m.type \in {GOSSIP, IHAVE, GRAFT} <=> m.type # PRUNE)
    BY DEF PING, ACK, PING_REQ, GOSSIP, IHAVE, GRAFT, PRUNE
  <2>2. m.target \in Seq(Byte) /\ Len(m.target) = 0
    BY <2>1, MessageOK DEF Message
  <2>3. m.target = <<>>
    BY <2>2
  <2> QED BY <2>1, <2>3, MessageOK DEF Message
<1>2. h \in Seq(Byte) /\ Len(h) = HDR_SIZE
  BY EncHeader
<1>3. CtrlBytes(m) = h \o d
  BY DEF CtrlBytes
<1> HIDE DEF h
<1>4. h \o d \in Seq(Byte) /\ Len(h \o d) = HDR_SIZE + Len(d)
  <2>1. d \in Seq(Byte) /\ h \in Seq(Byte)
    BY <1>1, <1>2
  <2>2. h \o d \in Seq(Byte) /\ Len(h \o d) = Len(h) + Len(d)
    BY ONLY <2>1, Joined
  <2> QED BY <2>2, <1>2
<1>5. Agrees(b, 0, h) /\ Agrees(b, HDR_SIZE, d)
  <2>1. d \in Seq(Byte) /\ h \in Seq(Byte) /\ Agrees(b, 0, h \o d)
    BY <1>1, <1>2, <1>3
  <2>2. Agrees(b, 0, h) /\ Agrees(b, 0 + Len(h), d)
    BY <2>1, AgreesSplit
  <2>3. 0 + Len(h) = HDR_SIZE
    BY <1>2, Consts
  <2> QED BY <2>2, <2>3
<1>6. Len(b) \in Nat /\ Len(d) \in Nat /\ HDR_SIZE \in Nat /\ MSG_ID_LEN \in Nat
  BY <1>1, Consts, LenProperties
<1>7. ASSUME HDR_SIZE <= Len(b)
      PROVE  /\ m.type = PRUNE => wake_dgram_decode(b) = Header(m)
             /\ m.type # PRUNE => wake_dgram_decode(b) = dec_ctrl(b, HDR_SIZE, Header(m))
  <2>1. /\ HeaderOK(b)
        /\ [Blank EXCEPT !.type = b[4], !.sender = Bytes(b, 4, NODE_ID_LEN)] = Header(m)
    BY <1>5, <1>7, EncHeader DEF h
  <2> QED BY <2>1, DecodeCases
<1>8. ASSUME HDR_SIZE + Len(d) <= Len(b) PROVE wake_dgram_decode(b) = m
  <2>1. HDR_SIZE <= Len(b)
    BY <1>6, <1>8
  <2>2. CASE m.type = PRUNE
    <3>1. d = <<>>
      BY <1>1, <1>6, <2>2
    <3>2. Header(m) = m
      BY <1>1, <3>1, MessageIs, HeaderIs
    <3> QED BY <2>1, <2>2, <3>2, <1>7
  <2>3. CASE m.type # PRUNE
    <3>1. Bytes(b, HDR_SIZE, MSG_ID_LEN) = d
      BY <1>1, <1>5, <1>6, <1>8, <2>3, BytesAre
    <3>2. ~ (Len(b) < HDR_SIZE + MSG_ID_LEN)
      BY <1>1, <1>6, <1>8, <2>3
    <3>3. dec_ctrl(b, HDR_SIZE, Header(m)) = [Header(m) EXCEPT !.msg_id = d]
      BY <3>1, <3>2 DEF dec_ctrl
    <3>4. [Header(m) EXCEPT !.msg_id = d] = m
      BY <1>1, MessageIs, HeaderIs
    <3> QED BY <2>1, <2>3, <3>3, <3>4, <1>7
  <2> QED BY <2>2, <2>3
<1>9. ASSUME Len(b) < HDR_SIZE + Len(d) PROVE wake_dgram_decode(b) = Rejected
  <2>1. CASE HDR_SIZE <= Len(b)
    <3>1. m.type # PRUNE /\ Len(b) < HDR_SIZE + MSG_ID_LEN
      BY <1>1, <1>6, <1>9, <2>1
    <3> QED BY <2>1, <3>1, <1>7 DEF dec_ctrl
  <2>2. CASE ~ (HDR_SIZE <= Len(b))
    BY <2>2, <1>6, NoHeader
  <2> QED BY <2>1, <2>2
<1> QED BY <1>1, <1>3, <1>4, <1>8, <1>9, Unclamped DEF Decodes

\* The updates of a SWIM message are all that its other fields leave open.
LEMMA SwimRecord ==
    ASSUME NEW m \in Message, m.msg_id = <<>>, m.payload = <<>>, NEW x
    PROVE  LET r == [Header(m) EXCEPT !.target = m.target]
           IN  r = [m EXCEPT !.updates = <<>>] /\ [r EXCEPT !.updates = x] = [m EXCEPT !.updates = x]
<1> DEFINE e == <<>>
           h == Header(m)
           r == [h EXCEPT !.target = m.target]
           t == m.type
           s == m.sender
           g == m.target
           u == m.updates
<1>1. m = [type |-> t, sender |-> s, target |-> g, updates |-> u, msg_id |-> e, payload |-> e]
  BY MessageIs
<1>2. h = [type |-> t, sender |-> s, target |-> e, updates |-> e, msg_id |-> e, payload |-> e]
  BY HeaderIs
<1>3. r = [h EXCEPT !.target = g]
  OBVIOUS
<1> HIDE DEF e, h, r, t, s, g, u
<1>4. r = [type |-> t, sender |-> s, target |-> g, updates |-> e, msg_id |-> e, payload |-> e]
  BY <1>2, <1>3
<1>5. [m EXCEPT !.updates = e] =
        [type |-> t, sender |-> s, target |-> g, updates |-> e, msg_id |-> e, payload |-> e]
  BY <1>1
<1>6. [m EXCEPT !.updates = x] =
        [type |-> t, sender |-> s, target |-> g, updates |-> x, msg_id |-> e, payload |-> e]
  BY <1>1
<1>7. [r EXCEPT !.updates = x] =
        [type |-> t, sender |-> s, target |-> g, updates |-> x, msg_id |-> e, payload |-> e]
  BY <1>4
<1>8. r = [m EXCEPT !.updates = e] /\ [r EXCEPT !.updates = x] = [m EXCEPT !.updates = x]
  BY <1>4, <1>5, <1>6, <1>7
<1> QED BY <1>8 DEF r, h, e

LEMMA SwimDecodes ==
    ASSUME NEW m \in Messages, m.type \in {PING, ACK, PING_REQ},
           NEW b \in Seq(Byte), Agrees(b, 0, SwimBytes(m))
    PROVE  Decodes(b, SwimBytes(m), m)
<1> DEFINE h == enc_header(m)
           g == m.target
           n == Sent(m)
           c == <<n>>
           ub == UpdateBytes(m.updates, n)
           k == HDR_SIZE + Len(g)
           r == [Header(m) EXCEPT !.target = m.target]
<1>1. /\ m \in Message /\ g \in Seq(Byte) /\ m.msg_id = <<>> /\ m.payload = <<>>
      /\ m.updates \in Seq(Update) /\ \A i \in 1 .. Len(m.updates) : UpdateOK(m.updates[i])
      /\ Len(g) = IF m.type = PING_REQ THEN NODE_ID_LEN ELSE 0
  <2>1. m.type # GOSSIP /\ m.type \notin {GOSSIP, IHAVE, GRAFT}
    BY DEF PING, ACK, PING_REQ, GOSSIP, IHAVE, GRAFT
  <2>2. m.msg_id \in Seq(Byte) /\ Len(m.msg_id) = 0
    BY <2>1, MessageOK DEF Message
  <2>3. m.msg_id = <<>>
    BY <2>2
  <2> QED BY <2>1, <2>3, MessageOK DEF Message
<1>2. /\ Len(m.updates) \in Nat /\ n \in Nat /\ n <= Len(m.updates) /\ n <= MAX_UPDATES
      /\ n \in Byte /\ n = Lesser(Len(m.updates), MAX_UPDATES)
  <2>1. Len(m.updates) \in Nat /\ MAX_UPDATES \in Nat /\ MAX_UPDATES <= 255
    BY <1>1, Consts, LenProperties
  <2> DEFINE l == Len(m.updates)
  <2>2. n = IF l < MAX_UPDATES THEN l ELSE MAX_UPDATES
    BY DEF Sent, Lesser
  <2>3. n = Lesser(Len(m.updates), MAX_UPDATES)
    BY DEF Sent
  <2> HIDE DEF l, n
  <2>4. l \in Nat
    BY <2>1 DEF l
  <2>5. n \in Nat /\ n <= l /\ n <= MAX_UPDATES
    BY <2>1, <2>2, <2>4
  <2>6. n \in Byte
    BY <2>1, <2>5 DEF Byte
  <2> QED BY <2>3, <2>4, <2>5, <2>6 DEF l
<1>3. h \in Seq(Byte) /\ Len(h) = HDR_SIZE
  BY EncHeader
<1>4. SwimBytes(m) = ((h \o g) \o c) \o ub
  BY DEF SwimBytes
<1> HIDE DEF n
<1>5. c \in Seq(Byte) /\ Len(c) = 1
  BY <1>2, OneByte
<1>6. ub \in Seq(Byte) /\ Len(ub) = n * UPDATE_SIZE
  <2>1. \A i \in 1 .. n : UpdateOK(m.updates[i])
    BY <1>1, <1>2
  <2> QED BY <2>1, <1>2, UpdateBytesOK
<1>7. /\ Len(b) \in Nat /\ Len(g) \in Nat /\ HDR_SIZE \in Nat /\ NODE_ID_LEN \in Nat /\ k \in Nat
      /\ n * UPDATE_SIZE \in Nat
  BY <1>1, <1>2, Consts, LenProperties
<1> HIDE DEF h, g, c, ub
\* Where the parts lie.
<1>8. h \o g \in Seq(Byte) /\ Len(h \o g) = k
  <2>1. h \o g \in Seq(Byte) /\ Len(h \o g) = Len(h) + Len(g)
    BY <1>1, <1>3, Joined
  <2> QED BY <2>1, <1>3
<1>9. (h \o g) \o c \in Seq(Byte) /\ Len((h \o g) \o c) = k + 1
  <2>1. (h \o g) \o c \in Seq(Byte) /\ Len((h \o g) \o c) = Len(h \o g) + Len(c)
    BY <1>5, <1>8, Joined
  <2> QED BY <2>1, <1>5, <1>8
<1>10. SwimBytes(m) \in Seq(Byte) /\ Len(SwimBytes(m)) = k + 1 + n * UPDATE_SIZE
  <2>1. /\ ((h \o g) \o c) \o ub \in Seq(Byte)
        /\ Len(((h \o g) \o c) \o ub) = Len((h \o g) \o c) + Len(ub)
    BY <1>6, <1>9, Joined
  <2> QED BY <2>1, <1>4, <1>6, <1>9
<1>11. /\ Agrees(b, 0, h) /\ Agrees(b, HDR_SIZE, g) /\ Agrees(b, k, c) /\ Agrees(b, k + 1, ub)
  <2>1. Agrees(b, 0, (h \o g) \o c) /\ Agrees(b, 0 + Len((h \o g) \o c), ub)
    BY <1>4, <1>6, <1>9, AgreesSplit
  <2>2. Agrees(b, 0, h \o g) /\ Agrees(b, 0 + Len(h \o g), c)
    BY <2>1, <1>5, <1>8, AgreesSplit
  <2>3. Agrees(b, 0, h) /\ Agrees(b, 0 + Len(h), g)
    BY <2>2, <1>1, <1>3, AgreesSplit DEF g
  <2>4. 0 + Len((h \o g) \o c) = k + 1 /\ 0 + Len(h \o g) = k /\ 0 + Len(h) = HDR_SIZE
    BY <1>3, <1>7, <1>8, <1>9
  <2> QED BY <2>1, <2>2, <2>3, <2>4
\* The decoder comes to the updates, or has no more to read.
<1>12. HDR_SIZE <= Len(b) =>
         /\ HeaderOK(b)
         /\ [Blank EXCEPT !.type = b[4], !.sender = Bytes(b, 4, NODE_ID_LEN)] = Header(m)
  BY <1>11, EncHeader DEF h
<1>13. ASSUME k <= Len(b) PROVE wake_dgram_decode(b) = dec_updates(b, k, r)
  <2>1. HDR_SIZE <= Len(b)
    BY <1>7, <1>13
  <2>2. CASE m.type = PING_REQ
    <3>1. wake_dgram_decode(b) = dec_ping_req(b, HDR_SIZE, Header(m))
      BY <2>1, <2>2, <1>12, DecodeCases
    <3>2. Len(g) = NODE_ID_LEN /\ k = HDR_SIZE + NODE_ID_LEN
      BY <1>1, <2>2 DEF g
    <3>3. Bytes(b, HDR_SIZE, NODE_ID_LEN) = g
      BY <1>1, <1>7, <1>11, <1>13, <3>2, BytesAre DEF g
    <3>4. ~ (Len(b) < HDR_SIZE + NODE_ID_LEN)
      BY <1>7, <1>13, <3>2
    <3> QED BY <3>1, <3>2, <3>3, <3>4 DEF dec_ping_req, g
  <2>3. CASE m.type # PING_REQ
    <3>1. wake_dgram_decode(b) = dec_updates(b, HDR_SIZE, Header(m))
      BY <2>1, <2>3, <1>12, DecodeCases
    <3>2. k = HDR_SIZE /\ m.target = <<>>
      BY <1>1, <1>7, <2>3 DEF g
    <3>3. r = Header(m)
      <4> DEFINE e == <<>>
                 hd == Header(m)
      <4>1. hd = [type |-> m.type, sender |-> m.sender, target |-> e, updates |-> e,
                  msg_id |-> e, payload |-> e]
        BY HeaderIs
      <4> HIDE DEF e, hd
      <4>2. [hd EXCEPT !.target = e] = hd
        BY <4>1
      <4> QED BY <4>2, <3>2 DEF e, hd
    <3> QED BY <3>1, <3>2, <3>3
  <2> QED BY <2>2, <2>3
<1>14. ASSUME Len(b) < k PROVE wake_dgram_decode(b) = Rejected
  <2>1. CASE HDR_SIZE <= Len(b)
    <3>1. m.type = PING_REQ /\ Len(b) < HDR_SIZE + NODE_ID_LEN
      BY <1>1, <1>7, <1>14, <2>1 DEF g
    <3>2. wake_dgram_decode(b) = dec_ping_req(b, HDR_SIZE, Header(m))
      BY <2>1, <3>1, <1>12, DecodeCases
    <3> QED BY <3>1, <3>2 DEF dec_ping_req
  <2>2. CASE ~ (HDR_SIZE <= Len(b))
    BY <2>2, <1>7, NoHeader
  <2> QED BY <2>1, <2>2
<1>15. /\ Len(b) <= k => dec_updates(b, k, r) = r
       /\ k < Len(b) /\ Len(b) < k + 1 + n * UPDATE_SIZE => dec_updates(b, k, r) = Rejected
       /\ k + 1 + n * UPDATE_SIZE <= Len(b) =>
            dec_updates(b, k, r) = [r EXCEPT !.updates = SubSeq(m.updates, 1, n)]
  <2> DEFINE us == m.updates
  <2>1. AllOK(us) /\ n \in Nat /\ n = Lesser(Len(us), MAX_UPDATES)
    BY <1>1, <1>2 DEF AllOK
  <2>2. Agrees(b, k, <<n>>) /\ Agrees(b, k + 1, UpdateBytes(us, n))
    BY <1>11 DEF c, ub
  <2> HIDE DEF k, r, us
  <2>3. k \in Nat
    BY <1>7
  <2>4. FindsUpdates(b, k, r, us, n)
    BY <2>1, <2>2, <2>3, DecUpdates
  <2> QED BY <2>4 DEF FindsUpdates, us
<1>16. /\ r = [m EXCEPT !.updates = <<>>]
       /\ [r EXCEPT !.updates = SubSeq(m.updates, 1, n)] = Clamped(m)
  <2>1. /\ r = [m EXCEPT !.updates = <<>>]
        /\ [r EXCEPT !.updates = SubSeq(m.updates, 1, n)] =
             [m EXCEPT !.updates = SubSeq(m.updates, 1, n)]
    BY <1>1, SwimRecord
  <2> QED BY <2>1, <1>2 DEF Clamped
<1> DEFINE L == n * UPDATE_SIZE
<1> HIDE DEF k, r
<1>17. ASSUME Len(SwimBytes(m)) <= Len(b) PROVE wake_dgram_decode(b) = Clamped(m)
  <2>1. k + 1 + n * UPDATE_SIZE <= Len(b) /\ k <= Len(b)
    <3>1. L \in Nat /\ k + 1 + L <= Len(b)
      BY <1>7, <1>10, <1>17
    <3> HIDE DEF L
    <3>2. k <= Len(b)
      BY <3>1, <1>7
    <3> QED BY <3>1, <3>2 DEF L
  <2> QED BY <2>1, <1>13, <1>15, <1>16
<1>18. ASSUME Len(b) < Len(SwimBytes(m))
       PROVE  \/ wake_dgram_decode(b) = Rejected
              \/ Len(b) = k /\ wake_dgram_decode(b) = [m EXCEPT !.updates = <<>>]
  <2>1. Len(b) < k \/ Len(b) = k \/ k < Len(b)
    BY <1>7
  <2>2. Len(b) < k + 1 + n * UPDATE_SIZE
    BY <1>10, <1>18
  <2>3. CASE Len(b) < k
    BY <2>3, <1>14
  <2>4. CASE Len(b) = k
    <3>1. k <= Len(b) /\ Len(b) <= k
      BY <2>4, <1>7
    <3> QED BY <3>1, <2>4, <1>13, <1>15, <1>16
  <2>5. CASE k < Len(b)
    <3>1. k <= Len(b)
      BY <2>5, <1>7
    <3> QED BY <3>1, <2>2, <2>5, <1>13, <1>15
  <2> QED BY <2>1, <2>3, <2>4, <2>5
<1> QED BY <1>10, <1>17, <1>18 DEF Decodes, k, g

\* The identifier and the payload are all that the header leaves open.
LEMMA GossipRecord ==
    ASSUME NEW m \in Message, m.target = <<>>, m.updates = <<>>
    PROVE  [Header(m) EXCEPT !.msg_id = m.msg_id, !.payload = m.payload] = m
<1> DEFINE e == <<>>
           h == Header(m)
           t == m.type
           s == m.sender
           d == m.msg_id
           p == m.payload
<1>1. m = [type |-> t, sender |-> s, target |-> e, updates |-> e, msg_id |-> d, payload |-> p]
  BY MessageIs
<1>2. h = [type |-> t, sender |-> s, target |-> e, updates |-> e, msg_id |-> e, payload |-> e]
  BY HeaderIs
<1> DEFINE r == [h EXCEPT !.msg_id = d]
<1> HIDE DEF e, h, t, s, d, p
<1>3. r = [type |-> t, sender |-> s, target |-> e, updates |-> e, msg_id |-> d, payload |-> e]
  BY <1>2
<1>4. [h EXCEPT !.msg_id = d, !.payload = p] = [r EXCEPT !.payload = p]
  BY <1>2
<1> HIDE DEF r
<1>5. [r EXCEPT !.payload = p] = m
  BY <1>1, <1>3
<1> QED BY <1>4, <1>5 DEF h, d, p

LEMMA GossipDecodes ==
    ASSUME NEW m \in Messages, m.type = GOSSIP, Len(m.payload) <= MAX_PAYLOAD,
           NEW b \in Seq(Byte), Agrees(b, 0, GossipBytes(m))
    PROVE  Decodes(b, GossipBytes(m), m)
<1> DEFINE h == enc_header(m)
           d == m.msg_id
           p == m.payload
           l == Len(p)
           w == wr16(l)
           k == HDR_SIZE + MSG_ID_LEN
<1>1. /\ m \in Message /\ d \in Seq(Byte) /\ p \in Seq(Byte) /\ Len(d) = MSG_ID_LEN
      /\ m.target = <<>> /\ m.updates = <<>>
  <2>1. m.type # PING_REQ /\ m.type \notin {PING, ACK, PING_REQ} /\ m.type \in {GOSSIP, IHAVE, GRAFT}
    BY DEF PING, ACK, PING_REQ, GOSSIP, IHAVE, GRAFT
  <2>2. m.target \in Seq(Byte) /\ Len(m.target) = 0
    BY <2>1, MessageOK DEF Message
  <2>3. m.target = <<>>
    BY <2>2
  <2> QED BY <2>1, <2>3, MessageOK DEF Message
<1>2. /\ l \in Nat /\ l <= MAX_PAYLOAD /\ l < 65536 /\ Len(b) \in Nat
      /\ HDR_SIZE \in Nat /\ MSG_ID_LEN \in Nat /\ MAX_PAYLOAD \in Nat /\ k \in Nat
  BY <1>1, Consts, LenProperties
<1>3. h \in Seq(Byte) /\ Len(h) = HDR_SIZE
  BY EncHeader
<1>4. GossipBytes(m) = ((h \o d) \o w) \o p
  BY DEF GossipBytes
<1>5. GOSSIP # PING /\ Len(p) = l /\ p = m.payload /\ d = m.msg_id
  BY DEF GOSSIP, PING
<1> HIDE DEF l, h, d, p
<1>6. w \in Seq(Byte) /\ Len(w) = 2
      /\ (Agrees(b, k, w) /\ k + 2 <= Len(b) => rd16(b, k) = l)
  BY <1>2, Word
<1> HIDE DEF w
<1>7. h \o d \in Seq(Byte) /\ Len(h \o d) = k
  <2>1. h \o d \in Seq(Byte) /\ Len(h \o d) = Len(h) + Len(d)
    BY <1>1, <1>3, Joined
  <2> QED BY <2>1, <1>1, <1>3
<1>8. (h \o d) \o w \in Seq(Byte) /\ Len((h \o d) \o w) = k + 2
  <2>1. (h \o d) \o w \in Seq(Byte) /\ Len((h \o d) \o w) = Len(h \o d) + Len(w)
    BY <1>6, <1>7, Joined
  <2> QED BY <2>1, <1>6, <1>7
<1>9. GossipBytes(m) \in Seq(Byte) /\ Len(GossipBytes(m)) = k + 2 + l
  <2>1. /\ ((h \o d) \o w) \o p \in Seq(Byte)
        /\ Len(((h \o d) \o w) \o p) = Len((h \o d) \o w) + Len(p)
    BY <1>1, <1>8, Joined
  <2> QED BY <2>1, <1>4, <1>5, <1>8
<1>10. Agrees(b, 0, h) /\ Agrees(b, HDR_SIZE, d) /\ Agrees(b, k, w) /\ Agrees(b, k + 2, p)
  <2>1. Agrees(b, 0, (h \o d) \o w) /\ Agrees(b, 0 + Len((h \o d) \o w), p)
    BY <1>1, <1>4, <1>8, AgreesSplit
  <2>2. Agrees(b, 0, h \o d) /\ Agrees(b, 0 + Len(h \o d), w)
    BY <2>1, <1>6, <1>7, AgreesSplit
  <2>3. Agrees(b, 0, h) /\ Agrees(b, 0 + Len(h), d)
    BY <2>2, <1>1, <1>3, AgreesSplit
  <2>4. 0 + Len((h \o d) \o w) = k + 2 /\ 0 + Len(h \o d) = k /\ 0 + Len(h) = HDR_SIZE
    BY <1>2, <1>3, <1>7, <1>8
  <2> QED BY <2>1, <2>2, <2>3, <2>4
<1>11. HDR_SIZE <= Len(b) => wake_dgram_decode(b) = dec_gossip(b, HDR_SIZE, Header(m))
  <2>1. HDR_SIZE <= Len(b) =>
          /\ HeaderOK(b)
          /\ [Blank EXCEPT !.type = b[4], !.sender = Bytes(b, 4, NODE_ID_LEN)] = Header(m)
    BY <1>10, EncHeader DEF h
  <2> QED BY <2>1, DecodeCases
<1>12. ASSUME k + 2 + l <= Len(b) PROVE wake_dgram_decode(b) = m
  <2>1. HDR_SIZE <= Len(b) /\ ~ (Len(b) < HDR_SIZE + MSG_ID_LEN + 2) /\ k + 2 <= Len(b)
    BY <1>2, <1>12
  <2>2. rd16(b, HDR_SIZE + MSG_ID_LEN) = l
    BY <2>1, <1>6, <1>10
  <2>3. ~ (l > MAX_PAYLOAD \/ HDR_SIZE + MSG_ID_LEN + 2 + l > Len(b))
    BY <1>2, <1>12
  <2>4. Bytes(b, HDR_SIZE, MSG_ID_LEN) = d
    <3>1. HDR_SIZE + Len(d) <= Len(b)
      BY <1>1, <1>2, <2>1
    <3>2. Bytes(b, HDR_SIZE, Len(d)) = d
      BY <3>1, <1>1, <1>2, <1>10, BytesAre
    <3> QED BY <3>2, <1>1
  <2>5. Bytes(b, HDR_SIZE + MSG_ID_LEN + 2, l) = p
    <3>1. k + 2 \in Nat /\ k + 2 + Len(p) <= Len(b)
      BY <1>2, <1>5, <1>12
    <3>2. Bytes(b, k + 2, Len(p)) = p
      BY <3>1, <1>1, <1>10, BytesAre
    <3> QED BY <3>2, <1>5
  <2>6. dec_gossip(b, HDR_SIZE, Header(m)) = [Header(m) EXCEPT !.msg_id = d, !.payload = p]
    BY <2>1, <2>2, <2>3, <2>4, <2>5 DEF dec_gossip
  <2>7. [Header(m) EXCEPT !.msg_id = d, !.payload = p] = m
    BY <1>1, <1>5, GossipRecord
  <2> QED BY <2>1, <2>6, <2>7, <1>11
<1>13. ASSUME Len(b) < k + 2 + l PROVE wake_dgram_decode(b) = Rejected
  <2>1. CASE ~ (HDR_SIZE <= Len(b))
    BY <2>1, <1>2, NoHeader
  <2>2. CASE HDR_SIZE <= Len(b) /\ Len(b) < HDR_SIZE + MSG_ID_LEN + 2
    BY <2>2, <1>11 DEF dec_gossip
  <2>3. CASE HDR_SIZE <= Len(b) /\ ~ (Len(b) < HDR_SIZE + MSG_ID_LEN + 2)
    <3>1. rd16(b, HDR_SIZE + MSG_ID_LEN) = l
      BY <2>3, <1>2, <1>6, <1>10
    <3>2. HDR_SIZE + MSG_ID_LEN + 2 + l > Len(b)
      BY <1>2, <1>13
    <3> QED BY <2>3, <3>1, <3>2, <1>11 DEF dec_gossip
  <2> QED BY <2>1, <2>2, <2>3
<1> QED BY <1>1, <1>9, <1>12, <1>13, Unclamped DEF Decodes

LEMMA FullDecodes ==
    ASSUME NEW m, Sendable(m), NEW b \in Seq(Byte), Agrees(b, 0, Full(m))
    PROVE  Decodes(b, Full(m), m)
<1>1. m \in Messages /\ m.type \in PING .. PRUNE
  BY MessageOK DEF Sendable, Message
<1>2. CASE m.type \in {PING, ACK, PING_REQ}
  <2>1. Full(m) = SwimBytes(m)
    BY <1>2 DEF Full
  <2> QED BY <1>1, <1>2, <2>1, SwimDecodes
<1>3. CASE m.type = GOSSIP
  <2>1. Full(m) = GossipBytes(m)
    BY <1>3 DEF Full, PING, ACK, PING_REQ, GOSSIP
  <2>2. Len(m.payload) <= MAX_PAYLOAD
    BY <1>3 DEF Sendable
  <2> QED BY <1>1, <1>3, <2>1, <2>2, GossipDecodes
<1>4. CASE m.type \notin {PING, ACK, PING_REQ} /\ m.type # GOSSIP
  <2>1. Full(m) = CtrlBytes(m) /\ m.type \in {IHAVE, GRAFT, PRUNE}
    BY <1>1, <1>4 DEF Full, PING, ACK, PING_REQ, GOSSIP, IHAVE, GRAFT, PRUNE
  <2> QED BY <1>1, <2>1, CtrlDecodes
<1> QED BY <1>2, <1>3, <1>4

\* An encoder writes all bytes of a message or none.
LEMMA EncodeIs ==
    ASSUME NEW m \in Messages, NEW cap \in Caps, Encode(m, cap) # <<>>
    PROVE  Sendable(m) /\ Encode(m, cap) = Full(m)
<1>1. CASE m.type \in {PING, ACK, PING_REQ}
  <2>1. m.type # GOSSIP
    BY <1>1 DEF PING, ACK, PING_REQ, GOSSIP
  <2>2. Encode(m, cap) = wake_dgram_encode_swim(m, cap)
    BY <1>1, <2>1 DEF Encode
  <2>3. wake_dgram_encode_swim(m, cap) = Fit(SwimBytes(m), cap)
    BY DEF wake_dgram_encode_swim, SwimBytes, Sent
  <2>4. Encode(m, cap) = SwimBytes(m)
    BY <2>2, <2>3 DEF Fit
  <2> QED BY <1>1, <2>1, <2>4 DEF Full, Sendable
<1>2. CASE m.type = GOSSIP
  <2>1. m.type \notin {PING, ACK, PING_REQ}
    BY <1>2 DEF PING, ACK, PING_REQ, GOSSIP
  <2>2. Encode(m, cap) = wake_dgram_encode_pt_gossip(m, cap)
    BY <1>2, <2>1 DEF Encode
  <2>3. /\ ~ (Len(m.payload) > MAX_PAYLOAD)
        /\ wake_dgram_encode_pt_gossip(m, cap) = Fit(GossipBytes(m), cap)
    BY <2>2 DEF wake_dgram_encode_pt_gossip, GossipBytes
  <2>4. Encode(m, cap) = GossipBytes(m)
    BY <2>2, <2>3 DEF Fit
  <2>5. Len(m.payload) \in Nat
    BY MessageOK, LenProperties DEF Message
  <2>6. Len(m.payload) <= MAX_PAYLOAD
    BY <2>3, <2>5, Consts
  <2> QED BY <1>2, <2>1, <2>4, <2>6 DEF Full, Sendable
<1>3. CASE m.type \notin {PING, ACK, PING_REQ} /\ m.type # GOSSIP
  <2>1. Encode(m, cap) = wake_dgram_encode_pt_ctrl(m, cap)
    BY <1>3 DEF Encode
  <2>2. wake_dgram_encode_pt_ctrl(m, cap) = Fit(CtrlBytes(m), cap)
    BY DEF wake_dgram_encode_pt_ctrl, CtrlBytes
  <2>3. Encode(m, cap) = CtrlBytes(m)
    BY <2>1, <2>2 DEF Fit
  <2> QED BY <1>3, <2>3 DEF Full, Sendable
<1> QED BY <1>1, <1>2, <1>3

-----------------------------------------------------------------------------
(* The decoder on any bytes                                                *)

OutOK(o) ==
  o # Rejected =>
    /\ o \in Message
    /\ Len(o.sender) = NODE_ID_LEN
    /\ Len(o.updates) <= MAX_UPDATES /\ Len(o.payload) <= MAX_PAYLOAD
    /\ o.type = PING_REQ => Len(o.target) = NODE_ID_LEN
    /\ o.type \in {GOSSIP, IHAVE, GRAFT} => Len(o.msg_id) = MSG_ID_LEN
    /\ \A i \in 1 .. Len(o.updates) : Len(o.updates[i].id) = NODE_ID_LEN

Rec(t, s, g, u, d, p) ==
  [type |-> t, sender |-> s, target |-> g, updates |-> u, msg_id |-> d, payload |-> p]

LEMMA RecOK ==
    ASSUME NEW t \in PING .. PRUNE, NEW s \in Seq(Byte), NEW g \in Seq(Byte),
           NEW u \in Seq(Update), NEW d \in Seq(Byte), NEW p \in Seq(Byte),
           Len(s) = NODE_ID_LEN, Len(u) <= MAX_UPDATES, Len(p) <= MAX_PAYLOAD,
           t = PING_REQ => Len(g) = NODE_ID_LEN,
           t \in {GOSSIP, IHAVE, GRAFT} => Len(d) = MSG_ID_LEN,
           \A i \in 1 .. Len(u) : Len(u[i].id) = NODE_ID_LEN
    PROVE  OutOK(Rec(t, s, g, u, d, p))
<1> DEFINE r == Rec(t, s, g, u, d, p)
<1>1. r = [type |-> t, sender |-> s, target |-> g, updates |-> u, msg_id |-> d, payload |-> p]
  BY DEF Rec
<1> HIDE DEF r
<1>2. r \in Message
  BY <1>1 DEF Message
<1> QED BY <1>1, <1>2 DEF OutOK, r

LEMMA DecUpdateOK ==
    ASSUME NEW b \in Seq(Byte), NEW off \in Nat, off + UPDATE_SIZE <= Len(b)
    PROVE  dec_update(b, off) \in Update /\ Len(dec_update(b, off).id) = NODE_ID_LEN
<1>1. /\ Len(b) \in Nat /\ NODE_ID_LEN \in Nat /\ off + NODE_ID_LEN <= Len(b)
      /\ off + NODE_ID_LEN + 1 \in 1 .. Len(b) /\ off + NODE_ID_LEN + 2 \in 1 .. Len(b)
      /\ off + NODE_ID_LEN + 3 \in 1 .. Len(b)
  BY Consts, LenProperties
<1> DEFINE d == Bytes(b, off, NODE_ID_LEN)
           w == rd16(b, off + NODE_ID_LEN)
           z == b[off + NODE_ID_LEN + 3]
<1>2. d \in Seq(Byte) /\ Len(d) = NODE_ID_LEN
  BY <1>1, BytesOK
<1>3. /\ b[off + NODE_ID_LEN + 1] \in Byte /\ b[off + NODE_ID_LEN + 2] \in Byte /\ z \in Byte
  BY <1>1, ElementOfSeq
<1>4. w \in Nat
  <2> DEFINE x == b[off + NODE_ID_LEN + 1]
             y == b[off + NODE_ID_LEN + 2]
  <2>1. w = x + 256 * y
    BY DEF rd16
  <2>2. x \in Byte /\ y \in Byte
    BY <1>3
  <2> HIDE DEF w, x, y
  <2>3. x \in Nat /\ y \in Nat
    BY <2>2 DEF Byte
  <2> QED BY <2>1, <2>3
<1>5. dec_update(b, off) = [id |-> d, port |-> w, state |-> z]
  BY DEF dec_update
<1> HIDE DEF d, w, z
<1> QED BY <1>2, <1>3, <1>4, <1>5 DEF Update

LEMMA UpdatesOut ==
    ASSUME NEW b \in Seq(Byte), NEW off \in Nat,
           NEW t \in PING .. PRUNE, NEW s \in Seq(Byte), NEW g \in Seq(Byte),
           Len(s) = NODE_ID_LEN, t \notin {GOSSIP, IHAVE, GRAFT},
           t = PING_REQ => Len(g) = NODE_ID_LEN
    PROVE  OutOK(dec_updates(b, off, Rec(t, s, g, <<>>, <<>>, <<>>)))
<1> DEFINE e == <<>>
           r == Rec(t, s, g, e, e, e)
           c == b[off + 1]
           x == [i \in 1 .. c |-> dec_update(b, off + 1 + (i - 1) * UPDATE_SIZE)]
<1>1. /\ Len(e) = 0 /\ e \in Seq(Byte) /\ e \in Seq(Update) /\ Len(b) \in Nat
      /\ MAX_UPDATES \in Nat /\ MAX_PAYLOAD \in Nat /\ UPDATE_SIZE \in Nat
  BY Consts, LenProperties
<1> HIDE DEF e
<1>2. ASSUME NEW u \in Seq(Update), Len(u) <= MAX_UPDATES,
             \A i \in 1 .. Len(u) : Len(u[i].id) = NODE_ID_LEN
      PROVE  OutOK(Rec(t, s, g, u, e, e))
  <2>1. Len(e) <= MAX_PAYLOAD
    BY <1>1
  <2> QED BY <1>1, <1>2, <2>1, RecOK
<1>3. OutOK(r)
  <2>1. Len(e) <= MAX_UPDATES /\ \A i \in 1 .. Len(e) : Len(e[i].id) = NODE_ID_LEN
    BY <1>1
  <2> QED BY <2>1, <1>1, <1>2
<1>4. ASSUME off < Len(b), ~ (c > MAX_UPDATES), ~ (off + 1 + c * UPDATE_SIZE > Len(b))
      PROVE  OutOK([r EXCEPT !.updates = x])
  <2>1. c \in Nat
    <3>1. off + 1 \in 1 .. Len(b)
      BY <1>1, <1>4
    <3>2. c \in Byte
      BY <3>1, ElementOfSeq
    <3> HIDE DEF c
    <3> QED BY <3>2 DEF Byte
  <2> HIDE DEF c
  <2>2. c <= MAX_UPDATES /\ off + 1 + c * UPDATE_SIZE <= Len(b)
    <3> DEFINE z == c * UPDATE_SIZE
    <3>1. z \in Nat /\ ~ (off + 1 + z > Len(b))
      BY <1>1, <1>4, <2>1
    <3> HIDE DEF z
    <3>2. c <= MAX_UPDATES /\ off + 1 + z <= Len(b)
      BY <1>1, <1>4, <2>1, <3>1
    <3> QED BY <3>2 DEF z
  <2>3. ASSUME NEW i \in 1 .. c PROVE x[i] \in Update /\ Len(x[i].id) = NODE_ID_LEN
    <3> DEFINE k == off + 1 + (i - 1) * UPDATE_SIZE
    <3>1. k \in Nat /\ k + UPDATE_SIZE <= Len(b)
      BY <1>1, <2>1, <2>2, Span
    <3>2. x[i] = dec_update(b, k)
      OBVIOUS
    <3> HIDE DEF k, x
    <3> QED BY <3>1, <3>2, DecUpdateOK
  <2>4. x \in [1 .. c -> Update]
    <3>1. \A i \in 1 .. c : dec_update(b, off + 1 + (i - 1) * UPDATE_SIZE) \in Update
      BY <2>3
    <3> QED BY <3>1
  <2> HIDE DEF x
  <2>5. Len(x) = c /\ x \in Seq(Update)
    BY <2>1, <2>4
  <2>6. [r EXCEPT !.updates = x] = Rec(t, s, g, x, e, e)
    BY DEF Rec
  <2> QED BY <1>2, <2>2, <2>3, <2>5, <2>6
<1>5. OutOK(Rejected)
  BY DEF OutOK
<1>6. CASE off >= Len(b)
  <2>1. dec_updates(b, off, r) = r
    BY <1>6 DEF dec_updates
  <2> QED BY <2>1, <1>3 DEF e
<1>7. CASE ~ (off >= Len(b))
  <2>1. off < Len(b)
    BY <1>1, <1>7
  <2>2. CASE c > MAX_UPDATES \/ off + 1 + c * UPDATE_SIZE > Len(b)
    <3>1. dec_updates(b, off, r) = Rejected
      BY <1>7, <2>2 DEF dec_updates
    <3> QED BY <3>1, <1>5 DEF e
  <2>3. CASE ~ (c > MAX_UPDATES \/ off + 1 + c * UPDATE_SIZE > Len(b))
    <3>1. dec_updates(b, off, r) = [r EXCEPT !.updates = x]
      <4> HIDE DEF r
      <4> QED BY <1>7, <2>3 DEF dec_updates
    <3> QED BY <3>1, <2>1, <2>3, <1>4 DEF e
  <2> QED BY <2>2, <2>3
<1> QED BY <1>6, <1>7

LEMMA GossipOut ==
    ASSUME NEW b \in Seq(Byte), NEW off \in Nat, NEW s \in Seq(Byte), Len(s) = NODE_ID_LEN
    PROVE  OutOK(dec_gossip(b, off, Rec(GOSSIP, s, <<>>, <<>>, <<>>, <<>>)))
<1> DEFINE e == <<>>
           r == Rec(GOSSIP, s, e, e, e, e)
           l == rd16(b, off + MSG_ID_LEN)
           d == Bytes(b, off, MSG_ID_LEN)
           p == Bytes(b, off + MSG_ID_LEN + 2, l)
<1>1. /\ Len(e) = 0 /\ e \in Seq(Byte) /\ e \in Seq(Update) /\ MAX_UPDATES \in Nat
      /\ MAX_PAYLOAD \in Nat /\ Len(b) \in Nat
      /\ MSG_ID_LEN \in Nat
  BY Consts, LenProperties
<1> HIDE DEF e
<1>2. OutOK(Rejected)
  BY DEF OutOK
<1>3. CASE Len(b) < off + MSG_ID_LEN + 2
  <2>1. dec_gossip(b, off, r) = Rejected
    BY <1>3 DEF dec_gossip
  <2> QED BY <2>1, <1>2 DEF e
<1>4. CASE ~ (Len(b) < off + MSG_ID_LEN + 2)
  <2>1. /\ off + MSG_ID_LEN + 1 \in 1 .. Len(b) /\ off + MSG_ID_LEN + 2 \in 1 .. Len(b)
        /\ off + MSG_ID_LEN + 2 \in Nat /\ off + MSG_ID_LEN <= Len(b)
    BY <1>1, <1>4
  <2>2. l \in Nat
    <3> DEFINE x == b[off + MSG_ID_LEN + 1]
               y == b[off + MSG_ID_LEN + 2]
    <3>1. l = x + 256 * y
      BY DEF rd16
    <3>2. x \in Byte /\ y \in Byte
      BY <2>1, ElementOfSeq
    <3> HIDE DEF l, x, y
    <3>3. x \in Nat /\ y \in Nat
      BY <3>2 DEF Byte
    <3> QED BY <3>1, <3>3
  <2>3. CASE l > MAX_PAYLOAD \/ off + MSG_ID_LEN + 2 + l > Len(b)
    <3>1. dec_gossip(b, off, r) = Rejected
      BY <1>4, <2>3 DEF dec_gossip
    <3> QED BY <3>1, <1>2 DEF e
  <2>4. CASE ~ (l > MAX_PAYLOAD \/ off + MSG_ID_LEN + 2 + l > Len(b))
    <3>1. dec_gossip(b, off, r) = [r EXCEPT !.msg_id = d, !.payload = p]
      <4> HIDE DEF r
      <4> QED BY <1>4, <2>4 DEF dec_gossip
    <3> HIDE DEF l
    <3>2. l <= MAX_PAYLOAD /\ (off + MSG_ID_LEN + 2) + l <= Len(b)
      BY <1>1, <2>1, <2>2, <2>4
    <3>3. Len(d) = MSG_ID_LEN /\ Len(p) = l /\ d \in Seq(Byte) /\ p \in Seq(Byte)
      BY <1>1, <2>1, <2>2, <3>2, BytesOK
    <3> HIDE DEF d, p
    <3>4. [r EXCEPT !.msg_id = d, !.payload = p] = Rec(GOSSIP, s, e, e, d, p)
      <4> DEFINE q == [r EXCEPT !.msg_id = d]
      <4>1. q = Rec(GOSSIP, s, e, e, d, e)
        BY DEF Rec
      <4>2. [r EXCEPT !.msg_id = d, !.payload = p] = [q EXCEPT !.payload = p]
        BY DEF Rec
      <4> HIDE DEF q
      <4>3. [q EXCEPT !.payload = p] = Rec(GOSSIP, s, e, e, d, p)
        BY <4>1 DEF Rec
      <4> QED BY <4>2, <4>3
    <3>5. /\ Len(e) <= MAX_UPDATES /\ Len(p) <= MAX_PAYLOAD /\ GOSSIP # PING_REQ
          /\ GOSSIP \in PING .. PRUNE
          /\ \A i \in 1 .. Len(e) : Len(e[i].id) = NODE_ID_LEN
      BY <1>1, <3>2, <3>3 DEF GOSSIP, PING_REQ, PING, PRUNE
    <3>6. OutOK(Rec(GOSSIP, s, e, e, d, p))
      BY <1>1, <3>3, <3>5, RecOK
    <3> QED BY <3>1, <3>4, <3>6 DEF e
  <2> QED BY <2>3, <2>4
<1> QED BY <1>3, <1>4

LEMMA DecodeOut ==
    ASSUME NEW b \in Seq(Byte)
    PROVE  OutOK(wake_dgram_decode(b))
<1> DEFINE e == <<>>
           t == b[4]
           s == Bytes(b, 4, NODE_ID_LEN)
           h == [Blank EXCEPT !.type = t, !.sender = s]
<1>1. OutOK(Rejected)
  BY DEF OutOK
<1>2. CASE ~ HeaderOK(b)
  BY <1>1, <1>2 DEF wake_dgram_decode
<1>3. CASE HeaderOK(b)
  <2>1. /\ Len(b) \in Nat /\ NODE_ID_LEN \in Nat /\ MSG_ID_LEN \in Nat /\ HDR_SIZE \in Nat
        /\ 4 + NODE_ID_LEN <= Len(b)
    BY <1>3, Consts, LenProperties DEF HeaderOK
  <2>2. Len(s) = NODE_ID_LEN /\ s \in Seq(Byte)
    BY <2>1, BytesOK
  <2>3. wake_dgram_decode(b) =
          CASE h.type \in {PING, ACK}    -> dec_updates(b, HDR_SIZE, h)
            [] h.type = PING_REQ         -> dec_ping_req(b, HDR_SIZE, h)
            [] h.type = GOSSIP           -> dec_gossip(b, HDR_SIZE, h)
            [] h.type \in {IHAVE, GRAFT} -> dec_ctrl(b, HDR_SIZE, h)
            [] h.type = PRUNE            -> h
            [] OTHER                     -> Rejected
    BY <1>3 DEF wake_dgram_decode
  <2>4. Blank = Rec(0, e, e, e, e, e)
    BY DEF Blank, Rec
  <2>5. Len(e) = 0 /\ e \in Seq(Byte) /\ e \in Seq(Update)
    OBVIOUS
  <2> HIDE DEF e, t, s
  <2>6. h = Rec(t, s, e, e, e, e) /\ h.type = t
    <3> DEFINE q == [Blank EXCEPT !.type = t]
    <3>1. q = Rec(t, e, e, e, e, e)
      BY <2>4 DEF Rec
    <3>2. h = [q EXCEPT !.sender = s]
      BY <2>4 DEF Rec
    <3> HIDE DEF q
    <3>3. [q EXCEPT !.sender = s] = Rec(t, s, e, e, e, e)
      BY <3>1 DEF Rec
    <3> QED BY <3>2, <3>3 DEF Rec
  <2> HIDE DEF h
  <2>7. CASE t \in {PING, ACK}
    <3>1. t \notin {GOSSIP, IHAVE, GRAFT} /\ t # PING_REQ /\ t # PRUNE /\ t \in PING .. PRUNE
      BY <2>7 DEF PING, ACK, PING_REQ, GOSSIP, IHAVE, GRAFT, PRUNE
    <3>2. wake_dgram_decode(b) = dec_updates(b, HDR_SIZE, h)
      BY <2>3, <2>6, <2>7, <3>1
    <3>3. OutOK(dec_updates(b, HDR_SIZE, Rec(t, s, e, <<>>, <<>>, <<>>)))
      BY <2>1, <2>2, <2>5, <3>1, UpdatesOut
    <3> QED BY <3>2, <3>3, <2>6 DEF e
  <2>8. CASE t = PING_REQ
    <3>1. t \notin {GOSSIP, IHAVE, GRAFT} /\ t \notin {PING, ACK} /\ t # PRUNE /\ t \in PING .. PRUNE
      BY <2>8 DEF PING, ACK, PING_REQ, GOSSIP, IHAVE, GRAFT, PRUNE
    <3>2. wake_dgram_decode(b) = dec_ping_req(b, HDR_SIZE, h)
      BY <2>3, <2>6, <2>8, <3>1
    <3>3. CASE Len(b) < HDR_SIZE + NODE_ID_LEN
      BY <1>1, <3>2, <3>3 DEF dec_ping_req
    <3>4. CASE ~ (Len(b) < HDR_SIZE + NODE_ID_LEN)
      <4> DEFINE g == Bytes(b, HDR_SIZE, NODE_ID_LEN)
      <4>1. Len(g) = NODE_ID_LEN /\ g \in Seq(Byte)
        BY <2>1, <3>4, BytesOK
      <4>2. dec_ping_req(b, HDR_SIZE, h) =
              dec_updates(b, HDR_SIZE + NODE_ID_LEN, [h EXCEPT !.target = g])
        BY <3>4 DEF dec_ping_req
      <4> HIDE DEF g
      <4>3. [h EXCEPT !.target = g] = Rec(t, s, g, e, e, e)
        BY <2>6 DEF Rec
      <4>4. HDR_SIZE + NODE_ID_LEN \in Nat
        BY <2>1
      <4>5. OutOK(dec_updates(b, HDR_SIZE + NODE_ID_LEN, Rec(t, s, g, <<>>, <<>>, <<>>)))
        BY <2>2, <3>1, <4>1, <4>4, UpdatesOut
      <4> QED BY <3>2, <4>2, <4>3, <4>5 DEF e
    <3> QED BY <3>3, <3>4
  <2>9. CASE t = GOSSIP
    <3>1. t \notin {PING, ACK} /\ t # PING_REQ /\ t \notin {IHAVE, GRAFT} /\ t # PRUNE
      BY <2>9 DEF PING, ACK, PING_REQ, GOSSIP, IHAVE, GRAFT, PRUNE
    <3>2. wake_dgram_decode(b) = dec_gossip(b, HDR_SIZE, h)
      BY <2>3, <2>6, <2>9, <3>1
    <3>3. OutOK(dec_gossip(b, HDR_SIZE, Rec(GOSSIP, s, <<>>, <<>>, <<>>, <<>>)))
      BY <2>1, <2>2, GossipOut
    <3> QED BY <3>2, <3>3, <2>6, <2>9 DEF e
  <2>10. CASE t \in {IHAVE, GRAFT}
    <3>1. t \notin {PING, ACK} /\ t # PING_REQ /\ t # GOSSIP /\ t # PRUNE /\ t \in PING .. PRUNE
      BY <2>10 DEF PING, ACK, PING_REQ, GOSSIP, IHAVE, GRAFT, PRUNE
    <3>2. wake_dgram_decode(b) = dec_ctrl(b, HDR_SIZE, h)
      BY <2>3, <2>6, <2>10, <3>1
    <3>3. CASE Len(b) < HDR_SIZE + MSG_ID_LEN
      BY <1>1, <3>2, <3>3 DEF dec_ctrl
    <3>4. CASE ~ (Len(b) < HDR_SIZE + MSG_ID_LEN)
      <4> DEFINE d == Bytes(b, HDR_SIZE, MSG_ID_LEN)
      <4>1. Len(d) = MSG_ID_LEN /\ d \in Seq(Byte)
        BY <2>1, <3>4, BytesOK
      <4>2. dec_ctrl(b, HDR_SIZE, h) = [h EXCEPT !.msg_id = d]
        BY <3>4 DEF dec_ctrl
      <4> HIDE DEF d
      <4>3. [h EXCEPT !.msg_id = d] = Rec(t, s, e, e, d, e)
        BY <2>6 DEF Rec
      <4>4. /\ Len(e) <= MAX_UPDATES /\ Len(e) <= MAX_PAYLOAD
            /\ \A i \in 1 .. Len(e) : Len(e[i].id) = NODE_ID_LEN
        BY <2>5, Consts
      <4>5. OutOK(Rec(t, s, e, e, d, e))
        BY <2>2, <2>5, <3>1, <4>1, <4>4, RecOK
      <4> QED BY <3>2, <4>2, <4>3, <4>5
    <3> QED BY <3>3, <3>4
  <2>11. CASE t = PRUNE
    <3>1. /\ t \notin {PING, ACK} /\ t # PING_REQ /\ t # GOSSIP
          /\ t \notin {IHAVE, GRAFT} /\ t \notin {GOSSIP, IHAVE, GRAFT} /\ t \in PING .. PRUNE
      BY <2>11 DEF PING, ACK, PING_REQ, GOSSIP, IHAVE, GRAFT, PRUNE
    <3>2. wake_dgram_decode(b) = h
      BY <2>3, <2>6, <2>11, <3>1
    <3>3. /\ Len(e) <= MAX_UPDATES /\ Len(e) <= MAX_PAYLOAD
          /\ \A i \in 1 .. Len(e) : Len(e[i].id) = NODE_ID_LEN
      BY <2>5, Consts
    <3>4. OutOK(Rec(t, s, e, e, e, e))
      BY <2>2, <2>5, <3>1, <3>3, RecOK
    <3> QED BY <3>2, <3>4, <2>6
  <2>12. CASE t \notin {PING, ACK} /\ t # PING_REQ /\ t # GOSSIP /\ t \notin {IHAVE, GRAFT} /\ t # PRUNE
    <3>1. wake_dgram_decode(b) = Rejected
      BY <2>3, <2>6, <2>12
    <3> QED BY <3>1, <1>1
  <2> QED BY <2>7, <2>8, <2>9, <2>10, <2>11, <2>12
<1> QED BY <1>2, <1>3

-----------------------------------------------------------------------------
(* The inductive invariant                                                 *)

\* Until it is damaged or received, the datagram agrees with the bytes of the
\* message; it is shorter than those only when it was cut.
DInv ==
  /\ wire \in Seq(Byte) /\ OutOK(out)
  /\ state \in {"sent", "padded", "cut"} => Sendable(sent) /\ Agrees(wire, 0, Full(sent))
  /\ state = "sent" => Len(Full(sent)) = Len(wire)
  /\ state = "padded" => Len(Full(sent)) <= Len(wire)
  /\ state = "cut" => Len(wire) < Len(Full(sent))

LEMMA DInit == Init => DInv
<1> SUFFICES ASSUME Init PROVE DInv
  OBVIOUS
<1>1. wire = <<>> /\ state = "ready" /\ out = Rejected
  BY DEF Init
<1>2. wire \in Seq(Byte)
  BY <1>1
<1> QED BY <1>1, <1>2 DEF DInv, OutOK

LEMMA FullOK ==
    ASSUME NEW m, Sendable(m)
    PROVE  Full(m) \in Seq(Byte) /\ Len(Full(m)) \in Nat /\ Agrees(Full(m), 0, Full(m))
<1> DEFINE b == <<>>
           F == Full(m)
<1>1. b \in Seq(Byte) /\ Len(b) = 0
  OBVIOUS
<1> HIDE DEF b, F
<1>2. Agrees(b, 0, F)
  BY <1>1 DEF Agrees
<1>3. F \in Seq(Byte)
  BY <1>1, <1>2, FullDecodes DEF Decodes, F
<1>4. Len(F) \in Nat
  BY <1>3, LenProperties
<1>5. Agrees(F, 0, F)
  BY <1>4 DEF Agrees
<1> QED BY <1>3, <1>4, <1>5 DEF F

LEMMA DSend ==
    ASSUME DInv, NEW m \in Messages, NEW c \in Caps, Send(m, c) PROVE DInv'
<1>1. Sendable(m) /\ Encode(m, c) = Full(m)
  BY EncodeIs DEF Send
<1>2. Full(m) \in Seq(Byte) /\ Len(Full(m)) \in Nat /\ Agrees(Full(m), 0, Full(m))
  BY <1>1, FullOK
<1>3. sent' = m /\ wire' = Full(m) /\ state' = "sent" /\ out' = Rejected
  BY <1>1 DEF Send
<1>4. OutOK(out')
  BY <1>3 DEF OutOK
<1> QED BY <1>1, <1>2, <1>3, <1>4 DEF DInv

LEMMA DCut == ASSUME DInv, Cut PROVE DInv'
<1>1. PICK n \in 0 .. Len(wire) - 1 : Harm("cut", SubSeq(wire, 1, n))
  BY DEF Cut
<1> DEFINE b == SubSeq(wire, 1, n)
           F == Full(sent)
<1>2. /\ state = "sent" /\ wire' = b /\ state' = "cut" /\ sent' = sent /\ out' = out
  BY <1>1 DEF Harm
<1>3. /\ wire \in Seq(Byte) /\ OutOK(out) /\ Sendable(sent) /\ Agrees(wire, 0, F)
      /\ Len(F) = Len(wire)
  BY <1>2 DEF DInv
<1>4. F \in Seq(Byte) /\ Len(F) \in Nat /\ Len(wire) \in Nat
  BY <1>3, FullOK, LenProperties
<1>5. b \in Seq(Byte) /\ Len(b) = n /\ \A i \in 1 .. n : b[i] = wire[i]
  <2>1. \A i \in 1 .. n : wire[i] \in Byte
    BY <1>3, <1>4, ElementOfSeq
  <2> QED BY <1>3, <1>4, <2>1, SubSeqProperties
<1> HIDE DEF b, F
<1>6. Agrees(b, 0, F)
  <2> SUFFICES ASSUME NEW i \in 1 .. Len(F), 0 + i <= Len(b) PROVE b[0 + i] = F[i]
    BY DEF Agrees
  <2>1. i \in 1 .. n /\ 0 + i = i /\ 0 + i <= Len(wire)
    BY <1>4, <1>5
  <2>2. wire[0 + i] = F[i]
    BY <2>1, <1>3 DEF Agrees
  <2> QED BY <2>1, <2>2, <1>5
<1>7. Len(b) < Len(F)
  BY <1>3, <1>4, <1>5
<1> QED BY <1>2, <1>3, <1>5, <1>6, <1>7 DEF DInv, F

LEMMA DDamage == ASSUME DInv, Damage PROVE DInv'
<1>1. PICK i \in 1 .. Len(wire), v \in Values : Harm("damaged", [wire EXCEPT ![i] = v])
  BY DEF Damage
<1>2. /\ wire' = [wire EXCEPT ![i] = v] /\ state' = "damaged" /\ out' = out
      /\ wire \in Seq(Byte) /\ OutOK(out) /\ v \in Byte
  BY <1>1, Consts DEF Harm, DInv
<1>3. [wire EXCEPT ![i] = v] \in Seq(Byte)
  BY <1>2, ExceptSeq
<1> QED BY <1>2, <1>3 DEF DInv

LEMMA DPad == ASSUME DInv, Pad PROVE DInv'
<1>1. PICK v \in Values : Harm("padded", Append(wire, v))
  BY DEF Pad
<1> DEFINE b == Append(wire, v)
           F == Full(sent)
<1>2. /\ state = "sent" /\ wire' = b /\ state' = "padded" /\ sent' = sent /\ out' = out
  BY <1>1 DEF Harm
<1>3. /\ wire \in Seq(Byte) /\ OutOK(out) /\ Sendable(sent) /\ Agrees(wire, 0, F)
      /\ Len(F) = Len(wire)
  BY <1>2 DEF DInv
<1>4. Len(wire) \in Nat /\ v \in Byte
  BY <1>3, LenProperties, Consts
<1>5. b \in Seq(Byte) /\ Len(b) = Len(wire) + 1 /\ \A i \in 1 .. Len(wire) : b[i] = wire[i]
  BY <1>3, <1>4, AppendProperties
<1> HIDE DEF b, F
<1>6. Agrees(b, 0, F)
  <2> SUFFICES ASSUME NEW i \in 1 .. Len(F), 0 + i <= Len(b) PROVE b[0 + i] = F[i]
    BY DEF Agrees
  <2>1. i \in 1 .. Len(wire) /\ 0 + i = i /\ 0 + i <= Len(wire)
    BY <1>3, <1>4
  <2>2. wire[0 + i] = F[i]
    BY <2>1, <1>3 DEF Agrees
  <2> QED BY <2>1, <2>2, <1>5
<1>7. Len(F) <= Len(b)
  BY <1>3, <1>4, <1>5
<1> QED BY <1>2, <1>3, <1>5, <1>6, <1>7 DEF DInv, F

LEMMA DReceive == ASSUME DInv, Receive PROVE DInv'
<1>1. wire \in Seq(Byte) /\ wire' = wire /\ state' = "ready" /\ out' = wake_dgram_decode(wire)
  BY DEF DInv, Receive
<1>2. OutOK(wake_dgram_decode(wire))
  BY <1>1, DecodeOut
<1> QED BY <1>1, <1>2 DEF DInv

LEMMA DStep == DInv /\ [Next]_vars => DInv'
<1> SUFFICES ASSUME DInv, [Next]_vars PROVE DInv'
  OBVIOUS
<1>1. ASSUME NEW m \in Messages, NEW c \in Caps, Send(m, c) PROVE DInv'
  BY <1>1, DSend
<1>2. CASE UNCHANGED vars
  BY <1>2 DEF DInv, vars
<1> QED BY <1>1, <1>2, DCut, DDamage, DPad, DReceive DEF Next

LEMMA DInvariant == Spec => []DInv
BY DInit, DStep, PTL DEF Spec

\* Whatever the transport did to a datagram, what wake_dgram_decode lets through
\* has at most MAX_UPDATES updates, at most MAX_PAYLOAD payload bytes and whole
\* identifiers, and every part of it consists of bytes of the datagram, for
\* every length, cap and message.
THEOREM TypeCorrect == Spec => []TypeOK
<1>1. DInv => TypeOK
  BY DEF DInv, OutOK, TypeOK
<1> QED BY <1>1, DInvariant, PTL

\* The decoder inverts the three encoders: a datagram that arrives whole, padded
\* or not, gives the message that was encoded, its updates cut to MAX_UPDATES.
THEOREM RoundTripCorrect == Spec => RoundTrip
<1> DEFINE Act == Receive /\ state \in {"sent", "padded"} => out' = Clamped(sent)
<1>1. ASSUME DInv, Receive, state \in {"sent", "padded"} PROVE out' = Clamped(sent)
  <2>1. /\ wire \in Seq(Byte) /\ Sendable(sent) /\ Agrees(wire, 0, Full(sent))
        /\ Len(Full(sent)) = Len(wire) \/ Len(Full(sent)) <= Len(wire)
    BY <1>1 DEF DInv
  <2>2. Len(Full(sent)) <= Len(wire)
    BY <2>1, FullOK
  <2>3. wake_dgram_decode(wire) = Clamped(sent)
    BY <2>1, <2>2, FullDecodes DEF Decodes
  <2> QED BY <1>1, <2>3 DEF Receive
<1>2. DInv /\ [Next]_vars => [Act]_vars
  BY <1>1
<1>3. RoundTrip <=> [][Act]_vars
  BY PTL DEF RoundTrip
<1> HIDE DEF Act
<1> QED BY <1>2, <1>3, DInvariant, PTL DEF Spec

\* The decoder rejects a datagram that has lost its end, however many bytes are
\* left, but for a SWIM message cut right before the count of its updates, which
\* it takes for the same message without updates.
THEOREM CutNoticedCorrect == Spec => CutNoticed
<1> DEFINE Act == Receive /\ state = "cut" =>
                    \/ out' = Rejected
                    \/ /\ sent.type \in {PING, ACK, PING_REQ}
                       /\ Len(wire) = HDR_SIZE + Len(sent.target)
                       /\ out' = [sent EXCEPT !.updates = <<>>]
<1>1. ASSUME DInv, Receive, state = "cut"
      PROVE  \/ out' = Rejected
             \/ /\ sent.type \in {PING, ACK, PING_REQ}
                /\ Len(wire) = HDR_SIZE + Len(sent.target)
                /\ out' = [sent EXCEPT !.updates = <<>>]
  <2>1. /\ wire \in Seq(Byte) /\ Sendable(sent) /\ Agrees(wire, 0, Full(sent))
        /\ Len(wire) < Len(Full(sent))
    BY <1>1 DEF DInv
  <2>2. Decodes(wire, Full(sent), sent)
    BY <2>1, FullDecodes
  <2>3. out' = wake_dgram_decode(wire)
    BY <1>1 DEF Receive
  <2> QED BY <2>1, <2>2, <2>3 DEF Decodes
<1>2. DInv /\ [Next]_vars => [Act]_vars
  BY <1>1
<1>3. CutNoticed <=> [][Act]_vars
  BY PTL DEF CutNoticed
<1> HIDE DEF Act
<1> QED BY <1>2, <1>3, DInvariant, PTL DEF Spec

=============================================================================
