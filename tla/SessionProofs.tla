---------------------------- MODULE SessionProofs ----------------------------
(***************************************************************************)
(* Proofs about Session, for any messages, any replies and any size of     *)
(* packet and pool, and wherever send cuts the bytes.  The inductive       *)
(* invariant has four parts: Held, what the variables are, Replied, where  *)
(* the bytes written are, Framed, where those of the stream are, and       *)
(* Answering, which replies they are of.  Each theorem names what it       *)
(* assumes: RepliesFit where fillMsg must not read beyond a reply, and     *)
(* Cuts = "message" where whole messages must arrive.                      *)
(***************************************************************************)
EXTENDS Session, SequenceLemmas, FiniteSetTheorems

(***************************************************************************)
(* Sequences.                                                              *)
(***************************************************************************)

(* What is left of a sequence when its front is replaced. *)
LEMMA Refronted ==
  ASSUME NEW S, NEW s \in Seq(S), s # <<>>, NEW x \in S
  PROVE  /\ Head(s) = s[1] /\ Len(s) \in Nat \ {0}
         /\ <<x>> \o Tail(s) \in Seq(S)
         /\ Len(<<x>> \o Tail(s)) = Len(s)
         /\ (<<x>> \o Tail(s))[1] = x
         /\ \A i \in 2 .. Len(s) : (<<x>> \o Tail(s))[i] = s[i]
<1>1. Len(s) \in Nat \ {0}
  BY EmptySeq
<1>2. Head(s) = s[1]
  BY <1>1
<1>3. Tail(s) \in Seq(S) /\ Len(Tail(s)) = Len(s) - 1
      /\ \A i \in 1 .. Len(Tail(s)) : Tail(s)[i] = s[i + 1]
  BY HeadTailProperties
<1>4. <<x>> \in Seq(S) /\ Len(<<x>>) = 1 /\ <<x>>[1] = x
  OBVIOUS
<1> DEFINE t == Tail(s)
           o == <<x>>
<1>5. /\ o \o t \in Seq(S)
      /\ Len(o \o t) = Len(o) + Len(t)
      /\ \A i \in 1 .. Len(o) + Len(t) : (o \o t)[i] = IF i <= Len(o) THEN o[i] ELSE t[i - Len(o)]
  BY <1>3, <1>4, ConcatProperties
<1> HIDE DEF o, t
<1>6. Len(o) = 1 /\ Len(t) = Len(s) - 1 /\ o[1] = x
      /\ \A i \in 1 .. Len(s) - 1 : t[i] = s[i + 1]
  BY <1>3, <1>4 DEF o, t
<1>7. Len(o \o t) = Len(s)
  BY <1>1, <1>5, <1>6
<1>8. \A i \in 1 .. Len(s) : (o \o t)[i] = IF i <= 1 THEN o[i] ELSE t[i - 1]
  BY <1>1, <1>5, <1>6
<1>9. (o \o t)[1] = x /\ \A i \in 2 .. Len(s) : (o \o t)[i] = s[i]
  <2>1. \A i \in 2 .. Len(s) : i - 1 \in 1 .. Len(s) - 1 /\ i \in 1 .. Len(s) /\ ~ (i <= 1)
    BY <1>1
  <2>2. \A i \in 2 .. Len(s) : (o \o t)[i] = t[i - 1]
    BY <1>8, <2>1
  <2>3. \A i \in 2 .. Len(s) : t[i - 1] = s[i]
    BY <1>6, <2>1
  <2> QED
    <3>1. 1 \in 1 .. Len(s) /\ 1 <= 1
      BY <1>1
    <3>2. (o \o t)[1] = o[1]
      BY <1>8, <3>1
    <3> QED
      BY <1>6, <2>2, <2>3, <3>2
<1> QED
  BY <1>1, <1>2, <1>5, <1>7, <1>9 DEF o, t

(***************************************************************************)
(* Packets.                                                                *)
(***************************************************************************)

(* Packets whose bytes are of B, written no further than they are long. *)
Packets(B) == {p \in Packet(B) : p.wpos <= p.size}

LEMMA PacketsGrow ==
  ASSUME NEW B, NEW C, B \subseteq C
  PROVE  Packet(B) \subseteq Packet(C) /\ Packets(B) \subseteq Packets(C)
<1>1. Seq(B) \subseteq Seq(C)
  BY SeqMonotonic
<1>2. Packet(B) \subseteq Packet(C)
  BY <1>1 DEF Packet
<1> QED
  BY <1>2 DEF Packets

(* An empty packet is empty, and a new one is. *)
LEMMA Emptied ==
  /\ \A p \in Packet({}) : p.unread = <<>>
  /\ \A B : \A p \in Packet(B) : p.unread = <<>> => p \in Packet({})
  /\ \A B : NewPacket \in Packets(B) /\ NewPacket.unread = <<>>
<1>1. \A s \in Seq({}) : s = <<>>
  <2>1. SUFFICES ASSUME NEW s \in Seq({}), s # <<>>
                 PROVE  FALSE
    OBVIOUS
  <2>2. Len(s) \in Nat \ {0} /\ s \in [1 .. Len(s) -> {}]
    BY <2>1, EmptySeq, LenProperties
  <2>3. 1 \in 1 .. Len(s)
    BY <2>2
  <2>4. s[1] \in {}
    BY <2>2, <2>3
  <2> QED
    BY <2>4
<1>2. \A B : <<>> \in Seq(B)
  OBVIOUS
<1>3. MSS \in Nat
  BY SessionAssumption
<1> QED
  BY <1>1, <1>2, <1>3 DEF Packet, Packets, NewPacket

LEMMA AppendedTo ==
  ASSUME NEW B, NEW p \in Packets(B), NEW bytes \in Seq(B)
  PROVE  /\ Appended(p, bytes) \in Packets(B)
         /\ p.unread = <<>> => Appended(p, bytes).unread = bytes
<1>1. Len(bytes) \in Nat /\ p.unread \in Seq(B) /\ p.wpos \in Nat /\ p.size \in Nat
      /\ p.wpos <= p.size
  BY LenProperties DEF Packets, Packet
<1>2. p.unread \o bytes \in Seq(B)
  BY <1>1, ConcatProperties
<1>3. p.unread = <<>> => p.unread \o bytes = bytes
  BY <1>1, ConcatEmptySeq
<1> DEFINE n == Len(bytes)
           u == p.unread \o bytes
<1>4. n \in Nat /\ u \in Seq(B) /\ (p.unread = <<>> => u = bytes)
  BY <1>1, <1>2, <1>3
<1>5. Appended(p, bytes) = [size |-> IF p.size < p.wpos + n THEN p.wpos + n ELSE p.size,
                            wpos |-> p.wpos + n, unread |-> u]
  BY DEF Appended
<1> HIDE DEF n, u
<1> QED
  BY <1>1, <1>4, <1>5 DEF Packets, Packet

LEMMA ReadFrom ==
  ASSUME NEW B, NEW p \in Packet(B), NEW n \in 0 .. readableSize(p)
  PROVE  /\ Read(p, n) \in Packet(B)
         /\ p \in Packets(B) => Read(p, n) \in Packets(B)
         /\ readableSize(p) \in Nat
         /\ readableSize(Read(p, n)) = readableSize(p) - n
         /\ \A i \in 1 .. readableSize(p) - n : Read(p, n).unread[i] = p.unread[n + i]
<1> DEFINE s == p.unread
           t == SubSeq(s, n + 1, Len(s))
<1>1. s \in Seq(B) /\ Len(s) \in Nat /\ s \in [1 .. Len(s) -> B] /\ n \in 0 .. Len(s)
      /\ p.size \in Nat /\ p.wpos \in Nat
      /\ p = [size |-> p.size, wpos |-> p.wpos, unread |-> s]
  BY LenProperties DEF Packet, readableSize
<1> HIDE DEF s
<1>2. PICK l \in Nat : l = Len(s)
  BY <1>1
<1>3. n \in Int /\ n + 1 \in Int /\ l \in Int /\ \A i \in n + 1 .. l : s[i] \in B
  BY <1>1, <1>2
<1>4. /\ SubSeq(s, n + 1, l) \in Seq(B)
      /\ Len(SubSeq(s, n + 1, l)) = IF n + 1 <= l THEN l - (n + 1) + 1 ELSE 0
      /\ \A i \in 1 .. l - (n + 1) + 1 : SubSeq(s, n + 1, l)[i] = s[(n + 1) + i - 1]
  BY <1>3, SubSeqProperties
<1>5. t \in Seq(B) /\ Len(t) = l - n /\ \A i \in 1 .. l - n : t[i] = s[n + i]
  <2>1. t = SubSeq(s, n + 1, l) /\ n \in Nat /\ n <= l
    BY <1>1, <1>2
  <2> HIDE DEF t
  <2>2. t \in Seq(B) /\ Len(t) = l - n
    BY <1>4, <2>1
  <2>3. ASSUME NEW i \in 1 .. l - n PROVE t[i] = s[n + i]
    <3>1. i \in 1 .. l - (n + 1) + 1 /\ (n + 1) + i - 1 = n + i
      BY <2>1
    <3> QED
      BY <1>4, <2>1, <3>1
  <2> QED
    BY <2>2, <2>3
<1>6. Read(p, n) = [size |-> p.size, wpos |-> p.wpos, unread |-> t]
  <2>1. p \in [size : Nat, wpos : Nat, unread : Seq(B)]
    BY DEF Packet
  <2> HIDE DEF t
  <2>2. Read(p, n) = [p EXCEPT !.unread = t]
    BY DEF Read, t, s
  <2> QED
    BY <2>1, <2>2
<1> HIDE DEF t
<1>7. Read(p, n).unread = t /\ readableSize(Read(p, n)) = Len(t) /\ readableSize(p) = l
  BY <1>2, <1>6 DEF readableSize, s
<1>8. Read(p, n) \in Packet(B)
  BY <1>1, <1>5, <1>6 DEF Packet
<1>9. p \in Packets(B) => Read(p, n) \in Packets(B)
  BY <1>6, <1>8 DEF Packets
<1> QED
  BY <1>2, <1>5, <1>7, <1>8, <1>9 DEF s

(***************************************************************************)
(* The pool of packets, and the packets of a message.                      *)
(***************************************************************************)

(* The pool grows by as many objects as are missing, or more. *)
LEMMA Enough ==
  ASSUME NEW n \in Nat
  PROVE  Rounds(n) \in Nat /\ KEEP_SIZE * Rounds(n) \in Nat /\ n <= KEEP_SIZE * Rounds(n)
<1>1. PICK k \in Nat \ {0} : k = KEEP_SIZE
  BY SessionAssumption
<1>2. PICK m \in Nat : m = n + k - 1
  BY <1>1
<1>3. PICK r \in Nat : r = m \div k
  OBVIOUS
<1>4. m = k * r + (m % k) /\ m % k \in 0 .. k - 1
  BY <1>3
<1>5. PICK y \in Nat : y = k * r
  BY <1>1
<1>6. n <= y
  BY <1>1, <1>2, <1>4, <1>5
<1>7. Rounds(n) = r
  BY <1>1, <1>2, <1>3 DEF Rounds
<1> QED
  BY <1>1, <1>5, <1>6, <1>7

(* However many packets are taken, the pool finds them all. *)
LEMMA Stock ==
  ASSUME NEW P, NewPacket \in P, NEW pool \in Seq(P), NEW n \in Nat
  PROVE  /\ Taken(pool, n) \in Seq(P) /\ Len(Taken(pool, n)) = n
         /\ Left(pool, n) \in Seq(P)
<1> DEFINE s == Stocked(pool, n)
<1>1. Len(pool) \in Nat
  BY LenProperties
<1>2. s \in Seq(P) /\ Len(s) \in Nat /\ n <= Len(s)
  <2>1. CASE n <= Len(pool)
    BY <1>1, <2>1 DEF Stocked
  <2>2. CASE ~ (n <= Len(pool))
    <3>1. PICK d \in Nat, g \in Nat :
            d = n - Len(pool) /\ g = KEEP_SIZE * Rounds(d) /\ d <= g
      <4>1. PICK d \in Nat : d = n - Len(pool)
        BY <1>1, <2>2
      <4> QED
        BY <4>1, Enough
    <3> DEFINE q == [i \in 1 .. g |-> NewPacket]
    <3>2. q \in Seq(P) /\ Len(q) = g
      <4>1. q \in [1 .. g -> P]
        OBVIOUS
      <4> HIDE DEF q
      <4> QED
        BY <4>1, Listed
    <3>3. s = pool \o q
      BY <2>2, <3>1 DEF Stocked
    <3> HIDE DEF q, s
    <3>4. pool \o q \in Seq(P) /\ Len(pool \o q) = Len(pool) + Len(q)
      BY <3>2, ConcatProperties
    <3>5. s \in Seq(P) /\ Len(s) = Len(pool) + g
      BY <3>2, <3>3, <3>4
    <3> QED
      BY <1>1, <3>1, <3>5
  <2> QED
    BY <2>1, <2>2
<1>3. Taken(pool, n) = SubSeq(s, 1, n) /\ Left(pool, n) = SubSeq(s, n + 1, Len(s))
  BY DEF Taken, Left
<1> HIDE DEF s
<1>4. PICK l \in Nat : l = Len(s)
  BY <1>2
<1>5. s \in [1 .. l -> P] /\ n \in 0 .. l /\ n \in Int /\ n + 1 \in Int /\ l \in Int
  BY <1>1, <1>2, <1>4, LenProperties
<1>6. (\A i \in 1 .. n : s[i] \in P) /\ \A i \in n + 1 .. l : s[i] \in P
  BY <1>5
<1>7. SubSeq(s, 1, n) \in Seq(P) /\ Len(SubSeq(s, 1, n)) = IF 1 <= n THEN n - 1 + 1 ELSE 0
  BY <1>5, <1>6, SubSeqProperties
<1>8. SubSeq(s, n + 1, l) \in Seq(P)
  BY <1>5, <1>6, SubSeqProperties
<1> QED
  BY <1>3, <1>4, <1>5, <1>7, <1>8

(* fillMsg needs a packet for each full piece and none besides. *)
LEMMA RoundedUp ==
  ASSUME NEW k \in Nat \ {0}, NEW c \in Nat
  PROVE  (c * k + k - 1) \div k = c
OBVIOUS

(* What fillMsg copies fills its packets, whatever the length was. *)
LEMMA CopiedFits ==
  ASSUME NEW l \in Nat \ {0}
  PROVE  CopiedLen(l) \in Nat \ {0} /\ Fits(CopiedLen(l))
<1>1. PICK k \in Nat \ {0} : k = MSS
  BY SessionAssumption DEF Header, DAN_MSG_ID, DAN_MSG_LEN
<1>2. CASE l <= k
  <2>1. PieceLen(l) = l
    BY <1>1, <1>2 DEF PieceLen
  <2>2. (1 * l + l - 1) \div l = 1
    BY RoundedUp
  <2>3. (l + l - 1) \div l = 1
    BY <2>2
  <2>4. CopiedLen(l) = l
    BY <2>1, <2>3 DEF CopiedLen
  <2> QED
    BY <2>4 DEF Fits
<1>3. CASE ~ (l <= k)
  <2>1. PieceLen(l) = k
    BY <1>1, <1>3 DEF PieceLen
  <2>2. PICK c \in Nat : c = (l + k - 1) \div k
    OBVIOUS
  <2>3. PICK y \in Nat : y = k * c /\ y = c * k
    OBVIOUS
  <2>4. l <= y
    <3>1. PICK m \in Nat : m = l + k - 1
      OBVIOUS
    <3>2. m = k * c + (m % k) /\ m % k \in 0 .. k - 1
      BY <2>2, <3>1
    <3> QED
      BY <2>3, <3>1, <3>2
  <2>5. CopiedLen(l) = y
    BY <2>1, <2>2, <2>3 DEF CopiedLen
  <2>6. PieceLen(y) = k
    BY <1>1, <1>3, <2>4 DEF PieceLen
  <2>7. (y + k - 1) \div k = c
    BY <2>3, RoundedUp
  <2>8. CopiedLen(y) = y
    BY <2>3, <2>6, <2>7 DEF CopiedLen
  <2> QED
    BY <2>4, <2>5, <2>8 DEF Fits
<1> QED
  BY <1>2, <1>3

(* Pieces ps of the bytes, c of them and each of length k. *)
CutInto(ps, bytes, k, c, B) ==
  /\ Len(bytes) = c * k
  /\ ps \in Seq(Seq(B)) /\ Len(ps) = c
  /\ \A i \in 1 .. c : /\ Len(ps[i]) = k
                       /\ \A j \in 1 .. k : ps[i][j] = bytes[(i - 1) * k + j]

(* The pieces of a reply are as long as each other, and are all of it. *)
LEMMA Cut ==
  ASSUME NEW B, NEW bytes \in Seq(B), Len(bytes) >= 1, Fits(Len(bytes))
  PROVE  \E k \in Nat \ {0}, c \in Nat \ {0} : CutInto(Pieces(bytes), bytes, k, c, B)
<1>1. PICK l \in Nat \ {0} : l = Len(bytes)
  BY LenProperties
<1>2. MSS \in Nat \ {0}
  BY SessionAssumption DEF Header, DAN_MSG_ID, DAN_MSG_LEN
<1>3. PICK k \in Nat \ {0} : k = PieceLen(l)
  BY <1>1, <1>2 DEF PieceLen
<1>4. PICK c \in Nat : c = (l + k - 1) \div k
  BY <1>1, <1>3
<1>5. l = c * k /\ c # 0
  <2>1. l = k * c
    BY <1>1, <1>3, <1>4 DEF Fits, CopiedLen
  <2> QED
    BY <1>1, <1>3, <2>1
<1> DEFINE p == Pieces(bytes)
<1>6. p = [i \in 1 .. c |-> SubSeq(bytes, (i - 1) * k + 1, i * k)]
  BY <1>1, <1>3, <1>4 DEF Pieces
<1> HIDE DEF p
<1>7. ASSUME NEW i \in 1 .. c
      PROVE  p[i] \in Seq(B) /\ Len(p[i]) = k /\ \A j \in 1 .. k : p[i][j] = bytes[(i - 1) * k + j]
  <2>1. PICK a \in Nat : a = (i - 1) * k
    BY <1>2
  <2>2. i * k = a + k
    BY <1>2, <2>1
  <2>3. a + k <= l
    <3>1. i * k <= c * k
      BY <1>2
    <3> QED
      BY <1>5, <2>2, <3>1
  <2>4. p[i] = SubSeq(bytes, a + 1, a + k)
    BY <1>6, <2>1, <2>2
  <2>5. bytes \in [1 .. l -> B]
    BY <1>1, LenProperties
  <2>6. a + 1 \in Int /\ a + k \in Int /\ \A j \in a + 1 .. a + k : bytes[j] \in B
    BY <2>3, <2>5
  <2> DEFINE q == SubSeq(bytes, a + 1, a + k)
  <2>7. /\ q \in Seq(B)
        /\ Len(q) = IF a + 1 <= a + k THEN (a + k) - (a + 1) + 1 ELSE 0
        /\ \A j \in 1 .. (a + k) - (a + 1) + 1 : q[j] = bytes[(a + 1) + j - 1]
    BY <2>6, SubSeqProperties
  <2> HIDE DEF q
  <2>8. Len(q) = k
    BY <2>7
  <2>9. ASSUME NEW j \in 1 .. k PROVE q[j] = bytes[a + j]
    <3>1. j \in 1 .. (a + k) - (a + 1) + 1 /\ (a + 1) + j - 1 = a + j
      OBVIOUS
    <3> QED
      BY <2>7, <3>1
  <2> QED
    BY <2>1, <2>4, <2>7, <2>8, <2>9 DEF q
<1>8. p \in Seq(Seq(B)) /\ Len(p) = c
  <2>1. p \in [1 .. c -> Seq(B)]
    BY <1>6, <1>7
  <2> QED
    BY <2>1, Listed
<1>9. CutInto(p, bytes, k, c, B)
  BY <1>1, <1>5, <1>7, <1>8 DEF CutInto
<1> QED
  BY <1>3, <1>5, <1>9 DEF p

LEMMA CutOnce ==
  ASSUME NEW bytes \in Seq(Byte), Len(bytes) >= 1, Fits(Len(bytes))
  PROVE  \E c \in Nat \ {0} : Pieces(bytes) \in Seq(Seq(Byte)) /\ Len(Pieces(bytes)) = c
<1>1. PICK k \in Nat \ {0}, c \in Nat \ {0} : CutInto(Pieces(bytes), bytes, k, c, Byte)
  BY Cut
<1> QED
  BY <1>1 DEF CutInto

(***************************************************************************)
(* What the variables are: objects in the pools carry no bytes as long as  *)
(* the session goes on, and a queued message has a packet, and a task or   *)
(* a sender.                                                               *)
(***************************************************************************)

Queued == {m \in Message : Len(m.packets_) >= 1 /\ m.pCurrPacket_ = <<>>}
Idle == {m \in [packets_ : Seq(Packet({})), pCurrPacket_ : Seq(Packets({}))] :
           Len(m.pCurrPacket_) <= 1}

Requests == {id \in Ids : Handled(id)}

StreamHeld ==
  /\ stream \in Seq([id : Ids, len : Lens, at : Nat])
  /\ received \in Seq(Byte)
  /\ arrived \in 0 .. StreamLen

RecvHeld ==
  /\ pPacket \in Packets({})
  /\ recvBuffer_ \in Seq(Packets(1 .. StreamLen))

HeaderHeld ==
  /\ currMsgId_ \in Ids \cup {0} /\ currMsgLen_ \in Lens \cup {0}
  /\ readLen_ = 0
  /\ procs \in BOOLEAN
  /\ handled \in Seq([id : Requests, body : Seq(Nat)])

SendHeld ==
  /\ sendBuffer_ \in Seq(Queued)
  /\ tasks \in Nat /\ sending \in Nat \cup {-1}
  /\ Len(sendBuffer_) = IF sending = -1 THEN tasks ELSE tasks + 1
  /\ sending # -1 => sending < Len(sendBuffer_[1].packets_)
  /\ \A i \in 1 .. sending : sendBuffer_[1].packets_[i] \in Packet({})

PoolsHeld ==
  /\ packetPool \in Seq(Packet(1 .. StreamLen)) /\ messagePool \in Seq(Message)
  /\ reused \in BOOLEAN
  /\ end \in {"none", "closed", "misread", "killed"}
  /\ end = "none" => packetPool \in Seq(Packets({})) /\ messagePool \in Seq(Idle)

Held ==
  /\ StreamHeld
  /\ RecvHeld
  /\ HeaderHeld
  /\ readyLen_ \in Nat
  /\ SendHeld
  /\ PoolsHeld

LEMMA Numbers ==
  /\ Header = 6 /\ DAN_MSG_ID = 2 /\ DAN_MSG_LEN = 4
  /\ MSS \in Nat /\ MSS >= 6
  /\ KEEP_SIZE \in Nat /\ KEEP_SIZE >= 1
  /\ \A id \in Ids : id \in Nat /\ id >= 1
  /\ \A len \in Lens : len \in Nat
<1>1. Header = 6 /\ DAN_MSG_ID = 2 /\ DAN_MSG_LEN = 4
  BY DEF Header, DAN_MSG_ID, DAN_MSG_LEN
<1>2. Ids \subseteq 1 .. 2 ^ 16 - 1 /\ Lens \subseteq Nat
  BY SessionAssumption
<1>3. 2 ^ 16 \in Nat
  OBVIOUS
<1>4. \A id \in Ids : id \in 1 .. 2 ^ 16 - 1
  BY <1>2
<1>5. \A n \in Nat : 1 .. n - 1 \subseteq Nat \ {0}
  OBVIOUS
<1>6. \A id \in Ids : id \in Nat \ {0}
  BY <1>3, <1>4, <1>5
<1>7. MSS \in Nat /\ MSS >= Header /\ KEEP_SIZE \in Nat \ {0}
  BY SessionAssumption
<1>8. MSS >= 6 /\ KEEP_SIZE \in Nat /\ KEEP_SIZE >= 1
  BY <1>1, <1>7
<1>9. \A id \in Ids : id \in Nat /\ id >= 1
  BY <1>6
<1> QED
  BY <1>1, <1>2, <1>7, <1>8, <1>9

LEMMA StreamEnds ==
  ASSUME stream \in Seq([id : Ids, len : Lens, at : Nat])
  PROVE  StreamLen \in Nat
<1>1. \A len \in Lens : len \in Nat
  BY Numbers
<1>2. CASE stream # <<>>
  <2>1. Len(stream) \in 1 .. Len(stream)
    BY <1>2, EmptySeq
  <2>2. stream[Len(stream)] \in [id : Ids, len : Lens, at : Nat]
    BY <2>1, ElementOfSeq
  <2>3. PICK m \in [id : Ids, len : Lens, at : Nat] : m = stream[Len(stream)]
    BY <2>2
  <2>4. StreamLen = m.at + Header + m.len
    BY <1>2, <2>3 DEF StreamLen, Last
  <2>5. m.at \in Nat /\ m.len \in Nat /\ Header = 6
    BY <1>1, Numbers
  <2> QED
    BY <2>4, <2>5
<1> QED
  BY <1>2 DEF StreamLen

LEMMA MessageParts ==
  /\ Idle \subseteq Message /\ Queued \subseteq Message
  /\ \A m \in Idle : m.packets_ \in Seq(Packet({})) /\ m.pCurrPacket_ \in Seq(Packets({}))
                     /\ Len(m.pCurrPacket_) \in {0, 1}
<1>1. Packet({}) \subseteq Packet(Byte) /\ Packets({}) \subseteq Packet(Byte)
  <2>1. Packet({}) \subseteq Packet(Byte)
    BY PacketsGrow
  <2> QED
    BY <2>1 DEF Packets
<1>2. Seq(Packet({})) \subseteq Seq(Packet(Byte)) /\ Seq(Packets({})) \subseteq Seq(Packet(Byte))
  BY <1>1, SeqMonotonic
<1>3. Idle \subseteq Message
  BY <1>2 DEF Idle, Message
<1>4. \A m \in Idle : Len(m.pCurrPacket_) \in Nat
  BY LenProperties DEF Idle
<1>5. Queued \subseteq Message
  BY DEF Queued
<1>6. ASSUME NEW m \in Idle
      PROVE  m.packets_ \in Seq(Packet({})) /\ m.pCurrPacket_ \in Seq(Packets({}))
             /\ Len(m.pCurrPacket_) \in {0, 1}
  <2>1. m.packets_ \in Seq(Packet({})) /\ m.pCurrPacket_ \in Seq(Packets({}))
        /\ Len(m.pCurrPacket_) <= 1
    BY DEF Idle
  <2>2. PICK n \in Nat : n = Len(m.pCurrPacket_)
    BY <1>4
  <2>3. n \in {0, 1}
    <3>1. n <= 1
      BY <2>1, <2>2
    <3> QED
      BY <3>1
  <2> QED
    BY <2>1, <2>2, <2>3
<1> QED
  BY <1>3, <1>5, <1>6

LEMMA HeldTyped ==
  ASSUME Held
  PROVE  TypeOK
<1>1. PICK L \in Nat : L = StreamLen
  BY StreamEnds DEF Held, StreamHeld
<1>2. Packets(1 .. L) \subseteq Packet(1 .. L)
  BY DEF Packets
<1>3. Seq(Packets(1 .. L)) \subseteq Seq(Packet(1 .. L))
  BY <1>2, SeqMonotonic
<1>4. pPacket \in Packet({}) /\ pPacket.wpos <= pPacket.size
  BY DEF Held, RecvHeld, Packets
<1>5. recvBuffer_ \in Seq(Packet(1 .. StreamLen))
  BY <1>1, <1>3 DEF Held, RecvHeld
<1>6. sendBuffer_ \in Seq(Message)
  BY SeqMonotonic, MessageParts DEF Held, SendHeld
<1>7. sending >= 0 => sending < Len(pSendMsg.packets_)
  <2>1. SUFFICES ASSUME sending >= 0 PROVE sending < Len(pSendMsg.packets_)
    OBVIOUS
  <2>2. sending # -1 /\ sendBuffer_ \in Seq(Queued) /\ Len(sendBuffer_) = tasks + 1 /\ tasks \in Nat
    BY <2>1 DEF Held, SendHeld
  <2>3. Head(sendBuffer_) = sendBuffer_[1]
    BY <2>2
  <2> QED
    BY <2>2, <2>3 DEF Held, SendHeld, pSendMsg
<1> QED
  BY <1>4, <1>5, <1>6, <1>7
     DEF Held, StreamHeld, RecvHeld, HeaderHeld, SendHeld, PoolsHeld, TypeOK

(* Everything there is at first: the session has taken a packet, no more.  *)
LEMMA InitHeld ==
  ASSUME Init
  PROVE  Held
<1>1. KEEP_SIZE \in Nat \ {0} /\ \A S : <<>> \in Seq(S)
  BY SessionAssumption
<1>2. NewPacket \in Packets({})
  BY Emptied
<1>3. packetPool \in Seq(Packets({}))
  <2>1. 1 \in Nat /\ <<>> \in Seq(Packets({}))
    BY <1>1
  <2>2. Left(<<>>, 1) \in Seq(Packets({}))
    BY <1>2, <2>1, Stock
  <2> QED
    BY <2>2 DEF Init
<1>4. StreamLen = 0
  BY DEF Init, StreamLen
<1>5. Packets({}) \subseteq Packet({}) /\ Packet({}) \subseteq Packet(1 .. StreamLen)
  BY PacketsGrow DEF Packets
<1>6. packetPool \in Seq(Packet(1 .. StreamLen))
  BY <1>3, <1>5, SeqMonotonic
<1>7. StreamHeld
  BY <1>1, <1>4 DEF Init, StreamHeld
<1>8. RecvHeld
  BY <1>1, <1>2 DEF Init, RecvHeld
<1>9. SendHeld
  BY <1>1, EmptySeq DEF Init, SendHeld
<1>10. PoolsHeld
  BY <1>1, <1>3, <1>6 DEF Init, PoolsHeld
<1>11. HeaderHeld
  BY <1>1 DEF Init, HeaderHeld
<1> QED
  BY <1>7, <1>8, <1>9, <1>10, <1>11 DEF Init, Held

LEMMA PeerSendHeld ==
  ASSUME Held, PeerSend
  PROVE  Held' /\ StreamLen <= StreamLen'
<1> DEFINE R == [id : Ids, len : Lens, at : Nat]
<1>1. stream \in Seq(R) /\ StreamLen \in Nat
  BY StreamEnds DEF Held, StreamHeld
<1>2. PICK L \in Nat : L = StreamLen
  BY <1>1
<1>3. PICK id \in Ids, len \in Lens : stream' = Append(stream, [id |-> id, len |-> len, at |-> L])
  BY <1>2 DEF PeerSend
<1>4. PICK m \in R : m = [id |-> id, len |-> len, at |-> L]
  OBVIOUS
<1> HIDE DEF R
<1>5. stream' \in Seq(R) /\ stream' # <<>> /\ stream'[Len(stream')] = m
  BY <1>1, <1>3, <1>4, AppendProperties
<1>6. StreamLen' = m.at + Header + m.len
  BY <1>5 DEF StreamLen, Last
<1>7. StreamLen' = L + 6 + len /\ len \in Nat
  BY <1>4, <1>6, Numbers
<1>8. PICK M \in Nat : M = StreamLen'
  BY <1>7
<1>9. 1 .. L \subseteq 1 .. M /\ L <= M
  BY <1>7, <1>8
<1>10. Packets(1 .. L) \subseteq Packets(1 .. M) /\ Packet(1 .. L) \subseteq Packet(1 .. M)
  BY <1>9, PacketsGrow
<1>11. UNCHANGED <<received, arrived, pPacket, recvBuffer_, currMsgId_, currMsgLen_, readLen_,
                   procs, handled, readyLen_, sendBuffer_, tasks, sending, packetPool,
                   messagePool, reused, end>>
  BY DEF PeerSend, recvVars, procVars, sendVars, poolVars
<1>12. StreamHeld'
  <2>1. arrived \in 0 .. L /\ received \in Seq(Byte)
    BY <1>2 DEF Held, StreamHeld
  <2>2. arrived \in 0 .. M
    BY <1>9, <2>1
  <2> QED
    BY <1>5, <1>8, <1>11, <2>1, <2>2 DEF StreamHeld, R
<1>13. RecvHeld'
  <2>1. pPacket \in Packets({}) /\ recvBuffer_ \in Seq(Packets(1 .. L))
    BY <1>2 DEF Held, RecvHeld
  <2>2. recvBuffer_ \in Seq(Packets(1 .. M))
    BY <1>10, <2>1, SeqMonotonic
  <2> QED
    BY <1>8, <1>11, <2>1, <2>2 DEF RecvHeld
<1>14. PoolsHeld'
  <2>1. packetPool \in Seq(Packet(1 .. L))
    BY <1>2 DEF Held, PoolsHeld
  <2>2. packetPool \in Seq(Packet(1 .. M))
    BY <1>10, <2>1, SeqMonotonic
  <2>3. messagePool \in Seq(Message) /\ reused \in BOOLEAN
        /\ end \in {"none", "closed", "misread", "killed"}
        /\ (end = "none" => packetPool \in Seq(Packets({})) /\ messagePool \in Seq(Idle))
    BY DEF Held, PoolsHeld
  <2> QED
    BY <1>8, <1>11, <2>2, <2>3 DEF PoolsHeld
<1>15. HeaderHeld' /\ SendHeld' /\ (readyLen_ \in Nat)'
  BY <1>11 DEF Held, HeaderHeld, SendHeld
<1> QED
  BY <1>2, <1>8, <1>9, <1>12, <1>13, <1>14, <1>15 DEF Held

(* Each delivery goes to the packet at hand, and an empty one takes its    *)
(* place. *)
LEMMA RecvHeldOn ==
  ASSUME Held, RecvFromFd
  PROVE  Held'
<1>1. StreamLen \in Nat
  BY StreamEnds DEF Held, StreamHeld
<1>2. PICK L \in Nat : L = StreamLen
  BY <1>1
<1>3. stream' = stream /\ StreamLen' = L
  BY <1>2 DEF RecvFromFd, peerVars, StreamLen
<1>4. end = "none" /\ packetPool \in Seq(Packets({})) /\ messagePool \in Seq(Idle)
  BY DEF RecvFromFd, InLoop, Held, PoolsHeld
<1>5. pPacket \in Packets({}) /\ recvBuffer_ \in Seq(Packets(1 .. L))
      /\ arrived \in 0 .. L /\ received \in Seq(Byte)
  BY <1>2 DEF Held, RecvHeld, StreamHeld
<1>6. pPacket.size \in Nat /\ pPacket.wpos \in Nat
  BY <1>5 DEF Packets, Packet
<1>7. HeaderHeld'
  BY DEF RecvFromFd, Held, HeaderHeld
<1>8. SendHeld'
  BY DEF RecvFromFd, sendVars, Held, SendHeld
<1>9. messagePool' = messagePool /\ received' = received
  BY DEF RecvFromFd, peerVars
<1>10. Packets({}) \subseteq Packet({}) /\ Packet({}) \subseteq Packet(1 .. L)
       /\ Packets({}) \subseteq Packets(1 .. L)
  <2>1. Packets({}) \subseteq Packet({})
    BY DEF Packets
  <2> QED
    BY <2>1, PacketsGrow
<1>11. Seq(Packets({})) \subseteq Seq(Packet(1 .. L))
  BY <1>10, SeqMonotonic
<1> DEFINE room == pPacket.size - pPacket.wpos
<1>12. CASE /\ end' = "closed"
            /\ packetPool' = Append(packetPool, pPacket)
            /\ UNCHANGED <<recvVars, recvBuffer_, readyLen_, reused>>
  <2>2. packetPool' \in Seq(Packets({}))
    BY <1>4, <1>5, <1>12, AppendProperties
  <2>3. packetPool' \in Seq(Packet(1 .. L))
    BY <1>11, <2>2
  <2>4. StreamHeld' /\ RecvHeld' /\ (readyLen_ \in Nat)'
    BY <1>2, <1>3, <1>9, <1>12 DEF StreamHeld, RecvHeld, Held, recvVars
  <2>5. PoolsHeld'
    BY <1>3, <1>9, <1>12, <2>3 DEF PoolsHeld, Held
  <2> QED
    BY <1>7, <1>8, <2>4, <2>5 DEF Held
<1>13. CASE \E upto \in MayArrive :
              LET len == IF room < upto - arrived THEN room ELSE upto - arrived
              IN
                  /\ len > 0
                  /\ recvBuffer_' = Append(recvBuffer_,
                                      Appended(pPacket, [k \in 1 .. len |-> arrived + k]))
                  /\ readyLen_' = readyLen_ + len
                  /\ arrived' = arrived + len
                  /\ pPacket' = Taken(packetPool, 1)[1]
                  /\ packetPool' = Left(packetPool, 1)
                  /\ reused' = (reused \/ Used(<<pPacket'>>))
                  /\ UNCHANGED end
  <2>12. PICK upto \in MayArrive :
           LET len == IF room < upto - arrived THEN room ELSE upto - arrived
           IN  /\ len > 0
               /\ recvBuffer_' = Append(recvBuffer_,
                                   Appended(pPacket, [k \in 1 .. len |-> arrived + k]))
               /\ readyLen_' = readyLen_ + len
               /\ arrived' = arrived + len
               /\ pPacket' = Taken(packetPool, 1)[1]
               /\ packetPool' = Left(packetPool, 1)
               /\ reused' = (reused \/ Used(<<pPacket'>>))
               /\ UNCHANGED end
    BY <1>13
  <2>13. upto \in arrived + 1 .. L
    BY <1>2 DEF MayArrive
  <2>14. PICK len \in Int : len = IF room < upto - arrived THEN room ELSE upto - arrived
    BY <1>5, <1>6, <2>13
  <2>15. len <= upto - arrived
    BY <1>5, <1>6, <2>13, <2>14
  <2> HIDE DEF room
  <2> DEFINE bytes == [k \in 1 .. len |-> arrived + k]
  <2>1. /\ len > 0
        /\ recvBuffer_' = Append(recvBuffer_, Appended(pPacket, bytes))
        /\ readyLen_' = readyLen_ + len
        /\ arrived' = arrived + len
        /\ pPacket' = Taken(packetPool, 1)[1]
        /\ packetPool' = Left(packetPool, 1)
        /\ reused' = (reused \/ Used(<<pPacket'>>))
        /\ UNCHANGED end
    BY <2>12, <2>14
  <2>2. bytes \in Seq(1 .. L)
    <3>1. bytes \in [1 .. len -> 1 .. L] /\ len \in Nat
      BY <1>5, <2>13, <2>15, <2>1
    <3> HIDE DEF bytes
    <3> QED
      BY <3>1, Listed
  <2> HIDE DEF bytes
  <2>3. Appended(pPacket, bytes) \in Packets(1 .. L)
    BY <1>5, <1>10, <2>2, AppendedTo
  <2>4. recvBuffer_' \in Seq(Packets(1 .. L))
    BY <1>5, <2>1, <2>3, AppendProperties
  <2>5. /\ Taken(packetPool, 1) \in Seq(Packets({})) /\ Len(Taken(packetPool, 1)) = 1
        /\ Left(packetPool, 1) \in Seq(Packets({}))
    <3>1. 1 \in Nat /\ NewPacket \in Packets({})
      BY Emptied
    <3>2. PICK pool \in Seq(Packets({})) : pool = packetPool
      BY <1>4
    <3>3. /\ Taken(pool, 1) \in Seq(Packets({})) /\ Len(Taken(pool, 1)) = 1
          /\ Left(pool, 1) \in Seq(Packets({}))
      BY <3>1, Stock
    <3> QED
      BY <3>2, <3>3
  <2>6. pPacket' \in Packets({})
    BY <2>1, <2>5
  <2>7. packetPool' \in Seq(Packet(1 .. L))
    BY <1>11, <2>1, <2>5
  <2>8. readyLen_' \in Nat /\ arrived' \in 0 .. L
    BY <1>5, <2>13, <2>15, <2>1 DEF Held
  <2>9. StreamHeld'
    BY <1>3, <1>9, <2>8 DEF Held, StreamHeld
  <2>10. RecvHeld'
    BY <1>3, <2>4, <2>6 DEF RecvHeld
  <2>11. PoolsHeld'
    <3>1. reused' \in BOOLEAN
      BY <2>1 DEF Held, PoolsHeld, Used
    <3>2. messagePool' \in Seq(Message) /\ messagePool' \in Seq(Idle) /\ end' = end
      BY <1>4, <1>9, <2>1 DEF Held, PoolsHeld
    <3> QED
      BY <1>3, <1>4, <2>1, <2>5, <2>7, <3>1, <3>2 DEF PoolsHeld
  <2> QED
    BY <1>7, <1>8, <2>8, <2>9, <2>10, <2>11 DEF Held
<1> QED
  BY <1>12, <1>13 DEF RecvFromFd

LEMMA IdHeld ==
  ASSUME Held, recvBuffer_ # <<>>
  PROVE  /\ front \in Packets(1 .. StreamLen)
         /\ WithId.packet \in Packets(1 .. StreamLen)
         /\ WithId.id \in Ids \cup {0, -1}
<1>1. recvBuffer_ \in Seq(Packets(1 .. StreamLen)) /\ currMsgId_ \in Ids \cup {0}
      /\ stream \in Seq([id : Ids, len : Lens, at : Nat])
  BY DEF Held, RecvHeld, HeaderHeld, StreamHeld
<1>2. front \in Packets(1 .. StreamLen)
  BY <1>1, HeadTailProperties DEF front
<1>3. CASE currMsgId_ = 0 /\ readableSize(front) >= DAN_MSG_ID
  <2>1. PICK B, p : B = 1 .. StreamLen /\ p = front
    OBVIOUS
  <2>2. p \in Packets(B) /\ p \in Packet(B)
    BY <1>2, <2>1 DEF Packets
  <2>3. readableSize(p) \in Nat
    BY <2>2, LenProperties DEF Packet, readableSize
  <2>4. 2 \in 0 .. readableSize(p)
    BY <1>3, <2>1, <2>3, Numbers
  <2>5. Read(p, 2) \in Packets(B)
    BY <2>2, <2>4, ReadFrom
  <2>6. WithId.packet \in Packets(1 .. StreamLen)
    BY <1>3, <2>1, <2>5, Numbers DEF WithId
  <2>7. ASSUME IdAt(place(front)) # {}
        PROVE  stream[CHOOSE i \in IdAt(place(front)) : TRUE].id \in Ids
    <3>1. \A i \in DOMAIN stream : stream[i] \in [id : Ids, len : Lens, at : Nat]
      BY <1>1, LenProperties
    <3>2. PICK i \in DOMAIN stream : i = CHOOSE j \in IdAt(place(front)) : TRUE
      BY <2>7 DEF IdAt
    <3> QED
      BY <3>1, <3>2
  <2>8. WithId.id \in Ids \cup {-1}
    BY <1>3, <2>7 DEF WithId
  <2> QED
    BY <1>2, <2>6, <2>8
<1>4. CASE ~ (currMsgId_ = 0 /\ readableSize(front) >= DAN_MSG_ID)
  <2>1. WithId = [id |-> currMsgId_, packet |-> front]
    BY <1>4 DEF WithId
  <2> QED
    BY <1>1, <1>2, <2>1
<1> QED
  BY <1>3, <1>4

(* A header that was not misread is one a message has, or none. *)
LEMMA HeaderReadHeld ==
  ASSUME Held, recvBuffer_ # <<>>, NEW h, h \in HeaderRead
  PROVE  /\ h.packet \in Packets(1 .. StreamLen)
         /\ ~ Misread(h) => h.id \in Ids \cup {0} /\ h.len \in Lens \cup {0}
<1>1. h = WithLen(WithId.id, WithId.packet)
  BY DEF HeaderRead
<1>2. PICK id \in Ids \cup {0, -1} : id = WithId.id
  BY IdHeld
<1>3. PICK B, p : B = 1 .. StreamLen /\ p = WithId.packet /\ p \in Packets(B)
  BY IdHeld
<1>4. h = WithLen(id, p) /\ p \in Packet(B)
  BY <1>1, <1>2, <1>3 DEF Packets
<1>5. stream \in Seq([id : Ids, len : Lens, at : Nat]) /\ currMsgLen_ \in Lens \cup {0}
  BY DEF Held, HeaderHeld, StreamHeld
<1>6. CASE currMsgLen_ = 0 /\ readableSize(p) >= DAN_MSG_LEN
  <2>1. readableSize(p) \in Nat
    BY <1>4, LenProperties DEF Packet, readableSize
  <2>2. 4 \in 0 .. readableSize(p)
    BY <1>6, <2>1, Numbers
  <2>3. Read(p, 4) \in Packets(B)
    BY <1>3, <1>4, <2>2, ReadFrom
  <2>4. h.packet = Read(p, 4) /\ h.id = id
    BY <1>4, <1>6, Numbers DEF WithLen
  <2>5. ASSUME LenAt(place(p)) # {}
        PROVE  stream[CHOOSE i \in LenAt(place(p)) : TRUE].len \in Lens
    <3>1. \A i \in DOMAIN stream : stream[i] \in [id : Ids, len : Lens, at : Nat]
      BY <1>5, LenProperties
    <3>2. PICK i \in DOMAIN stream : i = CHOOSE j \in LenAt(place(p)) : TRUE
      BY <2>5 DEF LenAt
    <3> QED
      BY <3>1, <3>2
  <2>6. h.len \in Lens \cup {-1}
    BY <1>4, <1>6, <2>5 DEF WithLen
  <2> QED
    BY <1>3, <2>3, <2>4, <2>6 DEF Misread
<1>7. CASE ~ (currMsgLen_ = 0 /\ readableSize(p) >= DAN_MSG_LEN)
  <2>1. h = [id |-> id, len |-> currMsgLen_, packet |-> p]
    BY <1>4, <1>7 DEF WithLen
  <2> QED
    BY <1>3, <1>5, <2>1 DEF Misread
<1> QED
  BY <1>6, <1>7

(* What a reply finds of messages and packets: idle ones, its own packets  *)
(* new unless one of them was used before. *)
LEMMA Supplied ==
  ASSUME NEW pool \in Seq(Packets({})), NEW n \in Nat
  PROVE  /\ Taken(pool, n) \in Seq(Packets({})) /\ Len(Taken(pool, n)) = n
         /\ Left(pool, n) \in Seq(Packets({}))
BY Emptied, Stock

LEMMA AvailableHeld ==
  ASSUME packetPool \in Seq(Packets({})), messagePool \in Seq(Idle)
  PROVE  /\ Available.messages \in Seq(Idle) /\ Available.messages # <<>>
         /\ Available.packets \in Seq(Packets({}))
<1>1. CASE messagePool = <<>>
  <2>1. PICK pool \in Seq(Packets({})) : pool = packetPool
    OBVIOUS
  <2>2. PICK K \in Nat : K = KEEP_SIZE /\ K >= 1
    BY Numbers
  <2>3. /\ Taken(pool, K) \in Seq(Packets({})) /\ Len(Taken(pool, K)) = K
        /\ Left(pool, K) \in Seq(Packets({}))
    BY <2>2, Supplied
  <2> DEFINE ms == [i \in 1 .. K |-> [packets_ |-> <<>>, pCurrPacket_ |-> <<Taken(pool, K)[i]>>]]
  <2>4. ASSUME NEW i \in 1 .. K
        PROVE  ms[i] \in Idle
    <3>1. PICK p \in Packets({}) : p = Taken(pool, K)[i]
      BY <2>3, ElementOfSeq
    <3>2. ms[i] = [packets_ |-> <<>>, pCurrPacket_ |-> <<p>>]
      BY <3>1
    <3>3. <<>> \in Seq(Packet({})) /\ <<p>> \in Seq(Packets({})) /\ Len(<<p>>) <= 1
      OBVIOUS
    <3>4. PICK e \in Seq(Packet({})), q \in Seq(Packets({})) :
            e = <<>> /\ q = <<p>> /\ Len(q) <= 1
      BY <3>3
    <3>5. ms[i] = [packets_ |-> e, pCurrPacket_ |-> q]
      BY <3>2, <3>4
    <3>6. [packets_ |-> e, pCurrPacket_ |-> q] \in Idle
      BY <3>4 DEF Idle
    <3> QED
      BY <3>5, <3>6
  <2>5. ms \in [1 .. K -> Idle]
    BY <2>4
  <2>6. BuiltMessages = [messages |-> ms, packets |-> Left(pool, K)]
    BY <2>1, <2>2 DEF BuiltMessages
  <2> HIDE DEF ms
  <2>7. ms \in Seq(Idle) /\ Len(ms) = K
    BY <2>5, Listed
  <2>8. ms # <<>>
    BY <2>2, <2>7, EmptySeq
  <2> QED
    BY <1>1, <2>3, <2>6, <2>7, <2>8 DEF Available
<1>2. CASE messagePool # <<>>
  BY <1>2 DEF Available
<1> QED
  BY <1>1, <1>2

LEMMA SendQueues ==
  ASSUME Held, end = "none",
         NEW bytes \in Seq(Byte), Len(bytes) >= 1, Fits(Len(bytes)), SendToFd(bytes)
  PROVE  \E m \in Idle, q \in Seq(Packet(Byte)) :
           /\ sendBuffer_' = Append(sendBuffer_, [packets_ |-> m.packets_ \o q, pCurrPacket_ |-> <<>>])
           /\ Len(q) = Len(Pieces(bytes))
           /\ \A i \in 1 .. Len(q) : q[i].unread = Pieces(bytes)[i]
           /\ ~ reused' => m.packets_ = <<>>
           /\ (reused => reused') /\ reused' \in BOOLEAN
           /\ tasks' = tasks + 1
           /\ packetPool' \in Seq(Packets({})) /\ messagePool' \in Seq(Idle)
<1>1. packetPool \in Seq(Packets({})) /\ messagePool \in Seq(Idle)
  BY DEF Held, PoolsHeld
<1>2. PICK from, pieces :
        /\ from = Available /\ pieces = Pieces(bytes)
        /\ LET m == Head(from.messages)
               more == Len(pieces) - Len(m.pCurrPacket_)
               packets == m.pCurrPacket_ \o Taken(from.packets, more)
           IN  /\ sendBuffer_' = Append(sendBuffer_,
                     [packets_ |-> m.packets_ \o [i \in DOMAIN pieces |-> Appended(packets[i], pieces[i])],
                      pCurrPacket_ |-> <<>>])
               /\ tasks' = tasks + 1
               /\ messagePool' = Tail(from.messages)
               /\ packetPool' = Left(from.packets, more)
               /\ reused' = (reused \/ m.packets_ # <<>> \/ Used(packets))
  BY DEF SendToFd
<1>3. from.messages \in Seq(Idle) /\ from.messages # <<>> /\ from.packets \in Seq(Packets({}))
  BY <1>1, <1>2, AvailableHeld
<1>4. PICK pool \in Seq(Packets({})) : pool = from.packets
  BY <1>3
<1>5. PICK m \in Idle : m = Head(from.messages)
  BY <1>3, HeadTailProperties
<1>6. messagePool' \in Seq(Idle)
  BY <1>2, <1>3, HeadTailProperties
<1>7. PICK c \in Nat \ {0} : Pieces(bytes) \in Seq(Seq(Byte)) /\ Len(Pieces(bytes)) = c
  BY CutOnce
<1>8. pieces \in Seq(Seq(Byte)) /\ Len(pieces) = c /\ DOMAIN pieces = 1 .. c
  BY <1>2, <1>7, LenProperties
<1>9. PICK b \in Seq(Packets({})) : b = m.pCurrPacket_ /\ Len(b) \in {0, 1}
  BY <1>5, MessageParts
<1>10. PICK more \in Nat : more = c - Len(b) /\ Len(b) + more = c
  <2>1. PICK n \in {0, 1} : n = Len(b)
    BY <1>9
  <2>2. c - n \in Nat /\ n + (c - n) = c
    BY <2>1
  <2> QED
    BY <2>1, <2>2
<1>11. /\ Taken(pool, more) \in Seq(Packets({})) /\ Len(Taken(pool, more)) = more
       /\ Left(pool, more) \in Seq(Packets({}))
  BY Supplied
<1> DEFINE packets == b \o Taken(pool, more)
           q == [i \in 1 .. c |-> Appended(packets[i], pieces[i])]
<1>12. /\ sendBuffer_' = Append(sendBuffer_, [packets_ |-> m.packets_ \o q, pCurrPacket_ |-> <<>>])
       /\ tasks' = tasks + 1
       /\ packetPool' = Left(pool, more)
       /\ reused' = (reused \/ m.packets_ # <<>> \/ Used(packets))
  BY <1>2, <1>4, <1>5, <1>8, <1>9, <1>10
<1>13. packets \in [1 .. c -> Packets({})]
  <2>1. PICK t \in Seq(Packets({})) : t = Taken(pool, more) /\ Len(t) = more
    BY <1>11
  <2>2. b \o t \in Seq(Packets({})) /\ Len(b \o t) = Len(b) + Len(t)
    BY ConcatProperties
  <2>3. packets \in Seq(Packets({})) /\ Len(packets) = c
    BY <1>10, <2>1, <2>2
  <2> HIDE DEF packets
  <2> QED
    BY <2>3, LenProperties
<1>14. Packets({}) \subseteq Packets(Byte) /\ Packets(Byte) \subseteq Packet(Byte)
  BY PacketsGrow DEF Packets
<1> HIDE DEF packets
<1>15. ASSUME NEW i \in 1 .. c
       PROVE  q[i] \in Packet(Byte) /\ q[i].unread = pieces[i]
  <2>1. PICK p \in Packets(Byte) : p = packets[i] /\ p \in Packets({})
    BY <1>13, <1>14
  <2>2. p.unread = <<>>
    BY <2>1, Emptied DEF Packets
  <2>3. PICK piece \in Seq(Byte) : piece = pieces[i]
    BY <1>8, ElementOfSeq
  <2>4. q[i] = Appended(p, piece)
    BY <2>1, <2>3
  <2>5. Appended(p, piece) \in Packets(Byte) /\ Appended(p, piece).unread = piece
    BY <2>2, AppendedTo
  <2> QED
    BY <1>14, <2>3, <2>4, <2>5
<1>16. q \in Seq(Packet(Byte)) /\ Len(q) = c
  <2>1. q \in [1 .. c -> Packet(Byte)]
    BY <1>15
  <2> HIDE DEF q
  <2> QED
    BY <1>8, <2>1, Listed
<1> HIDE DEF q
<1>17. reused' \in BOOLEAN /\ (reused => reused') /\ (~ reused' => m.packets_ = <<>>)
  BY <1>12 DEF Held, PoolsHeld, Used
<1>18. Len(q) = Len(Pieces(bytes)) /\ \A i \in 1 .. Len(q) : q[i].unread = Pieces(bytes)[i]
  BY <1>2, <1>8, <1>15, <1>16
<1> QED
  BY <1>6, <1>11, <1>12, <1>16, <1>17, <1>18

(* A message from the pool with a reply in it can be queued. *)
LEMMA QueuedWith ==
  ASSUME NEW m \in Idle, NEW q \in Seq(Packet(Byte)), Len(q) >= 1
  PROVE  /\ m.packets_ \o q \in Seq(Packet(Byte))
         /\ [packets_ |-> m.packets_ \o q, pCurrPacket_ |-> <<>>] \in Queued
         /\ Len(m.packets_) \in Nat /\ Len(m.packets_ \o q) = Len(m.packets_) + Len(q)
         /\ \A i \in 1 .. Len(m.packets_) :
              (m.packets_ \o q)[i] \in Packet({}) /\ (m.packets_ \o q)[i] = m.packets_[i]
         /\ \A i \in 1 .. Len(q) : (m.packets_ \o q)[Len(m.packets_) + i] = q[i]
<1>1. PICK old \in Seq(Packet({})) : old = m.packets_
  BY MessageParts
<1>2. old \in Seq(Packet(Byte)) /\ old \in [1 .. Len(old) -> Packet({})]
  <2>1. Packet({}) \subseteq Packet(Byte)
    BY PacketsGrow
  <2> QED
    BY <2>1, SeqMonotonic, LenProperties
<1>3. PICK n \in Nat, c \in Nat : n = Len(old) /\ c = Len(q)
  BY LenProperties
<1>4. /\ old \o q \in Seq(Packet(Byte))
      /\ Len(old \o q) = Len(old) + Len(q)
      /\ \A i \in 1 .. Len(old) + Len(q) :
           (old \o q)[i] = IF i <= Len(old) THEN old[i] ELSE q[i - Len(old)]
  BY <1>2, ConcatProperties
<1> DEFINE s == old \o q
<1>5. s \in Seq(Packet(Byte)) /\ Len(s) = n + c
      /\ \A i \in 1 .. n + c : s[i] = IF i <= n THEN old[i] ELSE q[i - n]
  BY <1>3, <1>4
<1> HIDE DEF s
<1>6. [packets_ |-> s, pCurrPacket_ |-> <<>>] \in Queued
  <2>1. <<>> \in Seq(Packet(Byte)) /\ Len(s) >= 1
    BY <1>3, <1>5
  <2> QED
    BY <1>5, <2>1 DEF Queued, Message
<1>7. \A i \in 1 .. n : s[i] = old[i] /\ s[i] \in Packet({})
  BY <1>2, <1>3, <1>5
<1>8. \A i \in 1 .. c : s[n + i] = q[i]
  BY <1>5
<1> QED
  BY <1>1, <1>3, <1>5, <1>6, <1>7, <1>8 DEF s

(* The messages that are handled are two, and the answer's identity is the *)
(* next. *)
LEMMA RequestsAnswered ==
  ASSUME NEW id \in Requests
  PROVE  id \in Ids /\ id \in Nat /\ ReplyId(id) = id + 1
<1>1. id \in Ids /\ id \in Nat /\ Handled(id)
  BY Numbers DEF Requests
<1>2. id \in {257, 258, 513, 514}
  BY <1>1 DEF Handled, Known, IdToName, idNameMap_
<1>3. ModFactory(id) = IF id \in {257, 258} THEN "mod_lulu" ELSE "mod_rpc"
  BY <1>2 DEF ModFactory
<1>4. msgMap_["mod_lulu"] = {1} /\ msgMap_["mod_rpc"] = {1}
  BY DEF msgMap_
<1>5. id % 256 = 1
  BY <1>1, <1>3, <1>4 DEF Handled
<1>6. id \in {257, 513}
  BY <1>2, <1>5
<1> DEFINE name == ReName(ModFactory(id))
<1>7. name = IF id = 257 THEN "lulu.tell_you" ELSE "rpc.hello_r"
  BY <1>3, <1>6 DEF ReName, do_ask_me, rpc_hello
<1>8. NameToId("lulu.tell_you") = 258 /\ NameToId("rpc.hello_r") = 514
  BY DEF NameToId, nameIdMap_
<1>9. ReplyId(id) = NameToId(name)
  BY DEF ReplyId
<1> HIDE DEF name
<1> QED
  BY <1>1, <1>6, <1>7, <1>8, <1>9

LEMMA ReplyBytes ==
  ASSUME NEW i \in Nat, NEW id \in Requests
  PROVE  /\ Copied(i, id) \in Seq(Byte)
         /\ Len(Copied(i, id)) >= 1 /\ Fits(Len(Copied(i, id)))
<1>1. id \in Ids /\ ReplyId(id) \in Nat
  BY RequestsAnswered
<1>2. PICK l \in Nat \ {0} : l = ReplyLen[id]
  <2>1. ReplyLen[id] \in Nat /\ ReplyLen[id] >= Header
    BY <1>1, SessionAssumption
  <2>2. ReplyLen[id] \in Nat \ {0}
    BY <2>1, Numbers
  <2> QED
    BY <2>2
<1>3. PICK n \in Nat : n = CopiedLen(ReplyLen[id]) /\ n >= 1 /\ Fits(n)
  BY <1>2, CopiedFits
<1>4. PICK r \in Nat : r = ReplyId(id)
  BY <1>1
<1> DEFINE b == [k \in 1 .. n |-> [msg |-> i, id |-> r, byte |-> k]]
<1>5. b \in [1 .. n -> Byte]
  BY DEF Byte
<1>6. Copied(i, id) = b
  BY <1>3, <1>4 DEF Copied, Memory
<1> HIDE DEF b
<1>7. b \in Seq(Byte) /\ Len(b) = n
  BY <1>5, Listed
<1> QED
  BY <1>3, <1>6, <1>7

ProcFrame == end = "none" /\ sending = -1 /\ recvBuffer_ # <<>> /\ UNCHANGED <<peerVars, recvVars, readyLen_>>

LEMMA ProcMsgParts ==
  ASSUME ProcMsg
  PROVE  /\ ProcFrame
         /\ \E h \in HeaderRead :
              ProcMisread(h) \/ ProcAwait(h) \/ ProcHandle(h) \/ ProcPartial(h) \/ ProcNext(h)
BY DEF ProcMsg, ProcFrame

(* What no round of the loop touches. *)
LEMMA ProcFrameHeld ==
  ASSUME Held, ProcFrame
  PROVE  /\ StreamLen \in Nat /\ StreamLen' = StreamLen
         /\ StreamHeld' /\ (readyLen_ \in Nat)' /\ pPacket' \in Packets({})
         /\ recvBuffer_ \in Seq(Packets(1 .. StreamLen))
         /\ Tail(recvBuffer_) \in Seq(Packets(1 .. StreamLen))
         /\ packetPool \in Seq(Packets({})) /\ messagePool \in Seq(Idle)
         /\ Seq(Packets({})) \subseteq Seq(Packet(1 .. StreamLen))
         /\ Seq(Idle) \subseteq Seq(Message)
<1>1. StreamLen \in Nat
  BY StreamEnds DEF Held, StreamHeld
<1>2. UNCHANGED <<stream, received, arrived, pPacket, readyLen_>>
  BY DEF ProcFrame, peerVars, recvVars
<1>3. StreamLen' = StreamLen
  BY <1>2 DEF StreamLen
<1>4. StreamHeld' /\ (readyLen_ \in Nat)' /\ pPacket' \in Packets({})
  BY <1>2, <1>3 DEF Held, StreamHeld, RecvHeld
<1>5. /\ recvBuffer_ \in Seq(Packets(1 .. StreamLen))
      /\ packetPool \in Seq(Packets({})) /\ messagePool \in Seq(Idle)
  BY DEF ProcFrame, Held, RecvHeld, PoolsHeld
<1>6. Tail(recvBuffer_) \in Seq(Packets(1 .. StreamLen))
  BY <1>5, HeadTailProperties DEF ProcFrame
<1>7. PICK B : B = 1 .. StreamLen
  OBVIOUS
<1>8. Packets({}) \subseteq Packet({}) /\ Packet({}) \subseteq Packet(B)
  BY PacketsGrow DEF Packets
<1>9. Seq(Packets({})) \subseteq Seq(Packet(B)) /\ Seq(Idle) \subseteq Seq(Message)
  BY <1>8, MessageParts, SeqMonotonic
<1> QED
  BY <1>1, <1>3, <1>4, <1>5, <1>6, <1>7, <1>9

(* The session ends, and the rest stays. *)
LEMMA ProcEndHeld ==
  ASSUME Held, ProcFrame, UNCHANGED <<procVars, sendVars, poolVars>>,
         end' \in {"closed", "misread", "killed"}
  PROVE  Held'
<1>1. UNCHANGED <<recvBuffer_, currMsgId_, currMsgLen_, readLen_, procs, handled,
                  sendBuffer_, tasks, sending, packetPool, messagePool, reused>>
  BY DEF procVars, sendVars, poolVars
<1>2. RecvHeld'
  BY <1>1, ProcFrameHeld DEF RecvHeld
<1>3. HeaderHeld' /\ SendHeld'
  BY <1>1 DEF Held, HeaderHeld, SendHeld
<1>4. PoolsHeld'
  BY <1>1, ProcFrameHeld DEF Held, PoolsHeld
<1> QED
  BY <1>2, <1>3, <1>4, ProcFrameHeld DEF Held

LEMMA ProcAwaitHeld ==
  ASSUME Held, ProcFrame, NEW h, h \in HeaderRead, ProcAwait(h)
  PROVE  Held'
<1>1. recvBuffer_ # <<>>
  BY DEF ProcFrame
<1>2. /\ h.packet \in Packets(1 .. StreamLen)
      /\ h.id \in Ids \cup {0} /\ h.len \in Lens \cup {0}
  BY <1>1, HeaderReadHeld DEF ProcAwait
<1>3. recvBuffer_' \in Seq(Packets(1 .. StreamLen))
  <2>1. PICK B, p, s : B = Packets(1 .. StreamLen) /\ p = h.packet /\ s = recvBuffer_
    OBVIOUS
  <2>2. s \in Seq(B) /\ s # <<>> /\ p \in B
    BY <1>1, <1>2, <2>1, ProcFrameHeld
  <2>3. <<p>> \o Tail(s) \in Seq(B)
    BY <2>2, Refronted
  <2> QED
    BY <2>1, <2>3 DEF ProcAwait
<1>4. RecvHeld'
  BY <1>3, ProcFrameHeld DEF RecvHeld
<1>5. HeaderHeld'
  BY <1>2 DEF ProcAwait, Held, HeaderHeld
<1>6. SendHeld' /\ PoolsHeld'
  BY ProcFrameHeld DEF ProcAwait, sendVars, poolVars, Held, SendHeld, PoolsHeld
<1> QED
  BY <1>4, <1>5, <1>6, ProcFrameHeld DEF Held

LEMMA ProcNextHeld ==
  ASSUME Held, ProcFrame, NEW h, h \in HeaderRead, ProcNext(h)
  PROVE  Held'
<1>1. /\ h.packet \in Packets(1 .. StreamLen)
      /\ h.id \in Ids \cup {0} /\ h.len \in Lens \cup {0}
  BY HeaderReadHeld DEF ProcNext, ProcFrame
<1>2. RecvHeld'
  BY ProcFrameHeld DEF ProcNext, RecvHeld
<1>3. HeaderHeld'
  <2>1. CASE Tail(recvBuffer_) = <<>>
    BY <2>1 DEF ProcNext, Reset, Held, HeaderHeld
  <2>2. CASE Tail(recvBuffer_) # <<>>
    BY <1>1, <2>2 DEF ProcNext, Held, HeaderHeld
  <2> QED
    BY <2>1, <2>2
<1>4. SendHeld'
  BY DEF ProcNext, sendVars, Held, SendHeld
<1>5. PoolsHeld'
  <2>1. packetPool' = Append(packetPool, h.packet) /\ UNCHANGED <<messagePool, reused>>
    BY DEF ProcNext
  <2>2. PICK B, p, s : B = 1 .. StreamLen /\ p = h.packet /\ s = packetPool
    OBVIOUS
  <2>3. p \in Packet(B) /\ p \in Packets(B) /\ s \in Seq(Packet(B)) /\ s \in Seq(Packets({}))
    BY <1>1, <2>2, ProcFrameHeld DEF Packets
  <2>4. packetPool' \in Seq(Packet(1 .. StreamLen))
    BY <2>1, <2>2, <2>3, AppendProperties
  <2>5. end' = "none" => packetPool' \in Seq(Packets({}))
    <3>1. SUFFICES ASSUME end' = "none" PROVE packetPool' \in Seq(Packets({}))
      OBVIOUS
    <3>2. readableSize(p) \in Nat /\ ~ (readableSize(p) > 0) /\ p.unread \in Seq(B)
      BY <2>2, <2>3, <3>1, LenProperties DEF ProcNext, readableSize, Packet
    <3>3. p.unread = <<>>
      BY <3>2, EmptySeq DEF readableSize
    <3>4. p \in Packets({})
      BY <2>3, <3>3, Emptied DEF Packets
    <3> QED
      BY <2>1, <2>2, <2>3, <3>4, AppendProperties
  <2>6. end' \in {"none", "misread"}
    BY DEF ProcNext
  <2> QED
    BY <2>1, <2>4, <2>5, <2>6, ProcFrameHeld DEF Held, PoolsHeld
<1> QED
  BY <1>2, <1>3, <1>4, <1>5, ProcFrameHeld DEF Held

(* A message that is handled is a request; its bytes are taken from the    *)
(* packet, and its reply is queued. *)
LEMMA HandleParts ==
  ASSUME Held, ProcFrame, NEW h, h \in HeaderRead, ProcHandle(h), end' = "none"
  PROVE  /\ h.id \in Requests /\ h.len \in Nat /\ h.packet \in Packets(1 .. StreamLen)
         /\ Len(handled) \in Nat
         /\ h.len \in 0 .. readableSize(h.packet)
         /\ recvBuffer_' = <<Read(h.packet, h.len)>> \o Tail(recvBuffer_)
         /\ handled' = Append(handled, [id |-> h.id, body |-> SubSeq(h.packet.unread, 1, h.len)])
         /\ SendToFd(Copied(Len(handled) + 1, h.id))
         /\ Reset /\ UNCHANGED <<sending, end>> /\ Ready(h) /\ ~ Misread(h)
<1>1. /\ h.packet \in Packets(1 .. StreamLen)
      /\ h.id \in Ids /\ h.len \in Lens \cup {0}
  BY HeaderReadHeld DEF ProcHandle, ProcFrame
<1>2. readLen_ = 0 /\ handled \in Seq([id : Requests, body : Seq(Nat)])
  BY DEF Held, HeaderHeld
<1>3. h.len \in Nat
  BY <1>1, Numbers
<1>4. PICK p : p = h.packet /\ p.unread \in Seq(1 .. StreamLen)
  BY <1>1 DEF Packets, Packet
<1>5. readableSize(p) \in Nat
  BY <1>4, LenProperties DEF readableSize
<1>6. readableSize(p) >= h.len - readLen_
  BY <1>4 DEF ProcHandle
<1>7. h.len \in 0 .. readableSize(p) /\ h.len - readLen_ = h.len
  BY <1>2, <1>3, <1>5, <1>6
<1>8. /\ SendToFd(Copied(Len(handled) + 1, h.id))
      /\ handled' = Append(handled, [id |-> h.id, body |-> SubSeq(h.packet.unread, 1, h.len - readLen_)])
      /\ recvBuffer_' = <<Take(h.packet, h.len - readLen_)>> \o Tail(recvBuffer_)
      /\ Reset
      /\ UNCHANGED <<sending, end>>
      /\ Ready(h) /\ ~ Misread(h) /\ Handled(h.id)
  BY DEF ProcHandle
<1>9. Len(handled) \in Nat
  BY <1>2, LenProperties
<1>10. h.id \in Requests
  BY <1>1, <1>8 DEF Requests
<1> QED
  BY <1>1, <1>3, <1>4, <1>7, <1>8, <1>9, <1>10 DEF Take

(* The reply is a queue's last message: its packets are old ones with      *)
(* nothing in them, if the message was used before, and its pieces. *)
LEMMA HandleQueues ==
  ASSUME Held, ProcFrame, NEW h, h \in HeaderRead, ProcHandle(h), end' = "none"
  PROVE  \E m \in Idle, q \in Seq(Packet(Byte)) :
           /\ sendBuffer_' = Append(sendBuffer_, [packets_ |-> m.packets_ \o q, pCurrPacket_ |-> <<>>])
           /\ Len(q) = Len(Pieces(Copied(Len(handled) + 1, h.id))) /\ Len(q) >= 1
           /\ \A i \in 1 .. Len(q) : q[i].unread = Pieces(Copied(Len(handled) + 1, h.id))[i]
           /\ ~ reused' => m.packets_ = <<>>
           /\ (reused => reused') /\ reused' \in BOOLEAN
           /\ tasks' = tasks + 1
           /\ packetPool' \in Seq(Packets({})) /\ messagePool' \in Seq(Idle)
<1>1. h.id \in Requests /\ Len(handled) + 1 \in Nat
      /\ SendToFd(Copied(Len(handled) + 1, h.id))
  <2>1. h.id \in Requests /\ Len(handled) \in Nat
        /\ SendToFd(Copied(Len(handled) + 1, h.id))
    BY HandleParts
  <2>2. \A n \in Nat : n + 1 \in Nat
    OBVIOUS
  <2> QED
    BY <2>1, <2>2, Zenon
<1>2. PICK i \in Nat, id \in Requests : i = Len(handled) + 1 /\ id = h.id
  BY <1>1
<1>3. PICK bytes \in Seq(Byte) : bytes = Copied(i, id) /\ Len(bytes) >= 1 /\ Fits(Len(bytes))
  BY ReplyBytes
<1>4. bytes = Copied(Len(handled) + 1, h.id)
  BY <1>2, <1>3
<1>5. SendToFd(bytes) /\ end = "none"
  BY <1>1, <1>4 DEF ProcFrame
<1>6. PICK m \in Idle, q \in Seq(Packet(Byte)) :
        /\ sendBuffer_' = Append(sendBuffer_, [packets_ |-> m.packets_ \o q, pCurrPacket_ |-> <<>>])
        /\ Len(q) = Len(Pieces(bytes))
        /\ \A j \in 1 .. Len(q) : q[j].unread = Pieces(bytes)[j]
        /\ ~ reused' => m.packets_ = <<>>
        /\ (reused => reused') /\ reused' \in BOOLEAN
        /\ tasks' = tasks + 1
        /\ packetPool' \in Seq(Packets({})) /\ messagePool' \in Seq(Idle)
  BY <1>3, <1>5, SendQueues
<1>7. PICK c \in Nat \ {0} : Len(Pieces(bytes)) = c
  BY <1>3, CutOnce
<1>8. Len(q) >= 1
  BY <1>6, <1>7
<1> QED
  BY <1>4, <1>6, <1>8, Zenon

LEMMA ProcHandleHeld ==
  ASSUME Held, ProcFrame, NEW h, h \in HeaderRead, ProcHandle(h)
  PROVE  Held'
<1>1. CASE end' # "none"
  BY <1>1, ProcEndHeld DEF ProcHandle, ProcFrame
<1>2. CASE end' = "none"
  <2>1. /\ h.id \in Requests /\ h.len \in Nat /\ h.packet \in Packets(1 .. StreamLen)
        /\ h.len \in 0 .. readableSize(h.packet)
        /\ recvBuffer_' = <<Read(h.packet, h.len)>> \o Tail(recvBuffer_)
        /\ handled' = Append(handled, [id |-> h.id, body |-> SubSeq(h.packet.unread, 1, h.len)])
        /\ Reset /\ UNCHANGED <<sending, end>>
    BY <1>2, HandleParts
  <2>2. PICK m \in Idle, q \in Seq(Packet(Byte)) :
          /\ sendBuffer_' = Append(sendBuffer_, [packets_ |-> m.packets_ \o q, pCurrPacket_ |-> <<>>])
          /\ Len(q) >= 1
          /\ reused' \in BOOLEAN
          /\ tasks' = tasks + 1
          /\ packetPool' \in Seq(Packets({})) /\ messagePool' \in Seq(Idle)
    <3>1. PICK m \in Idle, q \in Seq(Packet(Byte)) :
            /\ sendBuffer_' = Append(sendBuffer_, [packets_ |-> m.packets_ \o q, pCurrPacket_ |-> <<>>])
            /\ Len(q) = Len(Pieces(Copied(Len(handled) + 1, h.id))) /\ Len(q) >= 1
            /\ \A i \in 1 .. Len(q) : q[i].unread = Pieces(Copied(Len(handled) + 1, h.id))[i]
            /\ ~ reused' => m.packets_ = <<>>
            /\ (reused => reused') /\ reused' \in BOOLEAN
            /\ tasks' = tasks + 1
            /\ packetPool' \in Seq(Packets({})) /\ messagePool' \in Seq(Idle)
      BY <1>2, HandleQueues, Zenon
    <3> QED
      BY <3>1, Zenon
  <2>3. PICK B, p : B = 1 .. StreamLen /\ p = h.packet /\ p \in Packets(B) /\ p \in Packet(B)
    BY <2>1 DEF Packets
  <2>4. PICK n \in 0 .. readableSize(p) : n = h.len
    BY <2>1, <2>3
  <2>5. RecvHeld'
    <3>1. Read(p, n) \in Packets(B)
      BY <2>3, <2>4, ReadFrom
    <3>2. PICK r \in Packets(B) : r = Read(p, n)
      BY <3>1
    <3>3. PICK s \in Seq(Packets(B)) : s = recvBuffer_ /\ s # <<>>
      BY <2>3, ProcFrameHeld DEF ProcFrame
    <3>4. <<r>> \o Tail(s) \in Seq(Packets(B))
      BY <3>3, Refronted
    <3>5. recvBuffer_' = <<r>> \o Tail(s)
      BY <2>1, <2>3, <2>4, <3>2, <3>3
    <3> QED
      BY <2>3, <3>4, <3>5, ProcFrameHeld DEF RecvHeld
  <2>6. HeaderHeld'
    <3>1. SubSeq(p.unread, 1, n) \in Seq(Nat)
      <4>1. PICK l \in Nat : l = readableSize(p) /\ n \in 0 .. l
        BY <2>3, <2>4, ReadFrom
      <4>2. p.unread \in [1 .. l -> B] /\ \A b \in B : b \in Nat
        BY <2>3, <4>1, LenProperties, ProcFrameHeld DEF Packet, readableSize
      <4>3. n \in Int /\ 1 \in Int /\ \A i \in 1 .. n : p.unread[i] \in Nat
        BY <4>1, <4>2
      <4> QED
        BY <4>3, SubSeqProperties
    <3>2. PICK R, e : /\ R = [id : Requests, body : Seq(Nat)] /\ e \in R
                      /\ e = [id |-> h.id, body |-> SubSeq(p.unread, 1, n)]
      BY <2>1, <3>1
    <3>3. handled \in Seq(R) /\ handled' = Append(handled, e)
      BY <2>1, <2>3, <2>4, <3>2 DEF Held, HeaderHeld
    <3>4. handled' \in Seq(R)
      BY <3>2, <3>3, AppendProperties
    <3> QED
      BY <2>1, <3>2, <3>4 DEF Reset, HeaderHeld
  <2>7. SendHeld'
    <3>1. PICK e \in Queued : e = [packets_ |-> m.packets_ \o q, pCurrPacket_ |-> <<>>]
      BY <2>2, QueuedWith
    <3>2. sendBuffer_ \in Seq(Queued) /\ Len(sendBuffer_) = tasks /\ tasks \in Nat /\ sending = -1
      BY DEF Held, SendHeld, ProcFrame
    <3>3. sendBuffer_' \in Seq(Queued) /\ Len(sendBuffer_') = tasks + 1
      BY <2>2, <3>1, <3>2, AppendProperties
    <3> QED
      BY <2>1, <2>2, <3>2, <3>3 DEF SendHeld
  <2>8. PoolsHeld'
    BY <2>1, <2>2, ProcFrameHeld DEF PoolsHeld, Held
  <2> QED
    BY <2>5, <2>6, <2>7, <2>8, ProcFrameHeld DEF Held
<1> QED
  BY <1>1, <1>2

LEMMA ProcMsgHeld ==
  ASSUME Held, ProcMsg
  PROVE  Held'
<1>1. ProcFrame
  BY ProcMsgParts
<1>2. PICK h : h \in HeaderRead
               /\ (ProcMisread(h) \/ ProcAwait(h) \/ ProcHandle(h) \/ ProcPartial(h) \/ ProcNext(h))
  BY ProcMsgParts
<1>3. CASE ProcMisread(h)
  BY <1>1, <1>3, ProcEndHeld DEF ProcMisread
<1>4. CASE ProcAwait(h)
  BY <1>1, <1>2, <1>4, ProcAwaitHeld
<1>5. CASE ProcHandle(h)
  BY <1>1, <1>2, <1>5, ProcHandleHeld
<1>6. CASE ProcPartial(h)
  BY <1>1, <1>6, ProcEndHeld DEF ProcPartial
<1>7. CASE ProcNext(h)
  BY <1>1, <1>2, <1>7, ProcNextHeld
<1> QED
  BY <1>2, <1>3, <1>4, <1>5, <1>6, <1>7

(* What no call of the sender touches. *)
LEMMA SendFrameHeld ==
  ASSUME Held, UNCHANGED <<stream, recvVars, procVars, readyLen_, packetPool, reused>>
  PROVE  /\ StreamLen' = StreamLen /\ RecvHeld' /\ HeaderHeld' /\ (readyLen_ \in Nat)'
         /\ (stream \in Seq([id : Ids, len : Lens, at : Nat]))' /\ (arrived \in 0 .. StreamLen)'
         /\ packetPool' \in Seq(Packet(1 .. StreamLen)) /\ reused' \in BOOLEAN
<1>1. StreamLen' = StreamLen
  BY DEF StreamLen
<1> QED
  BY <1>1 DEF Held, RecvHeld, HeaderHeld, StreamHeld, PoolsHeld, recvVars, procVars

LEMMA OnSendHeld ==
  ASSUME Held, OnSend
  PROVE  Held'
<1>1. UNCHANGED <<stream, recvVars, procVars, readyLen_, packetPool, reused>>
      /\ UNCHANGED <<received, messagePool, end, sendBuffer_>>
  BY DEF OnSend, peerVars, poolVars
<1>2. sendBuffer_ \in Seq(Queued) /\ Len(sendBuffer_) = tasks /\ tasks \in Nat /\ tasks > 0
  BY DEF OnSend, InLoop, Held, SendHeld
<1>3. tasks' = tasks - 1 /\ sending' = 0 /\ 1 \in 1 .. Len(sendBuffer_)
  BY <1>2 DEF OnSend
<1>4. sendBuffer_[1] \in Queued
  BY <1>2, <1>3, ElementOfSeq
<1>5. Len(sendBuffer_[1].packets_) \in Nat
  BY <1>4, LenProperties DEF Queued, Message
<1>6. 0 < Len(sendBuffer_[1].packets_)
  <2>1. Len(sendBuffer_[1].packets_) >= 1
    BY <1>4 DEF Queued
  <2> QED
    BY <1>5, <2>1
<1>7. SendHeld'
  BY <1>1, <1>2, <1>3, <1>6 DEF SendHeld
<1>8. StreamHeld' /\ PoolsHeld'
  BY <1>1, SendFrameHeld DEF Held, StreamHeld, PoolsHeld
<1> QED
  BY <1>1, <1>7, <1>8, SendFrameHeld DEF Held

(* One call of send: n bytes of packet k of the message m in front leave   *)
(* it, and u are its packets after that. *)
SendsPart(m, k, p, n, u) ==
  /\ m = sendBuffer_[1] /\ k = sending + 1 /\ p = m.packets_[k]
  /\ k \in 1 .. Len(m.packets_) /\ n >= 1
  /\ received' = received \o SubSeq(p.unread, 1, n)
  /\ Len(u) = Len(m.packets_)
  /\ \A i \in 1 .. Len(u) : u[i] = IF i = k THEN Read(p, n) ELSE m.packets_[i]
  /\ \/ /\ n = readableSize(p) /\ k = Len(u)
        /\ sendBuffer_' = Tail(sendBuffer_)
        /\ messagePool' = Append(messagePool, [packets_ |-> u, pCurrPacket_ |-> <<>>])
        /\ sending' = -1
     \/ /\ ~ (n = readableSize(p) /\ k = Len(u))
        /\ sendBuffer_' = <<[packets_ |-> u, pCurrPacket_ |-> <<>>]>> \o Tail(sendBuffer_)
        /\ sending' = IF n = readableSize(p) THEN k ELSE k - 1
        /\ UNCHANGED messagePool

LEMMA FrontHeld ==
  ASSUME Held, sending # -1
  PROVE  /\ sendBuffer_ \in Seq(Queued) /\ sendBuffer_ # <<>> /\ Len(sendBuffer_) = tasks + 1
         /\ tasks \in Nat /\ sending \in Nat
         /\ pSendMsg = sendBuffer_[1] /\ pSendMsg \in Queued
         /\ sending + 1 \in 1 .. Len(pSendMsg.packets_)
         /\ pSendPacket \in Packet(Byte)
<1>1. sendBuffer_ \in Seq(Queued) /\ Len(sendBuffer_) = tasks + 1 /\ tasks \in Nat /\ sending \in Nat
      /\ sending < Len(sendBuffer_[1].packets_)
  BY DEF Held, SendHeld
<1>2. sendBuffer_ # <<>> /\ 1 \in 1 .. Len(sendBuffer_)
  BY <1>1, EmptySeq
<1>3. pSendMsg = sendBuffer_[1] /\ sendBuffer_[1] \in Queued
  BY <1>1, <1>2, ElementOfSeq DEF pSendMsg
<1>4. PICK s \in Seq(Packet(Byte)) : s = pSendMsg.packets_
  BY <1>3 DEF Queued, Message
<1>5. Len(s) \in Nat
  BY LenProperties
<1>6. sending + 1 \in 1 .. Len(s)
  BY <1>1, <1>3, <1>4, <1>5
<1>7. s[sending + 1] \in Packet(Byte)
  BY <1>6, ElementOfSeq
<1> QED
  BY <1>1, <1>2, <1>3, <1>4, <1>6, <1>7 DEF pSendPacket

LEMMA SendPartParts ==
  ASSUME Held, SendPart
  PROVE  \E m \in Queued, k \in Nat, p \in Packet(Byte), n \in Nat, u \in Seq(Packet(Byte)) :
           n \in 1 .. readableSize(p) /\ SendsPart(m, k, p, n, u)
<1>1. sending # -1 /\ sending \in Nat
  BY DEF SendPart, Held, SendHeld
<1>2. PICK m \in Queued : m = pSendMsg /\ m = sendBuffer_[1]
  BY <1>1, FrontHeld
<1>3. PICK k \in Nat : k = sending + 1 /\ k \in 1 .. Len(m.packets_)
  BY <1>1, <1>2, FrontHeld
<1>4. PICK p \in Packet(Byte) : p = pSendPacket /\ p = m.packets_[k]
  BY <1>1, <1>2, <1>3, FrontHeld DEF pSendPacket
<1>5. PICK l \in Nat : l = readableSize(p)
  BY LenProperties DEF readableSize, Packet
<1>6. PICK n \in 1 .. l :
        LET d == [pSendMsg EXCEPT !.packets_[sending + 1] = Read(pSendPacket, n)]
            drained == n = readableSize(pSendPacket)
        IN  /\ received' = received \o SubSeq(pSendPacket.unread, 1, n)
            /\ \/ /\ drained /\ AllSent(d, sending + 1)
                  /\ sendBuffer_' = Tail(sendBuffer_)
                  /\ messagePool' = Append(messagePool, d)
                  /\ sending' = -1
               \/ /\ ~ (drained /\ AllSent(d, sending + 1))
                  /\ sendBuffer_' = <<d>> \o Tail(sendBuffer_)
                  /\ sending' = IF drained THEN sending + 1 ELSE sending
                  /\ UNCHANGED messagePool
  BY <1>4, <1>5 DEF SendPart
<1>7. n \in 1 .. l
  OBVIOUS
<1> DEFINE u == [m.packets_ EXCEPT ![k] = Read(p, n)]
<1>8. m = [packets_ |-> m.packets_, pCurrPacket_ |-> <<>>] /\ m.packets_ \in Seq(Packet(Byte))
  BY DEF Queued, Message
<1>9. Read(p, n) \in Packet(Byte)
  BY <1>5, <1>7, ReadFrom
<1>10. /\ u \in Seq(Packet(Byte)) /\ Len(u) = Len(m.packets_)
       /\ \A i \in 1 .. Len(m.packets_) : u[i] = IF i = k THEN Read(p, n) ELSE m.packets_[i]
  <2>1. PICK s \in Seq(Packet(Byte)) : s = m.packets_
    BY <1>8
  <2>2. PICK e \in Packet(Byte) : e = Read(p, n)
    BY <1>9
  <2>3. k \in 1 .. Len(s)
    BY <1>3, <2>1
  <2>4. /\ [s EXCEPT ![k] = e] \in Seq(Packet(Byte))
        /\ Len([s EXCEPT ![k] = e]) = Len(s)
        /\ \A j \in 1 .. Len(s) : [s EXCEPT ![k] = e][j] = IF j = k THEN e ELSE s[j]
    BY <2>3, ExceptSeq
  <2> QED
    BY <2>1, <2>2, <2>4
<1>11. [pSendMsg EXCEPT !.packets_[sending + 1] = Read(pSendPacket, n)]
         = [packets_ |-> u, pCurrPacket_ |-> <<>>]
  BY <1>2, <1>3, <1>4, <1>8
<1> HIDE DEF u
<1>12. SendsPart(m, k, p, n, u)
  <2>1. received' = received \o SubSeq(p.unread, 1, n) /\ n >= 1
    <3>1. received' = received \o SubSeq(p.unread, 1, n)
      BY <1>4, <1>6, Zenon
    <3> QED
      BY <1>7, <3>1
  <2>2. \/ /\ n = readableSize(p) /\ k = Len(u)
           /\ sendBuffer_' = Tail(sendBuffer_)
           /\ messagePool' = Append(messagePool, [packets_ |-> u, pCurrPacket_ |-> <<>>])
           /\ sending' = -1
        \/ /\ ~ (n = readableSize(p) /\ k = Len(u))
           /\ sendBuffer_' = <<[packets_ |-> u, pCurrPacket_ |-> <<>>]>> \o Tail(sendBuffer_)
           /\ sending' = IF n = readableSize(p) THEN k ELSE k - 1
           /\ UNCHANGED messagePool
    <3>1. AllSent([packets_ |-> u, pCurrPacket_ |-> <<>>], sending + 1) <=> k = Len(u)
      BY <1>3 DEF AllSent
    <3>2. sending = k - 1 /\ (n = readableSize(pSendPacket) <=> n = readableSize(p))
      BY <1>1, <1>3, <1>4
    <3> QED
      BY <1>3, <1>6, <1>11, <3>1, <3>2
  <2> QED
    BY <1>2, <1>3, <1>4, <1>10, <2>1, <2>2 DEF SendsPart
<1>13. n \in Nat /\ n \in 1 .. readableSize(p) /\ u \in Seq(Packet(Byte))
  BY <1>5, <1>7, <1>10
<1> QED
  BY <1>12, <1>13, Zenon

(* What has been sent is gone from the message. *)
LEMMA Drained ==
  ASSUME NEW p \in Packet(Byte), NEW n \in 1 .. readableSize(p), n = readableSize(p)
  PROVE  Read(p, n) \in Packet({})
<1>1. PICK l \in Nat : l = readableSize(p)
  BY LenProperties DEF readableSize, Packet
<1>2. n \in 0 .. readableSize(p)
  BY <1>1
<1>3. Read(p, n) \in Packet(Byte) /\ readableSize(Read(p, n)) = l - n
  BY <1>1, <1>2, ReadFrom
<1>4. Len(Read(p, n).unread) = 0 /\ Read(p, n).unread \in Seq(Byte)
  BY <1>1, <1>3 DEF readableSize, Packet
<1>5. Read(p, n).unread = <<>>
  BY <1>4, EmptySeq
<1> QED
  BY <1>3, <1>5, Emptied

LEMMA SendPartHeld ==
  ASSUME Held, SendPart
  PROVE  Held'
<1>1. UNCHANGED <<stream, recvVars, procVars, readyLen_, packetPool, reused>>
      /\ UNCHANGED <<tasks, end>> /\ sending # -1 /\ end = "none"
  BY DEF SendPart, Held, SendHeld
<1>2. PICK m \in Queued, k \in Nat, p \in Packet(Byte), n \in Nat, u \in Seq(Packet(Byte)) :
        n \in 1 .. readableSize(p) /\ SendsPart(m, k, p, n, u)
  BY SendPartParts
<1>3. /\ m = sendBuffer_[1] /\ k = sending + 1 /\ p = m.packets_[k]
      /\ k \in 1 .. Len(m.packets_) /\ n >= 1
      /\ received' = received \o SubSeq(p.unread, 1, n)
      /\ Len(u) = Len(m.packets_)
      /\ \A i \in 1 .. Len(u) : u[i] = IF i = k THEN Read(p, n) ELSE m.packets_[i]
  BY <1>2 DEF SendsPart
<1>4. /\ sendBuffer_ \in Seq(Queued) /\ sendBuffer_ # <<>> /\ Len(sendBuffer_) = tasks + 1
      /\ tasks \in Nat
  BY <1>1, FrontHeld
<1>5. StreamHeld'
  <2>1. received' \in Seq(Byte)
    <3>1. PICK l \in Nat : l = readableSize(p) /\ n \in 1 .. l
      BY <1>2, LenProperties DEF readableSize, Packet
    <3>2. p.unread \in [1 .. l -> Byte]
      BY <3>1, LenProperties DEF Packet, readableSize
    <3>3. n \in Int /\ 1 \in Int /\ \A i \in 1 .. n : p.unread[i] \in Byte
      BY <3>1, <3>2
    <3>4. PICK s \in Seq(Byte) : s = SubSeq(p.unread, 1, n)
      BY <3>3, SubSeqProperties
    <3>5. received \in Seq(Byte)
      BY DEF Held, StreamHeld
    <3> QED
      BY <1>3, <3>4, <3>5, ConcatProperties
  <2> QED
    BY <1>1, <2>1, SendFrameHeld DEF StreamHeld
<1>6. PICK c \in Nat : c = Len(u) /\ k \in 1 .. c /\ k >= 1
  BY <1>3, LenProperties
<1>7. \A i \in 1 .. k - 1 : u[i] \in Packet({})
  <2>1. ASSUME NEW i \in 1 .. k - 1 PROVE u[i] \in Packet({})
    <3>1. i \in 1 .. sending /\ i \in 1 .. Len(u) /\ i # k
      BY <1>1, <1>3, <1>6 DEF Held, SendHeld
    <3>2. u[i] = m.packets_[i]
      BY <1>3, <3>1
    <3> QED
      BY <1>3, <3>1, <3>2 DEF Held, SendHeld
  <2> QED
    BY <2>1
<1>8. n = readableSize(p) => u[k] \in Packet({})
  BY <1>2, <1>3, <1>6, Drained
<1> DEFINE e == [packets_ |-> u, pCurrPacket_ |-> <<>>]
<1>9. CASE n = readableSize(p) /\ k = Len(u)
  <2>1. sendBuffer_' = Tail(sendBuffer_) /\ messagePool' = Append(messagePool, e) /\ sending' = -1
    BY <1>2, <1>9 DEF SendsPart
  <2>2. SendHeld'
    <3>1. sendBuffer_' \in Seq(Queued) /\ Len(sendBuffer_') = tasks
      BY <1>4, <2>1, HeadTailProperties
    <3> QED
      BY <1>1, <1>4, <2>1, <3>1 DEF SendHeld
  <2>3. u \in Seq(Packet({}))
    <3>1. \A i \in 1 .. c : u[i] \in Packet({})
      BY <1>6, <1>7, <1>8, <1>9
    <3>2. u \in [1 .. c -> Packet({})]
      BY <1>6, <3>1, LenProperties
    <3> QED
      BY <3>2, Listed
  <2>4. e \in Idle
    <3>1. <<>> \in Seq(Packets({})) /\ Len(<<>>) <= 1
      OBVIOUS
    <3> QED
      BY <2>3, <3>1 DEF Idle
  <2>5. messagePool' \in Seq(Idle)
    <3>1. messagePool \in Seq(Idle)
      BY <1>1 DEF Held, PoolsHeld
    <3> HIDE DEF e
    <3> QED
      BY <2>1, <2>4, <3>1, AppendProperties
  <2>6. PoolsHeld'
    <3>1. messagePool' \in Seq(Message)
      BY <2>5, MessageParts, SeqMonotonic
    <3> QED
      BY <1>1, <2>5, <3>1, SendFrameHeld DEF Held, PoolsHeld
  <2> QED
    BY <1>1, <1>5, <2>2, <2>6, SendFrameHeld DEF Held
<1>10. CASE ~ (n = readableSize(p) /\ k = Len(u))
  <2>1. /\ sendBuffer_' = <<e>> \o Tail(sendBuffer_)
        /\ sending' = IF n = readableSize(p) THEN k ELSE k - 1
        /\ UNCHANGED messagePool
    BY <1>2, <1>10 DEF SendsPart
  <2>2. e \in Queued
    <3>1. <<>> \in Seq(Packet(Byte)) /\ Len(u) >= 1
      BY <1>6
    <3> QED
      BY <3>1 DEF Queued, Message
  <2>3. PICK f \in Queued : f = e /\ f.packets_ = u
    BY <2>2
  <2> HIDE DEF e
  <2>4. /\ sendBuffer_' \in Seq(Queued) /\ Len(sendBuffer_') = tasks + 1
        /\ sendBuffer_'[1] = f
    <3>1. PICK s \in Seq(Queued) : s = sendBuffer_
      BY <1>4
    <3>2. /\ <<f>> \o Tail(s) \in Seq(Queued)
          /\ Len(<<f>> \o Tail(s)) = Len(s)
          /\ (<<f>> \o Tail(s))[1] = f
      BY <1>4, <3>1, Refronted
    <3> QED
      BY <1>4, <2>1, <2>3, <3>1, <3>2
  <2>5. sending' \in Nat /\ sending' < c /\ \A i \in 1 .. sending' : u[i] \in Packet({})
    <3>1. CASE n = readableSize(p)
      <4>1. sending' = k /\ k < c
        BY <1>6, <1>10, <2>1, <3>1
      <4>2. \A i \in 1 .. k : i \in 1 .. k - 1 \/ i = k
        OBVIOUS
      <4>3. \A i \in 1 .. k : u[i] \in Packet({})
        BY <1>7, <1>8, <3>1, <4>2
      <4> QED
        BY <4>1, <4>3
    <3>2. CASE n # readableSize(p)
      <4>1. sending' = k - 1
        BY <2>1, <3>2
      <4> QED
        BY <1>6, <1>7, <4>1
    <3> QED
      BY <3>1, <3>2
  <2>6. SendHeld'
    <3>1. sending' \in Nat \cup {-1} /\ sending' # -1
      BY <2>5
    <3>2. sendBuffer_[1]'.packets_ = u
      BY <2>3, <2>4
    <3>3. (sending # -1 => sending < Len(sendBuffer_[1].packets_))'
      BY <1>6, <2>5, <3>2
    <3>4. (\A i \in 1 .. sending : sendBuffer_[1].packets_[i] \in Packet({}))'
      BY <2>5, <3>2
    <3> QED
      BY <1>1, <1>4, <2>4, <3>1, <3>3, <3>4 DEF SendHeld
  <2>7. PoolsHeld'
    BY <1>1, <2>1, SendFrameHeld DEF Held, PoolsHeld
  <2> QED
    BY <1>1, <1>5, <2>6, <2>7, SendFrameHeld DEF Held
<1> QED
  BY <1>9, <1>10

LEMMA SendNothingHeld ==
  ASSUME Held, SendNothing
  PROVE  Held'
<1>1. UNCHANGED <<stream, recvVars, procVars, readyLen_, packetPool, reused>>
      /\ UNCHANGED <<received, tasks>> /\ end' = "closed" /\ sending # -1 /\ sending' = -1
      /\ sendBuffer_' = Tail(sendBuffer_) /\ messagePool' = Append(messagePool, pSendMsg)
  BY DEF SendNothing, peerVars, Held, SendHeld
<1>2. /\ sendBuffer_ \in Seq(Queued) /\ sendBuffer_ # <<>> /\ Len(sendBuffer_) = tasks + 1
      /\ tasks \in Nat /\ pSendMsg \in Queued
  BY <1>1, FrontHeld
<1>3. SendHeld'
  <2>1. sendBuffer_' \in Seq(Queued) /\ Len(sendBuffer_') = tasks
    BY <1>1, <1>2, HeadTailProperties
  <2> QED
    BY <1>1, <1>2, <2>1 DEF SendHeld
<1>4. messagePool' \in Seq(Message)
  <2>1. PICK m \in Message : m = pSendMsg
    BY <1>2, MessageParts
  <2>2. messagePool \in Seq(Message)
    BY DEF Held, PoolsHeld
  <2> QED
    BY <1>1, <2>1, <2>2, AppendProperties
<1>5. PoolsHeld' /\ StreamHeld'
  BY <1>1, <1>4, SendFrameHeld DEF PoolsHeld, StreamHeld, Held
<1> QED
  BY <1>1, <1>3, <1>5, SendFrameHeld DEF Held

LEMMA HeldOn ==
  ASSUME Held, [Next]_vars
  PROVE  Held'
<1>1. CASE PeerSend
  BY <1>1, PeerSendHeld
<1>2. CASE RecvFromFd
  BY <1>2, RecvHeldOn
<1>3. CASE ProcMsg
  BY <1>3, ProcMsgHeld
<1>4. CASE Send
  BY <1>4, OnSendHeld, SendPartHeld, SendNothingHeld DEF Send
<1>5. CASE UNCHANGED vars
  BY <1>5 DEF vars, peerVars, recvVars, procVars, sendVars, poolVars, StreamLen,
              Held, StreamHeld, RecvHeld, HeaderHeld, SendHeld, PoolsHeld
<1> QED
  BY <1>1, <1>2, <1>3, <1>4, <1>5 DEF Next, Program, Quiet

LEMMA HeldAlways == Spec => []Held
<1>1. Init => Held
  BY InitHeld
<1>2. Held /\ [Next]_vars => Held'
  BY HeldOn
<1> QED
  BY <1>1, <1>2, PTL DEF Spec

(* Every variable keeps its type, wherever recv and send cut the bytes and *)
(* whatever the lengths of the replies; with it, the packet onSend takes   *)
(* is one its message has (dan_session.hpp:226), and readLen_ stays 0.     *)
THEOREM SessionTypes == Spec => []TypeOK
<1>1. Held => TypeOK
  BY HeldTyped
<1> QED
  BY <1>1, HeldAlways, PTL

(***************************************************************************)
(* Where the bytes of the replies are.  R is what all replies are, one     *)
(* after the other; packets ps carry the bytes of R after a and up to b    *)
(* when the i-th of them carries those after cut[i - 1] and up to cut[i].  *)
(***************************************************************************)

CutAt(cut, ps, a, b, R) ==
  /\ cut \in [0 .. Len(ps) -> a .. b]
  /\ cut[0] = a /\ cut[Len(ps)] = b
  /\ \A i, j \in 0 .. Len(ps) : i <= j => cut[i] <= cut[j]
  /\ \A i \in 1 .. Len(ps) :
       /\ Len(ps[i].unread) = cut[i] - cut[i - 1]
       /\ \A k \in 1 .. cut[i] - cut[i - 1] : ps[i].unread[k] = R[cut[i - 1] + k]

Carries(ps, a, b, R) == \E cut : CutAt(cut, ps, a, b, R)

(* More replies change nothing in the packets of those there are. *)
LEMMA CarriesOn ==
  ASSUME NEW ps, Len(ps) \in Nat, NEW a \in Nat, NEW b \in Nat, NEW R, NEW Q,
         Carries(ps, a, b, R), \A i \in 1 .. b : Q[i] = R[i]
  PROVE  Carries(ps, a, b, Q)
<1>1. PICK cut : CutAt(cut, ps, a, b, R)
  BY DEF Carries
<1>2. ASSUME NEW i \in 1 .. Len(ps), NEW k \in 1 .. cut[i] - cut[i - 1]
      PROVE  ps[i].unread[k] = Q[cut[i - 1] + k]
  <2>1. i \in 0 .. Len(ps) /\ i - 1 \in 0 .. Len(ps)
    OBVIOUS
  <2>2. cut[i] \in a .. b /\ cut[i - 1] \in a .. b
    BY <1>1, <2>1 DEF CutAt
  <2>3. cut[i - 1] + k \in 1 .. b
    BY <2>2
  <2> QED
    BY <1>1, <2>3 DEF CutAt
<1>3. CutAt(cut, ps, a, b, Q)
  BY <1>1, <1>2 DEF CutAt
<1> QED
  BY <1>3 DEF Carries

(* The multiples of k. *)
Multiplied(t, k, c, L) ==
  /\ t \in [0 .. c -> 0 .. L]
  /\ t[0] = 0 /\ t[c] = L
  /\ \A i, j \in 0 .. c : i <= j => t[i] <= t[j]
  /\ \A i \in 1 .. c : t[i - 1] = (i - 1) * k /\ t[i] - t[i - 1] = k

LEMMA Multiples ==
  ASSUME NEW k \in Nat, NEW c \in Nat, NEW L, L = c * k
  PROVE  \E t : Multiplied(t, k, c, L)
<1> DEFINE t == [i \in 0 .. c |-> i * k]
<1>1. \A i, j \in Nat : i <= j => i * k <= j * k
  OBVIOUS
<1>2. \A i \in 0 .. c : i * k \in 0 .. L
  BY <1>1
<1>3. \A i \in 1 .. c : i * k - (i - 1) * k = k
  OBVIOUS
<1>4. t \in [0 .. c -> 0 .. L]
  BY <1>2
<1>5. \A i \in 1 .. c : t[i] = i * k /\ t[i - 1] = (i - 1) * k
  OBVIOUS
<1>6. \A i, j \in 0 .. c : i <= j => t[i] <= t[j]
  BY <1>1
<1>7. t[0] = 0 /\ t[c] = L
  OBVIOUS
<1> HIDE DEF t
<1>8. \A i \in 1 .. c : t[i - 1] = (i - 1) * k /\ t[i] - t[i - 1] = k
  BY <1>3, <1>5
<1> QED
  BY <1>4, <1>6, <1>7, <1>8 DEF Multiplied

(* A reply that has been queued: the packets of an old message, with       *)
(* nothing in them, and its pieces. *)
Filled(ps, old, bytes, k, c) ==
  /\ Len(ps) = old + c
  /\ \A i \in 1 .. old : Len(ps[i].unread) = 0
  /\ \A i \in 1 .. c : /\ Len(ps[old + i].unread) = k
                       /\ \A j \in 1 .. k : ps[old + i].unread[j] = bytes[(i - 1) * k + j]

LEMMA CarriesReply ==
  ASSUME NEW ps, NEW old \in Nat, NEW c \in Nat, NEW k \in Nat, NEW a \in Nat, NEW b \in Nat,
         NEW bytes, NEW R, Filled(ps, old, bytes, k, c),
         b = a + c * k, \A j \in 1 .. c * k : R[a + j] = bytes[j]
  PROVE  Carries(ps, a, b, R)
<1> USE DEF Filled
<1>1. PICK L \in Nat : L = c * k
  OBVIOUS
<1>2. PICK t : /\ t \in [0 .. c -> 0 .. L]
               /\ t[0] = 0 /\ t[c] = L
               /\ \A i, j \in 0 .. c : i <= j => t[i] <= t[j]
               /\ \A i \in 1 .. c : t[i - 1] = (i - 1) * k /\ t[i] - t[i - 1] = k
  <2>1. \E t : Multiplied(t, k, c, L)
    BY <1>1, Multiples
  <2> QED
    BY <2>1 DEF Multiplied
<1> DEFINE cut == [i \in 0 .. old + c |-> IF i <= old THEN a ELSE a + t[i - old]]
<1>3. \A i \in 0 .. old + c : i > old => i - old \in 0 .. c /\ t[i - old] \in 0 .. L
  BY <1>2
<1>4. b = a + L
  BY <1>1
<1>5. cut \in [0 .. old + c -> a .. b]
  <2>1. ASSUME NEW i \in 0 .. old + c
        PROVE  (IF i <= old THEN a ELSE a + t[i - old]) \in a .. b
    <3>1. CASE i <= old
      BY <1>4, <3>1
    <3>2. CASE ~ (i <= old)
      <4>1. t[i - old] \in 0 .. L
        BY <1>3, <3>2
      <4> QED
        BY <1>4, <3>2, <4>1
    <3> QED
      BY <3>1, <3>2
  <2> QED
    BY <2>1
<1>6. cut[0] = a /\ cut[old + c] = b
  <2>1. old + c > old => cut[old + c] = a + t[c]
    OBVIOUS
  <2>2. ~ (old + c > old) => c = 0 /\ cut[old + c] = a
    OBVIOUS
  <2> QED
    BY <1>2, <1>4, <2>1, <2>2
<1>7. ASSUME NEW i \in 0 .. old + c, NEW j \in 0 .. old + c, i <= j
      PROVE  cut[i] <= cut[j]
  <2>1. CASE i <= old
    BY <1>5, <2>1
  <2>2. CASE ~ (i <= old)
    <3>1. i - old \in 0 .. c /\ j - old \in 0 .. c /\ i - old <= j - old /\ ~ (j <= old)
      BY <1>7, <2>2
    <3>2. t[i - old] <= t[j - old]
      BY <1>2, <3>1
    <3>3. t[i - old] \in 0 .. L /\ t[j - old] \in 0 .. L
      BY <1>2, <3>1
    <3> QED
      BY <2>2, <3>1, <3>2, <3>3
  <2> QED
    BY <2>1, <2>2
<1>8. ASSUME NEW i \in 1 .. old + c
      PROVE  /\ Len(ps[i].unread) = cut[i] - cut[i - 1]
             /\ \A n \in 1 .. cut[i] - cut[i - 1] : ps[i].unread[n] = R[cut[i - 1] + n]
  <2>1. CASE i <= old
    <3>1. cut[i] = a /\ cut[i - 1] = a /\ i \in 1 .. old
      BY <2>1
    <3> HIDE DEF cut
    <3> QED
      BY <3>1
  <2>2. CASE ~ (i <= old)
    <3>1. PICK m \in 1 .. c : m = i - old /\ i = old + m
      BY <2>2
    <3>2. cut[i] = a + t[m] /\ cut[i - 1] = a + t[m - 1]
      <4>1. cut[i] = a + t[m]
        BY <2>2, <3>1
      <4>2. CASE i - 1 > old
        BY <2>2, <3>1, <4>2
      <4>3. CASE ~ (i - 1 > old)
        <5>1. m = 1 /\ i - 1 <= old /\ t[m - 1] = 0
          BY <1>2, <2>2, <3>1, <4>3
        <5>2. cut[i - 1] = a
          BY <5>1
        <5> QED
          BY <4>1, <5>1, <5>2
      <4> QED
        BY <4>1, <4>2, <4>3
    <3> HIDE DEF cut
    <3>3. t[m - 1] \in 0 .. L /\ t[m] \in 0 .. L /\ t[m - 1] = (m - 1) * k /\ t[m] - t[m - 1] = k
      BY <1>2
    <3>4. cut[i] - cut[i - 1] = k
      BY <3>2, <3>3
    <3>5. ASSUME NEW n \in 1 .. k
          PROVE  ps[i].unread[n] = R[cut[i - 1] + n]
      <4>1. ps[i].unread[n] = bytes[(m - 1) * k + n]
        BY <3>1
      <4>2. PICK w \in Nat : w = t[m - 1] /\ w = (m - 1) * k
        BY <3>3
      <4>3. w + n \in 1 .. c * k
        BY <1>1, <3>3, <4>2
      <4>4. R[a + (w + n)] = bytes[w + n]
        BY <4>3
      <4>5. cut[i - 1] + n = a + (w + n)
        BY <3>2, <4>2
      <4> QED
        BY <4>1, <4>2, <4>4, <4>5
    <3> QED
      BY <3>1, <3>4, <3>5
  <2> QED
    BY <2>1, <2>2
<1> HIDE DEF cut
<1>9. CutAt(cut, ps, a, b, R)
  BY <1>5, <1>6, <1>7, <1>8 DEF CutAt
<1> QED
  BY <1>9 DEF Carries

(* A call of send takes the next n bytes: the packets before have none.    *)
SentFrom(ps, us, l, k, size, n) ==
  /\ Len(ps) = l /\ \A i \in 1 .. k - 1 : Len(ps[i].unread) = 0
  /\ size = Len(ps[k].unread)
  /\ Len(us) = l /\ \A i \in 1 .. l : i # k => us[i] = ps[i]
  /\ Len(us[k].unread) = size - n
  /\ \A i \in 1 .. size - n : us[k].unread[i] = ps[k].unread[n + i]

(* What it took of R, and that nothing is left after the last packet. *)
TookOf(R, ps, l, k, size, n, a, d, b) ==
  /\ \A i \in 1 .. n : ps[k].unread[i] = R[a + i]
  /\ n = size /\ k = l => d = b

LEMMA CarriesSent ==
  ASSUME NEW ps, NEW us, NEW l \in Nat, NEW k \in 1 .. l, NEW size \in Nat, NEW n \in 0 .. size,
         SentFrom(ps, us, l, k, size, n),
         NEW a \in Nat, NEW b \in Nat, NEW R, Carries(ps, a, b, R),
         NEW d \in Nat, d = a + n
  PROVE  /\ d <= b
         /\ TookOf(R, ps, l, k, size, n, a, d, b)
         /\ Carries(us, d, b, R)
<1> USE DEF SentFrom, TookOf
<1>1. PICK cut : CutAt(cut, ps, a, b, R)
  BY DEF Carries
<1>2. /\ cut \in [0 .. l -> a .. b] /\ cut[0] = a /\ cut[l] = b
      /\ \A i, j \in 0 .. l : i <= j => cut[i] <= cut[j]
      /\ \A i \in 1 .. l :
           /\ Len(ps[i].unread) = cut[i] - cut[i - 1]
           /\ \A j \in 1 .. cut[i] - cut[i - 1] : ps[i].unread[j] = R[cut[i - 1] + j]
  BY <1>1 DEF CutAt
<1>3. \A i \in 0 .. l : cut[i] \in Nat /\ a <= cut[i] /\ cut[i] <= b
  BY <1>2
<1>4. cut[k - 1] = a
  <2> DEFINE T == {i \in 0 .. k - 1 : cut[i] # a}
  <2>1. SUFFICES ASSUME T # {} PROVE FALSE
    OBVIOUS
  <2>2. T \subseteq Nat
    OBVIOUS
  <2>3. PICK i \in T : \A j \in T : i <= j
    BY <2>1, <2>2, Least
  <2>4. i \in 0 .. k - 1 /\ cut[i] # a /\ i # 0
    BY <1>2, <2>3
  <2>5. i - 1 \in 0 .. k - 1 /\ ~ (i <= i - 1) /\ i \in 1 .. k - 1 /\ i \in 1 .. l
        /\ i - 1 \in 0 .. l /\ i \in 0 .. l
    BY <2>4
  <2>6. cut[i - 1] = a
    BY <2>3, <2>5
  <2>7. cut[i] - cut[i - 1] = 0
    BY <1>2, <2>5
  <2> QED
    BY <1>3, <2>4, <2>5, <2>6, <2>7
<1>5. k \in 0 .. l /\ k - 1 \in 0 .. l
  OBVIOUS
<1>6. cut[k] \in Nat /\ cut[k] = a + size /\ cut[k] <= b
  <2>1. size = cut[k] - cut[k - 1]
    BY <1>2
  <2> QED
    BY <1>3, <1>4, <1>5, <2>1
<1>7. d <= b /\ d <= cut[k]
  BY <1>6
<1>8. ASSUME NEW i \in 1 .. n PROVE ps[k].unread[i] = R[a + i]
  <2>1. i \in 1 .. cut[k] - cut[k - 1]
    BY <1>4, <1>6
  <2> QED
    BY <1>2, <1>4, <2>1
<1> DEFINE new == [i \in 0 .. l |-> IF i < k THEN d ELSE cut[i]]
<1>9. \A i \in 0 .. l : ~ (i < k) => cut[k] <= cut[i]
  BY <1>2, <1>5
<1>10. \A i \in 0 .. l : (IF i < k THEN d ELSE cut[i]) \in d .. b
  BY <1>3, <1>6, <1>7, <1>9
<1>11. new \in [0 .. l -> d .. b]
  BY <1>10
<1>12. new[0] = d /\ new[l] = b /\ new[k - 1] = d /\ new[k] = cut[k]
  <2>1. 0 \in 0 .. l /\ 0 < k /\ l \in 0 .. l /\ ~ (l < k) /\ k - 1 < k /\ ~ (k < k)
    OBVIOUS
  <2> QED
    BY <1>2, <1>5, <2>1
<1>13. ASSUME NEW i \in 0 .. l, NEW j \in 0 .. l, i <= j PROVE new[i] <= new[j]
  <2>1. CASE i < k
    <3>1. new[i] = d /\ new[j] \in d .. b
      BY <1>11, <2>1
    <3> QED
      BY <1>7, <3>1
  <2>2. CASE ~ (i < k)
    <3>1. new[i] = cut[i] /\ new[j] = cut[j]
      BY <1>13, <2>2
    <3> QED
      BY <1>2, <1>13, <3>1
  <2> QED
    BY <2>1, <2>2
<1>14. ASSUME NEW i \in 1 .. l
       PROVE  /\ Len(us[i].unread) = new[i] - new[i - 1]
              /\ \A j \in 1 .. new[i] - new[i - 1] : us[i].unread[j] = R[new[i - 1] + j]
  <2>1. CASE i < k
    <3>1. new[i] = d /\ new[i - 1] = d /\ i \in 1 .. k - 1 /\ i # k
      BY <2>1
    <3> HIDE DEF new
    <3>2. Len(us[i].unread) = 0
      BY <3>1
    <3> QED
      BY <3>1, <3>2
  <2>2. CASE i = k
    <3>1. new[i] = a + size /\ new[i - 1] = a + n
      BY <1>6, <1>12, <2>2
    <3> HIDE DEF new
    <3>2. new[i] - new[i - 1] = size - n
      BY <3>1
    <3>3. ASSUME NEW j \in 1 .. size - n PROVE us[i].unread[j] = R[new[i - 1] + j]
      <4>1. us[i].unread[j] = ps[k].unread[n + j]
        BY <2>2
      <4>2. n + j \in 1 .. cut[k] - cut[k - 1]
        BY <1>4, <1>6
      <4>3. ps[k].unread[n + j] = R[a + (n + j)]
        BY <1>2, <1>4, <4>2
      <4>4. new[i - 1] + j = a + (n + j)
        BY <3>1
      <4> QED
        BY <4>1, <4>3, <4>4
    <3> QED
      BY <2>2, <3>2, <3>3
  <2>3. CASE i > k
    <3>1. new[i] = cut[i] /\ new[i - 1] = cut[i - 1] /\ us[i] = ps[i]
      BY <2>3
    <3> HIDE DEF new
    <3> QED
      BY <1>2, <3>1
  <2>4. i < k \/ i = k \/ i > k
    OBVIOUS
  <2> QED
    BY <2>1, <2>2, <2>3, <2>4, Zenon
<1> HIDE DEF new
<1>15. CutAt(new, us, d, b, R)
  BY <1>11, <1>12, <1>13, <1>14 DEF CutAt
<1>16. n = size /\ k = l => d = b
  BY <1>2, <1>6
<1> QED
  BY <1>7, <1>8, <1>15, <1>16 DEF Carries

(* The messages of a queue s carry all bytes of R after a, up to b: the    *)
(* j-th those up to ends[j]. *)
QueueAt(ends, s, a, b, R) ==
  /\ ends \in [0 .. Len(s) -> a .. b]
  /\ ends[0] = a /\ ends[Len(s)] = b
  /\ \A i, j \in 0 .. Len(s) : i <= j => ends[i] <= ends[j]
  /\ \A j \in 1 .. Len(s) : Carries(s[j].packets_, ends[j - 1], ends[j], R)

Carried(s, a, b, R) == \E ends : QueueAt(ends, s, a, b, R)

LEMMA PacketCount ==
  ASSUME NEW m \in Queued
  PROVE  m.packets_ \in Seq(Packet(Byte)) /\ Len(m.packets_) \in Nat
<1>1. m.packets_ \in Seq(Packet(Byte))
  BY DEF Queued, Message
<1> QED
  BY <1>1, LenProperties

LEMMA CarriedWithReply ==
  ASSUME NEW s \in Seq(Queued), NEW e \in Queued, NEW a \in Nat, NEW b \in Nat, NEW c \in Nat,
         NEW R, NEW Q, Carried(s, a, b, R), a <= b, b <= c, \A i \in 1 .. b : Q[i] = R[i],
         Carries(e.packets_, b, c, Q)
  PROVE  Carried(Append(s, e), a, c, Q)
<1>1. PICK ends : QueueAt(ends, s, a, b, R)
  BY DEF Carried
<1>2. PICK l \in Nat : l = Len(s)
  BY LenProperties
<1>3. PICK t \in Seq(Queued) : t = Append(s, e) /\ Len(t) = l + 1 /\ t[l + 1] = e
                               /\ \A i \in 1 .. l : t[i] = s[i]
  <2>1. PICK t : t = Append(s, e)
    OBVIOUS
  <2>2. t \in Seq(Queued) /\ Len(t) = Len(s) + 1 /\ t[Len(s) + 1] = e
        /\ \A i \in 1 .. Len(s) : t[i] = s[i]
    BY <2>1, AppendProperties
  <2> QED
    BY <1>2, <2>1, <2>2
<1>4. /\ ends \in [0 .. l -> a .. b] /\ ends[0] = a /\ ends[l] = b
      /\ \A i, j \in 0 .. l : i <= j => ends[i] <= ends[j]
      /\ \A j \in 1 .. l : Carries(s[j].packets_, ends[j - 1], ends[j], R)
  BY <1>1, <1>2 DEF QueueAt
<1> DEFINE more == [j \in 0 .. l + 1 |-> IF j = l + 1 THEN c ELSE ends[j]]
<1>5. \A j \in 0 .. l + 1 : j # l + 1 => j \in 0 .. l
  OBVIOUS
<1>6. \A j \in 0 .. l : ends[j] \in Nat /\ a <= ends[j] /\ ends[j] <= b
  BY <1>4
<1>7. \A j \in 0 .. l + 1 : (IF j = l + 1 THEN c ELSE ends[j]) \in a .. c
  BY <1>5, <1>6
<1>8. more \in [0 .. l + 1 -> a .. c]
  BY <1>7
<1>9. more[0] = a /\ more[l + 1] = c /\ \A j \in 0 .. l : more[j] = ends[j]
  BY <1>4
<1> HIDE DEF more
<1>10. ASSUME NEW i \in 0 .. l + 1, NEW j \in 0 .. l + 1, i <= j PROVE more[i] <= more[j]
  <2>1. CASE j = l + 1
    BY <1>8, <1>9, <2>1
  <2>2. CASE j # l + 1
    <3>1. i \in 0 .. l /\ j \in 0 .. l
      BY <1>10, <2>2
    <3> QED
      BY <1>4, <1>9, <1>10, <3>1
  <2> QED
    BY <2>1, <2>2
<1>11. ASSUME NEW j \in 1 .. l + 1 PROVE Carries(t[j].packets_, more[j - 1], more[j], Q)
  <2>1. CASE j = l + 1
    <3>1. more[j - 1] = b /\ more[j] = c /\ t[j] = e
      <4>1. j - 1 = l /\ l \in 0 .. l
        BY <2>1
      <4> QED
        BY <1>3, <1>4, <1>9, <2>1, <4>1
    <3> QED
      BY <3>1
  <2>2. CASE j # l + 1
    <3>1. j \in 1 .. l /\ j - 1 \in 0 .. l /\ j \in 0 .. l
      BY <2>2
    <3>2. PICK x \in Nat, y \in Nat : x = ends[j - 1] /\ y = ends[j] /\ y <= b
      BY <1>6, <3>1
    <3>3. PICK m \in Queued : m = s[j]
      BY <1>2, <3>1, ElementOfSeq
    <3>4. Carries(m.packets_, x, y, R) /\ \A i \in 1 .. y : Q[i] = R[i]
      BY <1>4, <3>1, <3>2, <3>3
    <3>5. PICK ps : ps = m.packets_ /\ Len(ps) \in Nat
      BY PacketCount
    <3>6. Carries(ps, x, y, Q)
      BY <3>4, <3>5, CarriesOn
    <3> QED
      BY <1>3, <1>9, <3>1, <3>2, <3>3, <3>5, <3>6
  <2> QED
    BY <2>1, <2>2
<1>12. QueueAt(more, t, a, c, Q)
  BY <1>3, <1>8, <1>9, <1>10, <1>11 DEF QueueAt
<1> QED
  BY <1>3, <1>12 DEF Carried

(* Of the message in front, whose bytes end at z, those up to d are sent.  *)
LEMMA CarriedInFront ==
  ASSUME NEW s \in Seq(Queued), s # <<>>, NEW a \in Nat, NEW b \in Nat, NEW R, Carried(s, a, b, R)
  PROVE  \E z \in a .. b :
           /\ Carries(s[1].packets_, a, z, R)
           /\ Carried(Tail(s), z, b, R)
           /\ \A d \in a .. z, f \in Queued :
                Carries(f.packets_, d, z, R) => Carried(<<f>> \o Tail(s), d, b, R)
<1>1. PICK ends : QueueAt(ends, s, a, b, R)
  BY DEF Carried
<1>2. PICK l \in Nat : l = Len(s) /\ l >= 1
  BY EmptySeq
<1>3. /\ ends \in [0 .. l -> a .. b] /\ ends[0] = a /\ ends[l] = b
      /\ \A i, j \in 0 .. l : i <= j => ends[i] <= ends[j]
      /\ \A j \in 1 .. l : Carries(s[j].packets_, ends[j - 1], ends[j], R)
  BY <1>1, <1>2 DEF QueueAt
<1>4. PICK z \in a .. b : z = ends[1]
  BY <1>2, <1>3
<1>5. Carries(s[1].packets_, a, z, R)
  <2>1. 1 \in 1 .. l /\ 1 - 1 = 0
    BY <1>2
  <2>2. Carries(s[1].packets_, ends[1 - 1], ends[1], R)
    BY <1>3, <2>1
  <2> QED
    BY <1>3, <1>4, <2>1, <2>2
<1>6. \A j \in 1 .. l : j \in 0 .. l /\ ends[j] \in Nat /\ z <= ends[j] /\ ends[j] <= b
  BY <1>2, <1>3, <1>4
<1>7. Carried(Tail(s), z, b, R)
  <2>1. PICK t \in Seq(Queued) : t = Tail(s) /\ Len(t) = l - 1 /\ \A i \in 1 .. l - 1 : t[i] = s[i + 1]
    <3>1. PICK t : t = Tail(s)
      OBVIOUS
    <3>2. t \in Seq(Queued) /\ Len(t) = Len(s) - 1 /\ \A i \in 1 .. Len(t) : t[i] = s[i + 1]
      BY <3>1, HeadTailProperties
    <3>3. Len(t) = l - 1
      BY <1>2, <3>2
    <3> QED
      BY <3>1, <3>2, <3>3
  <2> DEFINE less == [j \in 0 .. l - 1 |-> ends[j + 1]]
  <2>2. \A j \in 0 .. l - 1 : j + 1 \in 1 .. l
    BY <1>2
  <2>3. \A j \in 0 .. l - 1 : ends[j + 1] \in z .. b
    BY <1>6, <2>2
  <2>4. less \in [0 .. l - 1 -> z .. b]
    BY <2>3
  <2>5. less[0] = z /\ less[l - 1] = b /\ \A j \in 0 .. l - 1 : less[j] = ends[j + 1]
    BY <1>2, <1>3, <1>4
  <2> HIDE DEF less
  <2>6. \A i, j \in 0 .. l - 1 : i <= j => less[i] <= less[j]
    <3>1. \A i, j \in 0 .. l - 1 : i <= j => i + 1 <= j + 1 /\ i + 1 \in 0 .. l /\ j + 1 \in 0 .. l
      BY <1>2
    <3> QED
      BY <1>3, <2>5, <3>1
  <2>7. ASSUME NEW j \in 1 .. l - 1 PROVE Carries(t[j].packets_, less[j - 1], less[j], R)
    <3>1. PICK i \in 1 .. l : i = j + 1 /\ i - 1 = j
      BY <1>2
    <3>2. Carries(s[i].packets_, ends[i - 1], ends[i], R)
      BY <1>3
    <3>3. t[j] = s[i]
      BY <2>1, <3>1
    <3>4. less[j] = ends[i] /\ less[j - 1] = ends[i - 1]
      <4>1. j \in 0 .. l - 1 /\ j - 1 \in 0 .. l - 1 /\ (j - 1) + 1 = i - 1
        BY <3>1
      <4> QED
        BY <2>5, <3>1, <4>1
    <3> QED
      BY <3>2, <3>3, <3>4
  <2>8. QueueAt(less, t, z, b, R)
    BY <2>1, <2>4, <2>5, <2>6, <2>7 DEF QueueAt
  <2> QED
    BY <2>1, <2>8 DEF Carried
<1>8. ASSUME NEW d \in a .. z, NEW f \in Queued, Carries(f.packets_, d, z, R)
      PROVE  Carried(<<f>> \o Tail(s), d, b, R)
  <2>1. PICK t \in Seq(Queued) : t = <<f>> \o Tail(s) /\ Len(t) = l /\ t[1] = f
                                 /\ \A i \in 2 .. l : t[i] = s[i]
    <3>1. PICK t : t = <<f>> \o Tail(s)
      OBVIOUS
    <3>2. t \in Seq(Queued) /\ Len(t) = Len(s) /\ t[1] = f /\ \A i \in 2 .. Len(s) : t[i] = s[i]
      BY <3>1, Refronted
    <3> QED
      BY <1>2, <3>1, <3>2
  <2> DEFINE new == [j \in 0 .. l |-> IF j = 0 THEN d ELSE ends[j]]
  <2>2. \A j \in 0 .. l : j # 0 => j \in 1 .. l
    OBVIOUS
  <2>3. \A j \in 0 .. l : (IF j = 0 THEN d ELSE ends[j]) \in d .. b
    BY <1>6, <2>2
  <2>4. new \in [0 .. l -> d .. b]
    BY <2>3
  <2>5. new[0] = d /\ \A j \in 1 .. l : new[j] = ends[j]
    OBVIOUS
  <2>6. new[l] = b
    BY <1>2, <1>3
  <2> HIDE DEF new
  <2>7. ASSUME NEW i \in 0 .. l, NEW j \in 0 .. l, i <= j PROVE new[i] <= new[j]
    <3>1. CASE i = 0
      BY <2>4, <2>5, <3>1
    <3>2. CASE i # 0
      <4>1. i \in 1 .. l /\ j \in 1 .. l
        BY <2>7, <3>2
      <4> QED
        BY <1>3, <2>5, <2>7, <4>1
    <3> QED
      BY <3>1, <3>2
  <2>8. ASSUME NEW j \in 1 .. l PROVE Carries(t[j].packets_, new[j - 1], new[j], R)
    <3>1. CASE j = 1
      <4>1. new[j - 1] = d /\ new[j] = z /\ t[j] = f
        BY <1>4, <2>1, <2>5, <3>1
      <4> QED
        BY <1>8, <4>1
    <3>2. CASE j # 1
      <4>1. j \in 2 .. l /\ j - 1 \in 1 .. l
        BY <3>2
      <4> QED
        BY <1>3, <2>1, <2>5, <4>1
    <3> QED
      BY <3>1, <3>2
  <2>9. QueueAt(new, t, d, b, R)
    BY <2>1, <2>4, <2>5, <2>6, <2>7, <2>8 DEF QueueAt
  <2> QED
    BY <2>1, <2>9 DEF Carried
<1> QED
  BY <1>4, <1>5, <1>7, <1>8

(* What the replies become in the packets, in order. *)
Written == FlattenSeq([i \in DOMAIN handled |-> Copied(i, handled[i].id)])

(* What the peer has received is a front of it, and the rest is in         *)
(* sendBuffer_. *)
Replied ==
  /\ Written \in Seq(Byte)
  /\ Len(received) <= Len(Written)
  /\ \A k \in 1 .. Len(received) : received[k] = Written[k]
  /\ end = "none" => Carried(sendBuffer_, Len(received), Len(Written), Written)

LEMMA InitReplied ==
  ASSUME Init
  PROVE  Replied
<1>1. handled = <<>> /\ received = <<>> /\ sendBuffer_ = <<>>
  BY DEF Init
<1>2. [i \in DOMAIN handled |-> Copied(i, handled[i].id)] = <<>>
  BY <1>1
<1>3. Written = <<>>
  BY <1>2 DEF Written, FlattenSeq
<1>4. PICK e \in Seq(Byte) : e = <<>> /\ Len(e) = 0
  <2>1. <<>> \in Seq(Byte) /\ Len(<<>>) = 0
    OBVIOUS
  <2> QED
    BY <2>1
<1> DEFINE ends == [j \in 0 .. 0 |-> 0]
<1>5. QueueAt(ends, e, 0, 0, e)
  BY <1>4 DEF QueueAt
<1>6. Carried(e, 0, 0, e)
  BY <1>5 DEF Carried
<1> QED
  BY <1>1, <1>3, <1>4, <1>6 DEF Replied

(* Steps that neither handle nor send. *)
LEMMA RepliedStill ==
  ASSUME Replied, UNCHANGED <<handled, received>>,
         end' = "none" => end = "none" /\ UNCHANGED sendBuffer_
  PROVE  Replied'
<1>1. Written' = Written
  BY DEF Written, Copied, Memory
<1>2. PICK r, R, s : r = received /\ R = Written /\ s = sendBuffer_
  OBVIOUS
<1>3. received' = r /\ Written' = R
  BY <1>1, <1>2
<1>4. end' = "none" => Carried(s, Len(r), Len(R), R) /\ sendBuffer_' = s
  BY <1>2 DEF Replied
<1> QED
  BY <1>2, <1>3, <1>4 DEF Replied

LEMMA RepliesGrow ==
  ASSUME Held, Written \in Seq(Byte), NEW e, e.id \in Requests, handled' = Append(handled, e),
         handled' \in Seq([id : Requests, body : Seq(Nat)])
  PROVE  Written' = Written \o Copied(Len(handled) + 1, e.id)
<1>1. handled \in Seq([id : Requests, body : Seq(Nat)])
  BY DEF Held, HeaderHeld
<1>2. PICK n \in Nat : n = Len(handled)
  BY <1>1, LenProperties
<1>3. DOMAIN handled = 1 .. n /\ \A i \in 1 .. n : handled[i].id \in Requests
  <2>1. handled \in [1 .. n -> [id : Requests, body : Seq(Nat)]]
    BY <1>1, <1>2, LenProperties
  <2> QED
    BY <2>1
<1>4. PICK id \in Requests : id = e.id
  OBVIOUS
<1>5. DOMAIN handled' = 1 .. n + 1 /\ handled'[n + 1] = e
      /\ \A i \in 1 .. n : handled'[i] = handled[i]
  BY <1>1, <1>2, AppendProperties, LenProperties
<1> DEFINE seqs == [i \in 1 .. n |-> Copied(i, handled[i].id)]
<1>6. \A i \in 1 .. n : seqs[i] \in Seq(Byte)
  <2>1. ASSUME NEW i \in 1 .. n PROVE seqs[i] \in Seq(Byte)
    <3>1. PICK m \in Requests, k \in Nat : m = handled[i].id /\ k = i
      BY <1>3
    <3>2. Copied(k, m) \in Seq(Byte)
      BY ReplyBytes
    <3> QED
      BY <3>1, <3>2
  <2> QED
    BY <2>1
<1>7. PICK q \in Seq(Seq(Byte)) : q = seqs /\ Len(q) = n
  <2>1. seqs \in [1 .. n -> Seq(Byte)]
    BY <1>6
  <2> HIDE DEF seqs
  <2> QED
    BY <2>1, Listed
<1>8. PICK s \in Seq(Byte) : s = Copied(n + 1, id)
  <2>1. PICK k \in Nat : k = n + 1
    OBVIOUS
  <2>2. Copied(k, id) \in Seq(Byte)
    BY ReplyBytes
  <2> QED
    BY <2>1, <2>2
<1>9. Written = FlattenSeq(q)
  BY <1>3, <1>7 DEF Written
<1>10. Append(q, s) = [i \in 1 .. n + 1 |-> Copied(i, handled'[i].id)]
  <2>1. PICK t : t = Append(q, s)
    OBVIOUS
  <2>2. t \in Seq(Seq(Byte)) /\ Len(t) = n + 1 /\ t[n + 1] = s /\ \A i \in 1 .. n : t[i] = q[i]
    BY <1>7, <2>1, AppendProperties
  <2>3. ASSUME NEW i \in 1 .. n + 1 PROVE t[i] = Copied(i, handled'[i].id)
    <3>1. CASE i = n + 1
      BY <1>4, <1>5, <1>8, <2>2, <3>1
    <3>2. CASE i # n + 1
      <4>1. i \in 1 .. n
        BY <3>2
      <4> QED
        BY <1>5, <1>7, <2>2, <4>1
    <3> QED
      BY <3>1, <3>2
  <2>4. t \in [1 .. n + 1 -> Seq(Byte)]
    BY <2>2, LenProperties
  <2> QED
    BY <2>1, <2>3, <2>4
<1>11. Written' = FlattenSeq(Append(q, s))
  <2>1. Written' = FlattenSeq([i \in DOMAIN handled' |-> Copied(i, handled'[i].id)])
    BY DEF Written, Copied, Memory
  <2> QED
    BY <1>5, <1>10, <2>1
<1>12. FlattenSeq(q) \in Seq(Byte)
  BY <1>9
<1>13. FlattenSeq(Append(q, s)) = FlattenSeq(q) \o s
  BY <1>12, FlattenAppend
<1> QED
  BY <1>2, <1>4, <1>8, <1>9, <1>11, <1>13

(* A message that is handled adds its reply at the end of the queue. *)
LEMMA RepliedHandle ==
  ASSUME Held, Held', Replied, ProcFrame, NEW h, h \in HeaderRead, ProcHandle(h), end' = "none"
  PROVE  Replied'
<1>1. /\ h.id \in Requests /\ Len(handled) \in Nat /\ UNCHANGED end
      /\ handled' = Append(handled, [id |-> h.id, body |-> SubSeq(h.packet.unread, 1, h.len)])
  BY HandleParts
<1>2. received' = received
  BY DEF ProcFrame, peerVars
<1>3. PICK i \in Nat, id \in Requests : i = Len(handled) + 1 /\ id = h.id
  <2>1. Len(handled) + 1 \in Nat
    BY <1>1
  <2> QED
    BY <1>1, <2>1
<1>4. PICK bytes \in Seq(Byte) : bytes = Copied(i, id) /\ Len(bytes) >= 1 /\ Fits(Len(bytes))
  BY ReplyBytes
<1>5. PICK m \in Idle, q \in Seq(Packet(Byte)) :
        /\ sendBuffer_' = Append(sendBuffer_, [packets_ |-> m.packets_ \o q, pCurrPacket_ |-> <<>>])
        /\ Len(q) = Len(Pieces(bytes)) /\ Len(q) >= 1
        /\ \A j \in 1 .. Len(q) : q[j].unread = Pieces(bytes)[j]
  <2>1. PICK m \in Idle, q \in Seq(Packet(Byte)) :
          /\ sendBuffer_' = Append(sendBuffer_, [packets_ |-> m.packets_ \o q, pCurrPacket_ |-> <<>>])
          /\ Len(q) = Len(Pieces(Copied(Len(handled) + 1, h.id))) /\ Len(q) >= 1
          /\ \A j \in 1 .. Len(q) : q[j].unread = Pieces(Copied(Len(handled) + 1, h.id))[j]
          /\ ~ reused' => m.packets_ = <<>>
          /\ (reused => reused') /\ reused' \in BOOLEAN
          /\ tasks' = tasks + 1
          /\ packetPool' \in Seq(Packets({})) /\ messagePool' \in Seq(Idle)
    BY HandleQueues, Zenon
  <2>2. bytes = Copied(Len(handled) + 1, h.id)
    BY <1>3, <1>4
  <2> QED
    BY <2>1, <2>2, Zenon
<1>6. PICK k, c, pieces :
        k \in Nat /\ c \in Nat /\ pieces = Pieces(bytes) /\ c \in Nat \ {0} /\ CutInto(pieces, bytes, k, c, Byte)
  <2>1. PICK k \in Nat \ {0}, c \in Nat \ {0} : CutInto(Pieces(bytes), bytes, k, c, Byte)
    BY <1>4, Cut
  <2>2. k \in Nat /\ c \in Nat
    BY <2>1, Numbers
  <2> QED
    BY <2>1, <2>2
<1>7. PICK a \in Nat, R \in Seq(Byte) : R = Written /\ a = Len(R)
  BY LenProperties DEF Replied
<1>8. PICK Q \in Seq(Byte) : Q = Written' /\ Q = R \o bytes
  <2>1. PICK e : e = [id |-> h.id, body |-> SubSeq(h.packet.unread, 1, h.len)]
    OBVIOUS
  <2>2. handled' = Append(handled, e) /\ e.id \in Requests /\ e.id = h.id
    BY <1>1, <2>1
  <2>3. Written \in Seq(Byte) /\ handled' \in Seq([id : Requests, body : Seq(Nat)])
    BY DEF Held, HeaderHeld, Replied
  <2>4. Written' = Written \o Copied(Len(handled) + 1, e.id)
    BY <2>2, <2>3, RepliesGrow
  <2>5. Written' = R \o bytes
    BY <1>3, <1>4, <1>7, <2>2, <2>4
  <2> QED
    BY <2>5, ConcatProperties
<1>9. PICK n \in Nat : n = c * k /\ n = Len(bytes)
  BY <1>4, <1>6, LenProperties DEF CutInto
<1>10. /\ Len(Q) = a + n
       /\ \A j \in 1 .. a + n : Q[j] = IF j <= a THEN R[j] ELSE bytes[j - a]
  <2>1. /\ Len(R \o bytes) = Len(R) + Len(bytes)
        /\ \A j \in 1 .. Len(R) + Len(bytes) :
             (R \o bytes)[j] = IF j <= Len(R) THEN R[j] ELSE bytes[j - Len(R)]
    BY ConcatProperties
  <2> QED
    BY <1>7, <1>8, <1>9, <2>1
<1>11. PICK b \in Nat : b = a + n /\ b = Len(Q) /\ a <= b
  BY <1>10
<1>12. (\A j \in 1 .. a : Q[j] = R[j]) /\ \A j \in 1 .. n : Q[a + j] = bytes[j]
  <2>1. \A j \in 1 .. n : a + j \in 1 .. a + n /\ ~ (a + j <= a) /\ (a + j) - a = j
    OBVIOUS
  <2>2. \A j \in 1 .. a : j \in 1 .. a + n /\ j <= a
    OBVIOUS
  <2> QED
    BY <1>10, <2>1, <2>2
<1>13. PICK ps \in Seq(Packet(Byte)), old \in Seq(Packet({})), o \in Nat :
         /\ ps = m.packets_ \o q /\ o = Len(old)
         /\ [packets_ |-> ps, pCurrPacket_ |-> <<>>] \in Queued
         /\ Len(ps) = o + Len(q)
         /\ \A j \in 1 .. o : ps[j] \in Packet({})
         /\ \A j \in 1 .. Len(q) : ps[o + j] = q[j]
  <2>1. /\ m.packets_ \o q \in Seq(Packet(Byte))
        /\ [packets_ |-> m.packets_ \o q, pCurrPacket_ |-> <<>>] \in Queued
        /\ Len(m.packets_) \in Nat /\ Len(m.packets_ \o q) = Len(m.packets_) + Len(q)
        /\ \A j \in 1 .. Len(m.packets_) :
             (m.packets_ \o q)[j] \in Packet({}) /\ (m.packets_ \o q)[j] = m.packets_[j]
        /\ \A j \in 1 .. Len(q) : (m.packets_ \o q)[Len(m.packets_) + j] = q[j]
    BY <1>5, QueuedWith
  <2>2. m.packets_ \in Seq(Packet({}))
    BY MessageParts
  <2> QED
    BY <2>1, <2>2, Zenon
<1>14. PICK e \in Queued : e = [packets_ |-> ps, pCurrPacket_ |-> <<>>] /\ e.packets_ = ps
  BY <1>13
<1>15. Carries(ps, a, b, Q)
  <2>1. Len(ps) = o + c /\ b = a + c * k /\ Len(q) = c
    BY <1>5, <1>6, <1>9, <1>11, <1>13 DEF CutInto
  <2>2. \A j \in 1 .. o : Len(ps[j].unread) = 0
    BY <1>13, Emptied, EmptySeq
  <2>3. ASSUME NEW j \in 1 .. c
        PROVE  /\ Len(ps[o + j].unread) = k
               /\ \A x \in 1 .. k : ps[o + j].unread[x] = bytes[(j - 1) * k + x]
    <3>1. ps[o + j] = q[j] /\ q[j].unread = pieces[j]
      BY <1>5, <1>6, <1>13, <2>1
    <3>2. Len(pieces[j]) = k /\ \A x \in 1 .. k : pieces[j][x] = bytes[(j - 1) * k + x]
      BY <1>6 DEF CutInto
    <3> QED
      BY <3>1, <3>2, Zenon
  <2>4. \A j \in 1 .. c * k : Q[a + j] = bytes[j]
    BY <1>9, <1>12
  <2>5. Filled(ps, o, bytes, k, c)
    BY <2>1, <2>2, <2>3, Zenon DEF Filled
  <2>6. k \in Nat /\ c \in Nat
    BY <1>6
  <2> QED
    BY <2>1, <2>4, <2>5, <2>6, CarriesReply
<1>16. PICK r \in Seq(Byte), l \in Nat : r = received /\ l = Len(r) /\ l <= a
         /\ \A j \in 1 .. l : r[j] = R[j]
  <2>1. received \in Seq(Byte)
    BY DEF Held, StreamHeld
  <2> QED
    BY <1>7, <2>1, LenProperties DEF Replied
<1>17. PICK s \in Seq(Queued) : s = sendBuffer_
  BY DEF Held, SendHeld
<1>18. Carried(s, l, a, R)
  BY <1>7, <1>16, <1>17 DEF Replied, ProcFrame
<1>19. Carried(Append(s, e), l, b, Q)
  BY <1>11, <1>12, <1>14, <1>15, <1>16, <1>18, CarriedWithReply
<1>20. sendBuffer_' = Append(s, e)
  BY <1>5, <1>13, <1>14, <1>17
<1>21. l <= b /\ \A j \in 1 .. l : r[j] = Q[j]
  <2>1. \A j \in 1 .. l : j \in 1 .. a
    BY <1>16
  <2> QED
    BY <1>11, <1>12, <1>16, <2>1
<1> QED
  BY <1>2, <1>8, <1>11, <1>16, <1>19, <1>20, <1>21 DEF Replied

(* What send takes is what comes next of the replies. *)
LEMMA RepliedSent ==
  ASSUME Held, Replied, SendPart
  PROVE  Replied'
<1>1. end = "none" /\ UNCHANGED handled /\ end' = "none" /\ sending # -1
  BY DEF SendPart, procVars, Held, SendHeld
<1>2. PICK m \in Queued, k \in Nat, p \in Packet(Byte), n \in Nat, u \in Seq(Packet(Byte)) :
        n \in 1 .. readableSize(p) /\ SendsPart(m, k, p, n, u)
  BY SendPartParts
<1>3. PICK s \in Seq(Queued) : s = sendBuffer_ /\ s # <<>>
  BY <1>1, FrontHeld
<1>4. PICK R \in Seq(Byte), r \in Seq(Byte), a \in Nat, b \in Nat :
        R = Written /\ r = received /\ a = Len(r) /\ b = Len(R)
  <2>1. received \in Seq(Byte) /\ Written \in Seq(Byte)
    BY DEF Held, StreamHeld, Replied
  <2> QED
    BY <2>1, LenProperties
<1>5. a <= b /\ Carried(s, a, b, R) /\ \A j \in 1 .. a : r[j] = R[j]
  BY <1>1, <1>3, <1>4 DEF Replied
<1>6. PICK z \in a .. b :
        /\ Carries(s[1].packets_, a, z, R)
        /\ Carried(Tail(s), z, b, R)
        /\ \A d \in a .. z, f \in Queued :
             Carries(f.packets_, d, z, R) => Carried(<<f>> \o Tail(s), d, b, R)
  BY <1>3, <1>5, CarriedInFront
<1>7. PICK ps \in Seq(Packet(Byte)), l \in Nat :
        ps = m.packets_ /\ l = Len(ps) /\ m = s[1] /\ k \in 1 .. l /\ p = ps[k]
  <2>1. m.packets_ \in Seq(Packet(Byte)) /\ Len(m.packets_) \in Nat
    BY PacketCount
  <2> QED
    BY <1>2, <1>3, <2>1 DEF SendsPart
<1>8. \A i \in 1 .. k - 1 : Len(ps[i].unread) = 0
  <2>1. \A i \in 1 .. sending : ps[i] \in Packet({})
    BY <1>2, <1>7 DEF Held, SendHeld, SendsPart
  <2>2. sending = k - 1
    BY <1>1, <1>2 DEF SendsPart, Held, SendHeld
  <2> QED
    BY <2>1, <2>2, Emptied, EmptySeq
<1>9. PICK size \in Nat : size = Len(ps[k].unread) /\ size = readableSize(p) /\ n \in 0 .. size /\ n \in 1 .. size
  <2>1. p.unread \in Seq(Byte)
    BY DEF Packet
  <2>2. Len(p.unread) \in Nat
    BY <2>1, LenProperties
  <2> QED
    BY <1>2, <1>7, <2>2 DEF readableSize
<1>10. /\ Len(u) = l /\ \A i \in 1 .. l : i # k => u[i] = ps[i]
       /\ Len(u[k].unread) = size - n
       /\ \A i \in 1 .. size - n : u[k].unread[i] = ps[k].unread[n + i]
  <2>1. Len(u) = l /\ \A i \in 1 .. l : u[i] = IF i = k THEN Read(p, n) ELSE ps[i]
    BY <1>2, <1>7 DEF SendsPart
  <2>2. u[k] = Read(p, n)
    BY <1>7, <2>1
  <2>3. /\ readableSize(Read(p, n)) = readableSize(p) - n
        /\ \A i \in 1 .. readableSize(p) - n : Read(p, n).unread[i] = p.unread[n + i]
    BY <1>9, ReadFrom
  <2> QED
    BY <1>7, <1>9, <2>1, <2>2, <2>3 DEF readableSize
<1>11. PICK d \in Nat : d = a + n
  OBVIOUS
<1>12. /\ d <= z
       /\ \A i \in 1 .. n : ps[k].unread[i] = R[a + i]
       /\ Carries(u, d, z, R)
       /\ (n = size /\ k = l) => d = z
  <2>1. Carries(ps, a, z, R) /\ z \in Nat
    BY <1>6, <1>7
  <2>2. SentFrom(ps, u, l, k, size, n)
    BY <1>7, <1>8, <1>9, <1>10, Zenon DEF SentFrom
  <2>3. k \in 1 .. l /\ n \in 0 .. size
    BY <1>7, <1>9
  <2>4. l \in Nat /\ size \in Nat /\ a \in Nat /\ d \in Nat
    OBVIOUS
  <2>5. d <= z
    BY <1>11, <2>1, <2>2, <2>3, <2>4, CarriesSent, Zenon
  <2>6. TookOf(R, ps, l, k, size, n, a, d, z)
    BY <1>11, <2>1, <2>2, <2>3, <2>4, CarriesSent, Zenon
  <2>7. Carries(u, d, z, R)
    BY <1>11, <2>1, <2>2, <2>3, <2>4, CarriesSent
  <2> QED
    BY <2>5, <2>6, <2>7 DEF TookOf
<1>13. PICK r2 \in Seq(Byte) :
         r2 = received' /\ Len(r2) = d /\ \A j \in 1 .. d : r2[j] = R[j]
  <2>1. PICK t \in Seq(Byte) : t = SubSeq(p.unread, 1, n) /\ Len(t) = n
          /\ \A i \in 1 .. n : t[i] = p.unread[i]
    <3>1. PICK q \in Seq(Byte) : q = p.unread
      BY DEF Packet
    <3>2. q \in [1 .. size -> Byte]
      BY <1>7, <1>9, <3>1, LenProperties
    <3>3. 1 \in Int /\ n \in Int /\ \A i \in 1 .. n : q[i] \in Byte
      BY <1>9, <3>2
    <3>4. /\ SubSeq(q, 1, n) \in Seq(Byte)
          /\ Len(SubSeq(q, 1, n)) = IF 1 <= n THEN n - 1 + 1 ELSE 0
          /\ \A i \in 1 .. n - 1 + 1 : SubSeq(q, 1, n)[i] = q[1 + i - 1]
      BY <3>3, SubSeqProperties
    <3>5. PICK t : t = SubSeq(q, 1, n)
      OBVIOUS
    <3>6. Len(t) = n /\ \A i \in 1 .. n : t[i] = q[i]
      BY <1>9, <3>4, <3>5
    <3> QED
      BY <3>1, <3>4, <3>5, <3>6
  <2>2. received' = r \o t
    BY <1>2, <1>4, <2>1 DEF SendsPart
  <2>3. /\ r \o t \in Seq(Byte) /\ Len(r \o t) = Len(r) + Len(t)
        /\ \A j \in 1 .. Len(r) + Len(t) : (r \o t)[j] = IF j <= Len(r) THEN r[j] ELSE t[j - Len(r)]
    BY ConcatProperties
  <2>4. PICK r2 \in Seq(Byte) : r2 = r \o t
    BY <2>3
  <2>5. Len(r2) = d /\ \A j \in 1 .. d : r2[j] = IF j <= a THEN r[j] ELSE t[j - a]
    BY <1>4, <1>11, <2>1, <2>3, <2>4
  <2>6. ASSUME NEW j \in 1 .. d PROVE r2[j] = R[j]
    <3>1. CASE j <= a
      <4>1. j \in 1 .. a
        BY <3>1
      <4> QED
        BY <1>5, <2>5, <3>1, <4>1
    <3>2. CASE ~ (j <= a)
      <4>1. PICK i \in 1 .. n : i = j - a /\ a + i = j
        BY <1>11, <3>2
      <4>2. r2[j] = t[i] /\ t[i] = p.unread[i] /\ p.unread[i] = R[a + i]
        BY <1>7, <1>12, <2>1, <2>5, <3>2, <4>1
      <4> QED
        BY <4>1, <4>2
    <3> QED
      BY <3>1, <3>2
  <2> QED
    BY <2>2, <2>4, <2>5, <2>6
<1>14. Written' = R
  BY <1>1, <1>4 DEF Written, Copied, Memory
<1>15. Carried(sendBuffer_', d, b, R)
  <2>1. CASE n = readableSize(p) /\ k = Len(u)
    <3>1. sendBuffer_' = Tail(s)
      BY <1>2, <1>3, <2>1 DEF SendsPart
    <3>2. d = z
      BY <1>9, <1>10, <1>12, <2>1
    <3> QED
      BY <1>6, <3>1, <3>2
  <2>2. CASE ~ (n = readableSize(p) /\ k = Len(u))
    <3>1. PICK f : f = [packets_ |-> u, pCurrPacket_ |-> <<>>]
      OBVIOUS
    <3>2. sendBuffer_' = <<f>> \o Tail(s)
      BY <1>2, <1>3, <2>2, <3>1 DEF SendsPart
    <3>3. f \in Queued /\ f.packets_ = u
      <4>1. Len(u) >= 1
        BY <1>7, <1>10
      <4>2. <<>> \in Seq(Packet(Byte))
        OBVIOUS
      <4>3. f \in Message
        BY <3>1, <4>2 DEF Message
      <4> QED
        BY <3>1, <4>1, <4>3 DEF Queued
    <3>4. d \in a .. z /\ Carries(f.packets_, d, z, R)
      BY <1>6, <1>11, <1>12, <3>3
    <3> QED
      BY <1>6, <3>2, <3>3, <3>4
  <2> QED
    BY <2>1, <2>2
<1>16. d <= b
  BY <1>6, <1>12
<1> QED
  BY <1>4, <1>13, <1>14, <1>15, <1>16 DEF Replied

LEMMA RepliedOn ==
  ASSUME Held, Replied, [Next]_vars
  PROVE  Replied'
<1>1. CASE PeerSend
  BY <1>1, RepliedStill DEF PeerSend, procVars, sendVars
<1>2. CASE RecvFromFd
  <2>1. UNCHANGED <<handled, received, sendBuffer_>> /\ (end' = "none" => end = "none")
    BY <1>2 DEF RecvFromFd, peerVars, sendVars, InLoop
  <2> QED
    BY <2>1, RepliedStill
<1>3. CASE ProcMsg
  <2>1. PICK h \in HeaderRead :
          ProcMisread(h) \/ ProcAwait(h) \/ ProcHandle(h) \/ ProcPartial(h) \/ ProcNext(h)
    BY <1>3, ProcMsgParts
  <2>2. ProcFrame
    BY <1>3, ProcMsgParts
  <2>3. end = "none" /\ UNCHANGED received
    BY <2>2 DEF ProcFrame, peerVars
  <2>4. CASE ProcHandle(h) /\ end' = "none"
    <3>1. Held'
      BY <1>3, ProcMsgHeld
    <3> QED
      BY <2>2, <2>4, <3>1, RepliedHandle
  <2>5. CASE ProcHandle(h) /\ end' # "none"
    BY <2>3, <2>5, RepliedStill DEF ProcHandle, procVars
  <2>6. CASE ProcMisread(h)
    BY <2>3, <2>6, RepliedStill DEF ProcMisread, procVars
  <2>7. CASE ProcAwait(h)
    BY <2>3, <2>7, RepliedStill DEF ProcAwait, sendVars
  <2>8. CASE ProcPartial(h)
    BY <2>3, <2>8, RepliedStill DEF ProcPartial, procVars
  <2>9. CASE ProcNext(h)
    BY <2>3, <2>9, RepliedStill DEF ProcNext, sendVars
  <2> QED
    BY <2>1, <2>4, <2>5, <2>6, <2>7, <2>8, <2>9
<1>4. CASE OnSend
  BY <1>4, RepliedStill DEF OnSend, InLoop, peerVars, procVars
<1>5. CASE SendPart
  BY <1>5, RepliedSent
<1>6. CASE SendNothing
  BY <1>6, RepliedStill DEF SendNothing, peerVars, procVars
<1>7. CASE UNCHANGED vars
  BY <1>7, RepliedStill DEF vars, peerVars, procVars, sendVars
<1> QED
  BY <1>1, <1>2, <1>3, <1>4, <1>5, <1>6, <1>7 DEF Next, Program, Send, Quiet

LEMMA RepliedAlways == Spec => [](Held /\ Replied)
<1>1. Init => Held /\ Replied
  BY InitHeld, InitReplied
<1>2. Held /\ Replied /\ [Next]_vars => (Held /\ Replied)'
  BY HeldOn, RepliedOn
<1> QED
  BY <1>1, <1>2, PTL DEF Spec

(* However send cuts the bytes, whatever the lengths of the replies, and   *)
(* whichever objects they are put into, used before or not, the peer       *)
(* receives what fillMsg copied for its messages, in their order and each  *)
(* byte once (dan_session.hpp:200-289, dan_message.hpp:59-112).            *)
THEOREM SessionOrder == Spec => []IsPrefix(received, Written)
<1>1. ASSUME Held, Replied PROVE IsPrefix(received, Written)
  <2>1. PICK r \in Seq(Byte), R \in Seq(Byte), a \in Nat, b \in Nat :
          r = received /\ R = Written /\ a = Len(r) /\ b = Len(R)
    <3>1. received \in Seq(Byte) /\ Written \in Seq(Byte)
      BY <1>1 DEF Held, StreamHeld, Replied
    <3> QED
      BY <3>1, LenProperties
  <2>2. a <= b /\ \A j \in 1 .. a : r[j] = R[j]
    BY <1>1, <2>1 DEF Replied
  <2>3. SubSeq(r, 1, a) = SubSeq(R, 1, a)
    BY <2>1, <2>2
  <2> QED
    BY <2>1, <2>2, <2>3 DEF IsPrefix
<1>2. Held /\ Replied => IsPrefix(received, Written)
  BY <1>1
<1> QED
  BY <1>2, RepliedAlways, PTL

(* Replies that fill their packets are copied as they are. *)
LEMMA WrittenReplies ==
  ASSUME RepliesFit, Held
  PROVE  Written = Replies
<1>1. handled \in Seq([id : Requests, body : Seq(Nat)])
  BY DEF Held, HeaderHeld
<1>2. ASSUME NEW i \in DOMAIN handled
      PROVE  Copied(i, handled[i].id) = Reply(i, handled[i].id)
  <2>1. handled[i] \in [id : Requests, body : Seq(Nat)]
    BY <1>1, LenProperties
  <2>2. PICK id \in Requests : id = handled[i].id
    BY <2>1
  <2>3. CopiedLen(ReplyLen[id]) = ReplyLen[id]
    BY <2>2 DEF RepliesFit, Fits, Requests
  <2> QED
    BY <2>2, <2>3 DEF Copied, Reply
<1> QED
  BY <1>2 DEF Written, Replies

(* Where no reply is read beyond its end, the peer receives the replies to *)
(* its messages in order, each byte of each of them once, however send     *)
(* cuts them; and it is answered with the identity that follows its own    *)
(* (dan_session.hpp:200-289, dan_message.hpp:87-112).                      *)
THEOREM SessionReplies ==
  ASSUME RepliesFit
  PROVE  Spec => []RepliesExact
<1>1. ASSUME Held, IsPrefix(received, Written) PROVE RepliesExact
  <2>1. IsPrefix(received, Replies)
    BY <1>1, WrittenReplies
  <2>2. ASSUME NEW i \in DOMAIN handled PROVE ReplyId(handled[i].id) = handled[i].id + 1
    <3>1. handled \in Seq([id : Requests, body : Seq(Nat)])
      BY <1>1 DEF Held, HeaderHeld
    <3>2. handled[i] \in [id : Requests, body : Seq(Nat)]
      BY <3>1, LenProperties
    <3>3. PICK id \in Requests : id = handled[i].id
      BY <3>2
    <3> QED
      BY <3>3, RequestsAnswered
  <2> QED
    BY <2>1, <2>2 DEF RepliesExact
<1>2. Held /\ IsPrefix(received, Written) => RepliesExact
  BY <1>1
<1> QED
  BY <1>2, RepliedAlways, SessionOrder, PTL

(***************************************************************************)
(* Where the bytes of the stream are, when deliveries end with messages.   *)
(* Packets ps have the places after a and up to b when the i-th of them    *)
(* has those after cut[i - 1] and up to cut[i], where a delivery ended.    *)
(***************************************************************************)

Spans(p, x, y) ==
  /\ Len(p.unread) = y - x
  /\ \A k \in 1 .. y - x : p.unread[k] = x + k

FrameAt(cut, ps, a, b, E) ==
  /\ cut \in [0 .. Len(ps) -> 0 .. b]
  /\ cut[0] = a /\ cut[Len(ps)] = b
  /\ \A i \in 1 .. Len(ps) : cut[i] \in E /\ Spans(ps[i], cut[i - 1], cut[i])

Framing(ps, a, b, E) == \E cut : FrameAt(cut, ps, a, b, E)

LEMMA FramingNone ==
  ASSUME NEW a \in Nat, NEW E
  PROVE  Framing(<<>>, a, a, E)
<1> DEFINE cut == [i \in 0 .. 0 |-> a]
<1>1. FrameAt(cut, <<>>, a, a, E)
  BY DEF FrameAt
<1> QED
  BY <1>1 DEF Framing

LEMMA FramingOver ==
  ASSUME NEW a, NEW b, NEW E, Framing(<<>>, a, b, E)
  PROVE  a = b
BY DEF Framing, FrameAt

LEMMA FramingOn ==
  ASSUME NEW ps, NEW a, NEW b, NEW E, NEW F, E \subseteq F, Framing(ps, a, b, E)
  PROVE  Framing(ps, a, b, F)
BY DEF Framing, FrameAt

(* A delivery comes behind. *)
LEMMA FramingMore ==
  ASSUME NEW S, NEW ps \in Seq(S), NEW p \in S, NEW a \in Nat, NEW b \in Nat, NEW c \in Nat, NEW E,
         Framing(ps, a, b, E), b <= c, c \in E, Spans(p, b, c)
  PROVE  Framing(Append(ps, p), a, c, E)
<1>1. PICK cut : FrameAt(cut, ps, a, b, E)
  BY DEF Framing
<1>2. PICK l \in Nat : l = Len(ps)
  BY LenProperties
<1>3. PICK qs : qs = Append(ps, p)
  OBVIOUS
<1>4. Len(qs) = l + 1 /\ qs[l + 1] = p /\ \A i \in 1 .. l : qs[i] = ps[i]
  BY <1>2, <1>3, AppendProperties
<1>5. /\ cut \in [0 .. l -> 0 .. b] /\ cut[0] = a /\ cut[l] = b
      /\ \A i \in 1 .. l : cut[i] \in E /\ Spans(ps[i], cut[i - 1], cut[i])
  BY <1>1, <1>2 DEF FrameAt
<1> DEFINE new == [i \in 0 .. l + 1 |-> IF i = l + 1 THEN c ELSE cut[i]]
<1>6. new \in [0 .. l + 1 -> 0 .. c]
  <2>1. \A i \in 0 .. l + 1 : i # l + 1 => i \in 0 .. l
    BY <1>2
  <2>2. \A i \in 0 .. l : cut[i] \in 0 .. b
    BY <1>5
  <2>3. 0 .. b \subseteq 0 .. c /\ c \in 0 .. c
    OBVIOUS
  <2> QED
    BY <2>1, <2>2, <2>3
<1>7. new[l + 1] = c /\ \A i \in 0 .. l : new[i] = cut[i]
  BY <1>2
<1> HIDE DEF new
<1>8. ASSUME NEW i \in 1 .. l + 1 PROVE new[i] \in E /\ Spans(qs[i], new[i - 1], new[i])
  <2>1. CASE i = l + 1
    <3>1. i - 1 = l /\ l \in 0 .. l
      BY <1>2, <2>1
    <3>2. new[i - 1] = b
      BY <1>5, <1>7, <3>1
    <3> QED
      BY <1>4, <1>7, <2>1, <3>2
  <2>2. CASE i # l + 1
    <3>1. i \in 1 .. l /\ i \in 0 .. l /\ i - 1 \in 0 .. l
      BY <1>2, <2>2
    <3> QED
      BY <1>4, <1>5, <1>7, <3>1
  <2> QED
    BY <2>1, <2>2
<1>9. new[0] = a
  BY <1>2, <1>5, <1>7
<1>10. FrameAt(new, qs, a, c, E)
  BY <1>4, <1>6, <1>7, <1>8, <1>9 DEF FrameAt
<1> QED
  BY <1>3, <1>10 DEF Framing

(* The packet in front has the places up to z. *)
LEMMA FramingFront ==
  ASSUME NEW S, NEW ps \in Seq(S), ps # <<>>, NEW a \in Nat, NEW b \in Nat, NEW E,
         Framing(ps, a, b, E)
  PROVE  \E z \in 0 .. b :
           /\ z \in E /\ Spans(ps[1], a, z)
           /\ Framing(Tail(ps), z, b, E)
           /\ \A d \in 0 .. z, f \in S : Spans(f, d, z) => Framing(<<f>> \o Tail(ps), d, b, E)
<1>1. PICK cut : FrameAt(cut, ps, a, b, E)
  BY DEF Framing
<1>2. PICK l \in Nat : l = Len(ps) /\ l >= 1
  BY EmptySeq
<1>3. /\ cut \in [0 .. l -> 0 .. b] /\ cut[0] = a /\ cut[l] = b
      /\ \A i \in 1 .. l : cut[i] \in E /\ Spans(ps[i], cut[i - 1], cut[i])
  BY <1>1, <1>2 DEF FrameAt
<1>4. PICK z \in 0 .. b : z = cut[1]
  BY <1>2, <1>3
<1>5. z \in E /\ Spans(ps[1], a, z)
  <2>1. 1 \in 1 .. l /\ 1 - 1 = 0
    BY <1>2
  <2>2. cut[1] \in E /\ Spans(ps[1], cut[1 - 1], cut[1])
    BY <1>3, <2>1
  <2> QED
    BY <1>3, <1>4, <2>1, <2>2
<1>6. Framing(Tail(ps), z, b, E)
  <2>1. PICK t : t = Tail(ps) /\ Len(t) = l - 1 /\ \A i \in 1 .. l - 1 : t[i] = ps[i + 1]
    <3>1. PICK t : t = Tail(ps)
      OBVIOUS
    <3>2. Len(t) = Len(ps) - 1 /\ \A i \in 1 .. Len(t) : t[i] = ps[i + 1]
      BY <3>1, HeadTailProperties
    <3>3. Len(t) = l - 1
      BY <1>2, <3>2
    <3> QED
      BY <3>1, <3>2, <3>3
  <2> DEFINE less == [j \in 0 .. l - 1 |-> cut[j + 1]]
  <2>2. \A j \in 0 .. l - 1 : j + 1 \in 0 .. l
    BY <1>2
  <2>3. less \in [0 .. l - 1 -> 0 .. b]
    BY <1>3, <2>2
  <2>4. less[0] = z /\ less[l - 1] = b /\ \A j \in 0 .. l - 1 : less[j] = cut[j + 1]
    BY <1>2, <1>3, <1>4
  <2> HIDE DEF less
  <2>5. ASSUME NEW j \in 1 .. l - 1 PROVE less[j] \in E /\ Spans(t[j], less[j - 1], less[j])
    <3>1. PICK i \in 1 .. l : i = j + 1 /\ i - 1 = j
      BY <1>2
    <3>2. j \in 0 .. l - 1 /\ j - 1 \in 0 .. l - 1 /\ (j - 1) + 1 = i - 1
      BY <3>1
    <3>3. less[j] = cut[i] /\ less[j - 1] = cut[i - 1] /\ t[j] = ps[i]
      BY <2>1, <2>4, <3>1, <3>2
    <3> QED
      BY <1>3, <3>3
  <2>6. FrameAt(less, t, z, b, E)
    BY <2>1, <2>3, <2>4, <2>5 DEF FrameAt
  <2> QED
    BY <2>1, <2>6 DEF Framing
<1>7. ASSUME NEW d \in 0 .. z, NEW f \in S, Spans(f, d, z)
      PROVE  Framing(<<f>> \o Tail(ps), d, b, E)
  <2>1. PICK t : t = <<f>> \o Tail(ps) /\ Len(t) = l /\ t[1] = f /\ \A i \in 2 .. l : t[i] = ps[i]
    <3>1. PICK t : t = <<f>> \o Tail(ps)
      OBVIOUS
    <3>2. Len(t) = Len(ps) /\ t[1] = f /\ \A i \in 2 .. Len(ps) : t[i] = ps[i]
      BY <3>1, Refronted
    <3> QED
      BY <1>2, <3>1, <3>2
  <2> DEFINE new == [j \in 0 .. l |-> IF j = 0 THEN d ELSE cut[j]]
  <2>2. new \in [0 .. l -> 0 .. b]
    <3>1. d \in 0 .. b
      BY <1>4
    <3> QED
      BY <1>3, <3>1
  <2>3. new[0] = d /\ \A j \in 1 .. l : new[j] = cut[j]
    BY <1>2
  <2> HIDE DEF new
  <2>4. new[l] = b
    BY <1>2, <1>3, <2>3
  <2>5. ASSUME NEW j \in 1 .. l PROVE new[j] \in E /\ Spans(t[j], new[j - 1], new[j])
    <3>1. CASE j = 1
      <4>1. new[j - 1] = d /\ new[j] = z /\ t[j] = f
        BY <1>4, <2>1, <2>3, <3>1
      <4> QED
        BY <1>5, <1>7, <4>1
    <3>2. CASE j # 1
      <4>1. j \in 2 .. l /\ j - 1 \in 1 .. l
        BY <3>2
      <4> QED
        BY <1>3, <2>1, <2>3, <4>1
    <3> QED
      BY <3>1, <3>2
  <2>6. FrameAt(new, t, d, b, E)
    BY <2>1, <2>2, <2>3, <2>4, <2>5 DEF FrameAt
  <2> QED
    BY <2>1, <2>6 DEF Framing
<1> QED
  BY <1>4, <1>5, <1>6, <1>7

(* What is left when the front packet's first bytes are read. *)
LEMMA SpansRead ==
  ASSUME NEW B, NEW p \in Packet(B), NEW x \in Nat, NEW y \in Nat, Spans(p, x, y),
         NEW n \in Nat, n <= y - x
  PROVE  Spans(Read(p, n), x + n, y) /\ readableSize(p) = y - x
<1>1. PICK s \in Nat : s = y - x /\ s = readableSize(p) /\ n \in 0 .. s
  <2>1. Len(p.unread) \in Nat
    BY LenProperties DEF Packet
  <2> QED
    BY <2>1 DEF Spans, readableSize
<1>2. PICK q : q = Read(p, n)
  OBVIOUS
<1>3. readableSize(q) = s - n /\ \A i \in 1 .. s - n : q.unread[i] = p.unread[n + i]
  <2>1. n \in 0 .. readableSize(p)
    BY <1>1
  <2>2. /\ readableSize(Read(p, n)) = readableSize(p) - n
        /\ \A i \in 1 .. readableSize(p) - n : Read(p, n).unread[i] = p.unread[n + i]
    BY <2>1, ReadFrom
  <2> QED
    BY <1>1, <1>2, <2>2
<1>4. ASSUME NEW k \in 1 .. y - (x + n) PROVE q.unread[k] = (x + n) + k
  <2>1. k \in 1 .. s - n /\ n + k \in 1 .. y - x /\ x + (n + k) = (x + n) + k
    BY <1>1
  <2> QED
    BY <1>3, <2>1 DEF Spans
<1>5. Len(q.unread) = y - (x + n)
  <2>1. Len(q.unread) = s - n
    BY <1>3 DEF readableSize
  <2>2. s - n = y - (x + n)
    BY <1>1
  <2> QED
    BY <2>1, <2>2
<1> QED
  BY <1>1, <1>2, <1>4, <1>5 DEF Spans

(* Where the i-th message ends: the next one begins there. *)
EndOf(i) == IF i = 0 THEN 0 ELSE stream[i].at + Header + stream[i].len

(* Where a delivery may have ended. *)
Ends == {Header} \cup {EndOf(i) : i \in 1 .. Len(stream)}

Chained ==
  /\ \A i \in 1 .. Len(stream) : stream[i].at = EndOf(i - 1)
  /\ \A i, j \in 0 .. Len(stream) : i < j => EndOf(i) + Header <= EndOf(j)

LEMMA EndsHeld ==
  ASSUME stream \in Seq([id : Ids, len : Lens, at : Nat])
  PROVE  /\ Len(stream) \in Nat /\ EndOf(0) = 0 /\ StreamLen = EndOf(Len(stream))
         /\ \A i \in 0 .. Len(stream) : EndOf(i) \in Nat
         /\ \A i \in 1 .. Len(stream) :
              /\ stream[i].id \in Ids /\ stream[i].len \in Lens
              /\ stream[i].at \in Nat /\ stream[i].len \in Nat
              /\ EndOf(i) = stream[i].at + 6 + stream[i].len
<1>1. PICK l \in Nat : l = Len(stream)
  BY LenProperties
<1>2. \A i \in 1 .. l : stream[i] \in [id : Ids, len : Lens, at : Nat]
  BY <1>1, LenProperties
<1>3. \A i \in 1 .. l : /\ stream[i].id \in Ids /\ stream[i].len \in Lens
                        /\ stream[i].at \in Nat /\ stream[i].len \in Nat
  BY <1>2, Numbers
<1>4. EndOf(0) = 0 /\ \A i \in 1 .. l : EndOf(i) = stream[i].at + 6 + stream[i].len
  BY Numbers DEF EndOf
<1>5. \A i \in 0 .. l : i = 0 \/ i \in 1 .. l
  BY <1>1
<1>6. \A i \in 0 .. l : EndOf(i) \in Nat
  BY <1>3, <1>4, <1>5
<1>7. StreamLen = EndOf(l)
  <2>1. CASE stream = <<>>
    <3>1. l = 0
      BY <1>1, <2>1, EmptySeq
    <3> QED
      BY <1>4, <2>1, <3>1 DEF StreamLen
  <2>2. CASE stream # <<>>
    <3>1. l # 0
      BY <1>1, <2>2, EmptySeq
    <3> QED
      BY <1>1, <2>2, <3>1 DEF StreamLen, EndOf, Last
  <2> QED
    BY <2>1, <2>2
<1> QED
  BY <1>1, <1>3, <1>4, <1>6, <1>7

(* A message begins where the one before ends, and nowhere else does one.  *)
LEMMA FieldsAt ==
  ASSUME stream \in Seq([id : Ids, len : Lens, at : Nat]), Chained,
         NEW n \in Nat, n < Len(stream)
  PROVE  IdAt(EndOf(n)) = {n + 1} /\ LenAt(EndOf(n) + 2) = {n + 1}
<1>1. PICK l \in Nat : l = Len(stream) /\ n + 1 \in 1 .. l /\ n \in 0 .. l
  BY LenProperties
<1>2. \A i \in 1 .. l : stream[i].at = EndOf(i - 1)
  BY <1>1 DEF Chained
<1>3. \A i \in 0 .. l : EndOf(i) \in Nat
  BY <1>1, EndsHeld
<1>4. stream[n + 1].at = EndOf(n)
  <2>1. (n + 1) - 1 = n
    OBVIOUS
  <2> QED
    BY <1>1, <1>2, <2>1
<1>5. ASSUME NEW i \in 1 .. l, stream[i].at = EndOf(n) PROVE i = n + 1
  <2>1. PICK j \in 0 .. l : j = i - 1
    OBVIOUS
  <2>2. EndOf(j) = EndOf(n)
    BY <1>2, <1>5, <2>1
  <2>3. (j < n => EndOf(j) + 6 <= EndOf(n)) /\ (n < j => EndOf(n) + 6 <= EndOf(j))
    BY <1>1, <2>1, Numbers DEF Chained
  <2>4. j = n
    BY <1>1, <1>3, <2>2, <2>3
  <2> QED
    BY <2>1, <2>4
<1>6. DOMAIN stream = 1 .. l
  BY <1>1, LenProperties
<1>7. IdAt(EndOf(n)) = {n + 1}
  BY <1>1, <1>4, <1>5, <1>6 DEF IdAt
<1>8. \A i \in 1 .. l : stream[i].at \in Nat
  BY <1>1, EndsHeld
<1>9. ASSUME NEW i \in 1 .. l
      PROVE  stream[i].at + DAN_MSG_ID = EndOf(n) + 2 <=> stream[i].at = EndOf(n)
  <2>1. PICK x \in Nat, y \in Nat : x = stream[i].at /\ y = EndOf(n)
    BY <1>1, <1>3, <1>8
  <2>2. x + DAN_MSG_ID = y + 2 <=> x = y
    BY Numbers
  <2> QED
    BY <2>1, <2>2
<1>10. LenAt(EndOf(n) + 2) = {n + 1}
  BY <1>1, <1>4, <1>5, <1>6, <1>9 DEF LenAt
<1> QED
  BY <1>7, <1>10

(* A delivery that ends behind the n-th message ends behind the next, or   *)
(* behind the header of the first. *)
LEMMA NextEnd ==
  ASSUME stream \in Seq([id : Ids, len : Lens, at : Nat]), Chained,
         NEW n \in 0 .. Len(stream), NEW x \in Ends, x > EndOf(n), x <= StreamLen
  PROVE  /\ n < Len(stream)
         /\ \/ x >= EndOf(n + 1)
            \/ n = 0 /\ x = 6
<1>1. PICK l \in Nat : l = Len(stream)
  BY LenProperties
<1>2. \A i \in 0 .. l : EndOf(i) \in Nat
  BY <1>1, EndsHeld
<1>3. \A i, j \in 0 .. l : i < j => EndOf(i) + 6 <= EndOf(j)
  BY <1>1, Numbers DEF Chained
<1>4. EndOf(0) = 0 /\ StreamLen = EndOf(l)
  BY <1>1, EndsHeld
<1>5. n < l
  <2>1. n # l
    <3>1. x \in Nat
      <4>1. \A i \in 1 .. l : i \in 0 .. l
        OBVIOUS
      <4> QED
        BY <1>1, <1>2, <4>1, Numbers DEF Ends
    <3> QED
      BY <1>1, <1>2, <1>4, <3>1
  <2> QED
    BY <1>1, <2>1
<1>6. CASE x = Header
  <2>1. n = 0
    <3>1. ~ (0 < n)
      <4>1. EndOf(n) < 6 /\ EndOf(n) \in Nat
        BY <1>1, <1>2, <1>6, Numbers
      <4>2. 0 \in 0 .. l /\ n \in 0 .. l
        BY <1>1
      <4>3. 0 < n => EndOf(0) + 6 <= EndOf(n)
        BY <1>3, <4>2
      <4> QED
        BY <1>4, <4>1, <4>3
    <3> QED
      BY <1>1, <3>1
  <2> QED
    BY <1>1, <1>5, <1>6, <2>1, Numbers
<1>7. CASE x # Header
  <2>1. PICK i \in 1 .. l : x = EndOf(i)
    BY <1>1, <1>7 DEF Ends
  <2>2. i \in 0 .. l /\ n \in 0 .. l /\ n + 1 \in 0 .. l
    BY <1>1, <1>5
  <2>3. EndOf(i) \in Nat /\ EndOf(n) \in Nat /\ EndOf(n + 1) \in Nat
    BY <1>2, <2>2
  <2>4. (i < n => EndOf(i) + 6 <= EndOf(n)) /\ (n + 1 < i => EndOf(n + 1) + 6 <= EndOf(i))
    BY <1>3, <2>2
  <2>5. i # n
    BY <2>1, <2>3
  <2>6. ~ (i < n)
    BY <2>1, <2>3, <2>4
  <2>7. i = n + 1 \/ n + 1 < i
    BY <1>1, <2>5, <2>6
  <2> QED
    BY <1>1, <1>5, <2>1, <2>3, <2>4, <2>7
<1> QED
  BY <1>6, <1>7

(* The byte at place a is the first of a message, or of the first one's    *)
(* body. *)
InFrame(a) ==
  \/ currMsgId_ = 0 /\ currMsgLen_ = 0 /\ a = EndOf(Len(handled))
  \/ /\ handled = <<>> /\ stream # <<>> /\ a = Header
     /\ currMsgId_ = stream[1].id /\ currMsgLen_ = stream[1].len /\ currMsgLen_ > 0

Reading == \E a \in Nat : InFrame(a) /\ Framing(recvBuffer_, a, arrived, Ends)

(* What is queued has something to send in each packet not sent yet. *)
SendFull ==
  \A j \in 1 .. Len(sendBuffer_) : \A i \in 1 .. Len(sendBuffer_[j].packets_) :
    j > 1 \/ i > sending => readableSize(sendBuffer_[j].packets_[i]) > 0

Fresh == pPacket = NewPacket /\ readyLen_ = arrived /\ SendFull /\ Reading

(* What has been handled is what was sent. *)
Faithful ==
  /\ Len(handled) <= Len(stream)
  /\ \A i \in 1 .. Len(handled) : handled[i] = Sent(i)

Unhandled == \E i \in 1 .. Len(stream) : ~ Handled(stream[i].id)

Framed ==
  /\ Chained
  /\ ~ reused => /\ Faithful
                 /\ end = "none" => Fresh
                 /\ end # "none" => Unhandled \/ ~ RepliesFit

LEMMA InitFramed ==
  ASSUME Init
  PROVE  Framed
<1>1. /\ stream = <<>> /\ arrived = 0 /\ pPacket = NewPacket /\ recvBuffer_ = <<>>
      /\ currMsgId_ = 0 /\ currMsgLen_ = 0 /\ readyLen_ = 0 /\ sendBuffer_ = <<>>
      /\ end = "none" /\ handled = <<>>
  BY DEF Init
<1>2. Len(stream) = 0 /\ Len(handled) = 0 /\ Len(sendBuffer_) = 0
  BY <1>1, EmptySeq
<1>3. EndOf(0) = 0
  BY DEF EndOf
<1>4. Chained
  BY <1>2 DEF Chained
<1>5. Faithful
  BY <1>2 DEF Faithful
<1>6. Reading
  <2>1. Framing(recvBuffer_, 0, arrived, Ends)
    BY <1>1, FramingNone
  <2>2. InFrame(0)
    BY <1>1, <1>2, <1>3 DEF InFrame
  <2> QED
    BY <2>1, <2>2 DEF Reading
<1>7. SendFull
  BY <1>2 DEF SendFull
<1> QED
  BY <1>1, <1>4, <1>5, <1>6, <1>7 DEF Framed, Fresh

LEMMA PeerSendFramed ==
  ASSUME Held, Framed, end = "none", PeerSend
  PROVE  Framed'
<1>1. PICK id \in Ids, len \in Lens :
        stream' = Append(stream, [id |-> id, len |-> len, at |-> StreamLen])
  BY DEF PeerSend
<1>2. UNCHANGED <<arrived, pPacket, recvBuffer_, currMsgId_, currMsgLen_, handled,
                  readyLen_, sendBuffer_, sending, reused, end>>
  BY DEF PeerSend, recvVars, procVars, sendVars, poolVars
<1>3. stream \in Seq([id : Ids, len : Lens, at : Nat])
  BY DEF Held, StreamHeld
<1>4. PICK l \in Nat, c \in Nat : l = Len(stream) /\ c = StreamLen /\ c = EndOf(l)
  BY <1>3, EndsHeld, StreamEnds
<1>5. PICK m \in [id : Ids, len : Lens, at : Nat] :
        m = [id |-> id, len |-> len, at |-> c] /\ m.at = c /\ m.len \in Nat
  <2>1. len \in Nat
    BY Numbers
  <2>2. PICK m : m = [id |-> id, len |-> len, at |-> c]
    OBVIOUS
  <2> QED
    BY <2>1, <2>2
<1>6. Len(stream') = l + 1 /\ stream'[l + 1] = m /\ \A i \in 1 .. l : stream'[i] = stream[i]
  <2>1. stream' = Append(stream, m)
    BY <1>1, <1>4, <1>5
  <2>2. PICK t : t = Append(stream, m)
    OBVIOUS
  <2>3. /\ Len(t) = Len(stream) + 1 /\ t[Len(stream) + 1] = m
        /\ \A i \in 1 .. Len(stream) : t[i] = stream[i]
    BY <1>3, <2>2, AppendProperties
  <2> QED
    BY <1>4, <2>1, <2>2, <2>3
<1>7. \A i \in 0 .. l : EndOf(i)' = EndOf(i)
  <2>1. \A i \in 0 .. l : i # 0 => i \in 1 .. l
    OBVIOUS
  <2> QED
    BY <1>6, <2>1 DEF EndOf
<1>8. EndOf(l + 1)' = c + 6 + m.len
  BY <1>5, <1>6, Numbers DEF EndOf
<1>9. /\ \A i \in 1 .. l : stream[i].at = EndOf(i - 1)
      /\ \A i, j \in 0 .. l : i < j => EndOf(i) + 6 <= EndOf(j)
      /\ \A i \in 0 .. l : EndOf(i) \in Nat
  <2>1. Chained
    BY DEF Framed
  <2> QED
    BY <1>3, <1>4, <2>1, EndsHeld, Numbers DEF Chained
<1>10. Chained'
  <2>1. ASSUME NEW i \in 1 .. l + 1 PROVE stream'[i].at = EndOf(i - 1)'
    <3>1. i - 1 \in 0 .. l /\ (i \in 1 .. l \/ i = l + 1)
      OBVIOUS
    <3>2. CASE i \in 1 .. l
      BY <1>6, <1>7, <1>9, <3>1, <3>2
    <3>3. CASE i = l + 1
      BY <1>4, <1>5, <1>6, <1>7, <3>1, <3>3
    <3> QED
      BY <3>1, <3>2, <3>3
  <2>2. ASSUME NEW i \in 0 .. l + 1, NEW j \in 0 .. l + 1, i < j PROVE EndOf(i)' + 6 <= EndOf(j)'
    <3>1. CASE j = l + 1
      <4>1. i \in 0 .. l /\ l \in 0 .. l
        BY <2>2, <3>1
      <4>2. EndOf(i)' = EndOf(i) /\ EndOf(i) \in Nat /\ EndOf(j)' = c + 6 + m.len
        BY <1>7, <1>8, <1>9, <3>1, <4>1
      <4>3. EndOf(i) <= c
        <5>1. i = l \/ i < l
          BY <4>1
        <5>2. i < l => EndOf(i) + 6 <= EndOf(l)
          BY <1>9, <4>1
        <5> QED
          BY <1>4, <4>2, <5>1, <5>2
      <4> QED
        BY <1>5, <4>2, <4>3
    <3>2. CASE j # l + 1
      <4>1. i \in 0 .. l /\ j \in 0 .. l
        BY <2>2, <3>2
      <4> QED
        BY <1>7, <1>9, <2>2, <4>1
    <3> QED
      BY <3>1, <3>2
  <2>3. Header' = 6
    BY Numbers DEF Header, DAN_MSG_ID, DAN_MSG_LEN
  <2> QED
    BY <1>6, <2>1, <2>2, <2>3 DEF Chained
<1>11. ASSUME ~ reused PROVE Faithful' /\ Fresh'
  <2>1. Faithful /\ Fresh
    BY <1>11 DEF Framed
  <2>2. PICK n \in Nat : n = Len(handled) /\ n <= l
    <3>1. Len(handled) \in Nat
      BY LenProperties DEF Held, HeaderHeld
    <3> QED
      BY <1>4, <2>1, <3>1 DEF Faithful
  <2>3. Faithful'
    <3>1. ASSUME NEW i \in 1 .. n PROVE Sent(i)' = Sent(i)
      <4>1. stream'[i] = stream[i]
        BY <1>6, <2>2
      <4>2. Header' = Header
        BY DEF Header, DAN_MSG_ID, DAN_MSG_LEN
      <4> QED
        BY <4>1, <4>2 DEF Sent
    <3>2. \A i \in 1 .. n : handled[i] = Sent(i)
      BY <2>1, <2>2 DEF Faithful
    <3>3. Len(handled') = n /\ n <= Len(stream') /\ handled' = handled
      BY <1>2, <1>6, <2>2
    <3>4. \A i \in 1 .. n : handled'[i] = Sent(i)'
      BY <3>1, <3>2, <3>3
    <3> QED
      BY <3>3, <3>4 DEF Faithful
  <2>4. SendFull'
    BY <1>2, <2>1 DEF Fresh, SendFull, readableSize
  <2>5. PICK a \in Nat : InFrame(a) /\ Framing(recvBuffer_, a, arrived, Ends)
    BY <2>1 DEF Fresh, Reading
  <2>6. InFrame(a)'
    <3>1. EndOf(n)' = EndOf(n)
      BY <1>7, <2>2
    <3>2. stream # <<>> => stream' # <<>> /\ stream'[1] = stream[1]
      <4>1. ASSUME stream # <<>> PROVE stream' # <<>> /\ stream'[1] = stream[1]
        <5>1. l # 0
          BY <1>3, <1>4, <4>1, EmptySeq
        <5>2. stream'[1] = stream[1]
          BY <1>6, <5>1
        <5>3. stream' # <<>>
          BY <1>6, EmptySeq
        <5> QED
          BY <5>2, <5>3
      <4> QED
        BY <4>1
    <3>3. Header' = Header
      BY DEF Header, DAN_MSG_ID, DAN_MSG_LEN
    <3> QED
      BY <1>2, <2>2, <2>5, <3>1, <3>2, <3>3 DEF InFrame
  <2>7. Ends \subseteq Ends'
    <3>1. \A i \in 1 .. l : i \in 0 .. l /\ i \in 1 .. l + 1
      OBVIOUS
    <3>2. Header' = Header
      BY DEF Header, DAN_MSG_ID, DAN_MSG_LEN
    <3> QED
      BY <1>4, <1>6, <1>7, <3>1, <3>2 DEF Ends
  <2>8. Framing(recvBuffer_, a, arrived, Ends')
    <3>1. PICK F : F = Ends' /\ Ends \subseteq F
      BY <2>7
    <3> QED
      BY <2>5, <3>1, FramingOn
  <2>9. Reading'
    BY <1>2, <2>6, <2>8 DEF Reading
  <2> QED
    BY <1>2, <2>1, <2>3, <2>4, <2>9 DEF Fresh, NewPacket
<1> QED
  BY <1>2, <1>10, <1>11 DEF Framed

LEMMA SameStream ==
  ASSUME UNCHANGED stream
  PROVE  /\ Ends' = Ends /\ (Chained' <=> Chained) /\ (Unhandled' <=> Unhandled)
         /\ StreamLen' = StreamLen /\ Header' = Header /\ NewPacket' = NewPacket
         /\ \A i : EndOf(i)' = EndOf(i)
         /\ UNCHANGED handled => (Faithful' <=> Faithful)
<1>1. Header' = Header /\ NewPacket' = NewPacket
  BY DEF Header, DAN_MSG_ID, DAN_MSG_LEN, NewPacket
<1>2. \A i : EndOf(i)' = EndOf(i)
  BY <1>1 DEF EndOf
<1>3. Ends' = Ends
  BY <1>1, <1>2 DEF Ends
<1>4. Chained' <=> Chained
  BY <1>1, <1>2 DEF Chained
<1>5. Unhandled' <=> Unhandled
  BY DEF Unhandled, Handled, Known, ModFactory, msgMap_, IdToName, idNameMap_
<1>6. \A i : Sent(i)' = Sent(i)
  BY <1>1 DEF Sent
<1>7. UNCHANGED handled => (Faithful' <=> Faithful)
  BY <1>6 DEF Faithful
<1>8. StreamLen' = StreamLen
  BY <1>1 DEF StreamLen, Last
<1> QED
  BY <1>1, <1>2, <1>3, <1>4, <1>5, <1>7, <1>8

(* Once an object has been reused nothing more is claimed.                 *)
LEMMA FramedReused ==
  ASSUME Framed, UNCHANGED stream, reused'
  PROVE  Framed'
BY SameStream DEF Framed

(* What is delivered fits in the packet at hand, and is whole messages.    *)
LEMMA Delivered ==
  ASSUME Held, Cuts = "message", RecvFromFd, pPacket = NewPacket
  PROVE  \E x \in Nat \ {0} :
           /\ arrived + x \in Ends
           /\ recvBuffer_' = Append(recvBuffer_, Appended(pPacket, [k \in 1 .. x |-> arrived + k]))
           /\ readyLen_' = readyLen_ + x /\ arrived' = arrived + x
           /\ pPacket' = Taken(packetPool, 1)[1]
           /\ reused' = (reused \/ Used(<<pPacket'>>))
           /\ UNCHANGED end
<1>1. PICK upto \in MayArrive :
        LET room == pPacket.size - pPacket.wpos
            len == IF room < upto - arrived THEN room ELSE upto - arrived
        IN  /\ recvBuffer_' = Append(recvBuffer_, Appended(pPacket, [k \in 1 .. len |-> arrived + k]))
            /\ readyLen_' = readyLen_ + len
            /\ arrived' = arrived + len
            /\ pPacket' = Taken(packetPool, 1)[1]
            /\ reused' = (reused \/ Used(<<pPacket'>>))
            /\ UNCHANGED end
  <2>1. pPacket.size - pPacket.wpos # 0
    BY Numbers DEF NewPacket
  <2> QED
    BY <2>1 DEF RecvFromFd
<1>2. arrived \in Nat /\ StreamLen \in Nat
  BY StreamEnds DEF Held, StreamHeld
<1>3. /\ upto \in arrived + 1 .. StreamLen /\ upto <= arrived + MSS
      /\ upto = Header \/ \E i \in DOMAIN stream : upto = stream[i].at + Header + stream[i].len
  BY DEF MayArrive
<1>4. PICK x \in Nat \ {0} : x = upto - arrived /\ arrived + x = upto /\ x <= MSS
  BY <1>2, <1>3, Numbers
<1>5. pPacket.size - pPacket.wpos = MSS
  BY Numbers DEF NewPacket
<1>6. (IF pPacket.size - pPacket.wpos < upto - arrived THEN pPacket.size - pPacket.wpos
       ELSE upto - arrived) = x
  BY <1>4, <1>5, Numbers
<1>7. arrived + x \in Ends
  <2>1. CASE upto = Header
    BY <1>4, <2>1 DEF Ends
  <2>2. CASE \E i \in DOMAIN stream : upto = stream[i].at + Header + stream[i].len
    <3>1. PICK i \in DOMAIN stream : upto = stream[i].at + Header + stream[i].len
      BY <2>2
    <3>2. i \in 1 .. Len(stream) /\ i # 0
      BY LenProperties DEF Held, StreamHeld
    <3>3. EndOf(i) = upto
      BY <3>1, <3>2 DEF EndOf
    <3> QED
      BY <1>4, <3>2, <3>3 DEF Ends
  <2> QED
    BY <1>3, <2>1, <2>2
<1> QED
  BY <1>1, <1>6, <1>7

LEMMA RecvFramed ==
  ASSUME Held, Framed, Cuts = "message", RecvFromFd
  PROVE  Framed'
<1>1. UNCHANGED <<stream, handled, currMsgId_, currMsgLen_, sendBuffer_, sending>> /\ end = "none"
  BY DEF RecvFromFd, peerVars, sendVars, InLoop
<1>2. reused \in BOOLEAN /\ reused' \in BOOLEAN
  BY RecvHeldOn DEF Held, PoolsHeld
<1>3. CASE reused
  <2>1. reused'
    BY <1>3 DEF RecvFromFd
  <2> QED
    BY <1>1, <2>1, FramedReused
<1>4. CASE reused'
  BY <1>1, <1>4, FramedReused
<1>5. CASE ~ reused /\ ~ reused'
  <2>1. Chained /\ Faithful /\ pPacket = NewPacket /\ readyLen_ = arrived /\ SendFull /\ Reading
    BY <1>1, <1>5 DEF Framed, Fresh
  <2>2. PICK x \in Nat \ {0} :
          /\ arrived + x \in Ends
          /\ recvBuffer_' = Append(recvBuffer_, Appended(pPacket, [k \in 1 .. x |-> arrived + k]))
          /\ readyLen_' = readyLen_ + x /\ arrived' = arrived + x
          /\ pPacket' = Taken(packetPool, 1)[1]
          /\ reused' = (reused \/ Used(<<pPacket'>>))
          /\ UNCHANGED end
    BY <2>1, Delivered
  <2>3. pPacket' = NewPacket
    <3>1. ~ Used(<<pPacket'>>)
      BY <1>5, <2>2
    <3>2. 1 \in DOMAIN <<pPacket'>> /\ <<pPacket'>>[1] = pPacket'
      OBVIOUS
    <3> QED
      BY <3>1, <3>2 DEF Used
  <2>4. PICK a \in Nat : InFrame(a) /\ Framing(recvBuffer_, a, arrived, Ends)
    BY <2>1 DEF Reading
  <2>5. PICK b \in Nat, c \in Nat : b = arrived /\ c = arrived + x /\ b <= c
    <3>1. arrived \in Nat
      BY StreamEnds DEF Held, StreamHeld
    <3> QED
      BY <3>1
  <2>6. PICK bytes \in Seq(Nat) : /\ bytes = [k \in 1 .. x |-> b + k] /\ Len(bytes) = x
                                  /\ \A k \in 1 .. x : bytes[k] = b + k
    <3>1. [k \in 1 .. x |-> b + k] \in [1 .. x -> Nat]
      OBVIOUS
    <3>2. PICK f \in [1 .. x -> Nat] : f = [k \in 1 .. x |-> b + k]
      BY <3>1
    <3>3. f \in Seq(Nat) /\ Len(f) = x
      BY Listed
    <3> QED
      BY <3>2, <3>3
  <2>7. PICK p \in Packets(Nat) : p = Appended(pPacket, bytes) /\ p.unread = bytes
    <3>1. NewPacket \in Packets(Nat) /\ NewPacket.unread = <<>>
      BY Emptied
    <3>2. Appended(NewPacket, bytes) \in Packets(Nat) /\ Appended(NewPacket, bytes).unread = bytes
      BY <3>1, AppendedTo
    <3> QED
      BY <2>1, <3>2
  <2>8. Spans(p, b, c)
    <3>1. c - b = x
      BY <2>5
    <3> QED
      BY <2>6, <2>7, <3>1 DEF Spans
  <2>9. PICK ps \in Seq(Packets(Nat)) : ps = recvBuffer_
    <3>1. recvBuffer_ \in Seq(Packets(1 .. StreamLen)) /\ StreamLen \in Nat
      BY StreamEnds DEF Held, StreamHeld, RecvHeld
    <3>2. 1 .. StreamLen \subseteq Nat
      BY <3>1
    <3>3. Packets(1 .. StreamLen) \subseteq Packets(Nat)
      BY <3>2, PacketsGrow
    <3>4. recvBuffer_ \in Seq(Packets(Nat))
      BY <3>1, <3>3, SeqMonotonic
    <3> QED
      BY <3>4
  <2>10. PICK E : E = Ends
    OBVIOUS
  <2>11. Framing(Append(ps, p), a, c, E)
    <3>1. Framing(ps, a, b, E) /\ c \in E
      BY <2>2, <2>4, <2>5, <2>9, <2>10
    <3> QED
      BY <2>5, <2>8, <3>1, FramingMore
  <2>12. Reading'
    <3>1. recvBuffer_' = Append(ps, p) /\ arrived' = c /\ Ends' = E
      BY <1>1, <2>2, <2>5, <2>6, <2>7, <2>9, <2>10, SameStream
    <3>2. InFrame(a)'
      BY <1>1, <2>4, SameStream DEF InFrame
    <3> QED
      BY <2>11, <3>1, <3>2 DEF Reading
  <2>13. SendFull'
    BY <1>1, <2>1 DEF SendFull, readableSize
  <2>14. readyLen_' = arrived'
    BY <2>1, <2>2
  <2> QED
    BY <1>1, <2>1, <2>2, <2>3, <2>12, <2>13, <2>14, SameStream DEF Framed, Fresh
<1> QED
  BY <1>2, <1>3, <1>4, <1>5

LEMMA PlaceAt ==
  ASSUME NEW B, NEW p \in Packet(B), NEW x \in Nat, NEW y \in Nat, Spans(p, x, y), x < y
  PROVE  place(p) = x
<1>1. p.unread \in Seq(B) /\ Len(p.unread) = y - x /\ 1 \in 1 .. y - x
  BY DEF Packet, Spans
<1>2. Head(p.unread) = p.unread[1]
  BY <1>1
<1>3. p.unread[1] = x + 1
  BY <1>1 DEF Spans
<1> QED
  BY <1>2, <1>3 DEF place

(* The header h is the one of the message after n others, and its packet   *)
(* has what came of the body, all of it unless the delivery ended with the *)
(* first header. *)
OnMessage(h, n, z) ==
  /\ n < Len(stream) /\ h.id = stream[n + 1].id /\ h.len = stream[n + 1].len
  /\ z >= EndOf(n) + 6
  /\ z >= EndOf(n + 1) \/ (n = 0 /\ z = 6)
  /\ Spans(h.packet, EndOf(n) + 6, z)

(* The packets behind the one in front, which may be replaced by what is   *)
(* left of it. *)
Behind(z) ==
  /\ Framing(Tail(recvBuffer_), z, arrived, Ends)
  /\ \A d \in 0 .. z, f \in Packets(1 .. StreamLen) :
       Spans(f, d, z) => Framing(<<f>> \o Tail(recvBuffer_), d, arrived, Ends)

(* Bytes that are a header's are read as one, and no others are.           *)
LEMMA HeaderFound ==
  ASSUME Held, Chained, recvBuffer_ # <<>>, NEW a \in Nat, NEW n \in Nat, NEW z \in Nat,
         n <= Len(stream), currMsgId_ = 0, currMsgLen_ = 0, a = EndOf(n),
         Spans(front, a, z), z \in Ends, z <= StreamLen, a < z, NEW h, h \in HeaderRead
  PROVE  OnMessage(h, n, z)
<1>1. stream \in Seq([id : Ids, len : Lens, at : Nat])
  BY DEF Held, StreamHeld
<1>2. PICK l \in Nat : l = Len(stream) /\ n \in 0 .. l
  BY <1>1, LenProperties
<1>3. n < l /\ (z >= EndOf(n + 1) \/ (n = 0 /\ z = 6))
  <2>1. z > EndOf(n) /\ n \in 0 .. Len(stream)
    BY <1>2
  <2>2. n < Len(stream) /\ (z >= EndOf(n + 1) \/ (n = 0 /\ z = 6))
    BY <1>1, <2>1, NextEnd
  <2> QED
    BY <1>2, <2>2
<1>4. PICK m \in Nat : m = n + 1 /\ m \in 1 .. l
  BY <1>2, <1>3
<1>5. EndOf(m) >= a + 6
  <2>1. \A i, j \in 0 .. l : i < j => EndOf(i) + 6 <= EndOf(j)
    BY <1>2, Numbers DEF Chained
  <2>2. n \in 0 .. l /\ m \in 0 .. l /\ n < m
    BY <1>4
  <2>3. EndOf(m) \in Nat
    BY <1>1, <1>2, <2>2, EndsHeld
  <2> QED
    BY <2>1, <2>2, <2>3
<1>6. z >= a + 6
  <2>1. n = 0 => a = 0
    BY <1>1, EndsHeld
  <2>2. EndOf(m) \in Nat
    <3>1. m \in 0 .. l
      BY <1>4
    <3> QED
      BY <1>1, <1>2, <3>1, EndsHeld
  <2> QED
    BY <1>3, <1>4, <1>5, <2>1, <2>2
<1>7. PICK p \in Packet(1 .. StreamLen) : p = front
  BY IdHeld DEF Packets
<1>8. PICK p1 \in Packet(1 .. StreamLen) : p1 = Read(p, 2) /\ Spans(p1, a + 2, z)
  <2>1. 2 \in Nat /\ 2 <= z - a /\ Spans(p, a, z)
    BY <1>6, <1>7
  <2>2. Spans(Read(p, 2), a + 2, z) /\ readableSize(p) = z - a
    BY <2>1, SpansRead
  <2>3. 2 \in 0 .. readableSize(p)
    BY <2>1, <2>2
  <2>4. Read(p, 2) \in Packet(1 .. StreamLen)
    BY <2>3, ReadFrom
  <2> QED
    BY <2>2, <2>4
<1>9. PICK b \in Nat : b = a + 2 /\ b < z /\ z - b >= 4
  BY <1>6
<1>10. Spans(Read(p1, 4), a + 6, z)
  <2>1. 4 \in Nat /\ 4 <= z - b /\ Spans(p1, b, z)
    BY <1>8, <1>9
  <2>2. Spans(Read(p1, 4), b + 4, z)
    BY <2>1, SpansRead
  <2>3. b + 4 = a + 6
    BY <1>9
  <2> QED
    BY <2>2, <2>3
<1>11. readableSize(p) >= 2 /\ readableSize(p1) >= 4
  BY <1>6, <1>7, <1>8, <1>9 DEF Spans, readableSize
<1>12. place(p) = a /\ place(p1) = b
  BY <1>7, <1>8, <1>9, PlaceAt
<1>13. IdAt(a) = {m} /\ LenAt(b) = {m}
  BY <1>1, <1>2, <1>3, <1>4, <1>9, FieldsAt
<1>14. WithId = [id |-> stream[m].id, packet |-> p1]
  <2>1. (CHOOSE i \in {m} : TRUE) = m
    OBVIOUS
  <2> QED
    BY <1>7, <1>8, <1>11, <1>12, <1>13, <2>1, Numbers DEF WithId
<1>15. WithLen(stream[m].id, p1) = [id |-> stream[m].id, len |-> stream[m].len, packet |-> Read(p1, 4)]
  <2>1. (CHOOSE i \in {m} : TRUE) = m
    OBVIOUS
  <2> QED
    BY <1>11, <1>12, <1>13, <2>1, Numbers DEF WithLen
<1>16. h = WithLen(stream[m].id, p1)
  <2>1. h = WithLen(WithId.id, WithId.packet)
    BY DEF HeaderRead
  <2> QED
    BY <1>14, <2>1
<1>17. h.id = stream[m].id /\ h.len = stream[m].len /\ h.packet = Read(p1, 4)
  BY <1>15, <1>16
<1> QED
  BY <1>2, <1>3, <1>4, <1>6, <1>10, <1>17 DEF OnMessage

LEMMA FrontRead ==
  ASSUME Held, Chained, Faithful, Reading, recvBuffer_ # <<>>, NEW h, h \in HeaderRead
  PROVE  /\ ~ Misread(h)
         /\ \/ /\ h.id = 0 /\ h.len = 0 /\ readableSize(h.packet) = 0
               /\ Framing(Tail(recvBuffer_), EndOf(Len(handled)), arrived, Ends)
            \/ \E z \in 0 .. arrived : OnMessage(h, Len(handled), z) /\ Behind(z)
<1>1. stream \in Seq([id : Ids, len : Lens, at : Nat])
  BY DEF Held, StreamHeld
<1>2. PICK l \in Nat, n \in Nat : l = Len(stream) /\ n = Len(handled) /\ n <= l
  <2>1. Len(handled) \in Nat /\ Len(stream) \in Nat
    BY <1>1, LenProperties DEF Held, HeaderHeld
  <2> QED
    BY <2>1 DEF Faithful
<1>3. PICK a \in Nat : InFrame(a) /\ Framing(recvBuffer_, a, arrived, Ends)
  BY DEF Reading
<1>4. PICK S, ps, b, E :
        /\ S = Packets(1 .. StreamLen) /\ ps \in Seq(S) /\ ps = recvBuffer_
        /\ b \in Nat /\ b = arrived /\ E = Ends /\ b <= StreamLen
  <2>1. recvBuffer_ \in Seq(Packets(1 .. StreamLen)) /\ arrived \in Nat /\ arrived <= StreamLen
    BY <1>1, StreamEnds DEF Held, StreamHeld, RecvHeld
  <2> QED
    BY <2>1
<1>5. PICK z \in 0 .. b :
        /\ z \in E /\ Spans(ps[1], a, z)
        /\ Framing(Tail(ps), z, b, E)
        /\ \A d \in 0 .. z, f \in S : Spans(f, d, z) => Framing(<<f>> \o Tail(ps), d, b, E)
  BY <1>3, <1>4, FramingFront
<1>6. Behind(z)
  BY <1>4, <1>5 DEF Behind
<1>7. front = ps[1] /\ front \in Packet(1 .. StreamLen)
  <2>1. front \in Packet(1 .. StreamLen)
    BY IdHeld DEF Packets
  <2>2. Len(ps) \in Nat /\ Len(ps) # 0
    BY <1>4, EmptySeq, LenProperties
  <2> QED
    BY <1>4, <2>1, <2>2 DEF front
<1>8. readableSize(front) = z - a /\ z - a \in Nat
  <2>1. Len(front.unread) \in Nat
    BY <1>7, LenProperties DEF Packet
  <2> QED
    BY <1>5, <1>7, <2>1 DEF Spans, readableSize
<1>9. h = WithLen(WithId.id, WithId.packet)
  BY DEF HeaderRead
<1>10. CASE currMsgId_ = 0 /\ currMsgLen_ = 0 /\ a = EndOf(n)
  <2>1. CASE z = a
    <3>1. readableSize(front) = 0
      BY <1>8, <2>1
    <3>2. WithId = [id |-> 0, packet |-> front]
      BY <1>10, <3>1, Numbers DEF WithId
    <3>3. WithLen(0, front) = [id |-> 0, len |-> 0, packet |-> front]
      BY <1>10, <3>1, Numbers DEF WithLen
    <3>4. h.id = 0 /\ h.len = 0 /\ h.packet = front
      BY <1>9, <3>2, <3>3
    <3> QED
      BY <1>2, <1>4, <1>5, <1>10, <2>1, <3>1, <3>4 DEF Misread
  <2>2. CASE z # a
    <3>1. a < z /\ z \in Nat /\ z <= StreamLen
      BY <1>1, <1>4, <1>8, <2>2, StreamEnds
    <3>2. OnMessage(h, n, z)
      BY <1>2, <1>4, <1>5, <1>7, <1>10, <3>1, HeaderFound
    <3>3. ~ Misread(h)
      <4>1. n + 1 \in 1 .. l
        BY <1>2, <3>2 DEF OnMessage
      <4>2. stream[n + 1].id \in Ids /\ stream[n + 1].len \in Nat
        BY <1>1, <1>2, <4>1, EndsHeld
      <4> QED
        BY <3>2, <4>2, Numbers DEF OnMessage, Misread
    <3> QED
      BY <1>2, <1>4, <1>6, <3>2, <3>3
  <2> QED
    BY <2>1, <2>2
<1>11. CASE /\ handled = <<>> /\ stream # <<>> /\ a = Header
            /\ currMsgId_ = stream[1].id /\ currMsgLen_ = stream[1].len /\ currMsgLen_ > 0
  <2>1. n = 0 /\ a = 6 /\ l # 0 /\ EndOf(0) = 0
    BY <1>1, <1>2, <1>11, EmptySeq, EndsHeld, Numbers
  <2>2. stream[1].id \in Ids /\ stream[1].len \in Nat
    <3>1. 1 \in 1 .. l
      BY <2>1
    <3> QED
      BY <1>1, <1>2, <3>1, EndsHeld
  <2>3. currMsgId_ # 0 /\ currMsgId_ # -1 /\ currMsgLen_ # 0 /\ currMsgLen_ # -1
    BY <1>11, <2>2, Numbers
  <2>4. WithId = [id |-> currMsgId_, packet |-> front]
    BY <2>3 DEF WithId
  <2>5. WithLen(currMsgId_, front) = [id |-> currMsgId_, len |-> currMsgLen_, packet |-> front]
    BY <2>3 DEF WithLen
  <2>6. h.id = stream[1].id /\ h.len = stream[1].len /\ h.packet = front /\ ~ Misread(h)
    BY <1>9, <1>11, <2>3, <2>4, <2>5 DEF Misread
  <2>7. z >= EndOf(1) \/ z = 6
    <3>1. CASE z = a
      BY <2>1, <3>1
    <3>2. CASE z # a
      <4>1. z > EndOf(0) /\ z <= StreamLen /\ 0 \in 0 .. Len(stream)
        BY <1>1, <1>2, <1>4, <1>8, <2>1, <3>2, StreamEnds
      <4>2. z \in Ends
        BY <1>4, <1>5
      <4>3. z >= EndOf(0 + 1) \/ (0 = 0 /\ z = 6)
        BY <1>1, <4>1, <4>2, NextEnd
      <4> QED
        BY <4>3
    <3> QED
      BY <3>1, <3>2
  <2>8. OnMessage(h, n, z)
    <3>1. n + 1 = 1 /\ EndOf(n) + 6 = 6 /\ z >= 6
      BY <1>8, <2>1
    <3> QED
      BY <1>2, <1>5, <1>7, <2>1, <2>6, <2>7, <3>1 DEF OnMessage
  <2> QED
    BY <1>2, <1>4, <1>6, <2>6, <2>8
<1> QED
  BY <1>2, <1>3, <1>10, <1>11 DEF InFrame

LEMMA ProcFresh ==
  ASSUME Held, Framed, ProcFrame, ~ reused
  PROVE  /\ Chained /\ Faithful /\ pPacket = NewPacket /\ readyLen_ = arrived
         /\ SendFull /\ Reading /\ recvBuffer_ # <<>>
         /\ stream \in Seq([id : Ids, len : Lens, at : Nat])
         /\ Len(handled) \in Nat /\ Len(stream) \in Nat /\ arrived \in Nat
<1>1. stream \in Seq([id : Ids, len : Lens, at : Nat]) /\ arrived \in Nat
  BY StreamEnds DEF Held, StreamHeld
<1>2. Len(handled) \in Nat /\ Len(stream) \in Nat
  BY <1>1, LenProperties DEF Held, HeaderHeld
<1> QED
  BY <1>1, <1>2 DEF Framed, Fresh, ProcFrame

(* A round that handles nothing leaves all else as it was. *)
LEMMA RoundFramed ==
  ASSUME Held, Framed, ProcFrame, ~ reused, UNCHANGED <<handled, sendBuffer_, sending, reused>>,
         end' = "none", NEW a \in Nat, InFrame(a)', Framing(recvBuffer_', a, arrived, Ends)
  PROVE  Framed'
<1>1. UNCHANGED <<stream, arrived, pPacket, readyLen_>>
  BY DEF ProcFrame, peerVars, recvVars
<1>2. Chained /\ Faithful /\ pPacket = NewPacket /\ readyLen_ = arrived /\ SendFull
  BY ProcFresh
<1>3. Reading'
  BY <1>1, SameStream DEF Reading
<1>4. SendFull'
  BY <1>2 DEF SendFull, readableSize
<1> QED
  BY <1>1, <1>2, <1>3, <1>4, SameStream DEF Framed, Fresh

LEMMA OnMessageEnds ==
  ASSUME Held, Chained, NEW h, NEW n \in Nat, NEW z \in Nat, OnMessage(h, n, z)
  PROVE  /\ n + 1 \in 1 .. Len(stream) /\ EndOf(n) \in Nat /\ h.len \in Nat /\ h.id # 0
         /\ stream[n + 1].at = EndOf(n) /\ EndOf(n + 1) = EndOf(n) + 6 + h.len
         /\ z >= EndOf(n) + 6 + h.len \/ (n = 0 /\ EndOf(n) = 0 /\ z = 6)
<1>1. stream \in Seq([id : Ids, len : Lens, at : Nat])
  BY DEF Held, StreamHeld
<1>2. PICK l \in Nat, m \in Nat : l = Len(stream) /\ m = n + 1 /\ m \in 1 .. l /\ n \in 0 .. l /\ m - 1 = n
  <2>1. Len(stream) \in Nat
    BY <1>1, EndsHeld
  <2> QED
    BY <2>1 DEF OnMessage
<1>3. EndOf(n) \in Nat /\ EndOf(0) = 0
  BY <1>1, <1>2, EndsHeld
<1>4. /\ stream[m].id \in Ids /\ stream[m].len \in Nat
      /\ EndOf(m) = stream[m].at + 6 + stream[m].len
  BY <1>1, <1>2, EndsHeld
<1>5. stream[m].at = EndOf(m - 1)
  BY <1>2 DEF Chained
<1>6. h.len = stream[m].len /\ h.id = stream[m].id /\ (z >= EndOf(m) \/ (n = 0 /\ z = 6))
  BY <1>2 DEF OnMessage
<1>7. h.id # 0
  BY <1>4, <1>6, Numbers
<1> QED
  BY <1>2, <1>3, <1>4, <1>5, <1>6, <1>7

(* A header whose body has not come is kept. *)
LEMMA AwaitFramed ==
  ASSUME Held, Framed, ProcFrame, ~ reused, NEW h, h \in HeaderRead, ProcAwait(h)
  PROVE  Framed'
<1>1. /\ Chained /\ Faithful /\ readyLen_ = arrived /\ Reading /\ recvBuffer_ # <<>>
      /\ Len(handled) \in Nat /\ arrived \in Nat /\ stream \in Seq([id : Ids, len : Lens, at : Nat])
  BY ProcFresh
<1>2. /\ h.id # 0 /\ ~ Ready(h) /\ recvBuffer_' = <<h.packet>> \o Tail(recvBuffer_)
      /\ currMsgId_' = h.id /\ currMsgLen_' = h.len
      /\ UNCHANGED <<handled, sendBuffer_, sending, reused, end>>
  BY DEF ProcAwait, sendVars, poolVars
<1>3. PICK n \in Nat : n = Len(handled)
  BY <1>1
<1>4. PICK z \in 0 .. arrived : OnMessage(h, n, z) /\ Behind(z)
  BY <1>1, <1>2, <1>3, FrontRead
<1>5. z \in Nat /\ z <= arrived
  BY <1>1
<1>6. /\ n + 1 \in 1 .. Len(stream) /\ EndOf(n) \in Nat /\ h.len \in Nat
      /\ z >= EndOf(n) + 6 + h.len \/ (n = 0 /\ EndOf(n) = 0 /\ z = 6)
  BY <1>1, <1>4, <1>5, OnMessageEnds
<1>7. arrived < h.len + 6
  <2>1. ~ (arrived >= h.len + Header)
    BY <1>1, <1>2 DEF Ready
  <2>2. h.len \in Nat /\ arrived \in Nat /\ Header = 6
    BY <1>1, <1>6, Numbers
  <2> QED
    BY <2>1, <2>2
<1>8. n = 0 /\ EndOf(n) = 0 /\ z = 6 /\ h.len > 0
  BY <1>1, <1>5, <1>6, <1>7
<1>9. Framing(<<h.packet>> \o Tail(recvBuffer_), z, arrived, Ends)
  <2>1. z \in 0 .. z /\ EndOf(n) + 6 = z
    BY <1>8
  <2>2. Spans(h.packet, z, z)
    BY <1>4, <2>1 DEF OnMessage
  <2>3. h.packet \in Packets(1 .. StreamLen)
    BY <1>1, HeaderReadHeld
  <2> QED
    BY <1>4, <2>1, <2>2, <2>3 DEF Behind
<1>10. InFrame(z)'
  <2>1. handled' = <<>>
    <3>1. handled = <<>>
      BY <1>3, <1>8, EmptySeq DEF Held, HeaderHeld
    <3> QED
      BY <1>2, <3>1
  <2>2. stream # <<>> /\ h.id = stream[1].id /\ h.len = stream[1].len
    <3>1. n + 1 = 1 /\ Len(stream) # 0
      BY <1>1, <1>6, <1>8
    <3>2. stream # <<>>
      BY <3>1, EmptySeq
    <3> QED
      BY <1>4, <3>1, <3>2 DEF OnMessage
  <2>3. UNCHANGED stream /\ Header' = 6
    BY Numbers DEF ProcFrame, peerVars, Header, DAN_MSG_ID, DAN_MSG_LEN
  <2> QED
    BY <1>2, <1>8, <2>1, <2>2, <2>3 DEF InFrame
<1>11. end' = "none"
  BY <1>2 DEF ProcFrame
<1> QED
  BY <1>2, <1>5, <1>9, <1>10, <1>11, RoundFramed

(* A packet is given back when nothing is left in it, the one with the     *)
(* first header only when others are behind. *)
LEMMA NextFramed ==
  ASSUME Held, Framed, ProcFrame, ~ reused, NEW h, h \in HeaderRead, ProcNext(h)
  PROVE  Framed'
<1>1. /\ Chained /\ Faithful /\ readyLen_ = arrived /\ Reading /\ recvBuffer_ # <<>>
      /\ Len(handled) \in Nat /\ arrived \in Nat /\ stream \in Seq([id : Ids, len : Lens, at : Nat])
  BY ProcFresh
<1>2. /\ recvBuffer_' = Tail(recvBuffer_)
      /\ end' = IF readableSize(h.packet) > 0 THEN "misread" ELSE "none"
      /\ IF Tail(recvBuffer_) = <<>> THEN currMsgId_' = 0 /\ currMsgLen_' = 0
         ELSE currMsgId_' = h.id /\ currMsgLen_' = h.len
      /\ UNCHANGED <<handled, sendBuffer_, sending, reused>>
      /\ h.id = 0 \/ (Ready(h) /\ readableSize(h.packet) = 0 /\ h.len > 0)
  BY DEF ProcNext, Reset, sendVars, Held, HeaderHeld
<1>3. UNCHANGED stream
  BY DEF ProcFrame, peerVars
<1>4. CASE /\ h.id = 0 /\ h.len = 0 /\ readableSize(h.packet) = 0
           /\ Framing(Tail(recvBuffer_), EndOf(Len(handled)), arrived, Ends)
  <2>1. PICK a \in Nat : a = EndOf(Len(handled))
    <3>1. Len(handled) \in 0 .. Len(stream)
      BY <1>1 DEF Faithful
    <3> QED
      BY <1>1, <3>1, EndsHeld
  <2>2. currMsgId_' = 0 /\ currMsgLen_' = 0 /\ end' = "none"
    BY <1>2, <1>4
  <2>3. InFrame(a)'
    BY <1>2, <1>3, <2>1, <2>2, SameStream DEF InFrame
  <2>4. Framing(recvBuffer_', a, arrived, Ends)
    BY <1>2, <1>4, <2>1
  <2> QED
    BY <1>2, <2>2, <2>3, <2>4, RoundFramed
<1>5. CASE \E z \in 0 .. arrived : OnMessage(h, Len(handled), z) /\ Behind(z)
  <2>1. PICK n \in Nat : n = Len(handled)
    BY <1>1
  <2>2. PICK z \in 0 .. arrived : OnMessage(h, n, z) /\ Behind(z)
    BY <1>5, <2>1
  <2>3. z \in Nat /\ z <= arrived
    BY <1>1
  <2>4. /\ n + 1 \in 1 .. Len(stream) /\ EndOf(n) \in Nat /\ h.len \in Nat /\ h.id # 0
        /\ z >= EndOf(n) + 6 + h.len \/ (n = 0 /\ EndOf(n) = 0 /\ z = 6)
    BY <1>1, <2>2, <2>3, OnMessageEnds
  <2>5. Ready(h) /\ readableSize(h.packet) = 0 /\ h.len > 0
    BY <1>2, <2>4
  <2>6. arrived >= h.len + 6
    BY <1>1, <2>5, Numbers DEF Ready
  <2>7. z - (EndOf(n) + 6) = 0
    BY <2>2, <2>5 DEF OnMessage, Spans, readableSize
  <2>8. n = 0 /\ EndOf(n) = 0 /\ z = 6
    BY <2>3, <2>4, <2>5, <2>7
  <2>9. Framing(Tail(recvBuffer_), z, arrived, Ends)
    BY <2>2 DEF Behind
  <2>10. Tail(recvBuffer_) # <<>>
    <3>1. z # arrived
      BY <1>1, <2>4, <2>5, <2>6, <2>8
    <3> QED
      BY <2>9, <3>1, FramingOver
  <2>11. currMsgId_' = h.id /\ currMsgLen_' = h.len /\ end' = "none"
    BY <1>2, <2>5, <2>10
  <2>12. InFrame(z)'
    <3>1. handled' = <<>>
      <4>1. handled = <<>>
        BY <2>1, <2>8, EmptySeq DEF Held, HeaderHeld
      <4> QED
        BY <1>2, <4>1
    <3>2. stream # <<>> /\ h.id = stream[1].id /\ h.len = stream[1].len
      <4>1. n + 1 = 1 /\ Len(stream) # 0
        BY <1>1, <2>4, <2>8
      <4>2. stream # <<>>
        BY <4>1, EmptySeq
      <4> QED
        BY <2>2, <4>1, <4>2 DEF OnMessage
    <3>3. Header' = 6
      BY Numbers DEF Header, DAN_MSG_ID, DAN_MSG_LEN
    <3> QED
      BY <1>3, <2>5, <2>8, <2>11, <3>1, <3>2, <3>3 DEF InFrame
  <2> QED
    BY <1>2, <2>3, <2>9, <2>11, <2>12, RoundFramed
<1> QED
  BY <1>1, <1>4, <1>5, FrontRead

(* A message that is no request ends the process, or a reply that is read  *)
(* beyond its end. *)
LEMMA KilledFramed ==
  ASSUME Held, Framed, ProcFrame, ~ reused, NEW h, h \in HeaderRead, ProcHandle(h), end' # "none"
  PROVE  Framed'
<1>1. /\ Chained /\ Faithful /\ Reading /\ recvBuffer_ # <<>> /\ Len(handled) \in Nat
      /\ arrived \in Nat /\ stream \in Seq([id : Ids, len : Lens, at : Nat])
  BY ProcFresh
<1>2. h.id # 0 /\ end' = "killed" /\ UNCHANGED <<stream, handled>>
  BY DEF ProcHandle, procVars, ProcFrame, peerVars
<1>3. PICK n \in Nat : n = Len(handled)
  BY <1>1
<1>4. PICK z \in 0 .. arrived : OnMessage(h, n, z)
  BY <1>1, <1>2, <1>3, FrontRead
<1>5. n + 1 \in 1 .. Len(stream) /\ h.id = stream[n + 1].id
  <2>1. z \in Nat
    BY <1>1
  <2> QED
    BY <1>1, <1>4, <2>1, OnMessageEnds DEF OnMessage
<1>6. Unhandled \/ ~ RepliesFit
  <2>1. CASE ~ Handled(h.id)
    BY <1>5, <2>1 DEF Unhandled
  <2>2. CASE ~ Fits(ReplyLen[h.id])
    <3>1. stream[n + 1] \in [id : Ids, len : Lens, at : Nat]
      BY <1>1, <1>5, ElementOfSeq
    <3>2. h.id \in Ids
      BY <1>5, <3>1
    <3> QED
      BY <2>2, <3>2 DEF RepliesFit
  <2> QED
    BY <2>1, <2>2 DEF ProcHandle, ProcFrame
<1> QED
  BY <1>1, <1>2, <1>6, SameStream DEF Framed

(* The packets of a reply all have something in them. *)
LEMMA HandleFull ==
  ASSUME Held, SendFull, ProcFrame, NEW h, h \in HeaderRead, ProcHandle(h), end' = "none", ~ reused'
  PROVE  SendFull'
<1>1. h.id \in Requests /\ Len(handled) \in Nat /\ UNCHANGED sending
  BY HandleParts
<1>2. PICK i \in Nat, id \in Requests : i = Len(handled) + 1 /\ id = h.id
  <2>1. Len(handled) + 1 \in Nat
    BY <1>1
  <2> QED
    BY <1>1, <2>1
<1>3. PICK bytes \in Seq(Byte) : bytes = Copied(i, id) /\ Len(bytes) >= 1 /\ Fits(Len(bytes))
  BY ReplyBytes
<1>4. PICK m \in Idle, q \in Seq(Packet(Byte)) :
        /\ sendBuffer_' = Append(sendBuffer_, [packets_ |-> m.packets_ \o q, pCurrPacket_ |-> <<>>])
        /\ Len(q) = Len(Pieces(Copied(Len(handled) + 1, h.id))) /\ Len(q) >= 1
        /\ \A j \in 1 .. Len(q) : q[j].unread = Pieces(Copied(Len(handled) + 1, h.id))[j]
        /\ ~ reused' => m.packets_ = <<>>
        /\ (reused => reused') /\ reused' \in BOOLEAN
        /\ tasks' = tasks + 1
        /\ packetPool' \in Seq(Packets({})) /\ messagePool' \in Seq(Idle)
  BY HandleQueues, Zenon
<1>5. PICK k, c : k \in Nat \ {0} /\ c \in Nat \ {0} /\ CutInto(Pieces(bytes), bytes, k, c, Byte)
  BY <1>3, Cut
<1>6. ASSUME NEW j \in 1 .. Len(q) PROVE readableSize(q[j]) > 0
  <2>1. Pieces(Copied(Len(handled) + 1, h.id)) = Pieces(bytes)
    BY <1>2, <1>3
  <2>2. Len(q) = c
    BY <1>4, <1>5, <2>1 DEF CutInto
  <2>3. q[j].unread = Pieces(bytes)[j] /\ j \in 1 .. c
    BY <1>4, <2>1, <2>2
  <2>4. Len(Pieces(bytes)[j]) = k
    BY <1>5, <2>3 DEF CutInto
  <2> QED
    BY <1>5, <2>3, <2>4 DEF readableSize
<1>7. PICK s \in Seq(Queued), l \in Nat : s = sendBuffer_ /\ l = Len(s)
  BY LenProperties DEF Held, SendHeld
<1>8. PICK e : e = [packets_ |-> q, pCurrPacket_ |-> <<>>] /\ e.packets_ = q
  <2>1. PICK e : e = [packets_ |-> q, pCurrPacket_ |-> <<>>]
    OBVIOUS
  <2>2. e.packets_ = q
    BY <2>1
  <2> QED
    BY <2>1, <2>2
<1>9. sendBuffer_' = Append(s, e)
  <2>1. <<>> \o q = q
    BY ConcatEmptySeq
  <2> QED
    BY <1>4, <1>7, <1>8, <2>1
<1>10. PICK t : t = Append(s, e)
  OBVIOUS
<1>11. Len(t) = l + 1 /\ t[l + 1] = e /\ \A j \in 1 .. l : t[j] = s[j]
  <2>1. e \in Message
    <3>1. <<>> \in Seq(Packet(Byte))
      OBVIOUS
    <3> QED
      BY <1>8, <3>1 DEF Message
  <2>2. s \in Seq(Message)
    <3>1. Queued \subseteq Message
      BY MessageParts
    <3> QED
      BY <3>1, SeqMonotonic
  <2> QED
    BY <1>7, <1>10, <2>1, <2>2, AppendProperties
<1>12. sending = -1 /\ sending' = -1
  BY <1>1 DEF ProcFrame
<1>13. ASSUME NEW j \in 1 .. l + 1, NEW x \in 1 .. Len(t[j].packets_)
       PROVE  readableSize(t[j].packets_[x]) > 0
  <2>1. CASE j = l + 1
    BY <1>6, <1>8, <1>11, <2>1
  <2>2. CASE j # l + 1
    <3>1. j \in 1 .. Len(sendBuffer_) /\ t[j] = sendBuffer_[j]
      BY <1>7, <1>11, <2>2
    <3>2. x \in 1 .. Len(sendBuffer_[j].packets_) /\ x > sending
      BY <1>12, <3>1
    <3> QED
      BY <3>1, <3>2 DEF SendFull
  <2> QED
    BY <2>1, <2>2
<1> QED
  BY <1>9, <1>10, <1>11, <1>13 DEF SendFull, readableSize

(* A request that is handled is the next of those that were sent. *)
LEMMA HandleFaithful ==
  ASSUME Held, Held', Framed, ProcFrame, ~ reused,
         NEW h, h \in HeaderRead, ProcHandle(h), end' = "none"
  PROVE  /\ Len(handled) < Len(stream)
         /\ handled' = Append(handled, Sent(Len(handled) + 1))
<1>1. /\ Chained /\ Faithful /\ pPacket = NewPacket /\ readyLen_ = arrived
      /\ SendFull /\ Reading /\ recvBuffer_ # <<>>
      /\ stream \in Seq([id : Ids, len : Lens, at : Nat])
      /\ Len(handled) \in Nat /\ Len(stream) \in Nat /\ arrived \in Nat
  BY ProcFresh
<1>2. /\ h.id \in Requests /\ h.len \in Nat /\ h.packet \in Packets(1 .. StreamLen)
      /\ h.len \in 0 .. readableSize(h.packet)
      /\ recvBuffer_' = <<Read(h.packet, h.len)>> \o Tail(recvBuffer_)
      /\ handled' = Append(handled, [id |-> h.id, body |-> SubSeq(h.packet.unread, 1, h.len)])
      /\ currMsgId_' = 0 /\ currMsgLen_' = 0 /\ UNCHANGED <<sending, end>>
  BY HandleParts DEF Reset
<1>3. UNCHANGED <<stream, arrived, pPacket, readyLen_>> /\ end = "none" /\ end' = "none"
  BY <1>2 DEF ProcFrame, peerVars, recvVars
<1>4. PICK n \in Nat : n = Len(handled)
  BY <1>1
<1>5. h.id # 0
  BY <1>2, Numbers DEF Requests
<1>6. PICK z \in 0 .. arrived : OnMessage(h, n, z) /\ Behind(z)
  BY <1>1, <1>4, <1>5, FrontRead
<1>7. z \in Nat
  BY <1>1
<1>8. /\ n + 1 \in 1 .. Len(stream) /\ EndOf(n) \in Nat
      /\ stream[n + 1].at = EndOf(n) /\ EndOf(n + 1) = EndOf(n) + 6 + h.len
  BY <1>1, <1>6, <1>7, OnMessageEnds
<1>9. PICK c \in Nat, len \in Nat, d \in Nat :
        c = EndOf(n) + 6 /\ len = h.len /\ d = c + len /\ d = EndOf(n + 1)
  <2>1. PICK b \in Nat, len \in Nat : b = EndOf(n) /\ len = h.len
    BY <1>2, <1>8
  <2>2. b + 6 \in Nat /\ b + 6 + len \in Nat
    OBVIOUS
  <2>3. EndOf(n + 1) = b + 6 + len
    BY <1>8, <2>1
  <2> QED
    BY <2>1, <2>2, <2>3
<1>10. PICK p \in Packet(1 .. StreamLen) : p = h.packet /\ p \in Packets(1 .. StreamLen)
  BY <1>2 DEF Packets
<1>11. Spans(p, c, z)
  BY <1>6, <1>9, <1>10 DEF OnMessage
<1>12. z - c \in Nat /\ len <= z - c
  <2>1. readableSize(p) = z - c
    BY <1>11 DEF Spans, readableSize
  <2>2. Len(p.unread) \in Nat
    BY LenProperties DEF Packet
  <2> QED
    BY <1>2, <1>9, <1>10, <2>1, <2>2 DEF readableSize
<1>13. PICK e : e = [id |-> h.id, body |-> SubSeq(h.packet.unread, 1, h.len)]
  OBVIOUS
<1>14. e = Sent(n + 1)
  <2>1. PICK u \in Seq(1 .. StreamLen) : u = p.unread
    BY DEF Packet
  <2>2. Len(u) = z - c /\ \A k \in 1 .. z - c : u[k] = c + k
    BY <1>11, <2>1 DEF Spans
  <2>3. PICK v : v = SubSeq(u, 1, len)
    OBVIOUS
  <2>4. Len(v) = len /\ v \in Seq(1 .. StreamLen) /\ \A k \in 1 .. len : v[k] = u[k]
    <3>1. u \in [1 .. z - c -> 1 .. StreamLen]
      BY <2>2, LenProperties
    <3>2. 1 \in Int /\ len \in Int /\ \A k \in 1 .. len : u[k] \in 1 .. StreamLen
      BY <1>12, <3>1
    <3>3. /\ v \in Seq(1 .. StreamLen)
          /\ Len(v) = IF 1 <= len THEN len - 1 + 1 ELSE 0
          /\ \A k \in 1 .. len - 1 + 1 : v[k] = u[1 + k - 1]
      BY <2>3, <3>2, SubSeqProperties
    <3> QED
      BY <3>3
  <2>5. v = [k \in 1 .. len |-> c + k]
    <3>1. v \in [1 .. len -> 1 .. StreamLen]
      BY <2>4, LenProperties
    <3>2. ASSUME NEW k \in 1 .. len PROVE v[k] = c + k
      <4>1. k \in 1 .. z - c
        BY <1>12
      <4> QED
        BY <2>2, <2>4, <4>1
    <3> QED
      BY <3>1, <3>2
  <2>6. h.len = stream[n + 1].len /\ h.id = stream[n + 1].id
    BY <1>6 DEF OnMessage
  <2>7. Sent(n + 1).body = [k \in 1 .. len |-> c + k] /\ Sent(n + 1) = [id |-> h.id, body |-> Sent(n + 1).body]
    <3>1. stream[n + 1].at + Header = c
      BY <1>8, <1>9, Numbers
    <3> QED
      BY <1>9, <2>6, <3>1 DEF Sent
  <2>8. e = [id |-> h.id, body |-> v]
    BY <1>9, <1>10, <1>13, <2>1, <2>3
  <2> QED
    BY <2>5, <2>7, <2>8
<1>15. Len(handled) < Len(stream)
  BY <1>1, <1>4, <1>8
<1> QED
  BY <1>2, <1>4, <1>13, <1>14, <1>15

(* The place behind a request that is handled is where the next one begins. *)
LEMMA HandleFramed ==
  ASSUME Held, Held', Framed, ProcFrame, ~ reused, ~ reused',
         NEW h, h \in HeaderRead, ProcHandle(h), end' = "none"
  PROVE  Framed'
<1>1. /\ Chained /\ Faithful /\ pPacket = NewPacket /\ readyLen_ = arrived
      /\ SendFull /\ Reading /\ recvBuffer_ # <<>>
      /\ stream \in Seq([id : Ids, len : Lens, at : Nat])
      /\ Len(handled) \in Nat /\ Len(stream) \in Nat /\ arrived \in Nat
  BY ProcFresh
<1>2. /\ h.id \in Requests /\ h.len \in Nat /\ h.packet \in Packets(1 .. StreamLen)
      /\ h.len \in 0 .. readableSize(h.packet)
      /\ recvBuffer_' = <<Read(h.packet, h.len)>> \o Tail(recvBuffer_)
      /\ handled' = Append(handled, [id |-> h.id, body |-> SubSeq(h.packet.unread, 1, h.len)])
      /\ currMsgId_' = 0 /\ currMsgLen_' = 0 /\ UNCHANGED <<sending, end>>
  BY HandleParts DEF Reset
<1>3. UNCHANGED <<stream, arrived, pPacket, readyLen_>> /\ end = "none" /\ end' = "none"
  BY <1>2 DEF ProcFrame, peerVars, recvVars
<1>4. PICK n \in Nat : n = Len(handled)
  BY <1>1
<1>5. h.id # 0
  BY <1>2, Numbers DEF Requests
<1>6. PICK z \in 0 .. arrived : OnMessage(h, n, z) /\ Behind(z)
  BY <1>1, <1>4, <1>5, FrontRead
<1>7. z \in Nat
  BY <1>1
<1>8. /\ n + 1 \in 1 .. Len(stream) /\ EndOf(n) \in Nat
      /\ stream[n + 1].at = EndOf(n) /\ EndOf(n + 1) = EndOf(n) + 6 + h.len
  BY <1>1, <1>6, <1>7, OnMessageEnds
<1>9. PICK c \in Nat, len \in Nat, d \in Nat :
        c = EndOf(n) + 6 /\ len = h.len /\ d = c + len /\ d = EndOf(n + 1)
  <2>1. PICK b \in Nat, len \in Nat : b = EndOf(n) /\ len = h.len
    BY <1>2, <1>8
  <2>2. b + 6 \in Nat /\ b + 6 + len \in Nat
    OBVIOUS
  <2>3. EndOf(n + 1) = b + 6 + len
    BY <1>8, <2>1
  <2> QED
    BY <2>1, <2>2, <2>3
<1>10. PICK p \in Packet(1 .. StreamLen) : p = h.packet /\ p \in Packets(1 .. StreamLen)
  BY <1>2 DEF Packets
<1>11. Spans(p, c, z)
  BY <1>6, <1>9, <1>10 DEF OnMessage
<1>12. z - c \in Nat /\ len <= z - c
  <2>1. readableSize(p) = z - c
    BY <1>11 DEF Spans, readableSize
  <2>2. Len(p.unread) \in Nat
    BY LenProperties DEF Packet
  <2> QED
    BY <1>2, <1>9, <1>10, <2>1, <2>2 DEF readableSize
<1>13. Spans(Read(p, len), d, z) /\ d <= z
  <2>1. Spans(Read(p, len), c + len, z)
    BY <1>7, <1>11, <1>12, SpansRead
  <2> QED
    BY <1>7, <1>9, <1>12, <2>1
<1>14. Framing(recvBuffer_', d, arrived, Ends)
  <2>1. Read(p, len) \in Packets(1 .. StreamLen)
    <3>1. len \in 0 .. readableSize(p)
      BY <1>2, <1>9, <1>10
    <3> QED
      BY <1>10, <3>1, ReadFrom
  <2>2. d \in 0 .. z
    BY <1>7, <1>13
  <2>3. Framing(<<Read(p, len)>> \o Tail(recvBuffer_), d, arrived, Ends)
    BY <1>6, <1>13, <2>1, <2>2 DEF Behind
  <2> QED
    BY <1>2, <1>9, <1>10, <2>3
<1>15. PICK e : e = [id |-> h.id, body |-> SubSeq(h.packet.unread, 1, h.len)]
  OBVIOUS
<1>16. Len(handled') = n + 1 /\ handled'[n + 1] = e /\ \A i \in 1 .. n : handled'[i] = handled[i]
  <2>1. handled' \in Seq([id : Requests, body : Seq(Nat)]) /\ handled \in Seq([id : Requests, body : Seq(Nat)])
    BY DEF Held, HeaderHeld
  <2>2. handled' = Append(handled, e)
    BY <1>2, <1>15
  <2> QED
    BY <1>4, <2>1, <2>2, AppendProperties, LenProperties
<1>17. Reading'
  <2>1. EndOf(n + 1)' = d
    BY <1>3, <1>9, SameStream
  <2>2. InFrame(d)'
    BY <1>2, <1>16, <2>1 DEF InFrame
  <2> QED
    BY <1>3, <1>14, <2>2, SameStream DEF Reading
<1>18. e = Sent(n + 1)
  <2>1. handled' = Append(handled, Sent(n + 1))
    BY <1>4, HandleFaithful
  <2>2. handled \in Seq([id : Requests, body : Seq(Nat)])
    BY DEF Held, HeaderHeld
  <2>3. Append(handled, Sent(n + 1))[n + 1] = Sent(n + 1)
    <3>1. PICK q \in Seq({Sent(n + 1)} \cup [id : Requests, body : Seq(Nat)]) : q = handled
      BY <2>2, SeqMonotonic
    <3> QED
      BY <1>4, <3>1, AppendProperties
  <2> QED
    BY <1>16, <2>1, <2>3
<1>19. Faithful'
  <2>1. Len(handled') <= Len(stream')
    BY <1>3, <1>8, <1>16
  <2>2. ASSUME NEW i \in 1 .. n + 1 PROVE handled'[i] = Sent(i)
    <3>1. CASE i = n + 1
      BY <1>16, <1>18, <3>1
    <3>2. CASE i # n + 1
      <4>1. i \in 1 .. n
        BY <3>2
      <4>2. handled[i] = Sent(i)
        BY <1>1, <1>4, <4>1 DEF Faithful
      <4> QED
        BY <1>16, <4>1, <4>2
    <3> QED
      BY <3>1, <3>2
  <2>3. \A i : Sent(i)' = Sent(i)
    BY <1>3, SameStream DEF Sent
  <2> QED
    BY <1>16, <2>1, <2>2, <2>3 DEF Faithful
<1>20. SendFull'
  BY <1>1, HandleFull
<1> QED
  BY <1>1, <1>3, <1>17, <1>19, <1>20, SameStream DEF Framed, Fresh

LEMMA ProcMsgFramed ==
  ASSUME Held, Framed, ProcMsg
  PROVE  Framed'
<1>1. PICK h \in HeaderRead :
        ProcMisread(h) \/ ProcAwait(h) \/ ProcHandle(h) \/ ProcPartial(h) \/ ProcNext(h)
  BY ProcMsgParts
<1>2. ProcFrame /\ UNCHANGED stream /\ end = "none"
  BY ProcMsgParts DEF ProcFrame, peerVars
<1>3. Held' /\ reused \in BOOLEAN /\ reused' \in BOOLEAN
  BY ProcMsgHeld DEF Held, PoolsHeld
<1>4. reused => reused'
  <2>1. CASE ProcHandle(h) /\ end' = "none"
    BY <1>2, <2>1, HandleQueues
  <2>2. CASE ProcHandle(h) /\ end' # "none"
    BY <1>2, <2>2 DEF ProcHandle, poolVars
  <2>3. CASE ProcMisread(h) \/ ProcPartial(h) \/ ProcAwait(h)
    BY <2>3 DEF ProcMisread, ProcPartial, ProcAwait, poolVars
  <2>4. CASE ProcNext(h)
    BY <2>4 DEF ProcNext
  <2> QED
    BY <1>1, <2>1, <2>2, <2>3, <2>4
<1>5. CASE reused'
  BY <1>2, <1>5, FramedReused
<1>6. CASE ~ reused /\ ~ reused'
  <2>1. /\ Chained /\ Faithful /\ Reading /\ recvBuffer_ # <<>> /\ readyLen_ = arrived
        /\ Len(handled) \in Nat /\ arrived \in Nat /\ readLen_ = 0
    BY <1>2, <1>6, ProcFresh DEF Held, HeaderHeld
  <2>2. CASE ProcMisread(h)
    BY <2>1, <2>2, FrontRead DEF ProcMisread
  <2>3. CASE ProcAwait(h)
    BY <1>2, <1>6, <2>3, AwaitFramed
  <2>4. CASE ProcHandle(h) /\ end' = "none"
    BY <1>2, <1>3, <1>6, <2>4, HandleFramed
  <2>5. CASE ProcHandle(h) /\ end' # "none"
    BY <1>2, <1>6, <2>5, KilledFramed
  <2>6. CASE ProcPartial(h)
    <3>1. PICK n \in Nat : n = Len(handled)
      BY <2>1
    <3>2. h.id # 0 /\ 0 < readableSize(h.packet) /\ readableSize(h.packet) < h.len - 0
      BY <2>1, <2>6 DEF ProcPartial
    <3>3. PICK z \in 0 .. arrived : OnMessage(h, n, z)
      BY <2>1, <3>1, <3>2, FrontRead
    <3>4. z \in Nat
      BY <2>1
    <3>5. /\ EndOf(n) \in Nat /\ h.len \in Nat
          /\ z >= EndOf(n) + 6 + h.len \/ (n = 0 /\ EndOf(n) = 0 /\ z = 6)
      BY <2>1, <3>3, <3>4, OnMessageEnds
    <3>6. readableSize(h.packet) = z - (EndOf(n) + 6)
      BY <3>3 DEF OnMessage, Spans, readableSize
    <3> QED
      BY <3>2, <3>4, <3>5, <3>6
  <2>7. CASE ProcNext(h)
    BY <1>2, <1>6, <2>7, NextFramed
  <2> QED
    BY <1>1, <2>2, <2>3, <2>4, <2>5, <2>6, <2>7
<1> QED
  BY <1>3, <1>4, <1>5, <1>6

(* A step of the sender, when something is left to send. *)
LEMMA SenderFramed ==
  ASSUME Framed, end = "none", reused \in BOOLEAN,
         UNCHANGED <<stream, recvVars, procVars, readyLen_, reused, end>>,
         Fresh => SendFull'
  PROVE  Framed'
<1>1. CASE reused
  BY <1>1, FramedReused
<1>2. CASE ~ reused
  <2>1. Chained /\ Faithful /\ Fresh
    BY <1>2 DEF Framed
  <2>2. UNCHANGED <<stream, arrived, pPacket, recvBuffer_, currMsgId_, currMsgLen_, handled, readyLen_>>
    BY DEF recvVars, procVars
  <2>3. Reading'
    <3>1. PICK a \in Nat : InFrame(a) /\ Framing(recvBuffer_, a, arrived, Ends)
      BY <2>1 DEF Fresh, Reading
    <3>2. InFrame(a)'
      BY <2>2, <3>1, SameStream DEF InFrame
    <3> QED
      BY <2>2, <3>1, <3>2, SameStream DEF Reading
  <2> QED
    BY <1>2, <2>1, <2>2, <2>3, SameStream DEF Framed, Fresh
<1> QED
  BY <1>1, <1>2

LEMMA SendPartFull ==
  ASSUME Held, SendPart, SendFull
  PROVE  SendFull'
<1>1. end = "none" /\ sending # -1 /\ sending \in Nat
  BY DEF SendPart, Held, SendHeld
<1>2. PICK m \in Queued, k \in Nat, p \in Packet(Byte), n \in Nat, u \in Seq(Packet(Byte)) :
        n \in 1 .. readableSize(p) /\ SendsPart(m, k, p, n, u)
  BY SendPartParts
<1>3. PICK s \in Seq(Queued), l \in Nat : s = sendBuffer_ /\ s # <<>> /\ l = Len(s) /\ l >= 1
  <2>1. sendBuffer_ \in Seq(Queued) /\ sendBuffer_ # <<>>
    BY <1>1, FrontHeld
  <2> QED
    BY <2>1, EmptySeq, LenProperties
<1>4. sending = k - 1 /\ m = s[1] /\ p = m.packets_[k] /\ Len(u) = Len(m.packets_)
  BY <1>1, <1>2, <1>3 DEF SendsPart
<1>5. \A j \in 1 .. l : \A i \in 1 .. Len(s[j].packets_) :
        j > 1 \/ i > k - 1 => readableSize(s[j].packets_[i]) > 0
  BY <1>3, <1>4 DEF SendFull
<1>6. CASE n = readableSize(p) /\ k = Len(u)
  <2>1. PICK t : t = Tail(s)
    OBVIOUS
  <2>2. Len(t) = l - 1 /\ \A j \in 1 .. l - 1 : t[j] = s[j + 1]
    <3>1. Len(t) = Len(s) - 1 /\ \A j \in 1 .. Len(t) : t[j] = s[j + 1]
      BY <1>3, <2>1, HeadTailProperties
    <3>2. Len(t) = l - 1
      BY <1>3, <3>1
    <3> QED
      BY <3>1, <3>2
  <2>3. ASSUME NEW j \in 1 .. l - 1, NEW i \in 1 .. Len(t[j].packets_)
        PROVE  readableSize(t[j].packets_[i]) > 0
    <3>1. j + 1 \in 1 .. l /\ j + 1 > 1 /\ t[j] = s[j + 1]
      BY <2>2
    <3> QED
      BY <1>5, <3>1
  <2>4. sendBuffer_' = t
    BY <1>2, <1>3, <1>6, <2>1 DEF SendsPart
  <2> QED
    BY <2>2, <2>3, <2>4 DEF SendFull, readableSize
<1>7. CASE ~ (n = readableSize(p) /\ k = Len(u))
  <2>1. PICK f : f = [packets_ |-> u, pCurrPacket_ |-> <<>>]
    OBVIOUS
  <2>2. f.packets_ = u
    BY <2>1
  <2>3. f \in Queued
    <3>1. Len(u) >= 1
      BY <1>4 DEF Queued
    <3>2. <<>> \in Seq(Packet(Byte))
      OBVIOUS
    <3>3. f \in Message
      BY <2>1, <3>2 DEF Message
    <3> QED
      BY <2>1, <3>1, <3>3 DEF Queued
  <2>4. PICK t : t = <<f>> \o Tail(s)
    OBVIOUS
  <2>5. Len(t) = l /\ t[1] = f /\ \A j \in 2 .. l : t[j] = s[j]
    BY <1>3, <2>3, <2>4, Refronted
  <2>6. sendBuffer_' = t /\ sending' = IF n = readableSize(p) THEN k ELSE k - 1
    BY <1>2, <1>3, <1>7, <2>1, <2>4 DEF SendsPart
  <2>7. ASSUME NEW i \in 1 .. Len(u), i > sending' PROVE readableSize(u[i]) > 0
    <3>1. u[i] = IF i = k THEN Read(p, n) ELSE m.packets_[i]
      BY <1>2, <2>7 DEF SendsPart
    <3>2. CASE i = k
      <4>1. n # readableSize(p)
        BY <2>6, <2>7, <3>2
      <4>2. n \in 0 .. readableSize(p)
        BY <1>2
      <4>3. readableSize(p) \in Nat /\ readableSize(Read(p, n)) = readableSize(p) - n
        BY <4>2, ReadFrom
      <4> QED
        BY <1>2, <3>1, <3>2, <4>1, <4>3
    <3>3. CASE i # k
      <4>1. i > k - 1 /\ i \in 1 .. Len(s[1].packets_) /\ 1 \in 1 .. l
        BY <1>3, <1>4, <2>6, <2>7
      <4>2. readableSize(s[1].packets_[i]) > 0
        BY <1>5, <4>1
      <4> QED
        BY <1>4, <3>1, <3>3, <4>2
    <3> QED
      BY <3>2, <3>3
  <2>8. ASSUME NEW j \in 1 .. l, NEW i \in 1 .. Len(t[j].packets_), j > 1 \/ i > sending'
        PROVE  readableSize(t[j].packets_[i]) > 0
    <3>1. CASE j = 1
      BY <2>2, <2>5, <2>7, <2>8, <3>1
    <3>2. CASE j # 1
      <4>1. j \in 2 .. l /\ j > 1 /\ t[j] = s[j]
        BY <2>5, <3>2
      <4> QED
        BY <1>5, <4>1
    <3> QED
      BY <3>1, <3>2
  <2> QED
    BY <2>5, <2>6, <2>8 DEF SendFull, readableSize
<1> QED
  BY <1>6, <1>7

LEMMA SendFramed ==
  ASSUME Held, Framed, Send
  PROVE  Framed'
<1>1. reused \in BOOLEAN /\ sending \in Nat \cup {-1}
  BY DEF Held, PoolsHeld, SendHeld
<1>2. CASE OnSend
  <2>1. /\ end = "none" /\ sending = -1 /\ sending' = 0
        /\ UNCHANGED <<stream, recvVars, procVars, readyLen_, reused, end, sendBuffer_>>
    BY <1>2 DEF OnSend, InLoop, peerVars, poolVars
  <2>2. Fresh => SendFull'
    <3>1. ASSUME SendFull PROVE SendFull'
      <4>1. \A j \in 1 .. Len(sendBuffer_) : \A i \in 1 .. Len(sendBuffer_[j].packets_) :
              readableSize(sendBuffer_[j].packets_[i]) > 0
        BY <2>1, <3>1 DEF SendFull
      <4> QED
        BY <2>1, <4>1 DEF SendFull, readableSize
    <3> QED
      BY <3>1 DEF Fresh
  <2> QED
    BY <1>1, <2>1, <2>2, SenderFramed
<1>3. CASE SendPart
  <2>1. end = "none" /\ UNCHANGED <<stream, recvVars, procVars, readyLen_, reused, end>>
    BY <1>3 DEF SendPart
  <2>2. Fresh => SendFull'
    BY <1>3, SendPartFull DEF Fresh
  <2> QED
    BY <1>1, <2>1, <2>2, SenderFramed
<1>4. CASE SendNothing
  <2>1. /\ end = "none" /\ sending >= 0 /\ readableSize(pSendPacket) = 0
        /\ UNCHANGED <<stream, reused>>
    BY <1>4 DEF SendNothing, peerVars
  <2>2. CASE reused
    BY <2>1, <2>2, FramedReused
  <2>3. CASE ~ reused
    <3>1. SendFull
      BY <2>1, <2>3 DEF Framed, Fresh
    <3>2. sending # -1
      BY <2>1
    <3>3. /\ sendBuffer_ \in Seq(Queued) /\ sendBuffer_ # <<>> /\ sending \in Nat
          /\ pSendMsg = sendBuffer_[1] /\ sending + 1 \in 1 .. Len(pSendMsg.packets_)
      BY <3>2, FrontHeld
    <3>4. 1 \in 1 .. Len(sendBuffer_)
      BY <3>3, EmptySeq, LenProperties
    <3>5. sending + 1 > sending
      BY <3>3
    <3>6. readableSize(sendBuffer_[1].packets_[sending + 1]) > 0
      BY <3>1, <3>3, <3>4, <3>5 DEF SendFull
    <3> QED
      BY <2>1, <3>3, <3>6 DEF pSendPacket
  <2> QED
    BY <2>2, <2>3
<1> QED
  BY <1>2, <1>3, <1>4 DEF Send

LEMMA FramedOn ==
  ASSUME Held, Framed, Cuts = "message", [Next]_vars
  PROVE  Framed'
<1>1. CASE end = "none" /\ PeerSend
  BY <1>1, PeerSendFramed
<1>2. CASE RecvFromFd
  BY <1>2, RecvFramed
<1>3. CASE ProcMsg
  BY <1>3, ProcMsgFramed
<1>4. CASE Send
  BY <1>4, SendFramed
<1>5. CASE UNCHANGED vars
  <2>1. UNCHANGED <<stream, arrived, pPacket, recvBuffer_, currMsgId_, currMsgLen_, handled,
                    readyLen_, sendBuffer_, sending, reused, end>>
    BY <1>5 DEF vars, peerVars, recvVars, procVars, sendVars, poolVars
  <2>2. Fresh => Fresh'
    <3>1. ASSUME Fresh PROVE Fresh'
      <4>1. PICK a \in Nat : InFrame(a) /\ Framing(recvBuffer_, a, arrived, Ends)
        BY <3>1 DEF Fresh, Reading
      <4>2. InFrame(a)'
        BY <2>1, <4>1, SameStream DEF InFrame
      <4>3. Reading'
        BY <2>1, <4>1, <4>2, SameStream DEF Reading
      <4>4. SendFull'
        BY <2>1, <3>1 DEF Fresh, SendFull, readableSize
      <4> QED
        BY <2>1, <3>1, <4>3, <4>4, SameStream DEF Fresh
    <3> QED
      BY <3>1
  <2> QED
    BY <2>1, <2>2, SameStream DEF Framed
<1> QED
  BY <1>1, <1>2, <1>3, <1>4, <1>5 DEF Next, Program, Quiet

LEMMA FramedAlways ==
  ASSUME Cuts = "message"
  PROVE  Spec => [](Held /\ Framed)
<1>1. Init => Held /\ Framed
  BY InitHeld, InitFramed
<1>2. Held /\ Framed /\ [Next]_vars => (Held /\ Framed)'
  BY HeldOn, FramedOn
<1> QED
  BY <1>1, <1>2, PTL DEF Spec

(* Whatever the lengths of messages and packets, as long as whole messages *)
(* arrive and no reply is read beyond its end, the server closes the       *)
(* connection, or is killed, only because an object is used again, or by a *)
(* message that is no request:                                             *)
(* no arrangement of messages in packets has procMsg read past what has    *)
(* come, take other bytes for a header, or find a packet without room      *)
(* (dan_session.hpp:54-197, :291-330).                                     *)
THEOREM SessionEnds ==
  ASSUME Cuts = "message", RepliesFit
  PROVE  Spec => []EndsForAReason
<1>1. ASSUME Held, Framed PROVE EndsForAReason
  <2>1. ASSUME end # "none", ~ reused PROVE \E i \in DOMAIN stream : ~ Handled(stream[i].id)
    <3>1. PICK i \in 1 .. Len(stream) : ~ Handled(stream[i].id)
      BY <1>1, <2>1 DEF Framed, Unhandled
    <3>2. i \in DOMAIN stream
      BY <1>1, LenProperties DEF Held, StreamHeld
    <3> QED
      BY <3>1, <3>2
  <2> QED
    BY <2>1 DEF EndsForAReason
<1>2. Held /\ Framed => EndsForAReason
  BY <1>1
<1> QED
  BY <1>2, FramedAlways, PTL

(* As long as whole messages arrive, whatever the lengths of messages and  *)
(* replies, and until an object is used again, the messages handled are    *)
(* the first ones sent, in order, each with its identity and with exactly  *)
(* its own bytes (dan_session.hpp:54-197).                                 *)
THEOREM SessionHandles ==
  ASSUME Cuts = "message"
  PROVE  Spec => [](reused \/ Faithful)
<1>1. Held /\ Framed => reused \/ Faithful
  BY DEF Framed
<1> QED
  BY <1>1, FramedAlways, PTL

(***************************************************************************)
(* What the peer can tell of the replies: after n bytes of them,           *)
(* WholeAt(R, n) have arrived whole.  R is all the replies to the messages *)
(* hs when each byte is of the reply that comes next.                      *)
(***************************************************************************)

WholeAt(R, n) == IF n = 0 THEN 0
                 ELSE IF EndsReply(R[n]) THEN R[n].msg ELSE R[n].msg - 1

Rows(R, hs) ==
  /\ \A n \in 1 .. Len(R) : /\ R[n].msg \in 1 .. Len(hs)
                            /\ R[n].id = ReplyTo(hs[R[n].msg])
                            /\ R[n].msg = WholeAt(R, n - 1) + 1
  /\ WholeAt(R, Len(R)) = Len(hs)

(* One reply more. *)
LEMMA RowsGrow ==
  ASSUME RepliesFit, NEW S, NEW hs \in Seq(S), NEW R \in Seq(Byte), Rows(R, hs),
         NEW e \in S, e.id \in Requests
  PROVE  Rows(R \o Copied(Len(hs) + 1, e.id), Append(hs, e))
<1>1. PICK l \in Nat, a \in Nat, id \in Requests : l = Len(hs) /\ a = Len(R) /\ id = e.id
  BY LenProperties
<1>2. PICK m \in Nat : m = l + 1
  OBVIOUS
<1>3. id \in Ids /\ ReplyId(id) \in Nat /\ ReplyId(id) = id + 1 /\ id \in Nat
  BY RequestsAnswered, Numbers
<1>4. PICK n \in Nat : n = ReplyLen[id] /\ n >= 1 /\ CopiedLen(n) = n
  <2>1. ReplyLen[id] \in Nat /\ ReplyLen[id] >= Header
    BY <1>3, SessionAssumption
  <2>2. CopiedLen(ReplyLen[id]) = ReplyLen[id]
    BY <1>3 DEF RepliesFit, Fits
  <2> QED
    BY <2>1, <2>2, Numbers
<1>5. PICK r \in Nat : r = ReplyId(id) /\ r - 1 = id
  BY <1>3
<1>6. PICK q \in Seq(Byte) :
        /\ q = Copied(m, id) /\ Len(q) = n
        /\ \A k \in 1 .. n : q[k].msg = m /\ q[k].id = r /\ (EndsReply(q[k]) <=> k = n)
  <2> DEFINE b == [k \in 1 .. n |-> [msg |-> m, id |-> r, byte |-> k]]
  <2>1. b \in [1 .. n -> Byte]
    BY DEF Byte
  <2>2. Copied(m, id) = b
    BY <1>4, <1>5 DEF Copied, Memory
  <2>3. \A k \in 1 .. n : b[k].msg = m /\ b[k].id = r /\ (EndsReply(b[k]) <=> k = n)
    BY <1>4, <1>5 DEF EndsReply
  <2> HIDE DEF b
  <2>4. b \in Seq(Byte) /\ Len(b) = n
    BY <2>1, Listed
  <2> QED
    BY <2>2, <2>3, <2>4
<1>7. PICK Q \in Seq(Byte) :
        /\ Q = R \o q /\ Len(Q) = a + n
        /\ \A k \in 1 .. a + n : Q[k] = IF k <= a THEN R[k] ELSE q[k - a]
  <2>1. /\ R \o q \in Seq(Byte) /\ Len(R \o q) = Len(R) + Len(q)
        /\ \A k \in 1 .. Len(R) + Len(q) : (R \o q)[k] = IF k <= Len(R) THEN R[k] ELSE q[k - Len(R)]
    BY ConcatProperties
  <2> QED
    BY <1>1, <1>6, <2>1
<1>8. PICK t : t = Append(hs, e) /\ Len(t) = m /\ t[m] = e /\ \A i \in 1 .. l : t[i] = hs[i]
  <2>1. /\ Len(Append(hs, e)) = Len(hs) + 1 /\ Append(hs, e)[Len(hs) + 1] = e
        /\ \A i \in 1 .. Len(hs) : Append(hs, e)[i] = hs[i]
    BY AppendProperties
  <2> QED
    BY <1>1, <1>2, <2>1
<1>9. \A k \in 0 .. a : WholeAt(Q, k) = WholeAt(R, k)
  <2>1. ASSUME NEW k \in 0 .. a, k # 0 PROVE Q[k] = R[k]
    BY <1>7, <2>1
  <2> QED
    BY <2>1 DEF WholeAt
<1>10. WholeAt(Q, a) = l
  BY <1>1, <1>9 DEF Rows
<1>11. ASSUME NEW k \in 1 .. n
       PROVE  Q[a + k] = q[k] /\ WholeAt(Q, a + k) = IF k = n THEN m ELSE l
  <2>1. a + k \in 1 .. a + n /\ ~ (a + k <= a) /\ (a + k) - a = k /\ a + k # 0
    OBVIOUS
  <2>2. Q[a + k] = q[k]
    BY <1>7, <2>1
  <2>3. q[k].msg = m /\ (EndsReply(q[k]) <=> k = n)
    BY <1>6
  <2>4. m - 1 = l
    BY <1>2
  <2> QED
    BY <2>1, <2>2, <2>3, <2>4 DEF WholeAt
<1>12. ASSUME NEW k \in 1 .. a + n
       PROVE  Q[k].msg \in 1 .. m /\ Q[k].id = ReplyTo(t[Q[k].msg]) /\ Q[k].msg = WholeAt(Q, k - 1) + 1
  <2>1. CASE k <= a
    <3>1. k \in 1 .. Len(R) /\ k - 1 \in 0 .. a /\ Q[k] = R[k]
      BY <1>1, <1>7, <2>1
    <3>2. R[k].msg \in 1 .. l /\ R[k].id = ReplyTo(hs[R[k].msg]) /\ R[k].msg = WholeAt(R, k - 1) + 1
      BY <1>1, <3>1 DEF Rows
    <3>3. WholeAt(Q, k - 1) = WholeAt(R, k - 1)
      BY <1>9, <3>1
    <3>4. t[R[k].msg] = hs[R[k].msg]
      BY <1>8, <3>2
    <3>5. R[k].msg \in 1 .. m
      BY <1>2, <3>2
    <3> QED
      BY <3>1, <3>2, <3>3, <3>4, <3>5
  <2>2. CASE ~ (k <= a)
    <3>1. PICK j \in 1 .. n : k = a + j
      <4>1. k - a \in 1 .. n /\ k = a + (k - a)
        BY <2>2
      <4> QED
        BY <4>1
    <3>2. Q[k] = q[j] /\ q[j].msg = m /\ q[j].id = r
      BY <1>6, <1>11, <3>1
    <3>3. WholeAt(Q, k - 1) = l
      <4>1. CASE j = 1
        BY <1>10, <3>1, <4>1
      <4>2. CASE j # 1
        <5>1. PICK i \in 1 .. n : i = j - 1 /\ i # n /\ k - 1 = a + i
          BY <3>1, <4>2
        <5> QED
          BY <1>11, <5>1
      <4> QED
        BY <4>1, <4>2
    <3>4. ReplyTo(t[m]) = r
      BY <1>1, <1>5, <1>8 DEF ReplyTo
    <3>5. m \in 1 .. m /\ m = l + 1
      BY <1>2
    <3> QED
      BY <3>2, <3>3, <3>4, <3>5
  <2> QED
    BY <2>1, <2>2
<1>13. WholeAt(Q, a + n) = m
  <2>1. n \in 1 .. n
    BY <1>4
  <2> QED
    BY <1>11, <2>1
<1>14. Rows(Q, t)
  BY <1>7, <1>8, <1>12, <1>13 DEF Rows
<1> QED
  BY <1>1, <1>2, <1>6, <1>7, <1>8, <1>14

(* The recursion of AnsweredBy. *)
Counting(f, r, n) ==
  f = [i \in 0 .. n |-> IF i = 0 THEN <<>>
                        ELSE IF EndsReply(r[i]) THEN Append(f[i - 1], r[i].id)
                        ELSE f[i - 1]]

LEMMA CountingExists ==
  ASSUME NEW r, NEW k \in Nat
  PROVE  \E f : Counting(f, r, k)
<1> DEFINE T == {n \in Nat : \A f : ~ Counting(f, r, n)}
<1>1. ASSUME T # {}
      PROVE  FALSE
  <2>1. PICK n \in T : \A m \in T : n <= m
    BY <1>1, Least
  <2>2. n # 0
    <3> DEFINE f0 == [i \in 0 .. 0 |-> <<>>]
    <3>1. f0 = [i \in 0 .. 0 |-> IF i = 0 THEN <<>>
                        ELSE IF EndsReply(r[i]) THEN Append(f0[i - 1], r[i].id)
                        ELSE f0[i - 1]]
      <4>1. \A i \in 0 .. 0 : i = 0
        OBVIOUS
      <4> QED
        BY <4>1
    <3>2. Counting(f0, r, 0)
      BY <3>1 DEF Counting
    <3> QED
      BY <2>1, <3>2
  <2>3. n \in Nat /\ n - 1 \in Nat /\ n - 1 \notin T
    BY <2>1, <2>2
  <2>4. PICK g : Counting(g, r, n - 1)
    BY <2>3
  <2> DEFINE f == [i \in 0 .. n |-> IF i = 0 THEN <<>>
                        ELSE IF EndsReply(r[i]) THEN Append(g[i - 1], r[i].id)
                        ELSE g[i - 1]]
  <2>5. ASSUME NEW i \in 0 .. n, i # 0
        PROVE  f[i - 1] = g[i - 1]
    <3>1. i - 1 \in 0 .. n /\ i - 1 \in 0 .. n - 1
      BY <2>3, <2>5
    <3>2. g[i - 1] = IF i - 1 = 0 THEN <<>>
                     ELSE IF EndsReply(r[i - 1]) THEN Append(g[i - 1 - 1], r[i - 1].id)
                     ELSE g[i - 1 - 1]
      BY <2>4, <3>1 DEF Counting
    <3> QED
      BY <3>1, <3>2
  <2>6. Counting(f, r, n)
    BY <2>5 DEF Counting
  <2> QED
    BY <2>1, <2>6
<1> QED
  BY <1>1

(* The answers among the first bytes of the replies are those to the first *)
(* messages. *)
Firsts(hs, k) == [i \in 1 .. k |-> ReplyTo(hs[i])]

LEMMA FirstsNext ==
  ASSUME NEW hs, NEW m \in Nat \ {0}
  PROVE  /\ Append(Firsts(hs, m - 1), ReplyTo(hs[m])) = Firsts(hs, m)
         /\ Len(Firsts(hs, m - 1)) = m - 1
<1> DEFINE A == {ReplyTo(hs[i]) : i \in 1 .. m}
<1>1. PICK i \in Nat : i = m - 1
  OBVIOUS
<1>2. Firsts(hs, i) \in [1 .. i -> A] /\ \A x \in 1 .. i : Firsts(hs, i)[x] = ReplyTo(hs[x])
  BY <1>1 DEF Firsts
<1>3. PICK s \in Seq(A) : s = Firsts(hs, i) /\ Len(s) = i
  BY <1>2, Listed
<1>4. PICK v \in A : v = ReplyTo(hs[m])
  OBVIOUS
<1>5. PICK t \in Seq(A) : t = Append(s, v) /\ Len(t) = m /\ t[m] = v
        /\ \A x \in 1 .. i : t[x] = s[x]
  <2>1. i + 1 = m
    BY <1>1
  <2> HIDE DEF A
  <2>2. Append(s, v) \in Seq(A) /\ Len(Append(s, v)) = Len(s) + 1 /\ Append(s, v)[Len(s) + 1] = v
        /\ \A x \in 1 .. Len(s) : Append(s, v)[x] = s[x]
    BY AppendProperties
  <2> QED
    BY <1>3, <2>1, <2>2
<1>6. t \in [1 .. m -> A]
  BY <1>5, LenProperties
<1>7. \A x \in 1 .. m : t[x] = ReplyTo(hs[x])
  <2>1. ASSUME NEW x \in 1 .. m, x # m PROVE t[x] = ReplyTo(hs[x])
    <3>1. x \in 1 .. i
      BY <1>1, <2>1
    <3> QED
      BY <1>2, <1>3, <1>5, <3>1
  <2> QED
    BY <1>4, <1>5, <2>1
<1>8. t = Firsts(hs, m)
  BY <1>6, <1>7 DEF Firsts
<1> QED
  BY <1>1, <1>3, <1>4, <1>5, <1>8

LEMMA AnsweredIs ==
  ASSUME NEW S, NEW hs \in Seq(S), NEW R \in Seq(Byte), Rows(R, hs),
         NEW r \in Seq(Byte), Len(r) <= Len(R), \A k \in 1 .. Len(r) : r[k] = R[k]
  PROVE  AnsweredBy(r) = Firsts(hs, WholeAt(R, Len(r)))
<1>1. PICK l \in Nat, a \in Nat : l = Len(hs) /\ a = Len(r)
  BY LenProperties
<1>2. PICK f : Counting(f, r, a) /\ AnsweredBy(r) = f[a]
  <2> DEFINE upto == CHOOSE f : f = [n \in 0 .. Len(r) |->
                       IF n = 0 THEN <<>>
                       ELSE IF EndsReply(r[n]) THEN Append(f[n - 1], r[n].id)
                       ELSE f[n - 1]]
  <2>1. AnsweredBy(r) = upto[Len(r)]
    BY DEF AnsweredBy
  <2>2. Counting(upto, r, Len(r))
    <3>1. \E f : f = [n \in 0 .. Len(r) |->
                       IF n = 0 THEN <<>>
                       ELSE IF EndsReply(r[n]) THEN Append(f[n - 1], r[n].id)
                       ELSE f[n - 1]]
      <4>1. Len(r) \in Nat
        BY <1>1
      <4>2. \E f : Counting(f, r, Len(r))
        BY <4>1, CountingExists
      <4> QED
        BY <4>2, Zenon DEF Counting
    <3>2. upto = [n \in 0 .. Len(r) |->
                       IF n = 0 THEN <<>>
                       ELSE IF EndsReply(r[n]) THEN Append(upto[n - 1], r[n].id)
                       ELSE upto[n - 1]]
      BY <3>1, Zenon
    <3> QED
      BY <3>2, Zenon DEF Counting
  <2> QED
    BY <1>1, <2>1, <2>2
<1> DEFINE T == {n \in 0 .. a : f[n] # Firsts(hs, WholeAt(R, n))}
<1>3. ASSUME T # {}
      PROVE  FALSE
  <2>1. T \subseteq Nat
    OBVIOUS
  <2>2. PICK n \in T : \A m \in T : n <= m
    BY <1>3, <2>1, Least
  <2>3. n \in 0 .. a /\ f[n] # Firsts(hs, WholeAt(R, n))
    BY <2>2
  <2>4. f[n] = IF n = 0 THEN <<>>
               ELSE IF EndsReply(r[n]) THEN Append(f[n - 1], r[n].id)
               ELSE f[n - 1]
    BY <1>2, <2>3 DEF Counting
  <2>5. n # 0
    <3>1. Firsts(hs, 0) = <<>>
      BY DEF Firsts
    <3> QED
      BY <2>3, <2>4, <3>1 DEF WholeAt
  <2>6. PICK j \in 0 .. a : j = n - 1
    BY <2>3, <2>5
  <2>7. f[j] = Firsts(hs, WholeAt(R, j))
    <3>1. j \notin T
      BY <2>2, <2>3, <2>6
    <3> QED
      BY <2>6, <3>1
  <2>8. r[n] = R[n] /\ n \in 1 .. Len(R)
    BY <1>1, <2>3, <2>5
  <2>9. PICK m \in 1 .. l : m = R[n].msg /\ R[n].id = ReplyTo(hs[m]) /\ m = WholeAt(R, j) + 1
    BY <1>1, <2>6, <2>8 DEF Rows
  <2>10. WholeAt(R, j) = m - 1
    <3>1. j = 0 \/ j \in 1 .. Len(R)
      BY <2>6, <2>8
    <3>2. WholeAt(R, j) \in Int
      <4>1. CASE j = 0
        BY <4>1 DEF WholeAt
      <4>2. CASE j \in 1 .. Len(R)
        <5>1. R[j].msg \in 1 .. l
          BY <1>1, <4>2 DEF Rows
        <5> QED
          BY <5>1 DEF WholeAt
      <4> QED
        BY <3>1, <4>1, <4>2
    <3> QED
      BY <2>9, <3>2
  <2>11. CASE EndsReply(R[n])
    <3>1. WholeAt(R, n) = m
      BY <2>5, <2>9, <2>11 DEF WholeAt
    <3>2. Append(Firsts(hs, m - 1), ReplyTo(hs[m])) = Firsts(hs, m)
      <4>1. m \in Nat \ {0}
        BY <2>9
      <4> QED
        BY <4>1, FirstsNext
    <3> QED
      BY <2>3, <2>4, <2>5, <2>6, <2>7, <2>8, <2>9, <2>11, <2>10, <3>1, <3>2
  <2>12. CASE ~ EndsReply(R[n])
    <3>1. WholeAt(R, n) = m - 1
      BY <2>5, <2>9, <2>11 DEF WholeAt
    <3> QED
      BY <2>3, <2>4, <2>5, <2>6, <2>7, <2>8, <2>12, <2>10, <3>1
  <2> QED
    BY <2>11, <2>12
<1>4. f[a] = Firsts(hs, WholeAt(R, a))
  BY <1>1, <1>3
<1> QED
  BY <1>1, <1>2, <1>4

(* The bytes in packets ps are of one reply. *)
OfReply(ps, m) ==
  \A i \in 1 .. Len(ps) : \A k \in 1 .. Len(ps[i].unread) : ps[i].unread[k].msg = m

Kept == \A j \in 1 .. Len(sendBuffer_) : \E m \in Nat : OfReply(sendBuffer_[j].packets_, m)

Answering ==
  /\ Rows(Written, handled)
  /\ end = "none" => Kept

LEMMA InitAnswering ==
  ASSUME Init
  PROVE  Answering
<1>1. handled = <<>> /\ sendBuffer_ = <<>>
  BY DEF Init
<1>2. [i \in DOMAIN handled |-> Copied(i, handled[i].id)] = <<>>
  BY <1>1
<1>3. Written = <<>>
  BY <1>2 DEF Written, FlattenSeq
<1>4. PICK e : e = <<>> /\ Len(e) = 0
  <2>1. Len(<<>>) = 0
    OBVIOUS
  <2> QED
    BY <2>1
<1>5. Rows(e, e)
  BY <1>4 DEF Rows, WholeAt
<1>6. Kept
  BY <1>1, <1>4 DEF Kept
<1> QED
  BY <1>1, <1>3, <1>4, <1>5, <1>6 DEF Answering

LEMMA AnsweringStill ==
  ASSUME Answering, UNCHANGED handled,
         end' = "none" => end = "none" /\ UNCHANGED sendBuffer_
  PROVE  Answering'
<1>1. Written' = Written
  BY DEF Written, Copied, Memory
<1>2. PICK R, hs : R = Written /\ hs = handled /\ Rows(R, hs)
  BY DEF Answering
<1>3. end' = "none" => Kept'
  BY DEF Answering, Kept
<1> QED
  BY <1>1, <1>2, <1>3 DEF Answering

LEMMA AnsweringHandle ==
  ASSUME RepliesFit, Held, Held', Replied, Answering, ProcFrame, NEW h, h \in HeaderRead, ProcHandle(h), end' = "none"
  PROVE  Answering'
<1> DEFINE S == [id : Requests, body : Seq(Nat)]
<1>1. /\ h.id \in Requests /\ Len(handled) \in Nat /\ UNCHANGED end
      /\ handled' = Append(handled, [id |-> h.id, body |-> SubSeq(h.packet.unread, 1, h.len)])
  BY HandleParts
<1>2. PICK hs \in Seq(S), l \in Nat : hs = handled /\ l = Len(hs)
  BY <1>1 DEF Held, HeaderHeld
<1>3. PICK id \in Requests, i \in Nat : id = h.id /\ i = l + 1
  BY <1>1
<1>4. PICK e : e = [id |-> id, body |-> SubSeq(h.packet.unread, 1, h.len)] /\ e.id = id
  <2>1. PICK e : e = [id |-> id, body |-> SubSeq(h.packet.unread, 1, h.len)]
    OBVIOUS
  <2> QED
    BY <2>1
<1>5. handled' = Append(hs, e)
  BY <1>1, <1>2, <1>3, <1>4
<1>6. PICK bytes \in Seq(Byte) : bytes = Copied(i, id) /\ Len(bytes) >= 1 /\ Fits(Len(bytes))
  BY ReplyBytes
<1>7. Rows(Written', handled')
  <2>1. handled' \in Seq(S)
    BY DEF Held, HeaderHeld
  <2>2. PICK R \in Seq(Byte) : R = Written /\ Rows(R, hs)
    BY <1>2 DEF Replied, Answering
  <2>3. Written' = R \o Copied(Len(hs) + 1, e.id)
    <3>1. Written \in Seq(Byte) /\ e.id \in Requests /\ handled' = Append(handled, e)
      BY <1>2, <1>4, <1>5 DEF Replied
    <3>2. Written' = Written \o Copied(Len(handled) + 1, e.id)
      BY <2>1, <3>1, RepliesGrow
    <3> QED
      BY <1>2, <2>2, <3>2
  <2>4. PICK T : T = S \cup {e}
    OBVIOUS
  <2>5. hs \in Seq(T)
    <3>1. S \subseteq T
      BY <2>4
    <3> HIDE DEF S
    <3> QED
      BY <3>1, SeqMonotonic
  <2>6. e \in T /\ e.id \in Requests
    BY <1>4, <2>4
  <2>7. Rows(R \o Copied(Len(hs) + 1, e.id), Append(hs, e))
    BY <2>2, <2>5, <2>6, RowsGrow
  <2> QED
    BY <1>5, <2>3, <2>7
<1>8. PICK m \in Idle, q \in Seq(Packet(Byte)) :
        /\ sendBuffer_' = Append(sendBuffer_, [packets_ |-> m.packets_ \o q, pCurrPacket_ |-> <<>>])
        /\ Len(q) = Len(Pieces(bytes)) /\ Len(q) >= 1
        /\ \A j \in 1 .. Len(q) : q[j].unread = Pieces(bytes)[j]
  <2>1. PICK m \in Idle, q \in Seq(Packet(Byte)) :
          /\ sendBuffer_' = Append(sendBuffer_, [packets_ |-> m.packets_ \o q, pCurrPacket_ |-> <<>>])
          /\ Len(q) = Len(Pieces(Copied(Len(handled) + 1, h.id))) /\ Len(q) >= 1
          /\ \A j \in 1 .. Len(q) : q[j].unread = Pieces(Copied(Len(handled) + 1, h.id))[j]
          /\ ~ reused' => m.packets_ = <<>>
          /\ (reused => reused') /\ reused' \in BOOLEAN
          /\ tasks' = tasks + 1
          /\ packetPool' \in Seq(Packets({})) /\ messagePool' \in Seq(Idle)
    BY HandleQueues, Zenon
  <2>2. bytes = Copied(Len(handled) + 1, h.id)
    BY <1>2, <1>3, <1>6
  <2> QED
    BY <2>1, <2>2, Zenon
<1>9. PICK k, c, pieces :
        /\ k \in Nat /\ c \in Nat /\ pieces = Pieces(bytes) /\ CutInto(pieces, bytes, k, c, Byte)
        /\ Len(bytes) = c * k /\ Len(pieces) = c
  <2>1. PICK k \in Nat \ {0}, c \in Nat \ {0} : CutInto(Pieces(bytes), bytes, k, c, Byte)
    BY <1>6, Cut
  <2>2. k \in Nat /\ c \in Nat
    BY <2>1, Numbers
  <2> QED
    BY <2>1, <2>2 DEF CutInto
<1>10. \A j \in 1 .. c : /\ Len(pieces[j]) = k
                         /\ \A x \in 1 .. k : pieces[j][x].msg = i
  <2>1. \A x \in 1 .. Len(bytes) : bytes[x].msg = i
    <3>1. PICK n : n = CopiedLen(ReplyLen[id])
      OBVIOUS
    <3>2. DOMAIN bytes = 1 .. n /\ \A x \in 1 .. n : bytes[x].msg = i
      BY <1>6, <3>1 DEF Copied, Memory
    <3>3. DOMAIN bytes = 1 .. Len(bytes)
      BY LenProperties
    <3> QED
      BY <3>2, <3>3
  <2>2. ASSUME NEW j \in 1 .. c, NEW x \in 1 .. k
        PROVE  (j - 1) * k + x \in 1 .. Len(bytes)
    <3>1. (j - 1) * k \in Nat /\ (j - 1) * k + k = j * k /\ j * k <= c * k
      <4>1. PICK u \in Nat, v \in Nat : u = j - 1 /\ c = j + v
        <5>1. j - 1 \in Nat /\ c - j \in Nat /\ c = j + (c - j)
          BY <1>9
        <5> QED
          BY <5>1
      <4>2. (j + v) * k = j * k + v * k /\ v * k \in Nat /\ u * k \in Nat /\ (u + 1) * k = u * k + k
        BY <1>9
      <4>3. u + 1 = j /\ j * k \in Nat
        BY <1>9, <4>1
      <4> QED
        BY <1>9, <4>1, <4>2, <4>3
    <3>2. PICK y \in Nat : y = (j - 1) * k
      BY <3>1
    <3>3. y + k <= Len(bytes) /\ Len(bytes) \in Nat
      BY <1>9, <3>1, <3>2, LenProperties
    <3>4. y + x \in 1 .. Len(bytes)
      BY <1>9, <3>3
    <3> QED
      BY <3>2, <3>4
  <2> QED
    BY <1>9, <2>1, <2>2, Zenon DEF CutInto
<1>11. PICK ps \in Seq(Packet(Byte)), o \in Nat :
         /\ ps = m.packets_ \o q
         /\ Len(ps) = o + Len(q)
         /\ \A j \in 1 .. o : ps[j] \in Packet({})
         /\ \A j \in 1 .. Len(q) : ps[o + j] = q[j]
  <2>1. /\ m.packets_ \o q \in Seq(Packet(Byte))
        /\ [packets_ |-> m.packets_ \o q, pCurrPacket_ |-> <<>>] \in Queued
        /\ Len(m.packets_) \in Nat /\ Len(m.packets_ \o q) = Len(m.packets_) + Len(q)
        /\ \A j \in 1 .. Len(m.packets_) :
             (m.packets_ \o q)[j] \in Packet({}) /\ (m.packets_ \o q)[j] = m.packets_[j]
        /\ \A j \in 1 .. Len(q) : (m.packets_ \o q)[Len(m.packets_) + j] = q[j]
    BY <1>8, QueuedWith
  <2> QED
    BY <2>1, Zenon
<1>12. OfReply(ps, i)
  <2>1. ASSUME NEW j \in 1 .. Len(ps), NEW x \in 1 .. Len(ps[j].unread)
        PROVE  ps[j].unread[x].msg = i
    <3>1. Len(q) = c
      BY <1>8, <1>9
    <3>2. CASE j <= o
      <4>1. j \in 1 .. o
        BY <3>2
      <4>2. ps[j].unread = <<>>
        BY <1>11, <4>1, Emptied
      <4>3. Len(ps[j].unread) = 0
        BY <4>2
      <4> QED
        BY <2>1, <4>3
    <3>3. CASE ~ (j <= o)
      <4>1. PICK y \in 1 .. c : j = o + y
        <5>1. j - o \in 1 .. c /\ j = o + (j - o)
          BY <1>9, <1>11, <3>1, <3>3
        <5> QED
          BY <5>1
      <4>2. ps[j].unread = pieces[y]
        BY <1>8, <1>9, <1>11, <3>1, <4>1
      <4> QED
        BY <1>10, <2>1, <4>2
    <3> QED
      BY <3>2, <3>3
  <2> QED
    BY <2>1 DEF OfReply
<1>13. PICK s \in Seq(Queued), w \in Nat : s = sendBuffer_ /\ w = Len(s)
  BY LenProperties DEF Held, SendHeld
<1>14. PICK t : t = Append(s, [packets_ |-> ps, pCurrPacket_ |-> <<>>])
  OBVIOUS
<1>15. Len(t) = w + 1 /\ t[w + 1].packets_ = ps /\ \A j \in 1 .. w : t[j] = s[j]
  <2>1. PICK f : f = [packets_ |-> ps, pCurrPacket_ |-> <<>>] /\ f.packets_ = ps
    <3>1. PICK f : f = [packets_ |-> ps, pCurrPacket_ |-> <<>>]
      OBVIOUS
    <3> QED
      BY <3>1
  <2>2. PICK T : T = Queued \cup {f} /\ s \in Seq(T) /\ f \in T
    <3>1. Queued \subseteq Queued \cup {f} /\ f \in Queued \cup {f}
      OBVIOUS
    <3>2. s \in Seq(Queued \cup {f})
      BY <3>1, SeqMonotonic
    <3> QED
      BY <3>1, <3>2
  <2>3. Len(Append(s, f)) = Len(s) + 1 /\ Append(s, f)[Len(s) + 1] = f
        /\ \A j \in 1 .. Len(s) : Append(s, f)[j] = s[j]
    BY <2>2, AppendProperties
  <2> QED
    BY <1>13, <1>14, <2>1, <2>3
<1>16. sendBuffer_' = t
  BY <1>8, <1>11, <1>13, <1>14
<1>17. Kept'
  <2>1. \A j \in 1 .. w : \E x \in Nat : OfReply(s[j].packets_, x)
    BY <1>13 DEF Answering, Kept, ProcFrame
  <2>2. ASSUME NEW j \in 1 .. w + 1 PROVE \E x \in Nat : OfReply(t[j].packets_, x)
    <3>1. CASE j = w + 1
      BY <1>12, <1>15, <3>1
    <3>2. CASE j # w + 1
      <4>1. j \in 1 .. w
        BY <3>2
      <4> QED
        BY <1>15, <2>1, <4>1
    <3> QED
      BY <3>1, <3>2
  <2> QED
    BY <1>15, <1>16, <2>2 DEF Kept
<1> QED
  BY <1>7, <1>17 DEF Answering

(* One call of send: it takes bytes of one reply, which come next. *)
LEMMA AnsweringSent ==
  ASSUME Held, Replied, Answering, SendPart
  PROVE  Answering'
<1>1. end = "none" /\ UNCHANGED handled /\ end' = "none" /\ sending # -1
  BY DEF SendPart, procVars, Held, SendHeld
<1>2. Rows(Written', handled')
  <2>1. Written' = Written
    BY <1>1 DEF Written, Copied, Memory
  <2> QED
    BY <1>1, <2>1 DEF Answering
<1>3. PICK m \in Queued, k \in Nat, p \in Packet(Byte), n \in Nat, u \in Seq(Packet(Byte)) :
        n \in 1 .. readableSize(p) /\ SendsPart(m, k, p, n, u)
  BY SendPartParts
<1>4. PICK s \in Seq(Queued), l \in Nat : s = sendBuffer_ /\ s # <<>> /\ l = Len(s) /\ l >= 1
  <2>1. sendBuffer_ \in Seq(Queued) /\ sendBuffer_ # <<>>
    BY <1>1, FrontHeld
  <2> QED
    BY <2>1, EmptySeq, LenProperties
<1>5. \A j \in 1 .. l : \E x \in Nat : OfReply(s[j].packets_, x)
  BY <1>1, <1>4 DEF Answering, Kept
<1>6. PICK ps \in Seq(Packet(Byte)), b \in Nat : ps = m.packets_ /\ m = s[1] /\ p = ps[k] /\ k \in 1 .. b /\ b = Len(ps) /\ Len(u) = b
  <2>1. m.packets_ \in Seq(Packet(Byte)) /\ Len(m.packets_) \in Nat
    BY PacketCount
  <2> QED
    BY <1>3, <1>4, <2>1 DEF SendsPart
<1>7. PICK x \in Nat : OfReply(ps, x)
  <2>1. 1 \in 1 .. l
    BY <1>4
  <2> QED
    BY <1>5, <1>6, <2>1
<1>8. OfReply(u, x)
  <2>1. ASSUME NEW i \in 1 .. b, NEW y \in 1 .. Len(u[i].unread)
        PROVE  u[i].unread[y].msg = x
    <3>1. CASE i = k
      <4>1. u[i] = Read(p, n)
        BY <1>3, <1>6, <3>1 DEF SendsPart
      <4>2. n \in 0 .. readableSize(p)
        BY <1>3
      <4>3. /\ readableSize(Read(p, n)) = readableSize(p) - n /\ readableSize(p) \in Nat
            /\ \A z \in 1 .. readableSize(p) - n : Read(p, n).unread[z] = p.unread[n + z]
        BY <4>2, ReadFrom
      <4>4. y \in 1 .. readableSize(p) - n
        BY <2>1, <4>1, <4>3 DEF readableSize
      <4>5. n + y \in 1 .. Len(p.unread)
        BY <4>3, <4>4 DEF readableSize
      <4>6. p.unread[n + y].msg = x
        BY <1>6, <1>7, <4>5 DEF OfReply
      <4> QED
        BY <4>1, <4>3, <4>4, <4>6
    <3>2. CASE i # k
      <4>1. u[i] = ps[i] /\ i \in 1 .. Len(ps)
        BY <1>3, <1>6, <3>2 DEF SendsPart
      <4> QED
        BY <1>7, <2>1, <4>1 DEF OfReply
    <3> QED
      BY <3>1, <3>2
  <2> QED
    BY <1>6, <2>1 DEF OfReply
<1>9. PICK w \in Nat : /\ w = Len(sendBuffer_')
                       /\ \A j \in 1 .. w : \E y \in Nat : OfReply(sendBuffer_'[j].packets_, y)
  <2>1. CASE n = readableSize(p) /\ k = Len(u)
    <3>1. PICK t : t = Tail(s)
      OBVIOUS
    <3>2. Len(t) = l - 1 /\ \A j \in 1 .. l - 1 : t[j] = s[j + 1]
      <4>1. Len(t) = Len(s) - 1 /\ \A j \in 1 .. Len(t) : t[j] = s[j + 1]
        BY <1>4, <3>1, HeadTailProperties
      <4>2. Len(t) = l - 1
        BY <1>4, <4>1
      <4> QED
        BY <4>1, <4>2
    <3>3. ASSUME NEW j \in 1 .. l - 1 PROVE \E y \in Nat : OfReply(t[j].packets_, y)
      <4>1. j + 1 \in 1 .. l /\ t[j] = s[j + 1]
        BY <3>2
      <4> QED
        BY <1>5, <4>1
    <3>4. t = sendBuffer_'
      BY <1>3, <1>4, <2>1, <3>1 DEF SendsPart
    <3>5. l - 1 \in Nat
      BY <1>4
    <3> QED
      BY <3>2, <3>3, <3>4, <3>5
  <2>2. CASE ~ (n = readableSize(p) /\ k = Len(u))
    <3>1. PICK f : f = [packets_ |-> u, pCurrPacket_ |-> <<>>]
      OBVIOUS
    <3>2. f.packets_ = u
      BY <3>1
    <3>3. f \in Queued
      <4>1. Len(u) >= 1
        BY <1>6
      <4>2. <<>> \in Seq(Packet(Byte))
        OBVIOUS
      <4>3. f \in Message
        BY <3>1, <4>2 DEF Message
      <4> QED
        BY <3>1, <4>1, <4>3 DEF Queued
    <3>4. PICK t : t = <<f>> \o Tail(s)
      OBVIOUS
    <3>5. Len(t) = l /\ t[1] = f /\ \A j \in 2 .. l : t[j] = s[j]
      BY <1>4, <3>3, <3>4, Refronted
    <3>6. t = sendBuffer_'
      BY <1>3, <1>4, <2>2, <3>1, <3>4 DEF SendsPart
    <3>7. ASSUME NEW j \in 1 .. l PROVE \E y \in Nat : OfReply(t[j].packets_, y)
      <4>1. CASE j = 1
        BY <1>8, <3>2, <3>5, <4>1
      <4>2. CASE j # 1
        <5>1. j \in 2 .. l
          BY <4>2
        <5> QED
          BY <1>5, <3>5, <5>1
      <4> QED
        BY <4>1, <4>2
    <3> QED
      BY <3>5, <3>6, <3>7
  <2> QED
    BY <2>1, <2>2
<1>10. Kept'
  BY <1>9 DEF Kept
<1> QED
  BY <1>2, <1>10 DEF Answering

LEMMA AnsweringOn ==
  ASSUME RepliesFit, Held, Replied, Answering, [Next]_vars
  PROVE  Answering'
<1>1. CASE PeerSend
  BY <1>1, AnsweringStill DEF PeerSend, procVars, sendVars
<1>2. CASE RecvFromFd
  <2>1. UNCHANGED <<handled, sendBuffer_>> /\ (end' = "none" => end = "none")
    BY <1>2 DEF RecvFromFd, sendVars, InLoop
  <2> QED
    BY <2>1, AnsweringStill
<1>3. CASE ProcMsg
  <2>1. PICK h \in HeaderRead :
          ProcMisread(h) \/ ProcAwait(h) \/ ProcHandle(h) \/ ProcPartial(h) \/ ProcNext(h)
    BY <1>3, ProcMsgParts
  <2>2. ProcFrame
    BY <1>3, ProcMsgParts
  <2>3. end = "none"
    BY <2>2 DEF ProcFrame
  <2>4. CASE ProcHandle(h) /\ end' = "none"
    <3>1. Held'
      BY <1>3, ProcMsgHeld
    <3> QED
      BY <2>2, <2>4, <3>1, AnsweringHandle
  <2>5. CASE ProcHandle(h) /\ end' # "none"
    BY <2>3, <2>5, AnsweringStill DEF ProcHandle, procVars
  <2>6. CASE ProcMisread(h)
    BY <2>3, <2>6, AnsweringStill DEF ProcMisread, procVars
  <2>7. CASE ProcAwait(h)
    BY <2>3, <2>7, AnsweringStill DEF ProcAwait, sendVars
  <2>8. CASE ProcPartial(h)
    BY <2>3, <2>8, AnsweringStill DEF ProcPartial, procVars
  <2>9. CASE ProcNext(h)
    BY <2>3, <2>9, AnsweringStill DEF ProcNext, sendVars
  <2> QED
    BY <2>1, <2>4, <2>5, <2>6, <2>7, <2>8, <2>9
<1>4. CASE OnSend
  BY <1>4, AnsweringStill DEF OnSend, InLoop, procVars
<1>5. CASE SendPart
  BY <1>5, AnsweringSent
<1>6. CASE SendNothing
  BY <1>6, AnsweringStill DEF SendNothing, procVars
<1>7. CASE UNCHANGED vars
  BY <1>7, AnsweringStill DEF vars, procVars, sendVars
<1> QED
  BY <1>1, <1>2, <1>3, <1>4, <1>5, <1>6, <1>7 DEF Next, Program, Send, Quiet

(* One call of send completes one reply, the next, or none. *)
LEMMA SentAnswers ==
  ASSUME Held, Replied, Replied', Answering, SendPart
  PROVE  \/ Answered' = Answered
         \/ /\ Len(Answered) < Len(handled)
            /\ Answered' = Append(Answered, ReplyTo(handled[Len(Answered) + 1]))
<1>1. end = "none" /\ UNCHANGED handled /\ sending # -1
  BY DEF SendPart, procVars, Held, SendHeld
<1>2. PICK m \in Queued, k \in Nat, p \in Packet(Byte), n \in Nat, u \in Seq(Packet(Byte)) :
        n \in 1 .. readableSize(p) /\ SendsPart(m, k, p, n, u)
  BY SendPartParts
<1>3. PICK x \in Nat : \A i \in 1 .. readableSize(p) : p.unread[i].msg = x
  <2>1. sendBuffer_ \in Seq(Queued) /\ sendBuffer_ # <<>> /\ Len(sendBuffer_) \in Nat \ {0}
    BY <1>1, FrontHeld, EmptySeq
  <2>2. PICK x \in Nat : OfReply(sendBuffer_[1].packets_, x)
    <3>1. 1 \in 1 .. Len(sendBuffer_)
      BY <2>1
    <3> QED
      BY <1>1, <3>1 DEF Answering, Kept
  <2>3. p = sendBuffer_[1].packets_[k] /\ k \in 1 .. Len(sendBuffer_[1].packets_)
    BY <1>2 DEF SendsPart
  <2> QED
    BY <2>2, <2>3 DEF OfReply, readableSize
<1> DEFINE S == [id : Requests, body : Seq(Nat)]
<1>4. PICK hs \in Seq(S), R \in Seq(Byte), r \in Seq(Byte), a \in Nat, b \in Nat :
        /\ hs = handled /\ R = Written /\ r = received /\ a = Len(r) /\ b = Len(R)
        /\ Rows(R, hs) /\ a <= b /\ \A j \in 1 .. a : r[j] = R[j]
  <2>1. handled \in Seq(S) /\ received \in Seq(Byte) /\ Written \in Seq(Byte)
    BY DEF Held, StreamHeld, HeaderHeld, Replied
  <2>2. Rows(Written, handled)
    BY DEF Answering
  <2> HIDE DEF S
  <2> QED
    BY <2>1, <2>2, LenProperties DEF Replied
<1> HIDE DEF S
<1>5. PICK t \in Seq(Byte) : t = SubSeq(p.unread, 1, n) /\ Len(t) = n /\ \A i \in 1 .. n : t[i].msg = x
  <2>1. PICK q \in Seq(Byte), c \in Nat : q = p.unread /\ c = Len(q) /\ n \in 1 .. c
    <3>1. p.unread \in Seq(Byte)
      BY DEF Packet
    <3> QED
      BY <1>2, <3>1, LenProperties DEF readableSize
  <2>2. q \in [1 .. c -> Byte]
    BY <2>1, LenProperties
  <2>3. 1 \in Int /\ n \in Int /\ \A i \in 1 .. n : q[i] \in Byte
    BY <2>1, <2>2
  <2>4. /\ SubSeq(q, 1, n) \in Seq(Byte)
        /\ Len(SubSeq(q, 1, n)) = IF 1 <= n THEN n - 1 + 1 ELSE 0
        /\ \A i \in 1 .. n - 1 + 1 : SubSeq(q, 1, n)[i] = q[1 + i - 1]
    BY <2>3, SubSeqProperties
  <2>5. PICK t \in Seq(Byte) : t = SubSeq(q, 1, n)
    BY <2>4
  <2>6. Len(t) = n /\ \A i \in 1 .. n : t[i] = q[i]
    BY <2>1, <2>4, <2>5
  <2>7. \A i \in 1 .. n : q[i].msg = x
    BY <1>3, <2>1 DEF readableSize
  <2> QED
    BY <2>1, <2>5, <2>6, <2>7
<1>6. PICK d \in Nat : d = a + n /\ d # 0
  BY <1>2
<1>7. PICK r2 \in Seq(Byte) :
        /\ r2 = received' /\ Len(r2) = d /\ \A i \in 1 .. n : r2[a + i].msg = x
  <2>1. received' = r \o t
    BY <1>2, <1>4, <1>5 DEF SendsPart
  <2>2. /\ r \o t \in Seq(Byte) /\ Len(r \o t) = Len(r) + Len(t)
        /\ \A j \in 1 .. Len(r) + Len(t) : (r \o t)[j] = IF j <= Len(r) THEN r[j] ELSE t[j - Len(r)]
    BY ConcatProperties
  <2>3. PICK r2 \in Seq(Byte) : r2 = r \o t
    BY <2>2
  <2>4. Len(r2) = d /\ \A j \in 1 .. d : r2[j] = IF j <= a THEN r[j] ELSE t[j - a]
    BY <1>4, <1>5, <1>6, <2>2, <2>3
  <2>5. \A i \in 1 .. n : a + i \in 1 .. d /\ ~ (a + i <= a) /\ (a + i) - a = i
    BY <1>6
  <2>6. \A i \in 1 .. n : r2[a + i] = t[i]
    BY <2>4, <2>5
  <2> QED
    BY <1>5, <2>1, <2>3, <2>4, <2>6
<1>8. d <= b /\ \A j \in 1 .. d : r2[j] = R[j]
  <2>1. Written' = R
    BY <1>1, <1>4 DEF Written, Copied, Memory
  <2> QED
    BY <1>4, <1>7, <2>1 DEF Replied
<1>9. \A i \in 1 .. n : R[a + i].msg = x
  <2>1. \A i \in 1 .. n : a + i \in 1 .. d
    BY <1>6
  <2> QED
    BY <1>7, <1>8, <2>1
<1>10. PICK l \in Nat : l = Len(hs)
  BY LenProperties
<1>11. x \in 1 .. l /\ x = WholeAt(R, a) + 1
  <2>1. 1 \in 1 .. n /\ a + 1 \in 1 .. b /\ (a + 1) - 1 = a
    BY <1>2, <1>6, <1>8
  <2>2. R[a + 1].msg = x
    BY <1>9, <2>1
  <2> QED
    BY <1>4, <1>10, <2>1, <2>2 DEF Rows
<1>12. WholeAt(R, a) = x - 1
  <2>1. WholeAt(R, a) \in Int
    <3>1. CASE a = 0
      BY <3>1 DEF WholeAt
    <3>2. CASE a # 0
      <4>1. a \in 1 .. Len(R)
        BY <1>4, <3>2
      <4>2. R[a].msg \in 1 .. l
        BY <1>4, <1>10, <4>1 DEF Rows
      <4> QED
        BY <3>2, <4>2 DEF WholeAt
    <3> QED
      BY <3>1, <3>2
  <2> QED
    BY <1>11, <2>1
<1>13. WholeAt(R, d) = x \/ WholeAt(R, d) = x - 1
  <2>1. n \in 1 .. n
    BY <1>2
  <2>2. R[d].msg = x
    BY <1>6, <1>9, <2>1
  <2> QED
    BY <1>6, <2>2 DEF WholeAt
<1>14. Answered = Firsts(hs, x - 1)
  <2>1. Len(r) <= Len(R) /\ \A j \in 1 .. Len(r) : r[j] = R[j]
    BY <1>4
  <2>2. AnsweredBy(r) = Firsts(hs, WholeAt(R, Len(r)))
    BY <1>4, <2>1, AnsweredIs
  <2> QED
    BY <1>4, <1>12, <2>2 DEF Answered
<1>15. Answered' = Firsts(hs, WholeAt(R, d))
  <2>1. Len(r2) <= Len(R) /\ \A j \in 1 .. Len(r2) : r2[j] = R[j]
    BY <1>4, <1>7, <1>8
  <2>2. AnsweredBy(r2) = Firsts(hs, WholeAt(R, Len(r2)))
    BY <1>4, <2>1, AnsweredIs
  <2>3. Answered' = AnsweredBy(r2)
    BY <1>7 DEF Answered, AnsweredBy, EndsReply
  <2> QED
    BY <1>7, <2>2, <2>3
<1>16. /\ Append(Firsts(hs, x - 1), ReplyTo(hs[x])) = Firsts(hs, x)
       /\ Len(Firsts(hs, x - 1)) = x - 1
  <2>1. x \in Nat \ {0}
    BY <1>11
  <2> QED
    BY <2>1, FirstsNext
<1>17. CASE WholeAt(R, d) = x
  <2>1. PICK f : f = Answered /\ f = Firsts(hs, x - 1)
    BY <1>14
  <2>2. Len(f) = x - 1 /\ Len(f) + 1 = x /\ Len(f) < l
    BY <1>11, <1>16, <2>1
  <2>3. Answered' = Append(f, ReplyTo(hs[x]))
    BY <1>15, <1>16, <1>17, <2>1
  <2> QED
    BY <1>4, <1>10, <2>1, <2>2, <2>3
<1>18. CASE WholeAt(R, d) = x - 1
  BY <1>14, <1>15, <1>18
<1> QED
  BY <1>13, <1>17, <1>18

AskedSeq == [i \in DOMAIN stream |-> Sent(i)]

(* What the peer does is to ask. *)
LEMMA PeerAsks ==
  ASSUME Held, PeerSend
  PROVE  Service!Ask /\ reused' \in {reused, TRUE}
<1>1. PICK id \in Ids, len \in Lens :
        stream' = Append(stream, [id |-> id, len |-> len, at |-> StreamLen])
  BY DEF PeerSend
<1>2. UNCHANGED <<received, handled, reused>>
  BY DEF PeerSend, procVars, poolVars
<1>3. PICK l \in Nat, c \in Nat : l = Len(stream) /\ c = StreamLen
  BY EndsHeld, StreamEnds, LenProperties DEF Held, StreamHeld
<1>4. PICK m \in [id : Ids, len : Lens, at : Nat] :
        m = [id |-> id, len |-> len, at |-> c] /\ m.at = c /\ m.len = len /\ m.id = id
  <2>1. PICK m : m = [id |-> id, len |-> len, at |-> c]
    OBVIOUS
  <2> QED
    BY <2>1
<1>5. /\ DOMAIN stream = 1 .. l /\ DOMAIN stream' = 1 .. l + 1
      /\ stream'[l + 1] = m /\ \A i \in 1 .. l : stream'[i] = stream[i]
  <2>1. stream \in Seq([id : Ids, len : Lens, at : Nat])
    BY DEF Held, StreamHeld
  <2>2. PICK t \in Seq([id : Ids, len : Lens, at : Nat]) : t = Append(stream, m)
    BY <2>1, AppendProperties
  <2>3. /\ Len(t) = Len(stream) + 1 /\ t[Len(stream) + 1] = m
        /\ \A i \in 1 .. Len(stream) : t[i] = stream[i]
    BY <2>1, <2>2, AppendProperties
  <2>4. DOMAIN t = 1 .. l + 1 /\ DOMAIN stream = 1 .. l
    BY <1>3, <2>1, <2>2, <2>3, LenProperties
  <2> QED
    BY <1>1, <1>3, <1>4, <2>2, <2>3, <2>4
<1>6. PICK y : y = [id |-> id, body |-> [k \in 1 .. len |-> c + Header + k]]
  OBVIOUS
<1>7. y \in [id : Ids, body : Seq(Nat)]
  <2>1. PICK z \in Nat, v \in Nat : z = c + Header /\ v = len
    <3>1. PICK g \in Nat : g = Header
      BY Numbers
    <3>2. c + g \in Nat /\ len \in Nat
      BY Numbers
    <3> QED
      BY <3>1, <3>2
  <2> DEFINE b == [k \in 1 .. v |-> z + k]
  <2>2. b \in [1 .. v -> Nat]
    OBVIOUS
  <2>3. b \in Seq(Nat)
    BY <2>2, Listed
  <2> HIDE DEF b
  <2>4. [k \in 1 .. len |-> c + Header + k] = b
    BY <2>1 DEF b
  <2> QED
    BY <1>6, <2>3, <2>4
<1>8. Sent(l + 1)' = y /\ \A i \in 1 .. l : Sent(i)' = Sent(i)
  <2>1. Header' = Header
    BY DEF Header, DAN_MSG_ID, DAN_MSG_LEN
  <2> QED
    BY <1>4, <1>5, <1>6, <2>1 DEF Sent
<1>9. PICK T, q, w :
        /\ T = {y} \cup {Sent(i) : i \in 1 .. l}
        /\ q = AskedSeq /\ w = AskedSeq'
        /\ q \in Seq(T) /\ Len(q) = l
        /\ w \in Seq(T) /\ Len(w) = l + 1 /\ w[l + 1] = y
        /\ \A i \in 1 .. l : w[i] = q[i]
  <2>1. PICK T : T = {y} \cup {Sent(i) : i \in 1 .. l}
    OBVIOUS
  <2>2. AskedSeq = [i \in 1 .. l |-> Sent(i)]
    BY <1>5 DEF AskedSeq
  <2>3. AskedSeq \in [1 .. l -> T] /\ \A i \in 1 .. l : AskedSeq[i] = Sent(i)
    BY <2>1, <2>2
  <2>4. AskedSeq' = [i \in 1 .. l + 1 |-> Sent(i)']
    BY <1>5 DEF AskedSeq
  <2>5. \A i \in 1 .. l + 1 : i = l + 1 \/ i \in 1 .. l
    OBVIOUS
  <2>6. \A i \in 1 .. l + 1 : Sent(i)' \in T
    BY <1>8, <2>1, <2>5
  <2>7. PICK w : w = AskedSeq' /\ w \in [1 .. l + 1 -> T] /\ \A i \in 1 .. l + 1 : w[i] = Sent(i)'
    BY <2>4, <2>6
  <2>8. l + 1 \in Nat
    OBVIOUS
  <2>9. AskedSeq \in Seq(T) /\ Len(AskedSeq) = l
    BY <2>3, Listed
  <2>10. w \in Seq(T) /\ Len(w) = l + 1
    BY <2>7, <2>8, Listed
  <2>11. l + 1 \in 1 .. l + 1 /\ \A i \in 1 .. l : i \in 1 .. l + 1
    OBVIOUS
  <2>12. w[l + 1] = y /\ \A i \in 1 .. l : w[i] = AskedSeq[i]
    BY <1>8, <2>3, <2>7, <2>11
  <2>13. PICK q : q = AskedSeq
    OBVIOUS
  <2>14. /\ q \in Seq(T) /\ Len(q) = l
         /\ \A i \in 1 .. l : w[i] = q[i]
    BY <2>9, <2>12, <2>13
  <2>15. w[l + 1] = y
    BY <2>12
  <2> QED
    BY <2>1, <2>7, <2>10, <2>13, <2>14, <2>15
<1>10. w = Append(q, y) /\ Last(w) = y /\ w # <<>>
  <2>1. y \in T
    BY <1>9
  <2>2. PICK x \in Seq(T) : x = Append(q, y) /\ Len(x) = l + 1 /\ x[l + 1] = y
          /\ \A i \in 1 .. l : x[i] = q[i]
    <3>1. /\ Append(q, y) \in Seq(T) /\ Len(Append(q, y)) = Len(q) + 1
          /\ Append(q, y)[Len(q) + 1] = y /\ \A i \in 1 .. Len(q) : Append(q, y)[i] = q[i]
      BY <1>9, <2>1, AppendProperties
    <3> QED
      BY <1>9, <3>1
  <2>3. \A i \in 1 .. l + 1 : i = l + 1 \/ i \in 1 .. l
    OBVIOUS
  <2>4. \A i \in 1 .. l + 1 : w[i] = x[i]
    BY <1>9, <2>2, <2>3
  <2>5. x \in [1 .. l + 1 -> T] /\ w \in [1 .. l + 1 -> T]
    BY <1>9, <2>2, LenProperties
  <2>6. w = x
    BY <2>4, <2>5
  <2>7. l + 1 # 0
    OBVIOUS
  <2> QED
    BY <1>9, <2>2, <2>6, <2>7, EmptySeq DEF Last
<1>11. Answered' = Answered
  BY <1>2 DEF Answered, AnsweredBy, EndsReply
<1>12. /\ AskedSeq' = Append(AskedSeq, AskedSeq'[Len(AskedSeq')])
       /\ AskedSeq'[Len(AskedSeq')] \in [id : Ids, body : Seq(Nat)] /\ AskedSeq' # <<>>
  <2>1. w = Append(q, w[Len(w)]) /\ w[Len(w)] \in [id : Ids, body : Seq(Nat)] /\ w # <<>>
    BY <1>7, <1>10 DEF Last
  <2> QED
    BY <1>9, <2>1, Zenon
<1>13. Service!Ask
  BY <1>2, <1>11, <1>12, Zenon DEF Service!Ask, Service!OneMore, AskedSeq
<1> QED
  BY <1>2, <1>13

(* A message that is handled is the next one, or objects were used before. *)
LEMMA HandleServes ==
  ASSUME Held, Held', Framed, ProcFrame, NEW h, h \in HeaderRead, ProcHandle(h), end' = "none"
  PROVE  (Service!Handle \/ Service!Mishandle) /\ reused' \in {reused, TRUE}
<1>1. /\ h.id \in Requests /\ Len(handled) \in Nat
      /\ handled' = Append(handled, [id |-> h.id, body |-> SubSeq(h.packet.unread, 1, h.len)])
  BY HandleParts
<1>2. UNCHANGED <<stream, received>>
  BY DEF ProcFrame, peerVars
<1>3. Answered' = Answered
  BY <1>2 DEF Answered, AnsweredBy, EndsReply
<1>4. AskedSeq' = AskedSeq
  <2>1. \A i : Sent(i)' = Sent(i)
    BY <1>2 DEF Sent, Header, DAN_MSG_ID, DAN_MSG_LEN
  <2> QED
    BY <1>2, <2>1 DEF AskedSeq
<1>5. reused' \in {reused, TRUE}
  <2>1. (reused => reused') /\ reused' \in BOOLEAN /\ reused \in BOOLEAN
    BY HandleQueues, Zenon DEF Held, PoolsHeld
  <2> QED
    BY <2>1
<1>6. CASE reused
  <2>1. PICK e : e = [id |-> h.id, body |-> SubSeq(h.packet.unread, 1, h.len)]
    OBVIOUS
  <2>2. handled' = Append(handled, e)
    BY <1>1, <2>1
  <2>3. handled' \in Seq([id : Requests, body : Seq(Nat)]) /\ handled \in Seq([id : Requests, body : Seq(Nat)])
    BY DEF Held, HeaderHeld
  <2>4. Len(handled') = Len(handled) + 1 /\ handled'[Len(handled) + 1] = e
    BY <1>1, <2>2, <2>3, AppendProperties
  <2>5. e \in [id : Requests, body : Seq(Nat)]
    <3>1. PICK n, q : n = Len(handled) + 1 /\ q = handled' /\ q \in Seq([id : Requests, body : Seq(Nat)])
      BY <2>3
    <3>2. n \in 1 .. Len(q) /\ q[n] = e
      BY <1>1, <2>4, <3>1
    <3>3. q[n] \in [id : Requests, body : Seq(Nat)]
      BY <3>1, <3>2, ElementOfSeq
    <3> QED
      BY <3>2, <3>3
  <2>6. Requests \subseteq Ids
    BY DEF Requests
  <2>7. e \in [id : Ids, body : Seq(Nat)]
    BY <2>5, <2>6
  <2>8. Last(handled') = e /\ handled' # <<>>
    <3>1. Len(handled') # 0
      BY <1>1, <2>4
    <3> QED
      BY <2>3, <2>4, <3>1, EmptySeq DEF Last
  <2>9. Service!Mishandle
    <3>1. /\ handled' # <<>> /\ handled' = Append(handled, handled'[Len(handled')])
          /\ handled'[Len(handled')] \in [id : Ids, body : Seq(Nat)]
      BY <2>2, <2>7, <2>8 DEF Last
    <3> QED
      BY <1>3, <1>4, <1>6, <3>1, Zenon DEF Service!Mishandle, Service!OneMore, AskedSeq
  <2> QED
    BY <1>5, <2>9
<1>7. CASE ~ reused
  <2>1. Len(handled) < Len(stream) /\ handled' = Append(handled, Sent(Len(handled) + 1))
    BY <1>7, HandleFaithful
  <2>2. stream \in Seq([id : Ids, len : Lens, at : Nat])
    BY DEF Held, StreamHeld
  <2>3. PICK n \in Nat, l \in Nat : n = Len(handled) /\ l = Len(stream) /\ DOMAIN stream = 1 .. l
    BY <1>1, <2>2, LenProperties
  <2>4. AskedSeq = [i \in 1 .. l |-> Sent(i)]
    BY <2>3 DEF AskedSeq
  <2>5. n + 1 \in 1 .. l
    BY <2>1, <2>3
  <2>6. AskedSeq[n + 1] = Sent(n + 1) /\ Len(AskedSeq) = l
    <3>1. AskedSeq \in [1 .. l -> {Sent(i) : i \in 1 .. l}]
      BY <2>4
    <3> QED
      BY <2>4, <2>5, <3>1, Listed
  <2>7. Len(handled) < Len(AskedSeq) /\ handled' = Append(handled, AskedSeq[Len(handled) + 1])
    BY <2>1, <2>3, <2>6
  <2>8. Service!Handle
    BY <1>3, <1>4, <2>7, Zenon DEF Service!Handle, AskedSeq
  <2> QED
    BY <1>5, <2>8
<1> QED
  BY <1>6, <1>7

(* What else it does shows nothing to the peer. *)
LEMMA StepHides ==
  ASSUME Held, Held', UNCHANGED <<stream, received, handled>>, reused => reused'
  PROVE  /\ Service!Next
         /\ UNCHANGED reused => UNCHANGED Service!vars
<1>1. Answered' = Answered
  BY DEF Answered, AnsweredBy, EndsReply
<1>2. AskedSeq' = AskedSeq
  <2>1. \A i : Sent(i)' = Sent(i)
    BY DEF Sent, Header, DAN_MSG_ID, DAN_MSG_LEN
  <2> QED
    BY <2>1 DEF AskedSeq
<1>3. reused' \in {reused, TRUE}
  BY DEF Held, PoolsHeld
<1>4. UNCHANGED <<AskedSeq, handled, Answered>>
  BY <1>1, <1>2
<1> QED
  BY <1>1, <1>2, <1>3, <1>4 DEF Service!Next, Service!vars, AskedSeq

LEMMA StepServes ==
  ASSUME Held, Held', Replied, Replied', Framed, Answering, [Next]_vars
  PROVE  [Service!Next]_(Service!vars)
<1>1. CASE PeerSend
  BY <1>1, PeerAsks DEF Service!Next
<1>2. CASE RecvFromFd
  <2>1. UNCHANGED <<stream, received, handled>>
    BY <1>2 DEF RecvFromFd, peerVars
  <2>2. ASSUME reused PROVE reused'
    BY <1>2, <2>2 DEF RecvFromFd
  <2> QED
    BY <2>1, <2>2, StepHides
<1>3. CASE ProcMsg
  <2>1. PICK h \in HeaderRead :
          ProcMisread(h) \/ ProcAwait(h) \/ ProcHandle(h) \/ ProcPartial(h) \/ ProcNext(h)
    BY <1>3, ProcMsgParts
  <2>2. ProcFrame
    BY <1>3, ProcMsgParts
  <2>3. UNCHANGED <<stream, received>>
    BY <2>2 DEF ProcFrame, peerVars
  <2>4. CASE ProcHandle(h) /\ end' = "none"
    <3>1. (Service!Handle \/ Service!Mishandle) /\ reused' \in {reused, TRUE}
      BY <2>2, <2>4, HandleServes
    <3> QED
      BY <3>1 DEF Service!Next
  <2>5. CASE ProcHandle(h) /\ end' # "none"
    <3>1. end = "none"
      BY <2>2 DEF ProcFrame
    <3>2. UNCHANGED <<handled, reused>>
      BY <2>5, <3>1 DEF ProcHandle, procVars, poolVars
    <3> QED
      BY <2>3, <3>2, StepHides
  <2>6. CASE ProcMisread(h)
    BY <2>3, <2>6, StepHides DEF ProcMisread, procVars, poolVars
  <2>7. CASE ProcAwait(h)
    BY <2>3, <2>7, StepHides DEF ProcAwait, poolVars
  <2>8. CASE ProcPartial(h)
    BY <2>3, <2>8, StepHides DEF ProcPartial, procVars, poolVars
  <2>9. CASE ProcNext(h)
    BY <2>3, <2>9, StepHides DEF ProcNext
  <2> QED
    BY <2>1, <2>4, <2>5, <2>6, <2>7, <2>8, <2>9
<1>4. CASE OnSend
  BY <1>4, StepHides DEF OnSend, peerVars, procVars, poolVars
<1>5. CASE SendPart
  <2>1. UNCHANGED <<stream, handled, reused>>
    BY <1>5 DEF SendPart, procVars
  <2>2. reused' \in {reused, TRUE}
    BY <2>1
  <2>3. AskedSeq' = AskedSeq
    <3>1. \A i : Sent(i)' = Sent(i)
      BY <2>1 DEF Sent, Header, DAN_MSG_ID, DAN_MSG_LEN
    <3> QED
      BY <2>1, <3>1 DEF AskedSeq
  <2>4. CASE Answered' = Answered
    <3>1. UNCHANGED <<AskedSeq, handled, Answered>>
      BY <2>1, <2>3, <2>4
    <3> QED
      BY <2>2, <3>1 DEF Service!Next, AskedSeq
  <2>5. CASE /\ Len(Answered) < Len(handled)
             /\ Answered' = Append(Answered, ReplyTo(handled[Len(Answered) + 1]))
    <3>1. Service!Answer
      BY <2>1, <2>3, <2>5, Zenon DEF Service!Answer, AskedSeq
    <3> QED
      BY <2>2, <3>1 DEF Service!Next
  <2> QED
    BY <1>5, <2>4, <2>5, SentAnswers
<1>6. CASE SendNothing
  BY <1>6, StepHides DEF SendNothing, peerVars, procVars
<1>7. CASE UNCHANGED vars
  <2>1. UNCHANGED <<stream, received, handled, reused>>
    BY <1>7 DEF vars, peerVars, procVars, poolVars
  <2> QED
    BY <2>1, StepHides
<1> QED
  BY <1>1, <1>2, <1>3, <1>4, <1>5, <1>6, <1>7 DEF Next, Program, Send, Quiet

LEMMA InitServes ==
  ASSUME Init
  PROVE  Service!Init
<1>1. stream = <<>> /\ received = <<>> /\ handled = <<>> /\ reused = FALSE
  BY DEF Init
<1>2. [i \in DOMAIN stream |-> Sent(i)] = <<>>
  BY <1>1
<1>3. Answered = <<>>
  <2>1. PICK e : e = <<>> /\ Len(e) = 0
    <3>1. Len(<<>>) = 0
      OBVIOUS
    <3> QED
      BY <3>1
  <2>2. \E f : Counting(f, e, 0)
    BY CountingExists
  <2> DEFINE upto == CHOOSE f : f = [n \in 0 .. Len(e) |->
                       IF n = 0 THEN <<>>
                       ELSE IF EndsReply(e[n]) THEN Append(f[n - 1], e[n].id)
                       ELSE f[n - 1]]
  <2>3. \E f : Counting(f, e, Len(e))
    BY <2>1, <2>2, Zenon
  <2>4. upto = [n \in 0 .. Len(e) |->
                       IF n = 0 THEN <<>>
                       ELSE IF EndsReply(e[n]) THEN Append(upto[n - 1], e[n].id)
                       ELSE upto[n - 1]]
    BY <2>3, Zenon DEF Counting
  <2>5. AnsweredBy(e) = upto[Len(e)]
    BY DEF AnsweredBy
  <2>6. upto[0] = <<>>
    <3> HIDE DEF upto
    <3> QED
      BY <2>1, <2>4
  <2> QED
    BY <1>1, <2>1, <2>5, <2>6 DEF Answered
<1> QED
  BY <1>1, <1>2, <1>3 DEF Service!Init

(* Cutting messages out of packets and replies into packets, the session   *)
(* is an implementation of MessageService (dan_session.hpp:54-330,         *)
(* dan_message.hpp:59-112), where whole messages arrive and no reply is    *)
(* read beyond its end: as long as no object is used again it handles each *)
(* message once, in order and with its own bytes; and the replies the peer *)
(* receives are, always, those to what was handled, in order.              *)
THEOREM SessionImplementsService ==
  ASSUME Cuts = "message", RepliesFit
  PROVE  Spec => ImplementsService
<1>1. Init => Held /\ Replied /\ Framed /\ Answering /\ Service!Init
  BY InitHeld, InitReplied, InitFramed, InitAnswering, InitServes
<1>2. Held /\ Replied /\ Framed /\ Answering /\ [Next]_vars => (Held /\ Replied /\ Framed /\ Answering)'
  BY HeldOn, RepliedOn, FramedOn, AnsweringOn
<1>3. Held /\ Held' /\ Replied /\ Replied' /\ Framed /\ Answering /\ [Next]_vars => [Service!Next]_(Service!vars)
  BY StepServes
<1> QED
  BY <1>1, <1>2, <1>3, PTL DEF Spec, ImplementsService, Service!Spec

=============================================================================
