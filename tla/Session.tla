------------------------------- MODULE Session -------------------------------
(***************************************************************************)
(* One session of dan_session.hpp with the messages, packets and byte      *)
(* streams it is built on: its peer sends messages as one stream of bytes, *)
(* recvFromFd takes them as the socket delivers them, procMsg cuts them    *)
(* out of the packets and queues replies, and onSend writes the replies.   *)
(*                                                                         *)
(* A byte of the stream is known by its place in it; what is read from a   *)
(* place where no field begins has no meaning, and the model stops there.  *)
(* Objects come from pools that hand out what was given back, as it was.   *)
(*                                                                         *)
(* The connection stays, and send always takes at least a byte: waiting,   *)
(* closing and failing are in Server.                                      *)
(***************************************************************************)
EXTENDS Dispatch, SequencesExt

CONSTANTS MSS,          \* DAN_TCP_MSS: bytes in a new packet
          KEEP_SIZE,    \* DAN_POOL_KEEP_SIZE: objects a pool builds at a time
          Ids, Lens,    \* the identities and body lengths of messages
          ReplyLen,     \* identity -> length of the reply, header included
          MaxMessages,  \* bound: messages the peer sends
          Cuts          \* where deliveries end: "message" or "anywhere"

DAN_MSG_ID == 2
DAN_MSG_LEN == 4
Header == DAN_MSG_ID + DAN_MSG_LEN

ASSUME SessionAssumption ==
  /\ MSS \in Nat /\ MSS >= Header /\ KEEP_SIZE \in Nat \ {0}
  /\ Ids \subseteq 1 .. 2 ^ 16 - 1 /\ Lens \subseteq Nat
  /\ ReplyLen \in [Ids -> Nat]
  /\ \A id \in Ids : ReplyLen[id] >= Header
  /\ Cuts \in {"message", "anywhere"}

VARIABLES stream,      \* the messages the peer has sent: identity, length, place
          arrived,     \* bytes of the stream recv has returned
          received,    \* the bytes the peer has received
          pPacket,     \* the packet the receiving coroutine reads into
          recvBuffer_, currMsgId_, currMsgLen_, readLen_, readyLen_,
          sendBuffer_,
          tasks,       \* calls of onSend not yet run
          sending,     \* packets of the front message sent; -1: no sender runs
          procs,       \* procMsg is in its loop
          packetPool, messagePool,   \* objects given back or never used, in order
          end,         \* how the session ended
          handled,     \* history: the messages handled
          reused       \* history: an object was handed out that had been used

peerVars == <<stream, received>>
recvVars == <<arrived, pPacket>>
procVars == <<recvBuffer_, currMsgId_, currMsgLen_, readLen_, procs, handled>>
sendVars == <<sendBuffer_, tasks, sending>>
poolVars == <<packetPool, messagePool, reused>>
vars == <<peerVars, recvVars, procVars, readyLen_, sendVars, poolVars, end>>

-----------------------------------------------------------------------------
(* Packets: the size of data_, wpos_, and the bytes between rpos_ and      *)
(* wpos_.  Messages: their packets, packetCount_, and pCurrPacket_ or      *)
(* nothing.                                                                *)

NewPacket == [size |-> MSS, wpos |-> 0, unread |-> <<>>]

readableSize(p) == Len(p.unread)

(* doAppend, which makes room. *)
Appended(p, bytes) == [size |-> IF p.size < p.wpos + Len(bytes) THEN p.wpos + Len(bytes)
                                ELSE p.size,
                       wpos |-> p.wpos + Len(bytes),
                       unread |-> p.unread \o bytes]

Read(p, n) == [p EXCEPT !.unread = SubSeq(@, n + 1, Len(@))]

(* The packet pool when n packets are asked of it one after the other, and *)
(* whether one of them has been used before. *)
Rounds(n) == (n + KEEP_SIZE - 1) \div KEEP_SIZE

Stocked(pool, n) ==
  IF n <= Len(pool) THEN pool
  ELSE pool \o [i \in 1 .. KEEP_SIZE * Rounds(n - Len(pool)) |-> NewPacket]

Taken(pool, n) == SubSeq(Stocked(pool, n), 1, n)
Left(pool, n) == SubSeq(Stocked(pool, n), n + 1, Len(Stocked(pool, n)))

Used(packets) == \E i \in DOMAIN packets : packets[i] # NewPacket

(* How many bytes each round of fillMsg adds to a packet, always an empty  *)
(* one: the whole message is compared with its room, not what is left.     *)
PieceLen(len) == IF len > MSS THEN MSS ELSE len

(* How many all rounds copy: a message of several packets is read beyond   *)
(* its end unless it fills the last one. *)
CopiedLen(len) == PieceLen(len) * ((len + PieceLen(len) - 1) \div PieceLen(len))

Fits(len) == CopiedLen(len) = len

(* Mutant of Pieces: the loop runs once more when nothing is left. *)
PiecesExtra(bytes) ==
  LET k == PieceLen(Len(bytes))
      count == Len(bytes) \div k
  IN  [i \in 1 .. count |-> SubSeq(bytes, (i - 1) * k + 1, i * k)] \o << <<>> >>

(* The bytes of the packets fillMsg makes of a message. *)
Pieces(bytes) ==
  LET k == PieceLen(Len(bytes))
      count == (Len(bytes) + k - 1) \div k
  IN  [i \in 1 .. count |-> SubSeq(bytes, (i - 1) * k + 1, i * k)]

-----------------------------------------------------------------------------
(* The stream: each message is a header and a body. *)

StreamLen == IF stream = <<>> THEN 0
             ELSE Last(stream).at + Header + Last(stream).len

(* The messages whose identity, whose length, begins after n bytes. *)
IdAt(n) == {i \in DOMAIN stream : stream[i].at = n}
LenAt(n) == {i \in DOMAIN stream : stream[i].at + DAN_MSG_ID = n}

(* Deliveries end anywhere; or they fit in a new packet and end where a    *)
(* message, or the first one's header, does. *)
MayArrive ==
  {n \in arrived + 1 .. StreamLen :
     \/ Cuts = "anywhere"
     \/ /\ n <= arrived + MSS
        /\ \/ n = Header
           \/ \E i \in DOMAIN stream : n = stream[i].at + Header + stream[i].len}

(* The first n bytes from where the reply to message i begins in memory:   *)
(* those beyond its length are whatever is there. *)
Memory(i, id, n) == [k \in 1 .. n |-> [msg |-> i, id |-> ReplyId(id), byte |-> k]]

Reply(i, id) == Memory(i, id, ReplyLen[id])

Copied(i, id) == Memory(i, id, CopiedLen(ReplyLen[id]))

Init ==
  /\ stream = <<>> /\ arrived = 0 /\ received = <<>>
  /\ pPacket = NewPacket
  /\ recvBuffer_ = <<>>
  /\ currMsgId_ = 0 /\ currMsgLen_ = 0 /\ readLen_ = 0 /\ readyLen_ = 0
  /\ sendBuffer_ = <<>> /\ tasks = 0 /\ sending = -1
  /\ procs = FALSE
  /\ packetPool = Left(<<>>, 1)
  /\ messagePool = <<>>
  /\ end = "none"
  /\ handled = <<>>
  /\ reused = FALSE

PeerSend ==
  /\ Len(stream) < MaxMessages
  /\ \E id \in Ids, len \in Lens : 
       stream' = Append(stream, [id |-> id, len |-> len, at |-> StreamLen])
  /\ UNCHANGED <<received, recvVars, procVars, readyLen_, sendVars, poolVars, end>>

-----------------------------------------------------------------------------
(* The thread runs one of three things at a time. *)

InLoop == end = "none" /\ ~ procs /\ sending = -1

(* recvFromFd, which recvMsgFunc calls again with the next packet.  A      *)
(* packet without room makes recv return 0, at once or when bytes come,    *)
(* which ends the connection.                                              *)
RecvFromFd ==
  /\ InLoop
  /\ LET room == pPacket.size - pPacket.wpos
     IN  \/ /\ room = 0
            /\ end' = "closed"
            /\ packetPool' = Append(packetPool, pPacket)
            /\ UNCHANGED <<recvVars, recvBuffer_, readyLen_, reused>>
         \/ \E upto \in MayArrive :
              LET len == IF room < upto - arrived THEN room ELSE upto - arrived
              IN  /\ len > 0
                  /\ recvBuffer_' = Append(recvBuffer_,
                                      Appended(pPacket, [k \in 1 .. len |-> arrived + k]))
                  /\ readyLen_' = readyLen_ + len
                  /\ arrived' = arrived + len
                  /\ pPacket' = Taken(packetPool, 1)[1]
                  /\ packetPool' = Left(packetPool, 1)
                  /\ reused' = (reused \/ Used(<<pPacket'>>))
                  /\ UNCHANGED end
  /\ UNCHANGED <<peerVars, currMsgId_, currMsgLen_, readLen_, procs, handled, sendVars,
                 messagePool>>

-----------------------------------------------------------------------------
(* procMsg: one step is one round of its loop, with the packet in front.   *)

front == Head(recvBuffer_)
place(p) == Head(p.unread) - 1

(* What the round has of the message's header, and the packet behind it.   *)
(* Bytes that are not a field may be read as one: misread. *)
WithId ==
  IF currMsgId_ = 0 /\ readableSize(front) >= DAN_MSG_ID
    THEN [id |-> IF IdAt(place(front)) = {} THEN -1
                 ELSE stream[CHOOSE i \in IdAt(place(front)) : TRUE].id,
          packet |-> Read(front, DAN_MSG_ID)]
    ELSE [id |-> currMsgId_, packet |-> front]

WithLen(id, p) ==
  IF currMsgLen_ = 0 /\ readableSize(p) >= DAN_MSG_LEN
    THEN [id |-> id,
          len |-> IF LenAt(place(p)) = {} THEN -1
                  ELSE stream[CHOOSE i \in LenAt(place(p)) : TRUE].len,
          packet |-> Read(p, DAN_MSG_LEN)]
    ELSE [id |-> id, len |-> currMsgLen_, packet |-> p]

HeaderRead == {WithLen(h.id, h.packet) : h \in {WithId}}

Misread(h) == h.id = -1 \/ h.len = -1

Reset == /\ currMsgId_' = 0 /\ currMsgLen_' = 0 /\ readLen_' = 0
         /\ procs' = FALSE

ProcMisread(h) ==
  /\ Misread(h)
  /\ end' = "misread"
  /\ UNCHANGED <<procVars, sendVars, poolVars>>

(* Mutant of Ready: off by one. *)
ReadyMore(h) == readyLen_ > h.len + Header

(* The count of bytes that have arrived is never decreased. *)
Ready(h) == readyLen_ >= h.len + Header

(* Not enough for a message: what has been read is kept for the next tick. *)
ProcAwait(h) ==
  /\ ~ Misread(h) /\ h.id # 0 /\ ~ Ready(h)
  /\ recvBuffer_' = <<h.packet>> \o Tail(recvBuffer_)
  /\ currMsgId_' = h.id /\ currMsgLen_' = h.len
  /\ procs' = FALSE
  /\ UNCHANGED <<readLen_, handled, sendVars, poolVars, end>>

(* sendToFd: a message from the pool, whose constructor took a packet, is  *)
(* filled and queued with a task.  One that was used before has given that *)
(* packet to packets_, and keeps those. *)
BuiltMessages ==
  [messages |-> [i \in 1 .. KEEP_SIZE |->
                   [packets_ |-> <<>>, pCurrPacket_ |-> <<Taken(packetPool, KEEP_SIZE)[i]>>]],
   packets |-> Left(packetPool, KEEP_SIZE)]

Available == IF messagePool = <<>> THEN BuiltMessages
             ELSE [messages |-> messagePool, packets |-> packetPool]

SendToFd(bytes) ==
  \E from \in {Available}, pieces \in {Pieces(bytes)} :
    LET m == Head(from.messages)
        more == Len(pieces) - Len(m.pCurrPacket_)
        packets == m.pCurrPacket_ \o Taken(from.packets, more)
    IN  /\ sendBuffer_' = Append(sendBuffer_,
              [packets_ |-> m.packets_ \o [i \in DOMAIN pieces |-> Appended(packets[i], pieces[i])],
               pCurrPacket_ |-> <<>>])
        /\ tasks' = tasks + 1
        /\ messagePool' = Tail(from.messages)
        /\ packetPool' = Left(from.packets, more)
        /\ reused' = (reused \/ m.packets_ # <<>> \/ Used(packets))

(* Mutant of Take: the rest of the packet is thrown away. *)
TakeAll(p, n) == Read(p, readableSize(p))

Take(p, n) == Read(p, n)

(* The message is all there: it is handled, and its packet stays for the   *)
(* next one.  Reading beyond a reply may leave the process's memory.       *)
ProcHandle(h) ==
  LET n == h.len - readLen_
  IN  /\ ~ Misread(h) /\ h.id # 0 /\ Ready(h)
      /\ readableSize(h.packet) >= n
      /\ \/ /\ Handled(h.id)
            /\ SendToFd(Copied(Len(handled) + 1, h.id))
            /\ handled' = Append(handled, [id |-> h.id, body |-> SubSeq(h.packet.unread, 1, n)])
            /\ recvBuffer_' = <<Take(h.packet, n)>> \o Tail(recvBuffer_)
            /\ Reset
            /\ UNCHANGED <<sending, end>>
         \/ /\ ~ Handled(h.id) \/ ~ Fits(ReplyLen[h.id])
            /\ end' = "killed"
            /\ UNCHANGED <<procVars, sendVars, poolVars>>

(* The bytes of a longer message go to pCurrMsg_, which is null: there     *)
(* must be none, or the process is killed. *)
ProcPartial(h) ==
  /\ ~ Misread(h) /\ h.id # 0 /\ Ready(h)
  /\ 0 < readableSize(h.packet) /\ readableSize(h.packet) < h.len - readLen_
  /\ end' = "killed"
  /\ UNCHANGED <<procVars, sendVars, poolVars>>

(* The packet is given back, and a byte left in it is lost; the loop goes  *)
(* on with the next. *)
ProcNext(h) ==
  /\ ~ Misread(h)
  /\ \/ h.id = 0
     \/ Ready(h) /\ readableSize(h.packet) = 0 /\ h.len > readLen_
  /\ recvBuffer_' = Tail(recvBuffer_)
  /\ packetPool' = Append(packetPool, h.packet)
  /\ end' = IF readableSize(h.packet) > 0 THEN "misread" ELSE "none"
  /\ IF Tail(recvBuffer_) = <<>>
       THEN Reset
       ELSE /\ currMsgId_' = h.id /\ currMsgLen_' = h.len /\ procs' = TRUE
            /\ UNCHANGED readLen_
  /\ UNCHANGED <<handled, sendVars, messagePool, reused>>

ProcMsg ==
  /\ end = "none" /\ sending = -1
  /\ recvBuffer_ # <<>>
  /\ \E h \in HeaderRead :
       ProcMisread(h) \/ ProcAwait(h) \/ ProcHandle(h) \/ ProcPartial(h) \/ ProcNext(h)
  /\ UNCHANGED <<peerVars, recvVars, readyLen_>>

-----------------------------------------------------------------------------
(* onSend, which a task calls: packet after packet of the front message.   *)

OnSend ==
  /\ InLoop /\ tasks > 0
  /\ tasks' = tasks - 1
  /\ sending' = 0
  /\ UNCHANGED <<peerVars, recvVars, procVars, readyLen_, sendBuffer_, poolVars, end>>

pSendMsg == Head(sendBuffer_)
pSendPacket == pSendMsg.packets_[sending + 1]

(* Mutant of AllSent: the loop over the packets runs once more. *)
AllSentLate(m, currCount) == currCount > Len(m.packets_)

AllSent(m, currCount) == currCount = Len(m.packets_)

(* One call of send, which takes any number of the bytes it is given.  The *)
(* message goes back to its pool with its packets. *)
SendPart ==
  /\ sending >= 0 /\ end = "none"
  /\ readableSize(pSendPacket) > 0
  /\ \E n \in 1 .. readableSize(pSendPacket) :
       LET m == [pSendMsg EXCEPT !.packets_[sending + 1] = Read(pSendPacket, n)]
           drained == n = readableSize(pSendPacket)
       IN  /\ received' = received \o SubSeq(pSendPacket.unread, 1, n)
           /\ \/ /\ drained /\ AllSent(m, sending + 1)
                 /\ sendBuffer_' = Tail(sendBuffer_)
                 /\ messagePool' = Append(messagePool, m)
                 /\ sending' = -1
              \/ /\ ~ (drained /\ AllSent(m, sending + 1))
                 /\ sendBuffer_' = <<m>> \o Tail(sendBuffer_)
                 /\ sending' = IF drained THEN sending + 1 ELSE sending
                 /\ UNCHANGED messagePool
  /\ UNCHANGED <<stream, recvVars, procVars, readyLen_, tasks, packetPool, reused, end>>

(* A packet with nothing to send counts as a failure: the connection is    *)
(* closed. *)
SendNothing ==
  /\ sending >= 0 /\ end = "none"
  /\ readableSize(pSendPacket) = 0
  /\ end' = "closed"
  /\ sendBuffer_' = Tail(sendBuffer_)
  /\ messagePool' = Append(messagePool, pSendMsg)
  /\ sending' = -1
  /\ UNCHANGED <<peerVars, recvVars, procVars, readyLen_, tasks, packetPool, reused>>

Send == OnSend \/ SendPart \/ SendNothing

(* The process or the connection is gone, or the peer has nothing to say. *)
Quiet == /\ \/ end # "none"
            \/ /\ Len(stream) = MaxMessages
               /\ InLoop /\ tasks = 0 /\ arrived = StreamLen /\ recvBuffer_ = <<>>
         /\ UNCHANGED vars

Program == RecvFromFd \/ ProcMsg \/ Send

Next == \/ end = "none" /\ PeerSend
        \/ Program
        \/ Quiet

Spec == Init /\ [][Next]_vars

(* The thread keeps running; what it does without effect, a tick that      *)
(* finds too few bytes, does not keep it from the rest. *)
FairSpec == Spec /\ WF_vars(Program)

-----------------------------------------------------------------------------

(* Every variable has its type. *)
Byte == [msg : Nat, id : Nat, byte : Nat]
Packet(B) == [size : Nat, wpos : Nat, unread : Seq(B)]
Message == [packets_ : Seq(Packet(Byte)), pCurrPacket_ : Seq(Packet(Byte))]

TypeOK ==
  /\ stream \in Seq([id : Ids, len : Lens, at : Nat])
  /\ received \in Seq(Byte)
  /\ arrived \in 0 .. StreamLen
  /\ pPacket \in Packet({}) /\ pPacket.wpos <= pPacket.size
  /\ recvBuffer_ \in Seq(Packet(1 .. StreamLen))
  /\ currMsgId_ \in Ids \cup {0} /\ currMsgLen_ \in Lens \cup {0}
  /\ readLen_ = 0 /\ readyLen_ \in Nat
  /\ sendBuffer_ \in Seq(Message)
  /\ tasks \in Nat
  /\ sending \in Nat \cup {-1} /\ sending >= 0 => sending < Len(pSendMsg.packets_)
  /\ procs \in BOOLEAN
  /\ packetPool \in Seq(Packet(1 .. StreamLen)) /\ messagePool \in Seq(Message)
  /\ end \in {"none", "closed", "misread", "killed"}
  /\ reused \in BOOLEAN

(* A message as the peer sent it, with the places of its body's bytes. *)
Sent(i) == [id |-> stream[i].id,
            body |-> [k \in 1 .. stream[i].len |-> stream[i].at + Header + k]]

(* The replies to the messages handled, one after the other, as bytes. *)
Replies == FlattenSeq([i \in DOMAIN handled |-> Reply(i, handled[i].id)])

(* The replies fill their packets, or need only one, so that fillMsg reads *)
(* nothing beyond them.  Those of the program have 12 bytes at most.       *)
RepliesFit == \A id \in Ids : Fits(ReplyLen[id])

(* Where RepliesFit, what the peer has received is a prefix of the replies *)
(* to its messages, in order and to the byte, wherever send cut them; each *)
(* identity is the request's successor.                                    *)
RepliesExact ==
  /\ IsPrefix(received, Replies)
  /\ \A i \in DOMAIN handled : ReplyId(handled[i].id) = handled[i].id + 1

(* Where RepliesFit, a connection over which whole messages arrive is      *)
(* closed by the server, or the process killed, only once an object has    *)
(* been handed out that was used before, or by a message that is no        *)
(* request.                                                                *)
EndsForAReason ==
  end # "none" => reused \/ \E i \in DOMAIN stream : ~ Handled(stream[i].id)

(* However TCP cuts the stream, messages are found where they are: the     *)
(* comments at dan_session.hpp:91 and :157 provide for messages that need  *)
(* several packets.                                                        *)
CutsHarmless == end \notin {"misread", "killed"}

(* The server keeps a connection whose peer keeps it: dan_net.hpp:69 sets  *)
(* it never to time out.                                                   *)
ConnectionKept == end # "closed"

(* A message longer than a packet is divided into several, as the comment  *)
(* at dan_message.hpp:11 says: no byte is sent that is not a reply's.      *)
MessagesSplit == \A k \in DOMAIN received : received[k].byte <= ReplyLen[received[k].id - 1]

(* The identities of the replies among these bytes that are whole: those   *)
(* whose last byte is there. *)
EndsReply(b) == b.byte = ReplyLen[b.id - 1]

AnsweredBy(bytes) ==
  LET upto[n \in 0 .. Len(bytes)] ==
        IF n = 0 THEN <<>>
        ELSE IF EndsReply(bytes[n]) THEN Append(upto[n - 1], bytes[n].id)
        ELSE upto[n - 1]
  IN  upto[Len(bytes)]

Answered == AnsweredBy(received)

ReplyTo(m) == ReplyId(m.id)

Service == INSTANCE MessageService
  WITH Messages <- [id : Ids, body : Seq(Nat)],
       ReplyIdOf <- ReplyTo,
       asked <- [i \in DOMAIN stream |-> Sent(i)],
       answered <- Answered

(* Where RepliesFit, the session implements MessageService: cutting        *)
(* out of packets and replies into packets loses, repeats and reorders     *)
(* none, as long as no object is used again; and replies never.            *)
ImplementsService == Service!Spec

(* Every message is answered in the end, unless the session ended: no      *)
(* arrangement of packets leaves one waiting for bytes that are there.     *)
MessageAnswered ==
  \A i \in 1 .. MaxMessages : Len(stream) >= i ~> Len(Answered) >= i \/ end # "none"

=============================================================================
