------------------------------ MODULE Inbound -------------------------------
(***************************************************************************)
(* The incoming path of one client connection: the SubReactor thread, told *)
(* by an edge-triggered epoll, runs handleRead, which reads the socket     *)
(* until EAGAIN into the connection's PoolRecvBuffer, cuts the buffer into *)
(* packets, decodes each, and answers it or hands it to the thread pool.   *)
(* Only this thread uses the buffer, so that a step is one turn of one of  *)
(* the three loops of handleRead; the peer and the kernel act in between.  *)
(*                                                                         *)
(* The unit of the stream is a byte of the header or a whole field of the  *)
(* body.  The length and the type of a packet have two digits each, in the *)
(* base Base instead of 256: four units of header for the six bytes.       *)
(***************************************************************************)
EXTENDS RecvBuffer, Codec

CONSTANTS
    Base,            \* a header byte is below Base
    Fields,          \* the fields of bodies
    Scripts,         \* what the peer may send: packets, and their bytes as stream
    InitialCapacity, \* the capacity of a new PoolRecvBuffer
    ReadSize,        \* READ_BUFFER_SIZE
    MaxPacket        \* MAX_PACKET_SIZE

LengthSize == 2
HeaderSize == 4
Units == [b : 0 .. Base - 1, field : Fields]

ASSUME InboundAssumption ==
    /\ Base \in Nat \ {0}
    /\ Zero \in Units
    /\ \A s \in Scripts : s.stream \in Seq(Units) /\ Len(s.stream) <= MaxHeld
    /\ InitialCapacity \in 0 .. MaxHeld
    /\ ReadSize \in Nat \ {0}
    /\ MaxPacket \in Nat /\ MaxPacket >= HeaderSize

\* ntohl and ntohs.
Number(digits) == Base * digits[1].b + digits[2].b

\* The packets of a script are what its stream divides into: a packet has its
\* type, the request its sender means, the position in the stream where it ends
\* (of one with an illegal length, where the length ends) and whether its length
\* is legal.  Every stream divides like that, up to a packet that is not complete.
Start(s, i) == IF i = 1 THEN 0 ELSE s.packets[i - 1].end
NumberAt(s, n) == Number(<<s.stream[n + 1], s.stream[n + 2]>>)
Framed(s) ==
    /\ s.packets \in Seq({s.packets[i] : i \in DOMAIN s.packets})
    /\ Start(s, Len(s.packets) + 1) = Len(s.stream)
    /\ \A i \in DOMAIN s.packets :
          LET p == s.packets[i]
              len == NumberAt(s, Start(s, i))
          IN  /\ p.end \in Nat
              /\ Start(s, i) + LengthSize <= p.end /\ p.end <= Len(s.stream)
              /\ p.legal = (len >= HeaderSize /\ len <= MaxPacket)
              /\ p.end = Start(s, i) + IF p.legal THEN len ELSE LengthSize
              /\ p.legal => p.type = NumberAt(s, Start(s, i) + LengthSize)

ASSUME ScriptsAssumption == \A s \in Scripts : Framed(s)

VARIABLES
    script,         \* what the peer sends in this behaviour
    sent,           \* units the kernel has received from the peer
    peer,           \* the other end: "up", "fin" (closed) or "rst" (reset)
    ready,          \* kernel: the fd is in the epoll ready list
    received,       \* units taken from the kernel with recv
    consumed,       \* units removed from the buffer
    buffer,         \* ctx->buffer
    pendingPackets, \* the packets cut in this handleRead and not yet dispatched
    dispatched,     \* history: the packets answered, queued or refused, in order
    pc              \* "wait", "recv", "cut", "dispatch" or "closed"

peerVars == <<script, sent, peer>>
vars == <<script, sent, peer, ready, received, consumed, buffer, pendingPackets,
          dispatched, pc>>

Init ==
    /\ script \in Scripts
    /\ sent = 0 /\ received = 0 /\ consumed = 0
    /\ peer = "up"
    /\ ready = FALSE
    /\ buffer = NewRing(InitialCapacity)
    /\ pendingPackets = <<>>
    /\ dispatched = <<>>
    /\ pc = "wait"

-----------------------------------------------------------------------------
(* The peer and the kernel. *)

PeerSends ==
    /\ peer = "up" /\ pc # "closed"
    /\ \E n \in 1 .. Len(script.stream) - sent : sent' = sent + n
    /\ ready' = TRUE
    /\ UNCHANGED <<script, peer, received, consumed, buffer, pendingPackets, dispatched, pc>>

PeerLeaves ==
    /\ peer = "up" /\ pc # "closed"
    /\ peer' \in {"fin", "rst"}
    /\ ready' = TRUE
    /\ UNCHANGED <<script, sent, received, consumed, buffer, pendingPackets, dispatched, pc>>

-----------------------------------------------------------------------------
(* The SubReactor thread. *)

EpollWait ==
    /\ pc = "wait" /\ ready
    /\ ready' = FALSE
    /\ pc' = "recv"
    /\ UNCHANGED <<peerVars, received, consumed, buffer, pendingPackets, dispatched>>

\* handleDisconnect and the return from handleRead, with what it had cut.
HandleDisconnect ==
    /\ pc' = "closed"
    /\ pendingPackets' = <<>>
    /\ UNCHANGED <<peerVars, ready, received, consumed, buffer, dispatched>>

RecvData ==
    /\ pc = "recv" /\ peer # "rst" /\ received < sent
    /\ received' = received + Smaller(ReadSize, sent - received)
    /\ buffer' = RingAppend(buffer, SubSeq(script.stream, received + 1, received'))
    /\ UNCHANGED <<peerVars, ready, consumed, pendingPackets, dispatched, pc>>

RecvEnds ==
    /\ pc = "recv"
    /\ peer = "rst" \/ (peer = "fin" /\ received = sent)
    /\ HandleDisconnect

\* Mutation: one recv for each event.
RecvOnce ==
    /\ pc = "recv" /\ peer = "up" /\ received > consumed
    /\ pc' = "cut"
    /\ UNCHANGED <<peerVars, ready, received, consumed, buffer, pendingPackets, dispatched>>

\* Mutation: EAGAIN does not leave the loop.
RecvSpins ==
    /\ pc = "recv" /\ peer = "up" /\ received = sent
    /\ UNCHANGED vars

RecvEAGAIN ==
    /\ pc = "recv" /\ peer = "up" /\ received = sent
    /\ pc' = "cut"
    /\ UNCHANGED <<peerVars, ready, received, consumed, buffer, pendingPackets, dispatched>>

TotalLength == Number(RingPeek(buffer, 0, LengthSize))

IllegalLength == TotalLength < HeaderSize \/ TotalLength > MaxPacket

CutPacket ==
    /\ pc = "cut" /\ buffer.size >= LengthSize
    /\ ~ IllegalLength
    /\ buffer.size >= TotalLength
    /\ LET type == Number(RingPeek(buffer, LengthSize, HeaderSize - LengthSize))
           body == RingPeek(buffer, HeaderSize, TotalLength - HeaderSize)
           json == DecodeProtoToJson(type, [i \in DOMAIN body |-> body[i].field])
       IN  pendingPackets' = Append(pendingPackets, [type |-> type, json |-> json])
    /\ buffer' = RingConsume(buffer, TotalLength)
    /\ consumed' = consumed + TotalLength
    /\ UNCHANGED <<peerVars, ready, received, dispatched, pc>>

CutBad ==
    /\ pc = "cut" /\ buffer.size >= LengthSize
    /\ IllegalLength
    /\ HandleDisconnect

CutEnds ==
    /\ pc = "cut"
    /\ buffer.size < LengthSize \/ (~ IllegalLength /\ buffer.size < TotalLength)
    /\ pc' = "dispatch"
    /\ UNCHANGED <<peerVars, ready, received, consumed, buffer, pendingPackets, dispatched>>

\* A heartbeat is answered; any other packet becomes a task unless the queue
\* of the thread pool is full, which ends in an answer that the server is
\* busy.
Outcomes(type) == IF type = 2 THEN {"answer"} ELSE {"task", "busy"}

Dispatch ==
    /\ pc = "dispatch" /\ pendingPackets # <<>>
    /\ \E how \in Outcomes(Head(pendingPackets).type) :
           dispatched' = Append(dispatched, [packet |-> Head(pendingPackets), how |-> how])
    /\ pendingPackets' = Tail(pendingPackets)
    /\ UNCHANGED <<peerVars, ready, received, consumed, buffer, pc>>

DispatchEnds ==
    /\ pc = "dispatch" /\ pendingPackets = <<>>
    /\ pc' = "wait"
    /\ UNCHANGED <<peerVars, ready, received, consumed, buffer, pendingPackets, dispatched>>

HandleRead ==
    \/ RecvData \/ RecvEnds \/ RecvEAGAIN
    \/ CutPacket \/ CutBad \/ CutEnds
    \/ Dispatch \/ DispatchEnds

Next == PeerSends \/ PeerLeaves \/ EpollWait \/ HandleRead

Spec == Init /\ [][Next]_vars

\* The SubReactor thread runs for as long as the server does.
FairSpec == Spec /\ WF_vars(EpollWait) /\ WF_vars(HandleRead)

-----------------------------------------------------------------------------
(* Properties.                                                             *)

Packets == script.packets
Handed == [i \in DOMAIN dispatched |-> dispatched[i].packet] \o pendingPackets
EndOf(n) == IF n = 0 THEN 0 ELSE Packets[n].end

TypeOK ==
    /\ script \in Scripts
    /\ sent \in 0 .. Len(script.stream)
    /\ received \in 0 .. sent
    /\ consumed \in 0 .. received
    /\ peer \in {"up", "fin", "rst"}
    /\ ready \in BOOLEAN
    /\ Capacity(buffer) \in Capacities
    /\ buffer \in [buf : Seq(Units), read : 0 .. Capacity(buffer) - 1,
                   size : 0 .. Capacity(buffer)]
    /\ pc \in {"wait", "recv", "cut", "dispatch", "closed"}

\* However the stream is split by the network and by recv, and wherever the
\* ring wraps or grows, the buffer holds exactly the units that were read
\* and not yet consumed, in order.
BufferHoldsStream ==
    Contents(buffer) = SubSeq(script.stream, consumed + 1, received)

\* handleRead cuts the stream where the peer's packets end, hands them on
\* once each and in order, never goes past an illegal length, and what
\* processPacket reads from a decoded body is what the peer put in it.  Of
\* a text it reads the part before the first ',' or '}'; the target of a
\* chat message is the subject of ChatKeepsTarget.
PacketsAsSent ==
    /\ Len(Handed) <= Len(Packets)
    /\ pc # "closed" => consumed = EndOf(Len(Handed))
    /\ \A i \in DOMAIN Handed :
          LET read == Request(Handed[i].type, Handed[i].json)
              meant == Packets[i].request
          IN  /\ Packets[i].legal
              /\ Handed[i].type = Packets[i].type
              /\ DOMAIN read = DOMAIN meant
              /\ \A k \in DOMAIN read :
                    \/ Handed[i].type = 1 /\ k = "target"
                    \/ read[k] = IF k = "msg_ids" THEN meant[k] ELSE FirstPiece(meant[k])

\* README.md: type 1 is a private or broadcast chat message.  The target a
\* client names in it is the one processPacket sends the message to.
ChatKeepsTarget ==
    \A i \in DOMAIN Handed :
        Handed[i].type = 1 =>
            Request(1, Handed[i].json).target = Packets[i].request.target

\* The epoll descriptor is edge triggered: when the thread waits and no
\* event is due, everything the kernel has was read, every packet complete
\* in it was cut and dispatched, and an illegal length has ended the
\* connection.
NothingOverlooked ==
    pc = "wait" /\ ~ ready =>
        /\ received = sent
        /\ Len(dispatched) < Len(Packets) => sent < EndOf(Len(dispatched) + 1)

\* Between two events less than one packet stays in the buffer, so that a
\* peer that sends no complete packet holds at most MAX_PACKET_SIZE bytes.
LeftoverIsSmall == pc = "wait" => buffer.size < MaxPacket

\* In the end every packet that arrived in full is answered, queued or
\* refused, unless the connection ends; an illegal length ends it.  (The
\* stream is finite and what is dispatched stays so, hence <>[] for what is
\* a leads-to for each packet.)
ArrivedIsDispatched ==
    <>[](pc = "closed"
         \/ \A i \in DOMAIN Packets : sent >= EndOf(i) => Len(dispatched) >= i)
=============================================================================
