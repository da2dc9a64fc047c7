------------------------------ MODULE SendPath ------------------------------
(***************************************************************************)
(* The outgoing path of one client connection: sendPacket, called by any   *)
(* thread, appends a packet to ctx->pendingSendBuffer and arms EPOLLOUT;   *)
(* handleWrite, run by the connection's SubReactor thread, swaps the two   *)
(* send buffers, writes to the socket outside the lock and disarms         *)
(* EPOLLOUT.  Each critical section of ctx->sendMutex is one step, and so  *)
(* is each system call made outside it.                                    *)
(*                                                                         *)
(* A byte is represented by the number of the packet it belongs to.  The   *)
(* two PoolSendBuffers are the members of blocks; activeSendBuffer is the  *)
(* block numbered active and pendingSendBuffer the other, so that swap()   *)
(* is a change of active and a raw pointer into a buffer is a block number *)
(* and an offset.  The capacity of a buffer is not represented.            *)
(***************************************************************************)
EXTENDS Integers, Sequences

CONSTANTS
    Workers,      \* threads that reach the context through a request it made
    Broadcasters, \* threads that reach it through snapshotAllClients
    IO,           \* the SubReactor thread that owns the connection
    PacketLens,   \* the values totalLength can take
    MaxPending,   \* MAX_PENDING_SEND_BUFFER
    Budget,       \* WRITE_FLUSH_BUDGET_BYTES
    KernelCap,    \* bytes the socket's send queue holds
    MaxCalls,     \* bound: after this many packets only the I/O thread sends
    MaxInbound,   \* bound: times the peer sends data
    MaxReplies    \* bound: packets answered from the I/O thread in one read

Senders == Workers \cup Broadcasters
Threads == Senders \cup {IO}
Slots == {0, 1}

ASSUME SendPathAssumption ==
    /\ IO \notin Senders
    /\ PacketLens \subseteq Nat \ {0}
    /\ MaxPending \in Nat
    /\ Budget \in Nat \ {0}
    /\ KernelCap \in Nat \ {0}
    /\ MaxCalls \in Nat
    /\ MaxInbound \in Nat
    /\ MaxReplies \in Nat

VARIABLES
    blocks,       \* the two send buffers: data = m_data[0..m_size), off = m_offset
    active,       \* which of them is activeSendBuffer
    pendingBytes, \* ctx->pendingBytes
    writeArmed,   \* ctx->writeArmed
    accepting,    \* progress of handleAccept: "inMap", "epollFd" or "added"
    mapped,       \* the context is in m_clientShards
    pc,           \* what each thread does next
    io,           \* the locals of SubReactor::run, handleRead and handleWrite
    served,       \* a packet of this connection has been handed to the workers
    interest,     \* kernel: events registered for the fd, {} when not registered
    ready,        \* kernel: the fd is in the epoll ready list
    space,        \* kernel: free bytes in the socket's send queue
    open,         \* kernel: the server has not closed the fd
    inbound,      \* kernel: unread bytes in the socket's receive queue
    peer,         \* the other end: "up", "fin" (closed) or "rst" (reset)
    wire,         \* history: every byte the kernel took, in order
    accepted,     \* history: every byte appended by sendPacket, in order
    calls,        \* history: number of calls of sendPacket
    arrivals      \* history: number of times the peer sent data

ctxVars == <<blocks, active, pendingBytes, writeArmed>>
epollVars == <<interest, ready>>
peerVars == <<inbound, peer, arrivals, served>>
connVars == <<accepting, mapped, open>>
histVars == <<wire, accepted, calls>>
vars == <<ctxVars, epollVars, peerVars, connVars, histVars, pc, io, space>>

Min2(a, b) == IF a < b THEN a ELSE b

-----------------------------------------------------------------------------
(* PoolSendBuffer.                                                         *)

EmptyBlock == [data |-> <<>>, off |-> 0]

RemainingBytes(b) == SubSeq(b.data, b.off + 1, Len(b.data))
Remaining(b) == Len(b.data) - b.off

AppendTo(b, bytes) == [data |-> RemainingBytes(b) \o bytes, off |-> 0]

Consume(b, n) ==
    IF b.off + n >= Len(b.data) THEN EmptyBlock ELSE [b EXCEPT !.off = @ + n]

\* Mutation: currentData() forgets m_offset.
ReadFromStart(b, off, n) ==
    [i \in 1..n |-> IF i <= Len(b.data) THEN b.data[i] ELSE 0]

\* What a raw pointer into a block reads: 0 past the end of the live bytes.
ReadAt(b, off, n) ==
    [i \in 1..n |-> IF off + i <= Len(b.data) THEN b.data[off + i] ELSE 0]

Pending == blocks[1 - active]
Active == blocks[active]

-----------------------------------------------------------------------------
(* The kernel: an edge-triggered epoll entry for the fd.                   *)

Writable == space > 0 \/ peer = "rst"
Readable == inbound \/ peer # "up"

\* The events a poll of the fd reports, given the registered events.
Poll(ev) ==
    {e \in ev : (e = "IN" /\ Readable) \/ (e = "OUT" /\ Writable)}
       \cup (IF ev # {} /\ peer = "rst" THEN {"HUP"} ELSE {})

\* epoll_ctl(MOD): no effect on an fd that is not registered; otherwise the
\* new events are polled at once.
EpollMod(ev) ==
    IF interest = {}
    THEN UNCHANGED epollVars
    ELSE /\ interest' = ev
         /\ ready' = (ready \/ Poll(ev) # {})

-----------------------------------------------------------------------------
(* The rest of handleAccept, after addClientCtx(ctx): SubReactor::addFd    *)
(* stores the epoll descriptor in the context and then registers the fd.   *)

SetEpollFd ==
    /\ accepting = "inMap"
    /\ accepting' = "epollFd"
    /\ UNCHANGED <<ctxVars, epollVars, peerVars, mapped, open, histVars, pc,
                   io, space>>

EpollAdd ==
    /\ accepting = "epollFd"
    /\ accepting' = "added"
    /\ interest' = IF open THEN {"IN"} ELSE {}
    /\ ready' = (open /\ Readable)
    /\ UNCHANGED <<ctxVars, peerVars, mapped, open, histVars, pc, io, space>>

-----------------------------------------------------------------------------
(* sendPacket.                                                             *)

\* Where a thread continues when sendPacket returns.
Back(t) == IF t = IO THEN "dispatch" ELSE "idle"

\* A worker holds the context because of a packet read from the connection, a
\* broadcast because of its snapshot; the I/O thread answers what it has read.
MayCall(t) ==
    \/ t \in Broadcasters /\ pc[t] = "snapshot" /\ calls < MaxCalls
    \/ t \in Workers /\ pc[t] = "idle" /\ served /\ calls < MaxCalls
    \/ t = IO /\ pc[t] = "dispatch" /\ io.replies > 0

\* snapshotAllClients: the context is in the map, registered or not.
Snapshot(t) ==
    /\ pc[t] = "idle"
    /\ mapped
    /\ pc' = [pc EXCEPT ![t] = "snapshot"]
    /\ UNCHANGED <<ctxVars, epollVars, peerVars, connVars, histVars, io,
                   space>>

\* Mutation: the packet's own length is not counted.
FitsBefore(n) == pendingBytes <= MaxPending

Fits(n) == pendingBytes + n <= MaxPending

\* Mutation: the registration forgets EPOLLOUT.
ReadEvents == {"IN"}

WriteEvents == {"IN", "OUT"}

\* The critical section: refuse the packet, or append it, count it and arm
\* EPOLLOUT if it was not armed.
SendPacket(t, n) ==
    /\ MayCall(t)
    /\ calls' = calls + 1
    /\ io' = IF t = IO THEN [io EXCEPT !.replies = @ - 1] ELSE io
    /\ IF Fits(n)
       THEN LET bytes == [i \in 1..n |-> calls + 1] IN
            /\ blocks' = [blocks EXCEPT ![1 - active] = AppendTo(@, bytes)]
            /\ accepted' = accepted \o bytes
            /\ pendingBytes' = pendingBytes + n
            /\ writeArmed' = TRUE
            /\ pc' = [pc EXCEPT ![t] = IF writeArmed THEN Back(t) ELSE "enable"]
       ELSE /\ pc' = [pc EXCEPT ![t] = "disconnect"]
            /\ UNCHANGED <<blocks, pendingBytes, writeArmed, accepted>>
    /\ UNCHANGED <<active, epollVars, peerVars, connVars, wire, space>>

\* After the lock: epoll_ctl(MOD, EPOLLIN | EPOLLOUT), unless the context has
\* no epoll descriptor yet.
EnableWrite(t) ==
    /\ pc[t] = "enable"
    /\ pc' = [pc EXCEPT ![t] = Back(t)]
    /\ IF accepting = "inMap" THEN UNCHANGED epollVars ELSE EpollMod(WriteEvents)
    /\ UNCHANGED <<ctxVars, peerVars, connVars, histVars, io, space>>

\* handleDisconnect(fd): nothing when the fd is not in the map any more;
\* otherwise unmap the context, unregister the fd and close it.
HandleDisconnect(t) ==
    /\ pc[t] = "disconnect"
    /\ pc' = [pc EXCEPT ![t] = Back(t)]
    /\ IF mapped
       THEN /\ mapped' = FALSE
            /\ interest' = {}
            /\ ready' = FALSE
            /\ open' = FALSE
       ELSE UNCHANGED <<mapped, epollVars, open>>
    /\ UNCHANGED <<ctxVars, peerVars, accepting, histVars, io, space>>

-----------------------------------------------------------------------------
(* SubReactor::run and handleRead.                                         *)

\* epoll_wait takes the fd from the ready list and polls it; run() drops the
\* event when the fd is not in the map.
EpollWait ==
    /\ pc[IO] = "idle"
    /\ ready
    /\ ready' = FALSE
    /\ LET rev == IF mapped THEN Poll(interest) ELSE {} IN
          /\ io' = [io EXCEPT !.rev = rev]
          /\ pc' = [pc EXCEPT ![IO] = IF rev = {} THEN "idle" ELSE "dispatch"]
    /\ UNCHANGED <<ctxVars, interest, peerVars, connVars, histVars, space>>

\* handleRead drains the socket.  End of file, an error or a packet with a bad
\* length disconnects; of the packets read, heartbeats and packets the worker
\* queue has no room for are answered from this thread, the others go to the
\* workers.
HandleRead ==
    /\ pc[IO] = "dispatch"
    /\ "IN" \in io.rev
    /\ inbound' = FALSE
    /\ \/ /\ peer # "up" \/ ~open \/ inbound
          /\ io' = [io EXCEPT !.rev = @ \ {"IN"}]
          /\ pc' = [pc EXCEPT ![IO] = "disconnect"]
          /\ UNCHANGED served
       \/ /\ peer = "up" /\ open
          /\ \E k \in 0..MaxReplies :
                /\ k > 0 => inbound
                /\ io' = [io EXCEPT !.rev = @ \ {"IN"}, !.replies = k]
          /\ served' \in {served, served \/ inbound}
          /\ UNCHANGED pc
    /\ UNCHANGED <<ctxVars, epollVars, peer, arrivals, connVars, histVars,
                   space>>

\* EPOLLERR or EPOLLHUP, handled last.
HandleHangup ==
    /\ pc[IO] = "dispatch"
    /\ io.rev = {"HUP"} /\ io.replies = 0
    /\ io' = [io EXCEPT !.rev = {}]
    /\ pc' = [pc EXCEPT ![IO] = "disconnect"]
    /\ UNCHANGED <<ctxVars, epollVars, peerVars, connVars, histVars, space>>

EventsDone ==
    /\ pc[IO] = "dispatch"
    /\ io.rev = {} /\ io.replies = 0
    /\ pc' = [pc EXCEPT ![IO] = "idle"]
    /\ UNCHANGED <<ctxVars, epollVars, peerVars, connVars, histVars, io,
                   space>>

-----------------------------------------------------------------------------
(* handleWrite.                                                            *)

HandleWrite ==
    /\ pc[IO] = "dispatch"
    /\ "OUT" \in io.rev /\ "IN" \notin io.rev /\ io.replies = 0
    /\ io' = [io EXCEPT !.rev = @ \ {"OUT"}, !.flushed = 0]
    /\ pc' = [pc EXCEPT ![IO] = "pick"]
    /\ UNCHANGED <<ctxVars, epollVars, peerVars, connVars, histVars, space>>

\* Mutation: swap without waiting for the active buffer to be empty.
SwapAlways == Remaining(Pending) > 0

MustSwap == Remaining(Active) = 0 /\ Remaining(Pending) > 0

\* The head of the loop and its critical section: swap in the pending bytes
\* when the active buffer is empty and keep a raw pointer to what comes next.
PickBytes ==
    /\ pc[IO] = "pick"
    /\ LET a == IF io.flushed < Budget /\ MustSwap THEN 1 - active ELSE active
           n == Min2(Remaining(blocks[a]), Budget - io.flushed) IN
          /\ active' = a
          /\ IF io.flushed >= Budget \/ n = 0
             THEN /\ pc' = [pc EXCEPT ![IO] = "finish"]
                  /\ UNCHANGED io
             ELSE /\ pc' = [pc EXCEPT ![IO] = "send"]
                  /\ io' = [io EXCEPT !.slot = a, !.off = blocks[a].off, !.canSend = n]
    /\ UNCHANGED <<blocks, pendingBytes, writeArmed, epollVars, peerVars,
                   connVars, histVars, space>>

\* send(fd, ptr, canSend), outside the lock: the kernel takes what fits, or
\* fails with EAGAIN when nothing does, or with another error.
Send ==
    /\ pc[IO] = "send"
    /\ \/ /\ open /\ peer # "rst" /\ space > 0
          /\ LET n == Min2(io.canSend, space) IN
                /\ wire' = wire \o ReadAt(blocks[io.slot], io.off, n)
                /\ space' = space - n
                /\ io' = [io EXCEPT !.sent = n]
          /\ pc' = [pc EXCEPT ![IO] = "consume"]
       \/ /\ open /\ peer # "rst" /\ space = 0
          /\ pc' = [pc EXCEPT ![IO] = "dispatch"]
          /\ UNCHANGED <<wire, io, space>>
       \/ /\ ~open \/ peer = "rst"
          /\ pc' = [pc EXCEPT ![IO] = "disconnect"]
          /\ UNCHANGED <<wire, io, space>>
    /\ UNCHANGED <<ctxVars, epollVars, peerVars, connVars, accepted, calls>>

\* The critical section after a successful send.
ConsumeSent ==
    /\ pc[IO] = "consume"
    /\ blocks' = [blocks EXCEPT ![active] = Consume(@, io.sent)]
    /\ pendingBytes' = IF pendingBytes >= io.sent THEN pendingBytes - io.sent ELSE 0
    /\ io' = [io EXCEPT !.flushed = @ + io.sent, !.sent = 0]
    /\ pc' = [pc EXCEPT ![IO] = "pick"]
    /\ UNCHANGED <<active, writeArmed, epollVars, peerVars, connVars, histVars,
                   space>>

\* Mutation: bytes appended since the last look are not seen.
NothingActive == Remaining(Active) = 0

NothingLeft == Remaining(Active) = 0 /\ Remaining(Pending) = 0

\* The last critical section: disarm when nothing is left.  The code's second
\* test of the buffers runs under the same lock and sees what the first saw.
Finish ==
    /\ pc[IO] = "finish"
    /\ IF NothingLeft
       THEN /\ writeArmed' = FALSE
            /\ pc' = [pc EXCEPT ![IO] = "disable"]
       ELSE /\ pc' = [pc EXCEPT ![IO] = "dispatch"]
            /\ UNCHANGED writeArmed
    /\ UNCHANGED <<blocks, active, pendingBytes, epollVars, peerVars, connVars,
                   histVars, io, space>>

\* After the lock: epoll_ctl(MOD, EPOLLIN).
DisableWrite ==
    /\ pc[IO] = "disable"
    /\ pc' = [pc EXCEPT ![IO] = "dispatch"]
    /\ EpollMod({"IN"})
    /\ UNCHANGED <<ctxVars, peerVars, connVars, histVars, io, space>>

-----------------------------------------------------------------------------
(* The peer and the network.                                               *)

\* The peer reads n bytes: an unwritable socket becomes writable, which is
\* the edge that an EPOLLOUT registration reports.
PeerReads(n) ==
    /\ open /\ peer = "up"
    /\ space + n <= KernelCap
    /\ space' = space + n
    /\ ready' = (ready \/ (space = 0 /\ "OUT" \in interest))
    /\ UNCHANGED <<ctxVars, interest, peerVars, connVars, histVars, pc, io>>

\* Data arrives: an edge for EPOLLIN.
PeerSends ==
    /\ open /\ peer = "up"
    /\ arrivals < MaxInbound
    /\ arrivals' = arrivals + 1
    /\ inbound' = TRUE
    /\ ready' = (ready \/ "IN" \in interest)
    /\ UNCHANGED <<ctxVars, interest, peer, served, connVars, histVars, pc, io,
                   space>>

PeerCloses(how) ==
    /\ open /\ peer = "up"
    /\ peer' = how
    /\ ready' = (ready \/ interest # {})
    /\ UNCHANGED <<ctxVars, interest, inbound, arrivals, served, connVars,
                   histVars, pc, io, space>>

-----------------------------------------------------------------------------
Init ==
    /\ blocks = [s \in Slots |-> EmptyBlock]
    /\ active = 0
    /\ pendingBytes = 0
    /\ writeArmed = FALSE
    /\ accepting = "inMap"
    /\ mapped = TRUE
    /\ pc = [t \in Threads |-> "idle"]
    /\ io = [rev |-> {}, replies |-> 0, flushed |-> 0, slot |-> 0, off |-> 0,
             canSend |-> 0, sent |-> 0]
    /\ served = FALSE
    /\ interest = {}
    /\ ready = FALSE
    /\ space = KernelCap
    /\ open = TRUE
    /\ inbound = FALSE
    /\ peer = "up"
    /\ wire = <<>>
    /\ accepted = <<>>
    /\ calls = 0
    /\ arrivals = 0

HandleWriteStep == PickBytes \/ Send \/ ConsumeSent \/ Finish \/ DisableWrite
IOStep ==
    \/ EpollWait \/ HandleRead \/ HandleHangup \/ EventsDone
    \/ HandleWrite \/ HandleWriteStep
    \/ EnableWrite(IO) \/ HandleDisconnect(IO)
    \/ \E n \in PacketLens : SendPacket(IO, n)
SenderFinishes(t) == EnableWrite(t) \/ HandleDisconnect(t)
AcceptStep == SetEpollFd \/ EpollAdd
PeerDrains == \E n \in 1..KernelCap : PeerReads(n)

Next ==
    \/ AcceptStep
    \/ IOStep
    \/ \E t \in Broadcasters : Snapshot(t)
    \/ \E t \in Senders : SenderFinishes(t) \/ \E n \in PacketLens : SendPacket(t, n)
    \/ PeerDrains
    \/ PeerSends
    \/ \E how \in {"fin", "rst"} : PeerCloses(how)

Spec == Init /\ [][Next]_vars

\* The threads are scheduled, and the peer keeps reading while it is up.
Fairness ==
    /\ WF_vars(AcceptStep)
    /\ WF_vars(IOStep)
    /\ \A t \in Senders : WF_vars(SenderFinishes(t))
    /\ WF_vars(PeerDrains)

FairSpec == Spec /\ Fairness

-----------------------------------------------------------------------------
(* Properties.                                                             *)

\* Every variable keeps its type: among others, the offset of a buffer never
\* passes its end and the socket's queue never holds more than its capacity.
TypeOK ==
    /\ blocks \in [Slots -> [data : Seq(Nat), off : Nat]]
    /\ \A s \in Slots : blocks[s].off <= Len(blocks[s].data)
    /\ active \in Slots
    /\ pendingBytes \in Nat
    /\ writeArmed \in BOOLEAN
    /\ accepting \in {"inMap", "epollFd", "added"}
    /\ mapped \in BOOLEAN /\ open \in BOOLEAN /\ ready \in BOOLEAN
    /\ pc \in [Threads -> {"idle", "snapshot", "enable", "disconnect", "dispatch",
                           "pick", "send", "consume", "finish", "disable"}]
    /\ io \in [rev : SUBSET {"IN", "OUT", "HUP"}, replies : Nat, flushed : Nat,
               slot : Slots, off : Nat, canSend : Nat, sent : Nat]
    /\ interest \in {{}, {"IN"}, {"IN", "OUT"}}
    /\ space \in 0..KernelCap
    /\ inbound \in BOOLEAN /\ served \in BOOLEAN
    /\ peer \in {"up", "fin", "rst"}
    /\ wire \in Seq(Nat) /\ accepted \in Seq(Nat)
    /\ calls \in Nat /\ arrivals \in Nat

\* The accepted bytes the kernel has not taken: what send() has written and
\* handleWrite has not yet consumed is excluded.
Unsent ==
    SubSeq(Active.data, Active.off + io.sent + 1, Len(Active.data))
        \o RemainingBytes(Pending)

\* No byte is lost, repeated, reordered or corrupted between sendPacket and
\* the socket, although handleWrite reads the active buffer without the lock
\* and the buffers are swapped, compacted and refilled meanwhile: the bytes
\* on the wire followed by the bytes in the buffers are the accepted bytes.
StreamIntact == wire \o Unsent = accepted

\* The counter that decides on backpressure is exactly the number of bytes in
\* the two buffers, so the clamp to 0 in handleWrite never hides a loss, and
\* the buffers never hold more than MAX_PENDING_SEND_BUFFER.
BacklogCounted ==
    /\ pendingBytes = Remaining(Active) + Remaining(Pending)
    /\ pendingBytes <= MaxPending

\* sendPacket calls epoll_ctl only when writeArmed was false, so bytes left in
\* a buffer while writeArmed is false would wait for the next packet.
BacklogIsArmed == Remaining(Active) + Remaining(Pending) > 0 => writeArmed

\* The send path implements a bounded, reliable, in-order byte stream.
Stream == INSTANCE ByteStream WITH delivered <- wire
ImplementsByteStream == Stream!StreamSpec

\* writeArmed means what its comment says: once no thread is on its way to
\* epoll_ctl, a connection marked as armed is registered for EPOLLOUT.
ArmedMeansListening ==
    /\ writeArmed /\ open /\ accepting = "added"
    /\ \A t \in Threads : pc[t] \notin {"enable", "disable", "disconnect"}
    => "OUT" \in interest

\* Backlogged bytes are written out as long as the peer keeps reading.
BacklogDrains ==
    wire # accepted ~> (wire = accepted \/ ~open \/ peer # "up")
=============================================================================
