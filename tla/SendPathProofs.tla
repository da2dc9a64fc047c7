--------------------------- MODULE SendPathProofs ---------------------------
(***************************************************************************)
(* Proofs about what a worker waits for and what it leaves to others when  *)
(* it answers: about SendPath for every number of threads, every set of    *)
(* packet lengths, backlog limit, flush budget and socket queue size, and, *)
(* in the last section, about the connections to Redis and MySQL taken     *)
(* from ConnPools, for any finite sets of threads and any sizes.           *)
(***************************************************************************)
EXTENDS SendPath, ConnPools, SequenceTheorems, TLAPS

-----------------------------------------------------------------------------
(* PoolSendBuffer: a block is a sequence of bytes with an offset in it.     *)

Blocks == {b \in [data : Seq(Nat), off : Nat] : b.off <= Len(b.data)}

\* The bytes of a block from the n-th after its offset on.
From(b, n) == SubSeq(b.data, b.off + n + 1, Len(b.data))

\* Appending is associative on byte sequences: how the bytes already sent, the
\* ones being sent and the backlog are bracketed does not matter.
LEMMA Associative ==
    \A s, t, u \in Seq(Nat) : s \o (t \o u) = (s \o t) \o u
<1> TAKE s, t, u \in Seq(Nat)
<1>1. (s \o t) \o u = s \o (t \o u)
  BY SMTT(30), ConcatAssociative
<1> QED BY <1>1, Zenon

\* The live bytes of a block are a sequence of remaining() bytes, and so is
\* what follows the first n of them.
LEMMA FromProperties ==
    ASSUME NEW b \in Blocks, NEW n \in 0 .. Remaining(b)
    PROVE  /\ From(b, n) \in Seq(Nat)
           /\ Len(From(b, n)) = Remaining(b) - n
           /\ Remaining(b) \in Nat
           /\ RemainingBytes(b) = From(b, 0)
<1>1. b.data \in Seq(Nat) /\ b.off \in Nat /\ Len(b.data) \in Nat /\ b.off <= Len(b.data)
  BY DEF Blocks
<1>2. \A i \in b.off + n + 1 .. Len(b.data) : b.data[i] \in Nat
  BY SMTT(30), <1>1 DEF Remaining
<1>3. /\ From(b, n) \in Seq(Nat)
      /\ Len(From(b, n)) = IF b.off + n + 1 <= Len(b.data)
                           THEN Len(b.data) - (b.off + n + 1) + 1 ELSE 0
  <2>1. b.off + n + 1 \in Int /\ Len(b.data) \in Int
    BY <1>1 DEF Remaining
  <2> QED BY <1>2, <2>1, SubSeqProperties DEF From
<1>4. RemainingBytes(b) = From(b, 0)
  <2>1. b.off + 0 + 1 = b.off + 1
    BY <1>1
  <2> QED BY <2>1 DEF RemainingBytes, From
<1>5. Remaining(b) = Len(b.data) - b.off /\ Remaining(b) \in Nat
  BY <1>1 DEF Remaining
<1>6. n \in Nat /\ n <= Len(b.data) - b.off
  BY <1>5
<1>7. Len(From(b, n)) = Remaining(b) - n
  BY SMTT(30), <1>1, <1>3, <1>5, <1>6
<1> QED
  BY <1>3, <1>4, <1>5, <1>7

\* append compacts the block and adds the new bytes after the live ones.
LEMMA AppendToProperties ==
    ASSUME NEW b \in Blocks, NEW x \in Seq(Nat)
    PROVE  /\ AppendTo(b, x) \in Blocks
           /\ RemainingBytes(AppendTo(b, x)) = RemainingBytes(b) \o x
           /\ Remaining(AppendTo(b, x)) = Remaining(b) + Len(x)
<1>1. RemainingBytes(b) \in Seq(Nat) /\ Len(RemainingBytes(b)) = Remaining(b) /\ Remaining(b) \in Nat
  <2>1. Remaining(b) \in Nat
    BY DEF Blocks, Remaining
  <2>2. 0 \in 0 .. Remaining(b)
    BY <2>1
  <2> QED BY <2>1, <2>2, FromProperties
<1> DEFINE y == RemainingBytes(b) \o x
<1>2. y \in Seq(Nat) /\ Len(y) = Remaining(b) + Len(x)
  BY <1>1, ConcatProperties
<1>3. AppendTo(b, x) = [data |-> y, off |-> 0]
  BY DEF AppendTo
<1> HIDE DEF y
<1>4. AppendTo(b, x) \in Blocks
  BY <1>2, <1>3 DEF Blocks
<1>5. RemainingBytes(AppendTo(b, x)) = SubSeq(y, 1, Len(y))
  BY <1>3 DEF RemainingBytes
<1>6. SubSeq(y, 1, Len(y)) = y
  BY <1>2, SubSeqFull
<1>7. Remaining(AppendTo(b, x)) = Len(y)
  BY <1>2, <1>3 DEF Remaining
<1> QED
  BY <1>2, <1>4, <1>5, <1>6, <1>7 DEF y

\* consume drops exactly the bytes that were sent.
LEMMA ConsumeProperties ==
    ASSUME NEW b \in Blocks, NEW n \in 0 .. Remaining(b)
    PROVE  /\ Consume(b, n) \in Blocks
           /\ RemainingBytes(Consume(b, n)) = From(b, n)
           /\ Remaining(Consume(b, n)) = Remaining(b) - n
<1>1. b.data \in Seq(Nat) /\ b.off \in Nat /\ Len(b.data) \in Nat /\ b.off <= Len(b.data)
      /\ n \in Nat /\ n <= Len(b.data) - b.off
  BY DEF Blocks, Remaining
<1>2. CASE b.off + n >= Len(b.data)
  <2>1. Consume(b, n) = [data |-> <<>>, off |-> 0]
    BY <1>2 DEF Consume, EmptyBlock
  <2>2. From(b, n) = <<>>
    BY <1>1, <1>2, SubSeqEmpty DEF From
  <2>3. RemainingBytes([data |-> <<>>, off |-> 0]) = <<>>
    BY SubSeqEmpty DEF RemainingBytes
  <2>4. [data |-> <<>>, off |-> 0] \in Blocks /\ Remaining([data |-> <<>>, off |-> 0]) = 0
    BY DEF Blocks, Remaining
  <2> QED BY <1>1, <1>2, <2>1, <2>2, <2>3, <2>4 DEF Remaining
<1>3. CASE ~(b.off + n >= Len(b.data))
  <2> DEFINE r == Consume(b, n)
  <2>1. r.data = b.data /\ r.off = b.off + n /\ r \in [data : Seq(Nat), off : Nat]
    <3>1. b \in [data : Seq(Nat), off : Nat] /\ b.off + n \in Nat
      BY <1>1 DEF Blocks
    <3>2. r = [b EXCEPT !.off = b.off + n]
      BY <1>3, Zenon DEF Consume
    <3> HIDE DEF r
    <3> QED BY <3>1, <3>2, Zenon
  <2> HIDE DEF r
  <2>2. r \in Blocks /\ Remaining(r) = Remaining(b) - n
    BY <1>1, <1>3, <2>1 DEF Blocks, Remaining
  <2>3. RemainingBytes(r) = From(b, n)
    BY <2>1 DEF RemainingBytes, From
  <2> QED BY <2>2, <2>3 DEF r
<1> QED
  BY <1>2, <1>3

\* A read of n live bytes through a pointer at the offset yields the first n
\* of them: with the bytes that follow they make up those that were live.
LEMMA ReadProperties ==
    ASSUME NEW b \in Blocks, NEW n \in 0 .. Remaining(b)
    PROVE  /\ ReadAt(b, b.off, n) \in Seq(Nat)
           /\ Len(ReadAt(b, b.off, n)) = n
           /\ ReadAt(b, b.off, n) \o From(b, n) = RemainingBytes(b)
<1>1. b.data \in Seq(Nat) /\ b.off \in Nat /\ Len(b.data) \in Nat /\ b.off <= Len(b.data)
      /\ n \in Nat /\ n <= Len(b.data) - b.off
  BY DEF Blocks, Remaining
<1> DEFINE m == b.off + 1
           k == b.off + n
<1>2. \A i \in m .. k : b.data[i] \in Nat
  <2>1. \A i \in m .. k : i \in 1 .. Len(b.data)
    BY <1>1
  <2>2. \A i \in 1 .. Len(b.data) : b.data[i] \in Nat
    BY SMTT(30), <1>1
  <2> HIDE DEF m, k
  <2> QED
    BY <2>1, <2>2
<1>3. /\ SubSeq(b.data, m, k) \in Seq(Nat) /\ Len(SubSeq(b.data, m, k)) = n
      /\ \A i \in 1 .. n : SubSeq(b.data, m, k)[i] = b.data[m + i - 1]
  <2>1. m \in Int /\ k \in Int /\ k - m + 1 = n
    BY <1>1
  <2>2. m <= k \/ n = 0
    BY <1>1
  <2> HIDE DEF m, k
  <2> QED BY SMTT(30), <1>1, <1>2, <2>1, <2>2, SubSeqProperties
<1>4. ReadAt(b, b.off, n) = SubSeq(b.data, m, k)
  <2>1. \A i \in 1 .. n : ReadAt(b, b.off, n)[i] = b.data[b.off + i] /\ b.data[b.off + i] \in Nat
    <3> TAKE i \in 1 .. n
    <3>1. b.off + i \in 1 .. Len(b.data)
      BY SMTT(30), <1>1
    <3> QED BY SMTT(30), <1>1, <3>1 DEF ReadAt
  <2>2. ReadAt(b, b.off, n) \in Seq(Nat) /\ Len(ReadAt(b, b.off, n)) = n
    BY SMTT(30), <1>1, <2>1 DEF ReadAt
  <2>3. \A i \in 1 .. n : m + i - 1 = b.off + i
    BY <1>1
  <2>4. \A i \in 1 .. n : ReadAt(b, b.off, n)[i] = SubSeq(b.data, m, k)[i]
    BY <1>3, <2>1, <2>3
  <2> HIDE DEF m, k
  <2> QED BY <1>3, <2>2, <2>4, SeqEqual
<1>5. m \in 1 .. Len(b.data) + 1 /\ k \in m - 1 .. Len(b.data) /\ Len(b.data) \in k .. Len(b.data)
  BY SMTT(30), <1>1
<1>6. SubSeq(b.data, m, k) \o SubSeq(b.data, k + 1, Len(b.data)) = SubSeq(b.data, m, Len(b.data))
  <2> HIDE DEF m, k
  <2> QED BY <1>1, <1>5, ConcatAdjacentSubSeq
<1> QED
  BY <1>1, <1>3, <1>4, <1>6 DEF From, RemainingBytes

-----------------------------------------------------------------------------
(* The inductive invariant.                                                 *)

PCs == {"idle", "snapshot", "enable", "disconnect", "dispatch", "pick", "send",
        "consume", "finish", "disable"}
Locals == [rev : SUBSET {"IN", "OUT", "HUP"}, replies : Nat, flushed : Nat,
           slot : Slots, off : Nat, canSend : Nat, sent : Nat]

DataOK ==
    /\ blocks \in [Slots -> Blocks]
    /\ active \in Slots
    /\ pendingBytes \in Nat
    /\ pc \in [Threads -> PCs]
    /\ io \in Locals
    /\ space \in 0..KernelCap
    /\ wire \in Seq(Nat) /\ accepted \in Seq(Nat)
    /\ calls \in Nat

\* handleWrite's locals against the buffers: the pointer it sends from is the
\* start of the active buffer's live bytes, and what it is about to consume is
\* among them.
PointerValid ==
    /\ io.sent \in 0 .. Remaining(Active)
    /\ pc[IO] # "consume" => io.sent = 0
    /\ pc[IO] = "send" => /\ io.slot = active
                          /\ io.off = Active.off
                          /\ io.canSend \in 1 .. Remaining(Active)

Armed == pendingBytes > 0 => writeArmed

IInv == DataOK /\ PointerValid /\ StreamIntact /\ BacklogCounted /\ Armed

\* Nothing is buffered, sent or counted at the start.
LEMMA InitIInv == Init => IInv
<1> SUFFICES ASSUME Init PROVE IInv
  OBVIOUS
<1> USE SendPathAssumption
<1>1. EmptyBlock \in Blocks /\ Remaining(EmptyBlock) = 0 /\ EmptyBlock.data = <<>>
      /\ EmptyBlock.off = 0
  BY DEF EmptyBlock, Blocks, Remaining
<1>2. Active = EmptyBlock /\ Pending = EmptyBlock
  BY DEF Init, Active, Pending, Slots
<1>3. io.sent = 0 /\ pc[IO] = "idle" /\ io \in Locals
  BY DEF Init, Threads, Locals, Slots
<1>4. DataOK
  BY <1>1, <1>3 DEF Init, DataOK, PCs, Slots
<1>5. PointerValid
  BY <1>1, <1>2, <1>3 DEF PointerValid
<1>6. StreamIntact
  <2>1. Unsent = SubSeq(<<>>, 1, 0) \o SubSeq(<<>>, 1, 0)
    BY <1>1, <1>2, <1>3 DEF Unsent, RemainingBytes
  <2>2. SubSeq(<<>>, 1, 0) = <<>>
    BY SubSeqEmpty
  <2> QED BY <2>1, <2>2 DEF Init, StreamIntact
<1>7. BacklogCounted
  BY <1>1, <1>2 DEF Init, BacklogCounted
<1>8. Armed
  BY DEF Init, Armed
<1> QED
  BY <1>4, <1>5, <1>6, <1>7, <1>8 DEF IInv

\* A step of thread t that moves no byte, and that starts or ends neither a
\* send nor a consume, preserves the invariant.
LEMMA ControlStep ==
    ASSUME IInv, NEW t \in Threads, NEW p \in PCs,
           pc' = [pc EXCEPT ![t] = p],
           t = IO => pc[IO] # "consume" /\ p \notin {"send", "consume"},
           t # IO => io' = io,
           io' \in Locals, io'.sent = io.sent,
           UNCHANGED <<blocks, active, pendingBytes, wire, accepted, space>>,
           calls' \in Nat,
           pendingBytes > 0 => writeArmed'
    PROVE  IInv'
<1>1. IO \in Threads /\ pc \in [Threads -> PCs]
  BY DEF Threads, IInv, DataOK
<1>2. DataOK'
  BY <1>1 DEF IInv, DataOK
<1>3. Active' = Active /\ Pending' = Pending
  BY DEF Active, Pending
<1>4. pc'[IO] = IF t = IO THEN p ELSE pc[IO]
  BY <1>1
<1>5. PointerValid'
  <2>1. CASE t = IO
    BY <1>3, <1>4, <2>1 DEF IInv, PointerValid, Remaining
  <2>2. CASE t # IO
    BY <1>3, <1>4, <2>2 DEF IInv, PointerValid, Remaining
  <2> QED BY <2>1, <2>2
<1>6. StreamIntact'
  BY <1>3 DEF IInv, StreamIntact, Unsent, RemainingBytes
<1>7. BacklogCounted'
  BY <1>3 DEF IInv, BacklogCounted, Remaining
<1>8. Armed'
  BY DEF Armed
<1> QED
  BY <1>2, <1>5, <1>6, <1>7, <1>8 DEF IInv

-----------------------------------------------------------------------------
(* The steps that move bytes.                                               *)

\* The two buffers and what has been taken of the active one, with their types.
LEMMA Buffers ==
    ASSUME IInv
    PROVE  /\ active \in Slots /\ 1 - active \in Slots /\ 1 - active # active
           /\ Active \in Blocks /\ Pending \in Blocks
           /\ Remaining(Active) \in Nat /\ Remaining(Pending) \in Nat
           /\ io.sent \in 0 .. Remaining(Active)
           /\ From(Active, io.sent) \in Seq(Nat) /\ RemainingBytes(Pending) \in Seq(Nat)
           /\ Len(From(Active, io.sent)) = Remaining(Active) - io.sent
           /\ Len(RemainingBytes(Pending)) = Remaining(Pending)
           /\ Unsent = From(Active, io.sent) \o RemainingBytes(Pending)
<1>1. active \in Slots /\ 1 - active \in Slots /\ 1 - active # active
  BY DEF IInv, DataOK, Slots
<1>2. Active \in Blocks /\ Pending \in Blocks
  BY <1>1 DEF IInv, DataOK, Active, Pending
<1>3. Remaining(Active) \in Nat /\ Remaining(Pending) \in Nat
  BY <1>2 DEF Blocks, Remaining
<1>4. io.sent \in 0 .. Remaining(Active) /\ 0 \in 0 .. Remaining(Pending)
  BY <1>3 DEF IInv, PointerValid
<1>5. From(Active, io.sent) \in Seq(Nat) /\ Len(From(Active, io.sent)) = Remaining(Active) - io.sent
  BY <1>2, <1>4, FromProperties
<1>6. /\ RemainingBytes(Pending) \in Seq(Nat)
      /\ Len(RemainingBytes(Pending)) = Remaining(Pending)
  BY <1>2, <1>3, <1>4, FromProperties
<1>7. Unsent = From(Active, io.sent) \o RemainingBytes(Pending)
  BY DEF Unsent, From
<1> QED
  BY <1>1, <1>2, <1>3, <1>4, <1>5, <1>6, <1>7

\* An accepted packet goes to the end of the pending buffer, whatever the I/O
\* thread is doing with the active one.
LEMMA AcceptedIInv ==
    ASSUME IInv, NEW t \in Threads, NEW n \in PacketLens, SendPacket(t, n), Fits(n)
    PROVE  IInv'
<1> DEFINE bytes == [i \in 1..n |-> calls + 1]
<1>1. n \in Nat \ {0} /\ calls \in Nat /\ IO \in Threads
  BY SendPathAssumption DEF IInv, DataOK, Threads
<1>2. bytes \in Seq(Nat) /\ Len(bytes) = n
  BY <1>1
<1>3. /\ MayCall(t) /\ calls' = calls + 1
      /\ io' = IF t = IO THEN [io EXCEPT !.replies = @ - 1] ELSE io
      /\ blocks' = [blocks EXCEPT ![1 - active] = AppendTo(@, bytes)]
      /\ accepted' = accepted \o bytes
      /\ pendingBytes' = pendingBytes + n /\ writeArmed'
      /\ pc' = [pc EXCEPT ![t] = IF writeArmed THEN Back(t) ELSE "enable"]
      /\ UNCHANGED <<active, space, wire>>
  BY DEF SendPacket
<1> HIDE DEF bytes
<1>4. Active' = Active /\ Pending' = AppendTo(Pending, bytes)
  BY <1>3, Buffers DEF Active, Pending, IInv, DataOK
<1>5. /\ Pending' \in Blocks
      /\ RemainingBytes(Pending') = RemainingBytes(Pending) \o bytes
      /\ Remaining(Pending') = Remaining(Pending) + n
  BY <1>2, <1>4, Buffers, AppendToProperties
<1>6. /\ io' \in Locals /\ io'.sent = io.sent
      /\ io'.slot = io.slot /\ io'.off = io.off /\ io'.canSend = io.canSend
  <2>1. CASE t # IO
    BY <1>3, <2>1 DEF IInv, DataOK
  <2>2. CASE t = IO
    <3>1. io.replies \in Nat /\ io.replies > 0
      BY <1>3, <2>2, SendPathAssumption DEF MayCall, Senders, IInv, DataOK, Locals
    <3>2. io' = [io EXCEPT !.replies = io.replies - 1]
      BY <1>3, <2>2
    <3>3. io \in Locals /\ io.replies - 1 \in Nat
      BY <3>1 DEF IInv, DataOK
    <3> QED BY <3>2, <3>3 DEF Locals
  <2> QED BY <2>1, <2>2
<1>7. /\ pc' \in [Threads -> PCs]
      /\ t = IO => pc[IO] = "dispatch" /\ pc'[IO] \in {"dispatch", "enable"}
      /\ t # IO => pc'[IO] = pc[IO]
  BY <1>1, <1>3, SendPathAssumption DEF MayCall, Senders, Back, IInv, DataOK, PCs
<1>8. DataOK'
  <2>1. blocks' \in [Slots -> Blocks]
    BY <1>3, <1>4, <1>5, Buffers DEF IInv, DataOK, Pending
  <2>2. accepted' \in Seq(Nat)
    BY <1>2, <1>3, ConcatProperties DEF IInv, DataOK
  <2> QED BY <1>1, <1>3, <1>6, <1>7, <2>1, <2>2 DEF IInv, DataOK
<1>9. PointerValid'
  <2>1. CASE t = IO
    BY <1>3, <1>4, <1>6, <1>7, <2>1 DEF IInv, PointerValid, Remaining
  <2>2. CASE t # IO
    BY <1>3, <1>4, <1>6, <1>7, <2>2 DEF IInv, PointerValid, Remaining
  <2> QED BY <2>1, <2>2
<1>10. StreamIntact'
  <2> DEFINE a == From(Active, io.sent)
             b == RemainingBytes(Pending)
             ab == a \o b
  <2>1. Unsent' = a \o (b \o bytes)
    BY <1>4, <1>5, <1>6 DEF Unsent, From, RemainingBytes
  <2>2. wire \o ab = accepted
    BY Buffers DEF IInv, StreamIntact
  <2>3. a \in Seq(Nat) /\ b \in Seq(Nat) /\ wire \in Seq(Nat) /\ bytes \in Seq(Nat)
    BY <1>2, Buffers DEF IInv, DataOK
  <2> HIDE DEF a, b
  <2>4. a \o (b \o bytes) = ab \o bytes
    BY <2>3, Associative, Zenon
  <2>7. ab \in Seq(Nat)
    BY <2>3
  <2> HIDE DEF ab
  <2>5. wire \o (ab \o bytes) = (wire \o ab) \o bytes
    BY <2>3, <2>7, Associative, ZenonT(30)
  <2>6. wire' \o Unsent' = accepted'
    <3>1. wire' = wire /\ accepted' = accepted \o bytes
      BY <1>3
    <3> QED BY <2>1, <2>2, <2>4, <2>5, <3>1, Zenon
  <2> QED BY <2>6 DEF StreamIntact
<1>11. BacklogCounted'
  BY <1>1, <1>3, <1>4, <1>5, Buffers DEF IInv, BacklogCounted, Fits, Remaining
<1>12. Armed'
  BY <1>3 DEF Armed
<1> QED
  BY <1>8, <1>9, <1>10, <1>11, <1>12 DEF IInv

\* Picking the next bytes: a swap happens only when the active buffer is
\* empty, so the order of the bytes does not change, and the pointer is taken
\* at the start of the live bytes of the buffer that is active from now on.
LEMMA PickBytesIInv ==
    ASSUME IInv, PickBytes
    PROVE  IInv'
<1> DEFINE a == IF io.flushed < Budget /\ MustSwap THEN 1 - active ELSE active
           n == Min2(Remaining(blocks[a]), Budget - io.flushed)
<1>1. /\ pc[IO] = "pick" /\ active' = a
      /\ IF io.flushed >= Budget \/ n = 0
         THEN pc' = [pc EXCEPT ![IO] = "finish"] /\ io' = io
         ELSE /\ pc' = [pc EXCEPT ![IO] = "send"]
              /\ io' = [io EXCEPT !.slot = a, !.off = blocks[a].off, !.canSend = n]
      /\ UNCHANGED <<blocks, pendingBytes, writeArmed, wire, accepted, calls, space>>
  BY DEF PickBytes, histVars
<1>2. /\ a \in Slots /\ blocks[a] \in Blocks /\ Remaining(blocks[a]) \in Nat
      /\ blocks[a].off \in Nat
  <2>1. a \in Slots
    BY Buffers
  <2>2. blocks[a] \in Blocks
    BY <2>1 DEF IInv, DataOK
  <2> QED BY <2>1, <2>2 DEF Blocks, Remaining
<1>3. io \in Locals /\ io.flushed \in Nat /\ io.sent = 0 /\ IO \in Threads /\ pc \in [Threads -> PCs]
  BY <1>1 DEF IInv, DataOK, Locals, PointerValid, Threads
<1>4. Active' = blocks[a] /\ Pending' = blocks[1 - a]
  BY <1>1 DEF Active, Pending
<1>5. a = active \/ (a = 1 - active /\ Remaining(Active) = 0)
  BY DEF MustSwap
<1>6. 1 - (1 - active) = active
  BY Buffers DEF Slots
<1>7. io.flushed < Budget /\ n # 0 => n \in 1 .. Remaining(blocks[a])
  BY <1>2, <1>3, SendPathAssumption DEF Min2
<1> HIDE DEF a, n
<1>8. /\ io' \in Locals /\ io'.sent = 0
      /\ pc' \in [Threads -> PCs] /\ pc'[IO] \in {"finish", "send"}
      /\ pc'[IO] = "send" => /\ io'.slot = a /\ io'.off = blocks[a].off
                             /\ io'.canSend \in 1 .. Remaining(blocks[a])
  <2>1. CASE io.flushed >= Budget \/ n = 0
    BY <1>1, <1>3, <2>1 DEF PCs
  <2>2. CASE ~(io.flushed >= Budget \/ n = 0)
    <3>1. io' = [io EXCEPT !.slot = a, !.off = blocks[a].off, !.canSend = n]
      BY <1>1, <2>2
    <3>2. n \in 1 .. Remaining(blocks[a]) /\ n \in Nat
      BY <1>2, <1>3, <1>7, <2>2, SendPathAssumption
    <3>3. io' \in Locals /\ io'.sent = 0 /\ io'.slot = a /\ io'.off = blocks[a].off /\ io'.canSend = n
      BY <1>2, <1>3, <3>1, <3>2 DEF Locals
    <3>4. pc' = [pc EXCEPT ![IO] = "send"]
      BY <1>1, <2>2
    <3> QED BY <1>3, <3>2, <3>3, <3>4 DEF PCs
  <2> QED BY <2>1, <2>2
<1>9. DataOK'
  BY <1>1, <1>2, <1>8 DEF IInv, DataOK
<1>10. PointerValid'
  BY <1>1, <1>2, <1>4, <1>8 DEF PointerValid, Remaining
<1>11. /\ Unsent' = Unsent
       /\ Remaining(Active') + Remaining(Pending') = Remaining(Active) + Remaining(Pending)
  <2>1. CASE a = active
    <3>1. Active' = Active /\ Pending' = Pending
      BY <1>4, <2>1 DEF Active, Pending
    <3> QED BY <1>3, <1>8, <3>1 DEF Unsent, RemainingBytes
  <2>2. CASE a = 1 - active /\ Remaining(Active) = 0
    <3>1. Active' = Pending /\ Pending' = Active
      BY <1>4, <1>6, <2>2 DEF Active, Pending
    <3>2. Active \in Blocks /\ Pending \in Blocks /\ 0 \in 0 .. Remaining(Active)
      BY <2>2, Buffers
    <3>3. RemainingBytes(Active) = <<>> /\ From(Active, 0) = RemainingBytes(Active)
      BY <2>2, <3>2, FromProperties, EmptySeq
    <3>4. From(Pending, 0) = RemainingBytes(Pending)
      BY <3>2, Buffers, FromProperties
    <3>5. Unsent' = From(Pending, 0) \o RemainingBytes(Active)
      BY <1>8, <3>1 DEF Unsent, From, RemainingBytes
    <3>6. Unsent = From(Active, 0) \o RemainingBytes(Pending)
      BY <1>3, Buffers
    <3>7. RemainingBytes(Pending) \in Seq(Nat)
      BY Buffers
    <3>8. Unsent' = Unsent
      BY <3>3, <3>4, <3>5, <3>6, <3>7
    <3>9. Remaining(Active') + Remaining(Pending') = Remaining(Active) + Remaining(Pending)
      BY <3>1, Buffers
    <3> QED BY <3>8, <3>9
  <2> QED BY <1>5, <2>1, <2>2
<1>12. StreamIntact'
  BY <1>1, <1>11 DEF IInv, StreamIntact
<1>13. BacklogCounted'
  BY <1>1, <1>11 DEF IInv, BacklogCounted, Remaining
<1>14. Armed'
  BY <1>1 DEF IInv, Armed
<1> QED
  BY <1>9, <1>10, <1>12, <1>13, <1>14 DEF IInv

\* send reads through the pointer taken before the lock was released: the
\* bytes it takes are still the first live bytes of the active buffer.
LEMMA SendIInv ==
    ASSUME IInv, pc[IO] = "send", space > 0, pc' = [pc EXCEPT ![IO] = "consume"],
           wire' = wire \o ReadAt(blocks[io.slot], io.off, Min2(io.canSend, space)),
           space' = space - Min2(io.canSend, space),
           io' = [io EXCEPT !.sent = Min2(io.canSend, space)],
           UNCHANGED <<blocks, active, pendingBytes, writeArmed, accepted, calls>>
    PROVE  IInv'
<1> DEFINE n == Min2(io.canSend, space)
           x == ReadAt(Active, Active.off, n)
<1>1. /\ io.slot = active /\ io.off = Active.off /\ io.canSend \in 1 .. Remaining(Active)
      /\ io.sent = 0 /\ space \in 1 .. KernelCap
  BY SendPathAssumption DEF IInv, PointerValid, DataOK
<1>2. n \in 0 .. Remaining(Active) /\ n \in Nat /\ space - n \in 0 .. KernelCap
  <2>1. Remaining(Active) \in Nat /\ KernelCap \in Nat
    BY Buffers, SendPathAssumption
  <2> QED BY <1>1, <2>1 DEF Min2
<1>3. wire' = wire \o x /\ space' = space - n /\ io' = [io EXCEPT !.sent = n]
  BY <1>1 DEF Active
<1>4. io \in Locals /\ IO \in Threads /\ pc \in [Threads -> PCs]
  BY DEF IInv, DataOK, Threads
<1> HIDE DEF n
<1>5. io' \in Locals /\ io'.sent = n /\ pc'[IO] = "consume" /\ pc' \in [Threads -> PCs]
  BY <1>2, <1>3, <1>4 DEF Locals, PCs
<1>6. Active' = Active /\ Pending' = Pending
  BY DEF Active, Pending
<1>7. x \in Seq(Nat) /\ x \o From(Active, n) = RemainingBytes(Active)
  BY <1>2, Buffers, ReadProperties
<1> HIDE DEF x
<1>8. DataOK'
  <2>1. wire' \in Seq(Nat)
    BY <1>3, <1>7, ConcatProperties DEF IInv, DataOK
  <2> QED BY <1>2, <1>3, <1>5, <2>1 DEF IInv, DataOK
<1>9. PointerValid'
  BY <1>2, <1>5, <1>6 DEF PointerValid, Remaining
<1>10. StreamIntact'
  <2> DEFINE a == From(Active, n)
             b == RemainingBytes(Pending)
             ab == a \o b
  <2>1. Unsent' = ab
    BY <1>5, <1>6 DEF Unsent, From, RemainingBytes
  <2>2. Unsent = (x \o a) \o b
    <3>1. From(Active, 0) = RemainingBytes(Active)
      BY <1>2, Buffers, FromProperties
    <3> QED BY <1>1, <1>7, <3>1, Buffers
  <2>3. wire \o ((x \o a) \o b) = accepted
    BY <2>2 DEF IInv, StreamIntact
  <2>4. a \in Seq(Nat) /\ b \in Seq(Nat) /\ wire \in Seq(Nat) /\ x \in Seq(Nat)
    BY <1>2, <1>7, Buffers, FromProperties DEF IInv, DataOK
  <2> HIDE DEF a, b
  <2>5. x \o ab = (x \o a) \o b
    BY <2>4, Associative, Zenon
  <2>6. ab \in Seq(Nat)
    BY <2>4
  <2> HIDE DEF ab
  <2>7. wire \o (x \o ab) = (wire \o x) \o ab
    BY <2>4, <2>6, Associative, ZenonT(30)
  <2>8. wire' \o Unsent' = accepted'
    <3>1. accepted' = accepted
      OBVIOUS
    <3> QED BY <1>3, <2>1, <2>3, <2>5, <2>7, <3>1, Zenon
  <2> QED BY <2>8 DEF StreamIntact
<1>11. BacklogCounted'
  BY <1>6 DEF IInv, BacklogCounted, Remaining
<1>12. Armed'
  BY DEF IInv, Armed
<1> QED
  BY <1>8, <1>9, <1>10, <1>11, <1>12 DEF IInv

\* Consuming what was sent leaves the unsent bytes as they are, and the count
\* follows: the guard against a negative count is never needed.
LEMMA ConsumeIInv ==
    ASSUME IInv, ConsumeSent
    PROVE  IInv'
<1>1. /\ pc[IO] = "consume" /\ active' = active
      /\ blocks' = [blocks EXCEPT ![active] = Consume(@, io.sent)]
      /\ pendingBytes' = IF pendingBytes >= io.sent THEN pendingBytes - io.sent ELSE 0
      /\ io' = [io EXCEPT !.flushed = @ + io.sent, !.sent = 0]
      /\ pc' = [pc EXCEPT ![IO] = "pick"]
      /\ UNCHANGED <<writeArmed, wire, accepted, calls, space>>
  BY DEF ConsumeSent, histVars
<1>2. Active' = Consume(Active, io.sent) /\ Pending' = Pending
  BY <1>1, Buffers DEF Active, Pending, IInv, DataOK
<1>3. /\ Active' \in Blocks
      /\ RemainingBytes(Active') = From(Active, io.sent)
      /\ Remaining(Active') = Remaining(Active) - io.sent
      /\ Remaining(Active') \in Nat /\ From(Active', 0) = RemainingBytes(Active')
  <2>1. /\ Active' \in Blocks
        /\ RemainingBytes(Active') = From(Active, io.sent)
        /\ Remaining(Active') = Remaining(Active) - io.sent
    BY <1>2, Buffers, ConsumeProperties
  <2>2. Remaining(Active') \in Nat
    BY <2>1, Buffers
  <2> QED BY <2>1, <2>2, FromProperties
<1>4. io \in Locals /\ IO \in Threads /\ pc \in [Threads -> PCs] /\ io.sent \in Nat /\ io.flushed \in Nat
  BY DEF IInv, DataOK, Threads, Locals
<1>5. io' \in Locals /\ io'.sent = 0 /\ pc'[IO] = "pick" /\ pc' \in [Threads -> PCs]
  <2>1. io.flushed + io.sent \in Nat
    BY <1>4
  <2>2. io' = [io EXCEPT !.flushed = io.flushed + io.sent, !.sent = 0]
    BY <1>1
  <2>3. io' \in Locals /\ io'.sent = 0
    BY <1>4, <2>1, <2>2 DEF Locals
  <2> QED BY <1>1, <1>4, <2>3 DEF PCs
<1>6. DataOK'
  <2>1. blocks' \in [Slots -> Blocks]
    BY <1>1, <1>2, <1>3, Buffers DEF IInv, DataOK, Active
  <2>2. pendingBytes' \in Nat
    BY <1>1, <1>4 DEF IInv, DataOK
  <2> QED BY <1>1, <1>5, <2>1, <2>2 DEF IInv, DataOK
<1>7. PointerValid'
  BY <1>3, <1>5 DEF PointerValid, Remaining
<1>8. StreamIntact'
  <2>1. Unsent' = From(Active', 0) \o RemainingBytes(Pending)
    BY <1>2, <1>5 DEF Unsent, From, RemainingBytes
  <2> QED BY <1>1, <1>3, <2>1, Buffers DEF IInv, StreamIntact
<1>9. BacklogCounted' /\ pendingBytes' <= pendingBytes
  <2>1. /\ Remaining(Active) \in Nat /\ Remaining(Pending) \in Nat /\ io.sent \in 0 .. Remaining(Active)
        /\ pendingBytes = Remaining(Active) + Remaining(Pending) /\ pendingBytes <= MaxPending
        /\ MaxPending \in Nat
    BY Buffers, SendPathAssumption DEF IInv, BacklogCounted
  <2>2. pendingBytes' = pendingBytes - io.sent
    BY <1>1, <2>1
  <2>3. Remaining(Pending') = Remaining(Pending)
    BY <1>2
  <2>4. /\ pendingBytes' = Remaining(Active') + Remaining(Pending')
        /\ pendingBytes' <= MaxPending /\ pendingBytes' <= pendingBytes
    BY <1>3, <2>1, <2>2, <2>3
  <2> QED BY <2>4 DEF BacklogCounted, Remaining
<1>10. Armed'
  BY <1>1, <1>6, <1>9 DEF IInv, Armed, DataOK
<1> QED
  BY <1>6, <1>7, <1>8, <1>9, <1>10 DEF IInv

-----------------------------------------------------------------------------
(* The other steps.                                                         *)

\* A refused packet changes no buffer.
LEMMA RefusedIInv ==
    ASSUME IInv, NEW t \in Threads, NEW n \in PacketLens, SendPacket(t, n), ~Fits(n)
    PROVE  IInv'
<1>1. /\ MayCall(t) /\ calls' = calls + 1
      /\ io' = IF t = IO THEN [io EXCEPT !.replies = @ - 1] ELSE io
      /\ pc' = [pc EXCEPT ![t] = "disconnect"]
      /\ UNCHANGED <<blocks, active, pendingBytes, writeArmed, wire, accepted, space>>
  BY DEF SendPacket
<1>2. calls' \in Nat /\ "disconnect" \in PCs
  BY <1>1 DEF IInv, DataOK, PCs
<1>3. io' \in Locals /\ io'.sent = io.sent
  <2>1. CASE t # IO
    BY <1>1, <2>1 DEF IInv, DataOK
  <2>2. CASE t = IO
    <3>1. io.replies \in Nat /\ io.replies > 0
      BY <1>1, <2>2, SendPathAssumption DEF MayCall, Senders, IInv, DataOK, Locals
    <3>2. io' = [io EXCEPT !.replies = io.replies - 1]
      BY <1>1, <2>2
    <3>3. io \in Locals /\ io.replies - 1 \in Nat
      BY <3>1 DEF IInv, DataOK
    <3> QED BY <3>2, <3>3 DEF Locals
  <2> QED BY <2>1, <2>2
<1>4. t = IO => pc[IO] # "consume"
  BY <1>1, SendPathAssumption DEF MayCall, Senders
<1>5. pendingBytes > 0 => writeArmed'
  BY <1>1 DEF IInv, Armed
<1> QED
  BY <1>1, <1>2, <1>3, <1>4, <1>5, ControlStep

\* A sender's steps outside the critical section.
LEMMA SenderIInv ==
    ASSUME IInv, NEW t \in Threads,
           (Snapshot(t) /\ t # IO) \/ EnableWrite(t) \/ HandleDisconnect(t)
    PROVE  IInv'
<1>2. PICK p \in {"snapshot", Back(t)} : pc' = [pc EXCEPT ![t] = p]
  BY DEF Snapshot, EnableWrite, HandleDisconnect
<1>3. p \in PCs /\ p \notin {"send", "consume"}
  BY DEF Back, PCs
<1>4. pc[t] # "consume"
  BY DEF Snapshot, EnableWrite, HandleDisconnect
<1>5. UNCHANGED <<ctxVars, histVars, io, space>>
  BY DEF Snapshot, EnableWrite, HandleDisconnect
<1>6. /\ UNCHANGED <<blocks, active, pendingBytes, wire, accepted, space>>
      /\ io' = io /\ io' \in Locals /\ calls' \in Nat
      /\ pendingBytes > 0 => writeArmed'
  BY <1>5 DEF ctxVars, histVars, IInv, DataOK, Armed
<1> QED
  BY <1>2, <1>3, <1>4, <1>6, ControlStep

\* Steps of the I/O thread that move no byte.
LEMMA ReactorStep ==
    ASSUME IInv, NEW p \in PCs, pc' = [pc EXCEPT ![IO] = p],
           pc[IO] # "consume", p \notin {"send", "consume"},
           io' \in Locals, io'.sent = io.sent,
           UNCHANGED <<blocks, active, pendingBytes, wire, accepted, calls, space>>,
           pendingBytes > 0 => writeArmed'
    PROVE  IInv'
<1>1. IO \in Threads /\ calls' \in Nat
  BY DEF Threads, IInv, DataOK
<1> QED
  BY <1>1, ControlStep

\* epoll_wait and the dispatch of its events.
LEMMA DispatchIInv ==
    ASSUME IInv, EpollWait \/ HandleRead \/ HandleHangup \/ EventsDone \/ HandleWrite
    PROVE  IInv'
<1>1. io \in Locals /\ pc \in [Threads -> PCs] /\ IO \in Threads
  BY DEF IInv, DataOK, Threads
<1>2. /\ UNCHANGED <<blocks, active, pendingBytes, writeArmed, wire, accepted, calls, space>>
      /\ pc[IO] # "consume"
  BY DEF EpollWait, HandleRead, HandleHangup, EventsDone, HandleWrite, ctxVars, histVars
<1>3. pendingBytes > 0 => writeArmed'
  BY <1>2 DEF IInv, Armed
<1>4. \E p \in {"idle", "dispatch", "disconnect", "pick"} : pc' = [pc EXCEPT ![IO] = p]
  <2>1. CASE EpollWait
    BY <2>1 DEF EpollWait
  <2>2. CASE HandleRead
    <3>1. pc[IO] = "dispatch"
      BY <2>2 DEF HandleRead
    <3>2. pc = [pc EXCEPT ![IO] = "dispatch"]
      BY <1>1, <3>1
    <3> QED BY <2>2, <3>2 DEF HandleRead
  <2>3. CASE HandleHangup \/ EventsDone \/ HandleWrite
    BY <2>3 DEF HandleHangup, EventsDone, HandleWrite
  <2> QED BY <2>1, <2>2, <2>3
<1>5. io' \in Locals /\ io'.sent = io.sent
  <2>1. CASE EpollWait
    <3>1. PICK rev \in SUBSET {"IN", "OUT", "HUP"} : io' = [io EXCEPT !.rev = rev]
      <4>1. Poll(interest) \in SUBSET {"IN", "OUT", "HUP"} /\ {} \in SUBSET {"IN", "OUT", "HUP"}
        BY DEF Poll
      <4> QED BY <2>1, <4>1 DEF EpollWait
    <3> QED BY <1>1, <3>1 DEF Locals
  <2>2. CASE HandleRead
    <3>1. \/ io' = [io EXCEPT !.rev = io.rev \ {"IN"}]
          \/ \E k \in 0 .. MaxReplies : io' = [io EXCEPT !.rev = io.rev \ {"IN"}, !.replies = k]
      BY <2>2 DEF HandleRead
    <3>2. \A k \in 0 .. MaxReplies : k \in Nat
      BY SendPathAssumption
    <3>3. io.rev \ {"IN"} \in SUBSET {"IN", "OUT", "HUP"}
      BY <1>1 DEF Locals
    <3> QED BY <1>1, <3>1, <3>2, <3>3 DEF Locals
  <2>3. CASE HandleHangup
    BY <1>1, <2>3 DEF HandleHangup, Locals
  <2>4. CASE EventsDone
    BY <1>1, <2>4 DEF EventsDone
  <2>5. CASE HandleWrite
    <3>1. io' = [io EXCEPT !.rev = io.rev \ {"OUT"}, !.flushed = 0]
      BY <2>5 DEF HandleWrite
    <3>2. io.rev \ {"OUT"} \in SUBSET {"IN", "OUT", "HUP"}
      BY <1>1 DEF Locals
    <3> QED BY <1>1, <3>1, <3>2 DEF Locals
  <2> QED BY <2>1, <2>2, <2>3, <2>4, <2>5
<1>6. PICK p \in {"idle", "dispatch", "disconnect", "pick"} : pc' = [pc EXCEPT ![IO] = p]
  BY <1>4
<1>7. p \in PCs /\ p \notin {"send", "consume"}
  BY DEF PCs
<1> QED
  BY <1>2, <1>3, <1>5, <1>6, <1>7, ReactorStep

\* The last critical section disarms only when both buffers are empty.
LEMMA FinishIInv ==
    ASSUME IInv, Finish \/ DisableWrite
    PROVE  IInv'
<1>1. /\ UNCHANGED <<blocks, active, pendingBytes, wire, accepted, calls, space, io>>
      /\ pc[IO] # "consume" /\ io' \in Locals
  BY DEF Finish, DisableWrite, ctxVars, histVars, IInv, DataOK
<1>2. pendingBytes > 0 => writeArmed'
  <2>1. CASE Finish /\ NothingLeft
    <3>1. pendingBytes = 0
      BY <2>1 DEF NothingLeft, IInv, BacklogCounted
    <3> QED BY <3>1
  <2>2. CASE (Finish /\ ~NothingLeft) \/ DisableWrite
    BY <2>2 DEF Finish, DisableWrite, ctxVars, IInv, Armed
  <2> QED BY <2>1, <2>2
<1>3. PICK p \in {"disable", "dispatch"} : pc' = [pc EXCEPT ![IO] = p]
  BY DEF Finish, DisableWrite
<1>4. p \in PCs /\ p \notin {"send", "consume"}
  BY DEF PCs
<1> QED
  BY <1>1, <1>2, <1>3, <1>4, ReactorStep

\* handleWrite's steps.
LEMMA HandleWriteIInv ==
    ASSUME IInv, HandleWriteStep
    PROVE  IInv'
<1>1. CASE PickBytes
  BY <1>1, PickBytesIInv
<1>2. CASE Send
  <2>1. /\ pc[IO] = "send"
        /\ UNCHANGED <<blocks, active, pendingBytes, writeArmed, accepted, calls>>
    BY <1>2 DEF Send, ctxVars
  <2>2. CASE UNCHANGED <<wire, io, space>> /\ \E p \in {"dispatch", "disconnect"} : pc' = [pc EXCEPT ![IO] = p]
    <3>1. PICK p \in {"dispatch", "disconnect"} : pc' = [pc EXCEPT ![IO] = p]
      BY <2>2
    <3>2. p \in PCs /\ p \notin {"send", "consume"} /\ io' \in Locals
      BY <2>2 DEF PCs, IInv, DataOK
    <3>3. pendingBytes > 0 => writeArmed'
      BY <2>1 DEF IInv, Armed
    <3> QED BY <2>1, <2>2, <3>1, <3>2, <3>3, ReactorStep
  <2>3. CASE /\ space > 0 /\ pc' = [pc EXCEPT ![IO] = "consume"]
             /\ wire' = wire \o ReadAt(blocks[io.slot], io.off, Min2(io.canSend, space))
             /\ space' = space - Min2(io.canSend, space)
             /\ io' = [io EXCEPT !.sent = Min2(io.canSend, space)]
    BY <2>1, <2>3, SendIInv
  <2> QED BY <1>2, <2>2, <2>3 DEF Send
<1>3. CASE ConsumeSent
  BY <1>3, ConsumeIInv
<1>4. CASE Finish \/ DisableWrite
  BY <1>4, FinishIInv
<1> QED
  BY <1>1, <1>2, <1>3, <1>4 DEF HandleWriteStep

\* A step that touches neither the buffers nor a thread, whatever it does to
\* the epoll entry, the connection and the peer.
LEMMA OutsideIInv ==
    ASSUME IInv, UNCHANGED <<blocks, active, pendingBytes, writeArmed, wire, accepted, calls, pc, io>>,
           space' \in 0 .. KernelCap
    PROVE  IInv'
<1>1. Active' = Active /\ Pending' = Pending
  BY DEF Active, Pending
<1>2. DataOK' /\ Armed'
  BY DEF IInv, DataOK, Armed
<1>3. PointerValid' /\ BacklogCounted'
  BY <1>1 DEF IInv, PointerValid, BacklogCounted, Remaining
<1>4. StreamIntact'
  BY <1>1 DEF IInv, StreamIntact, Unsent, RemainingBytes
<1> QED
  BY <1>2, <1>3, <1>4 DEF IInv

\* The invariant is inductive.
LEMMA NextIInv == IInv /\ [Next]_vars => IInv'
<1> SUFFICES ASSUME IInv, [Next]_vars PROVE IInv'
  OBVIOUS
<1>1. /\ IO \in Threads /\ space \in 0 .. KernelCap
      /\ \A t \in Senders : t \in Threads /\ t # IO
      /\ \A t \in Broadcasters : t \in Senders
  BY SendPathAssumption DEF Threads, Senders, IInv, DataOK
<1>2. CASE UNCHANGED vars \/ AcceptStep \/ PeerSends \/ \E how \in {"fin", "rst"} : PeerCloses(how)
  <2>1. UNCHANGED <<blocks, active, pendingBytes, writeArmed, wire, accepted, calls, pc, io, space>>
    BY <1>2 DEF vars, AcceptStep, SetEpollFd, EpollAdd, PeerSends, PeerCloses, ctxVars, histVars
  <2> QED BY <1>1, <2>1, OutsideIInv
<1>3. CASE PeerDrains
  <2>1. UNCHANGED <<blocks, active, pendingBytes, writeArmed, wire, accepted, calls, pc, io>>
    BY <1>3 DEF PeerDrains, PeerReads, ctxVars, histVars
  <2>2. space' \in 0 .. KernelCap
    BY <1>1, <1>3, SendPathAssumption DEF PeerDrains, PeerReads
  <2> QED BY <2>1, <2>2, OutsideIInv
<1>4. ASSUME NEW t \in Threads, NEW n \in PacketLens, SendPacket(t, n) PROVE IInv'
  BY <1>4, AcceptedIInv, RefusedIInv
<1>5. CASE IOStep
  <2>1. CASE EpollWait \/ HandleRead \/ HandleHangup \/ EventsDone \/ HandleWrite
    BY <2>1, DispatchIInv
  <2>2. CASE HandleWriteStep
    BY <2>2, HandleWriteIInv
  <2>3. CASE EnableWrite(IO) \/ HandleDisconnect(IO)
    BY <1>1, <2>3, SenderIInv
  <2>4. CASE \E n \in PacketLens : SendPacket(IO, n)
    BY <1>1, <1>4, <2>4
  <2> QED BY <1>5, <2>1, <2>2, <2>3, <2>4 DEF IOStep
<1>6. CASE \E t \in Broadcasters : Snapshot(t)
  BY <1>1, <1>6, SenderIInv
<1>7. CASE \E t \in Senders : SenderFinishes(t) \/ \E n \in PacketLens : SendPacket(t, n)
  <2>1. PICK t \in Senders : SenderFinishes(t) \/ \E n \in PacketLens : SendPacket(t, n)
    BY <1>7
  <2>2. CASE SenderFinishes(t)
    BY <1>1, <2>2, SenderIInv DEF SenderFinishes
  <2>3. CASE \E n \in PacketLens : SendPacket(t, n)
    BY <1>1, <1>4, <2>3
  <2> QED BY <2>1, <2>2, <2>3
<1> QED
  BY <1>2, <1>3, <1>5, <1>6, <1>7 DEF Next

\* Every reachable state satisfies the invariant.
LEMMA Invariance == Spec => []IInv
<1> QED
  BY InitIInv, NextIInv, PTL DEF Spec

-----------------------------------------------------------------------------
(* The theorems.                                                            *)

\* The part of the type invariant that is not about the buffers and threads.
FlagsOK ==
    /\ writeArmed \in BOOLEAN
    /\ accepting \in {"inMap", "epollFd", "added"}
    /\ mapped \in BOOLEAN /\ open \in BOOLEAN /\ ready \in BOOLEAN
    /\ interest \in {{}, {"IN"}, {"IN", "OUT"}}
    /\ inbound \in BOOLEAN /\ served \in BOOLEAN
    /\ peer \in {"up", "fin", "rst"}
    /\ arrivals \in Nat

\* Every step keeps the flags, the epoll entry and the peer's state typed.
LEMMA NextFlags == FlagsOK /\ [Next]_vars => FlagsOK'
<1> SUFFICES ASSUME FlagsOK, [Next]_vars PROVE FlagsOK'
  OBVIOUS
<1> USE DEF FlagsOK, ctxVars, epollVars, peerVars, connVars
<1>1. CASE UNCHANGED vars
  BY <1>1 DEF vars
<1>2. CASE AcceptStep
  BY <1>2 DEF AcceptStep, SetEpollFd, EpollAdd
<1>3. ASSUME NEW t, Snapshot(t) PROVE FlagsOK'
  BY <1>3 DEF Snapshot
<1>4. ASSUME NEW t, EnableWrite(t) PROVE FlagsOK'
  BY <1>4 DEF EnableWrite, EpollMod, WriteEvents
<1>5. ASSUME NEW t, HandleDisconnect(t) PROVE FlagsOK'
  BY <1>5 DEF HandleDisconnect
<1>6. ASSUME NEW t, NEW n, SendPacket(t, n) PROVE FlagsOK'
  BY <1>6 DEF SendPacket
<1>7. CASE EpollWait
  BY <1>7 DEF EpollWait
<1>8. CASE HandleRead
  BY <1>8 DEF HandleRead
<1>9. CASE HandleHangup \/ EventsDone \/ HandleWrite
  BY <1>9 DEF HandleHangup, EventsDone, HandleWrite
<1>10. CASE PickBytes \/ Send \/ ConsumeSent
  BY <1>10 DEF PickBytes, Send, ConsumeSent
<1>11. CASE Finish \/ DisableWrite
  BY ZenonT(30), <1>11 DEF Finish, DisableWrite, EpollMod
<1>12. CASE PeerDrains
  BY <1>12 DEF PeerDrains, PeerReads
<1>13. CASE PeerSends
  BY <1>13 DEF PeerSends
<1>14. CASE \E how \in {"fin", "rst"} : PeerCloses(how)
  BY <1>14 DEF PeerCloses
<1> QED
  BY <1>1, <1>2, <1>3, <1>4, <1>5, <1>6, <1>7, <1>8, <1>9, <1>10, <1>11, <1>12,
     <1>13, <1>14 DEF Next, IOStep, HandleWriteStep, SenderFinishes

\* Every variable keeps its type; in particular the offset that consume moves
\* never passes the end of its buffer.
THEOREM TypeCorrect == Spec => []TypeOK
<1>1. Init => FlagsOK
  <2>1. Init => arrivals \in Nat
    BY DEF Init
  <2>2. Init => /\ writeArmed \in BOOLEAN /\ mapped \in BOOLEAN /\ open \in BOOLEAN
                /\ ready \in BOOLEAN /\ inbound \in BOOLEAN /\ served \in BOOLEAN
    BY Zenon DEF Init
  <2>3. Init => /\ accepting \in {"inMap", "epollFd", "added"}
                /\ interest \in {{}, {"IN"}, {"IN", "OUT"}} /\ peer \in {"up", "fin", "rst"}
    BY Zenon DEF Init
  <2> QED BY <2>1, <2>2, <2>3, Zenon DEF FlagsOK
<1>2. IInv /\ FlagsOK => TypeOK
  <2> SUFFICES ASSUME IInv, FlagsOK PROVE TypeOK
    OBVIOUS
  <2>1. /\ blocks \in [Slots -> [data : Seq(Nat), off : Nat]]
        /\ \A s \in Slots : blocks[s].off <= Len(blocks[s].data)
    BY DEF IInv, DataOK, Blocks
  <2> QED BY <2>1, Zenon DEF IInv, DataOK, PCs, Locals, FlagsOK, TypeOK
<1> QED
  BY <1>1, <1>2, NextFlags, Invariance, PTL DEF Spec

\* sendPacket and handleWrite neither lose, repeat, reorder nor corrupt a
\* byte, although handleWrite sends from a raw pointer without the lock.
THEOREM StreamAlwaysIntact == Spec => []StreamIntact
<1>1. IInv => StreamIntact
  BY DEF IInv
<1> QED
  BY <1>1, Invariance, PTL

\* pendingBytes is exactly the backlog, and never above the limit.
THEOREM BacklogAlwaysCounted == Spec => []BacklogCounted
<1>1. IInv => BacklogCounted
  BY DEF IInv
<1> QED
  BY <1>1, Invariance, PTL

\* Bytes in a buffer are always announced by writeArmed.
THEOREM BacklogAlwaysArmed == Spec => []BacklogIsArmed
<1>1. IInv => BacklogIsArmed
  BY DEF IInv, BacklogCounted, Armed, BacklogIsArmed
<1> QED
  BY <1>1, Invariance, PTL

-----------------------------------------------------------------------------
(* The send path implements ByteStream.                                     *)

\* A prefix of a concatenation is the first sequence.
LEMMA PrefixOf ==
    ASSUME NEW a \in Seq(Nat), NEW b \in Seq(Nat)
    PROVE  /\ SubSeq(a \o b, 1, Len(a)) = a
           /\ Len(a \o b) = Len(a) + Len(b)
           /\ Len(a) \in Nat /\ Len(b) \in Nat
<1>1. Len(a \o b) = Len(a) + Len(b) /\ Len(a) \in Nat /\ Len(b) \in Nat /\ a \o b \in Seq(Nat)
  BY ConcatProperties
<1>2. \A i \in 1 .. Len(a) : (a \o b)[i] = a[i]
  BY <1>1, ConcatProperties
<1>3. SubSeq(a \o b, 1, Len(a)) \in Seq(Nat) /\ Len(SubSeq(a \o b, 1, Len(a))) = Len(a)
      /\ \A i \in 1 .. Len(a) : SubSeq(a \o b, 1, Len(a))[i] = (a \o b)[i]
  BY <1>1
<1> QED
  BY <1>1, <1>2, <1>3, SeqEqual

\* The bytes on the wire are a prefix of the accepted ones, and those that are
\* missing are within the limit.
WirePrefix ==
    /\ wire = SubSeq(accepted, 1, Len(wire))
    /\ Len(wire) \in Nat /\ Len(accepted) \in Nat
    /\ Len(wire) <= Len(accepted)
    /\ Len(accepted) - Len(wire) <= MaxPending

\* It follows from the stream being intact and the backlog being counted.
LEMMA WireIsPrefix == IInv => WirePrefix
<1> SUFFICES ASSUME IInv PROVE WirePrefix
  OBVIOUS
<1>1. wire \in Seq(Nat) /\ Unsent \in Seq(Nat) /\ accepted = wire \o Unsent
  <2>1. wire \in Seq(Nat) /\ accepted = wire \o Unsent
    BY DEF IInv, DataOK, StreamIntact
  <2>2. Unsent \in Seq(Nat)
    BY Buffers, ConcatProperties
  <2> QED BY <2>1, <2>2
<1>2. /\ wire = SubSeq(accepted, 1, Len(wire)) /\ Len(accepted) = Len(wire) + Len(Unsent)
      /\ Len(wire) \in Nat /\ Len(Unsent) \in Nat
  BY <1>1, PrefixOf
<1>3. Len(Unsent) = (Remaining(Active) - io.sent) + Remaining(Pending)
  BY Buffers, ConcatProperties
<1>4. Len(Unsent) <= MaxPending
  BY <1>3, Buffers, SendPathAssumption DEF IInv, BacklogCounted
<1> QED
  BY <1>2, <1>4, SendPathAssumption DEF WirePrefix

\* Every step accepts one packet, delivers more bytes, or does neither.
LEMMA StreamStep ==
    ASSUME IInv, WirePrefix, WirePrefix', [Next]_vars
    PROVE  [Stream!StreamNext]_(Stream!streamVars)
<1> USE DEF histVars, ctxVars
<1>1. CASE UNCHANGED <<wire, accepted>>
  BY <1>1 DEF Stream!streamVars
<1>2. ASSUME NEW t, NEW n \in PacketLens, SendPacket(t, n), Fits(n) PROVE Stream!Accept
  <2> DEFINE bytes == [i \in 1..n |-> calls + 1]
  <2>1. n \in Nat /\ calls \in Nat
    BY SendPathAssumption DEF IInv, DataOK
  <2>2. bytes \in Seq(Nat) /\ Len(bytes) = n
    BY <2>1
  <2>3. accepted' = accepted \o bytes /\ wire' = wire
    BY <1>2 DEF SendPacket
  <2> HIDE DEF bytes
  <2>4. accepted \in Seq(Nat)
    BY DEF IInv, DataOK
  <2>5. Len(accepted') - Len(accepted) = n /\ SubSeq(accepted', 1, Len(accepted)) = accepted
    <3>1. /\ SubSeq(accepted \o bytes, 1, Len(accepted)) = accepted
          /\ Len(accepted \o bytes) = Len(accepted) + Len(bytes) /\ Len(accepted) \in Nat
      BY <2>2, <2>4, PrefixOf
    <3> QED BY <2>1, <2>2, <2>3, <3>1
  <2>6. Len(accepted') - Len(wire) <= MaxPending
    BY <2>3 DEF WirePrefix
  <2> QED BY <2>3, <2>5, <2>6 DEF Stream!Accept
<1>3. CASE Send
  <2>1. accepted' = accepted
    BY <1>3 DEF Send
  <2>2. wire' = SubSeq(accepted, 1, Len(wire')) /\ Len(wire') \in Nat /\ Len(wire') <= Len(accepted)
    BY <2>1 DEF WirePrefix
  <2>3. Len(wire) \in Nat /\ Len(wire) <= Len(wire')
    <3>1. Len(wire) \in Nat /\ wire \in Seq(Nat)
      BY DEF WirePrefix, IInv, DataOK
    <3>2. CASE wire' = wire
      BY <3>1, <3>2
    <3>3. CASE wire' # wire
      <4>1. /\ wire' = wire \o ReadAt(blocks[io.slot], io.off, Min2(io.canSend, space))
            /\ pc[IO] = "send"
        BY <1>3, <3>3 DEF Send
      <4>2. /\ io.slot = active /\ io.off = Active.off /\ Remaining(Active) \in Nat
            /\ io.canSend \in 1 .. Remaining(Active) /\ space \in Nat /\ Active \in Blocks
        <5>1. /\ io.slot = active /\ io.off = Active.off
              /\ io.canSend \in 1 .. Remaining(Active)
          BY <4>1 DEF IInv, PointerValid
        <5>2. space \in Nat
          BY SendPathAssumption DEF IInv, DataOK
        <5> QED BY <5>1, <5>2, Buffers
      <4>3. Min2(io.canSend, space) \in 0 .. Remaining(Active)
        BY <4>2 DEF Min2
      <4>4. ReadAt(blocks[io.slot], io.off, Min2(io.canSend, space)) \in Seq(Nat)
        BY <4>2, <4>3, ReadProperties DEF Active
      <4> QED BY <3>1, <4>1, <4>4, PrefixOf
    <3> QED BY <3>2, <3>3
  <2>4. Len(wire') \in Len(wire) .. Len(accepted)
    BY <2>2, <2>3 DEF WirePrefix
  <2> QED BY <2>1, <2>2, <2>4 DEF Stream!Deliver, Stream!StreamNext
<1>4. ASSUME NEW t, NEW n \in PacketLens, SendPacket(t, n)
      PROVE  Stream!Accept \/ UNCHANGED <<wire, accepted>>
  BY <1>2, <1>4 DEF SendPacket
<1>5. CASE AcceptStep \/ UNCHANGED vars \/ PeerDrains \/ PeerSends \/ \E how \in {"fin", "rst"} : PeerCloses(how)
  BY <1>1, <1>5 DEF AcceptStep, SetEpollFd, EpollAdd, vars, PeerDrains, PeerReads, PeerSends, PeerCloses
<1>6. ASSUME NEW t, Snapshot(t) \/ SenderFinishes(t) PROVE UNCHANGED <<wire, accepted>>
  BY <1>6 DEF Snapshot, SenderFinishes, EnableWrite, HandleDisconnect
<1>7. CASE EpollWait \/ HandleRead \/ HandleHangup \/ EventsDone \/ HandleWrite
  BY <1>1, <1>7 DEF EpollWait, HandleRead, HandleHangup, EventsDone, HandleWrite
<1>8. CASE PickBytes \/ ConsumeSent \/ Finish \/ DisableWrite
  BY <1>1, <1>8 DEF PickBytes, ConsumeSent, Finish, DisableWrite
<1>9. \/ Send \/ Stream!Accept \/ UNCHANGED <<wire, accepted>>
      \/ [Stream!StreamNext]_(Stream!streamVars)
  BY <1>4, <1>5, <1>6, <1>7, <1>8 DEF Next, IOStep, HandleWriteStep, SenderFinishes
<1> QED
  BY <1>1, <1>3, <1>9 DEF Stream!StreamNext

\* sendPacket, handleWrite and everything that runs beside them implement a
\* bounded, reliable, in-order byte stream.
THEOREM Refinement == Spec => ImplementsByteStream
<1>1. Init => Stream!StreamInit
  BY DEF Init, Stream!StreamInit
<1> QED
  BY <1>1, StreamStep, WireIsPrefix, Invariance, PTL DEF Spec, ImplementsByteStream, Stream!StreamSpec

-----------------------------------------------------------------------------
(* The I/O thread alone: what the flag says of the registration.            *)

\* handleAccept comes before any event, a descriptor that is open stays
\* registered, and the flag is set while EPOLLOUT is registered or about to be.
Listening ==
    /\ open => mapped
    /\ accepting # "added" => /\ pc[IO] = "idle" /\ open
                              /\ ~writeArmed /\ ~ready /\ interest = {}
    /\ accepting = "added" /\ open => interest # {}
    /\ pc[IO] = "disable" => ~writeArmed
    /\ writeArmed /\ open /\ pc[IO] \notin {"enable", "disconnect"} => "OUT" \in interest

\* A step of the I/O thread that registers nothing keeps it, unless it arms or
\* skips a registration.
LEMMA ListeningStep ==
    ASSUME IInv, Listening, pc[IO] # "idle" \/ ready, NEW p, pc' = [pc EXCEPT ![IO] = p],
           p = "disable" => ~writeArmed',
           pc[IO] \in {"enable", "disconnect"} => ~open,
           ~writeArmed' \/ writeArmed \/ p \in {"enable", "disconnect"},
           UNCHANGED <<interest, accepting, mapped, open>>
    PROVE  Listening'
<1>1. pc'[IO] = p
  BY DEF IInv, DataOK, Threads
<1> QED
  BY <1>1 DEF Listening

\* sendPacket arms, handleWrite disarms and both register on the I/O thread, one
\* after the other.
LEMMA ReactorListening ==
    ASSUME IInv, Listening, IOStep
    PROVE  Listening'
<1> USE DEF ctxVars, epollVars, connVars
<1>0. \A p : pc' = [pc EXCEPT ![IO] = p] => pc'[IO] = p
  BY DEF IInv, DataOK, Threads
<1>1. CASE EpollWait \/ HandleRead
  <2>1. \E p : pc' = [pc EXCEPT ![IO] = p] /\ p # "disable"
    <3>1. CASE EpollWait
      BY <3>1 DEF EpollWait
    <3>2. CASE HandleRead
      <4>1. pc = [pc EXCEPT ![IO] = pc[IO]]
        BY DEF IInv, DataOK
      <4> QED
        BY <3>2, <4>1 DEF HandleRead
    <3> QED
      BY <1>1, <3>1, <3>2
  <2>2. /\ UNCHANGED <<interest, accepting, mapped, open, writeArmed>>
        /\ pc[IO] = "dispatch" \/ (pc[IO] = "idle" /\ ready)
    BY <1>1 DEF EpollWait, HandleRead
  <2> QED
    BY <2>1, <2>2, ListeningStep
<1>2. CASE HandleHangup \/ EventsDone \/ HandleWrite \/ PickBytes \/ Send \/ ConsumeSent
  <2>1. \E p : pc' = [pc EXCEPT ![IO] = p] /\ p # "disable"
    <3>1. CASE Send
      BY <3>1 DEF Send
    <3>2. CASE PickBytes
      BY <3>2 DEF PickBytes
    <3>3. CASE HandleHangup \/ EventsDone \/ HandleWrite \/ ConsumeSent
      BY <3>3 DEF HandleHangup, EventsDone, HandleWrite, ConsumeSent
    <3> QED
      BY <1>2, <3>1, <3>2, <3>3
  <2>2. /\ UNCHANGED <<interest, accepting, mapped, open, writeArmed>>
        /\ pc[IO] \in {"dispatch", "pick", "send", "consume"}
    BY <1>2 DEF HandleHangup, EventsDone, HandleWrite, PickBytes, Send, ConsumeSent
  <2> QED
    BY <2>1, <2>2, ListeningStep
<1>3. CASE Finish
  <2>1. /\ pc[IO] = "finish" /\ UNCHANGED <<interest, accepting, mapped, open>>
        /\ \/ pc' = [pc EXCEPT ![IO] = "disable"] /\ ~writeArmed'
           \/ pc' = [pc EXCEPT ![IO] = "dispatch"] /\ writeArmed' = writeArmed
    BY <1>3 DEF Finish
  <2> QED
    BY <2>1, ListeningStep
<1>4. CASE DisableWrite
  <2>1. /\ pc[IO] = "disable" /\ pc' = [pc EXCEPT ![IO] = "dispatch"]
        /\ UNCHANGED <<accepting, mapped, open, writeArmed>> /\ EpollMod({"IN"})
    BY <1>4 DEF DisableWrite
  <2>2. pc'[IO] = "dispatch" /\ ~writeArmed /\ accepting = "added"
    BY <1>0, <2>1 DEF Listening
  <2>3. interest # {} => interest' # {}
    BY <2>1 DEF EpollMod
  <2> QED
    BY <2>1, <2>2, <2>3 DEF Listening
<1>5. CASE EnableWrite(IO)
  <2>1. /\ pc[IO] = "enable" /\ pc' = [pc EXCEPT ![IO] = "dispatch"]
        /\ UNCHANGED <<accepting, mapped, open, writeArmed>>
    BY <1>5 DEF EnableWrite, Back
  <2>2. pc'[IO] = "dispatch" /\ accepting = "added"
    BY <1>0, <2>1 DEF Listening
  <2>3. open => interest' = {"IN", "OUT"}
    BY <1>5, <2>2 DEF EnableWrite, EpollMod, WriteEvents, Listening
  <2> QED
    BY <2>1, <2>2, <2>3 DEF Listening
<1>6. CASE HandleDisconnect(IO)
  <2>1. /\ pc[IO] = "disconnect" /\ pc' = [pc EXCEPT ![IO] = "dispatch"]
        /\ UNCHANGED <<accepting, writeArmed>>
    BY <1>6 DEF HandleDisconnect, Back
  <2>2. pc'[IO] = "dispatch" /\ accepting = "added"
    BY <1>0, <2>1 DEF Listening
  <2>3. ~open'
    BY <1>6 DEF HandleDisconnect, Listening
  <2> QED
    BY <2>1, <2>2, <2>3 DEF Listening
<1>7. ASSUME NEW n \in PacketLens, SendPacket(IO, n) PROVE Listening'
  <2>1. UNCHANGED <<interest, accepting, mapped, open>>
    BY <1>7 DEF SendPacket
  <2>2. pc[IO] = "dispatch"
    BY <1>7, SendPathAssumption DEF SendPacket, MayCall, Senders
  <2>3. CASE Fits(n) /\ ~writeArmed
    BY <1>7, <2>1, <2>2, <2>3, ListeningStep DEF SendPacket
  <2>4. CASE Fits(n) /\ writeArmed
    BY <1>7, <2>1, <2>2, <2>4, ListeningStep DEF SendPacket, Back
  <2>5. CASE ~Fits(n)
    BY <1>7, <2>1, <2>2, <2>5, ListeningStep DEF SendPacket
  <2> QED
    BY <2>3, <2>4, <2>5
<1> QED
  BY <1>1, <1>2, <1>3, <1>4, <1>5, <1>6, <1>7 DEF IOStep, HandleWriteStep

\* When every packet of a connection is sent by its own I/O thread, an armed
\* connection is registered for EPOLLOUT once that thread is past its epoll_ctl
\* calls.  With a second sender the two calls can come in the wrong order.
THEOREM AloneArmedMeansListening ==
    ASSUME Senders = {}
    PROVE  Spec => []ArmedMeansListening
<1>1. Init => Listening
  BY DEF Init, Listening, Threads
<1>2. IInv /\ Listening /\ [Next]_vars => Listening'
  <2> SUFFICES ASSUME IInv, Listening, [Next]_vars PROVE Listening'
    OBVIOUS
  <2> USE DEF ctxVars, epollVars, connVars
  <2>1. CASE UNCHANGED vars
    BY <2>1 DEF vars, Listening
  <2>2. CASE SetEpollFd
    BY <2>2 DEF SetEpollFd, Listening
  <2>3. CASE EpollAdd
    BY <2>3 DEF EpollAdd, Listening
  <2>4. CASE PeerDrains \/ PeerSends \/ \E how \in {"fin", "rst"} : PeerCloses(how)
    <3>1. UNCHANGED <<interest, accepting, mapped, open, writeArmed, pc>>
      BY <2>4 DEF PeerDrains, PeerReads, PeerSends, PeerCloses
    <3>2. interest = {} => (ready' <=> ready)
      BY <2>4 DEF PeerDrains, PeerReads, PeerSends, PeerCloses
    <3> QED
      BY <3>1, <3>2 DEF Listening
  <2>5. Broadcasters = {}
    BY DEF Senders
  <2> QED
    BY <2>1, <2>2, <2>3, <2>4, <2>5, ReactorListening DEF Next, AcceptStep
<1>3. Listening => ArmedMeansListening
  BY DEF Listening, ArmedMeansListening, Threads
<1> QED
  BY <1>1, <1>2, <1>3, Invariance, PTL DEF Spec

-----------------------------------------------------------------------------
(* The connection pools.                                                   *)

INSTANCE FiniteSetTheorems

\* The scopes a thread comes to.
Scopes(t) ==
    IF t \in DbWorkers
    THEN {"checkLogin", "history", "userExists", "addFriend", "friendList", "friendListFromDB",
          "fetchPending", "getAttempt", "reschedule", "setAttempt"}
    ELSE IF t \in RedisWorkers
    THEN {"storePending", "ackPending", "invalidateUser", "invalidateTarget", "friendList",
          "friendListFromDB"}
    ELSE IF t \in RetryThreads
    THEN {"scan", "fetchPending", "getAttempt", "reschedule", "setAttempt"}
    ELSE {"flushChatLogs"}

Placed(t, x) == x = NoTask \/ \E s \in Scopes(t) : x = Start(s) \/ x = End(s)

\* The Redis connections a thread has when it comes to a scope: retryLoop's own
\* during a dispatch, and that of the scope around.
Outer(t, s) ==
    IF s \in {"fetchPending", "getAttempt", "reschedule"}
    THEN IF t \in RetryThreads THEN 1 ELSE 0
    ELSE IF s = "setAttempt"
    THEN IF t \in RetryThreads THEN 2 ELSE 1
    ELSE IF s = "friendListFromDB" THEN 1 ELSE 0

AtStart(t, s, p) == IF p = "redis" THEN Outer(t, s) ELSE 0

\* The connections of a pool a thread has where it is.
HeldAt(t, x, p) ==
    IF x.pc = "none" THEN 0
    ELSE IF x.pc = "end" /\ PoolOf(x.scope) = p THEN AtStart(t, x.scope, p) + 1
    ELSE AtStart(t, x.scope, p)

\* They are a number.
LEMMA HeldIsNat == \A t, x, p : HeldAt(t, x, p) \in Nat
<1>1. \A t, s : Outer(t, s) \in Nat
  BY DEF Outer
<1>2. \A t, s, p : AtStart(t, s, p) \in Nat
  BY <1>1 DEF AtStart
<1> QED
  BY <1>2 DEF HeldAt

\* A task starts with no connection.
LEMMA FirstPlace ==
    ASSUME NEW t \in Borrowers, NEW s \in FirstScopes(t)
    PROVE  Placed(t, Start(s)) /\ \A p \in Pools : HeldAt(t, Start(s), p) = 0
<1>1. s \in Scopes(t) /\ Outer(t, s) = 0
  BY ConnPoolsAssumption DEF FirstScopes, Scopes, Outer, Borrowers
<1> QED
  BY <1>1 DEF Placed, HeldAt, AtStart, Start

\* Getting the connection of a scope is getting one connection more.
LEMMA WithinPlace ==
    ASSUME NEW t \in Borrowers, NEW s \in Scopes(t), NEW x \in Within(s)
    PROVE  /\ Placed(t, x)
           /\ HeldAt(t, x, PoolOf(s)) = HeldAt(t, Start(s), PoolOf(s)) + 1
           /\ \A p \in Pools \ {PoolOf(s)} : HeldAt(t, x, p) = HeldAt(t, Start(s), p)
<1>1. CASE x = End(s)
  BY <1>1 DEF Placed, HeldAt, Start, End
<1>2. CASE x # End(s)
  <2>1. PICK y : /\ <<s, y>> \in {<<"friendList", "friendListFromDB">>,
                                  <<"reschedule", "setAttempt">>, <<"scan", "fetchPending">>}
                 /\ x = Start(y)
    BY <1>2 DEF Within
  <2>2. y \in Scopes(t) /\ (s = "scan" => t \in RetryThreads)
    BY <2>1, ConnPoolsAssumption DEF Scopes
  <2>3. Placed(t, x)
    BY <2>1, <2>2 DEF Placed
  <2>4. PoolOf(s) = "redis" /\ Outer(t, y) = Outer(t, s) + 1
    BY <2>1, <2>2 DEF PoolOf, DbScopes, Outer
  <2> QED
    BY <2>1, <2>3, <2>4 DEF HeldAt, AtStart, Start
<1> QED
  BY <1>1, <1>2

\* Giving it back at the end is having one less.
LEMMA AfterPlace ==
    ASSUME NEW t \in Borrowers, NEW s \in Scopes(t), NEW x \in After(t, s)
    PROVE  /\ Placed(t, x)
           /\ HeldAt(t, End(s), PoolOf(s)) = HeldAt(t, x, PoolOf(s)) + 1
           /\ \A p \in Pools \ {PoolOf(s)} : HeldAt(t, x, p) = HeldAt(t, End(s), p)
<1>1. CASE x = NoTask
  <2>1. Outer(t, s) = 0
    BY <1>1, ConnPoolsAssumption DEF After, DispatchOver, Scopes, Outer, NoTask, Start, End
  <2> QED
    BY <1>1, <2>1 DEF Placed, HeldAt, AtStart, NoTask, End
<1>2. ASSUME NEW y, x = Start(y)
      PROVE  /\ Placed(t, x)
             /\ HeldAt(t, End(s), PoolOf(s)) = HeldAt(t, x, PoolOf(s)) + 1
             /\ \A p \in Pools \ {PoolOf(s)} : HeldAt(t, x, p) = HeldAt(t, End(s), p)
  <2>1. y \in Scopes(t) /\ Outer(t, y) = Outer(t, s)
    BY <1>2, ConnPoolsAssumption DEF After, DispatchOver, Scopes, Outer, NoTask, Start, End
  <2>2. Outer(t, s) \in Nat
    BY DEF Outer
  <2> QED
    BY <1>2, <2>1, <2>2 DEF Placed, HeldAt, AtStart, Start, End
<1>3. ASSUME NEW y, x = End(y)
      PROVE  /\ Placed(t, x)
             /\ HeldAt(t, End(s), PoolOf(s)) = HeldAt(t, x, PoolOf(s)) + 1
             /\ \A p \in Pools \ {PoolOf(s)} : HeldAt(t, x, p) = HeldAt(t, End(s), p)
  <2>1. /\ y \in Scopes(t) /\ PoolOf(y) = "redis" /\ Outer(t, y) \in Nat
        /\ Outer(t, s) = Outer(t, y) + 1
    BY <1>3, ConnPoolsAssumption
    DEF After, DispatchOver, Scopes, Outer, PoolOf, DbScopes, NoTask, Start, End
  <2> QED
    BY <1>3, <2>1 DEF Placed, HeldAt, AtStart, Start, End, PoolOf
<1> QED
  BY <1>1, <1>2, <1>3 DEF After, DispatchOver

\* The connections of a pool that threads with h have.
LentBy(h, p) == UNION {{t} \X (1..h[t][p]) : t \in Borrowers}

\* Under h thread t has one connection of pool p more than under g.
OneMore(g, h, t, p) ==
    /\ g \in [Borrowers -> [Pools -> Nat]] /\ h \in [Borrowers -> [Pools -> Nat]]
    /\ h[t][p] = g[t][p] + 1
    /\ \A u \in Borrowers, q \in Pools : u # t \/ q # p => h[u][q] = g[u][q]

\* Under h that connection is lent and under g it is not.
OneLent(g, h, t, p) ==
    /\ LentBy(h, p) = LentBy(g, p) \cup {<<t, h[t][p]>>}
    /\ <<t, h[t][p]>> \notin LentBy(g, p)
    /\ \A q \in Pools \ {p} : LentBy(h, q) = LentBy(g, q)

\* One connection more with a thread is one connection more that is lent.
LEMMA LentMore ==
    ASSUME NEW g, NEW h, NEW t \in Borrowers, NEW p \in Pools, OneMore(g, h, t, p)
    PROVE  OneLent(g, h, t, p)
<1>1. \A f, q, l : l \in LentBy(f, q) <=>
                      \E u \in Borrowers : \E k \in 1..f[u][q] : l = <<u, k>>
  BY DEF LentBy
<1>2. g[t][p] \in Nat /\ 1..h[t][p] = (1..g[t][p]) \cup {h[t][p]} /\ h[t][p] \notin 1..g[t][p]
  BY DEF OneMore
<1>3. \A u \in Borrowers : u # t => 1..h[u][p] = 1..g[u][p]
  BY DEF OneMore
<1>4. <<t, h[t][p]>> \notin LentBy(g, p)
  BY <1>1, <1>2
<1>5. \A l : l \in LentBy(h, p) <=> l \in LentBy(g, p) \/ l = <<t, h[t][p]>>
  <2>1. ASSUME NEW l \in LentBy(h, p) PROVE l \in LentBy(g, p) \/ l = <<t, h[t][p]>>
    <3>1. PICK u \in Borrowers : \E k \in 1..h[u][p] : l = <<u, k>>
      BY <1>1
    <3>2. PICK k \in 1..h[u][p] : l = <<u, k>>
      BY <3>1
    <3> QED
      BY <1>1, <1>2, <1>3, <3>2
  <2>2. ASSUME NEW l \in LentBy(g, p) PROVE l \in LentBy(h, p)
    <3>1. PICK u \in Borrowers : \E k \in 1..g[u][p] : l = <<u, k>>
      BY <1>1
    <3>2. PICK k \in 1..g[u][p] : l = <<u, k>>
      BY <3>1
    <3> QED
      BY <1>1, <1>2, <1>3, <3>2
  <2>3. <<t, h[t][p]>> \in LentBy(h, p)
    BY <1>1, <1>2
  <2> QED
    BY <2>1, <2>2, <2>3
<1>6. ASSUME NEW q \in Pools \ {p} PROVE LentBy(h, q) = LentBy(g, q)
  <2>1. \A u \in Borrowers : h[u][q] = g[u][q]
    BY DEF OneMore
  <2> QED
    BY <2>1 DEF LentBy
<1> QED
  BY <1>4, <1>5, <1>6 DEF OneLent

\* What a pool has in stock and what threads with h have add up to its size.
Balanced(f, h, n) ==
    \A p \in Pools : IsFiniteSet(LentBy(h, p)) /\ f[p] + Cardinality(LentBy(h, p)) = n[p]

\* The inductive invariant.
ConnIInv ==
    /\ size \in [Pools -> Nat] /\ size["redis"] \in RedisSizes /\ size["db"] # 0
    /\ free \in [Pools -> Nat] /\ held \in [Borrowers -> [Pools -> Nat]]
    /\ at = [t \in Borrowers |-> at[t]]
    /\ \A t \in Borrowers : /\ Placed(t, at[t])
                            /\ \A p \in Pools : held[t][p] = HeldAt(t, at[t], p)
    /\ Balanced(free, held, size)

\* The initial states satisfy it.
LEMMA InitConnIInv == ConnInit => ConnIInv
<1> SUFFICES ASSUME ConnInit PROVE ConnIInv
  OBVIOUS
<1>1. \A p \in Pools : LentBy(held, p) = {}
  BY DEF ConnInit, LentBy
<1>2. size \in [Pools -> Nat] /\ size["redis"] \in RedisSizes /\ size["db"] # 0
  BY ConnPoolsAssumption DEF ConnInit
<1>3. Balanced(free, held, size)
  <2>1. \A p \in Pools : free[p] \in Nat /\ free[p] = size[p]
    BY <1>2 DEF ConnInit
  <2> QED
    BY <1>1, <2>1, FS_EmptySet DEF Balanced
<1>4. \A t \in Borrowers : /\ Placed(t, at[t])
                           /\ \A p \in Pools : held[t][p] = HeldAt(t, at[t], p)
  BY DEF ConnInit, Placed, HeldAt, NoTask
<1>5. /\ free \in [Pools -> Nat] /\ held \in [Borrowers -> [Pools -> Nat]]
      /\ at = [t \in Borrowers |-> at[t]]
  BY <1>2 DEF ConnInit
<1> QED
  BY <1>2, <1>3, <1>4, <1>5 DEF ConnIInv

\* A step of a thread keeps it that puts the thread in one of its places, with
\* the connections it then has, and keeps the balance.
LEMMA ConnStep ==
    ASSUME ConnIInv, UNCHANGED size, NEW t \in Borrowers, NEW x, Placed(t, x),
           at' = [at EXCEPT ![t] = x],
           free' \in [Pools -> Nat], held' \in [Borrowers -> [Pools -> Nat]],
           \A p \in Pools : held'[t][p] = HeldAt(t, x, p),
           \A u \in Borrowers \ {t}, p \in Pools : held'[u][p] = held[u][p],
           Balanced(free', held', size)
    PROVE  ConnIInv'
<1>1. \A u \in Borrowers : at'[u] = IF u = t THEN x ELSE at[u]
  BY DEF ConnIInv
<1>2. at' = [u \in Borrowers |-> at'[u]]
  BY DEF ConnIInv
<1>3. ASSUME NEW u \in Borrowers
      PROVE  Placed(u, at'[u]) /\ \A p \in Pools : held'[u][p] = HeldAt(u, at'[u], p)
  BY <1>1 DEF ConnIInv
<1> QED
  BY <1>2, <1>3 DEF ConnIInv, Balanced

\* Every step keeps it.
LEMMA NextConnIInv == ConnIInv /\ [ConnNext]_connPoolVars => ConnIInv'
<1> SUFFICES ASSUME ConnIInv, [ConnNext]_connPoolVars PROVE ConnIInv'
  OBVIOUS
<1>1. ASSUME NEW t \in Borrowers, Begin(t) PROVE ConnIInv'
  <2>1. PICK s \in FirstScopes(t) : at' = [at EXCEPT ![t] = Start(s)]
    BY <1>1 DEF Begin
  <2>2. Placed(t, Start(s)) /\ \A p \in Pools : HeldAt(t, Start(s), p) = 0
    BY FirstPlace
  <2>3. \A p \in Pools : held[t][p] = 0
    BY <1>1 DEF Begin, ConnIInv, HeldAt, NoTask
  <2>4. UNCHANGED <<size, free, held>>
    BY <1>1 DEF Begin
  <2>5. /\ free \in [Pools -> Nat] /\ held \in [Borrowers -> [Pools -> Nat]]
        /\ Balanced(free, held, size)
    BY DEF ConnIInv
  <2> HIDE DEF ConnIInv
  <2> QED
    BY <2>1, <2>2, <2>3, <2>4, <2>5, ConnStep
<1>2. ASSUME NEW t \in Borrowers, GetConnection(t) PROVE ConnIInv'
  <2> DEFINE s == at[t].scope
             p == PoolOf(s)
  <2>9. held \in [Borrowers -> [Pools -> Nat]] /\ Balanced(free, held, size)
    BY DEF ConnIInv
  <2>1. PICK x \in Within(s) : at' = [at EXCEPT ![t] = x]
    BY <1>2 DEF GetConnection
  <2>2. s \in Scopes(t) /\ at[t] = Start(s)
    BY <1>2 DEF GetConnection, ConnIInv, Placed, NoTask, Start, End
  <2>3. /\ p \in Pools /\ free[p] > 0 /\ UNCHANGED size
        /\ free' = [free EXCEPT ![p] = @ - 1] /\ held' = [held EXCEPT ![t][p] = @ + 1]
    BY <1>2 DEF GetConnection, PoolOf, Pools
  <2>4. /\ Placed(t, x)
        /\ HeldAt(t, x, p) = HeldAt(t, Start(s), p) + 1
        /\ \A q \in Pools \ {p} : HeldAt(t, x, q) = HeldAt(t, Start(s), q)
    BY <2>1, <2>2, WithinPlace
  <2> HIDE DEF p, s
  <2>5. free' \in [Pools -> Nat] /\ held' \in [Borrowers -> [Pools -> Nat]]
    BY <2>3 DEF ConnIInv
  <2>6. /\ held'[t][p] = held[t][p] + 1
        /\ \A u \in Borrowers, q \in Pools : u # t \/ q # p => held'[u][q] = held[u][q]
    BY <2>3 DEF ConnIInv
  <2>7. \A q \in Pools : held'[t][q] = HeldAt(t, x, q)
    BY <2>2, <2>3, <2>4, <2>6 DEF ConnIInv
  <2>8. Balanced(free', held', size)
    <3>1. /\ LentBy(held', p) = LentBy(held, p) \cup {<<t, held'[t][p]>>}
          /\ <<t, held'[t][p]>> \notin LentBy(held, p)
          /\ \A q \in Pools \ {p} : LentBy(held', q) = LentBy(held, q)
      <4>1. OneMore(held, held', t, p)
        BY <2>5, <2>6, <2>9 DEF OneMore
      <4>2. p \in Pools
        BY <2>3
      <4>3. OneLent(held, held', t, p)
        BY <4>1, <4>2, LentMore
      <4> QED
        BY <4>3 DEF OneLent
    <3>2. /\ IsFiniteSet(LentBy(held', p))
          /\ Cardinality(LentBy(held', p)) = Cardinality(LentBy(held, p)) + 1
      <4> DEFINE S == LentBy(held, p)
                 l == <<t, held'[t][p]>>
      <4>1. IsFiniteSet(S) /\ l \notin S /\ LentBy(held', p) = S \cup {l}
        BY <2>3, <2>9, <3>1 DEF Balanced
      <4> HIDE DEF S, l
      <4>2. IsFiniteSet(S \cup {l}) /\ Cardinality(S \cup {l}) = Cardinality(S) + 1
        BY <4>1, FS_AddElement
      <4> QED
        BY <4>1, <4>2 DEF S
    <3>3. Cardinality(LentBy(held, p)) \in Nat
      BY <2>3, <2>9, FS_CardinalityType DEF Balanced
    <3>4. free'[p] = free[p] - 1 /\ free[p] \in Nat /\ \A q \in Pools \ {p} : free'[q] = free[q]
      BY <2>3 DEF ConnIInv
    <3>5. free'[p] + Cardinality(LentBy(held', p)) = size[p]
      <4> DEFINE k == Cardinality(LentBy(held, p))
                 m == Cardinality(LentBy(held', p))
      <4>1. free[p] + k = size[p] /\ k \in Nat /\ m = k + 1
        BY <2>3, <2>9, <3>2, <3>3 DEF Balanced
      <4> HIDE DEF k, m
      <4>2. free'[p] + m = size[p]
        BY <4>1, <3>4
      <4> QED
        BY <4>2 DEF m
    <3> QED
      BY <2>9, <3>1, <3>2, <3>3, <3>4, <3>5 DEF Balanced
  <2> QED
    BY <2>1, <2>3, <2>4, <2>5, <2>6, <2>7, <2>8, ConnStep
<1>3. ASSUME NEW t \in Borrowers, Release(t) PROVE ConnIInv'
  <2> DEFINE s == at[t].scope
             p == PoolOf(s)
  <2>9. held \in [Borrowers -> [Pools -> Nat]] /\ Balanced(free, held, size)
    BY DEF ConnIInv
  <2>1. PICK x \in After(t, s) : at' = [at EXCEPT ![t] = x]
    BY <1>3 DEF Release
  <2>2. s \in Scopes(t) /\ at[t] = End(s)
    BY <1>3 DEF Release, ConnIInv, Placed, NoTask, Start, End
  <2>3. /\ p \in Pools /\ UNCHANGED size
        /\ free' = [free EXCEPT ![p] = @ + 1] /\ held' = [held EXCEPT ![t][p] = @ - 1]
    BY <1>3 DEF Release, PoolOf, Pools
  <2>4. /\ Placed(t, x)
        /\ HeldAt(t, End(s), p) = HeldAt(t, x, p) + 1
        /\ \A q \in Pools \ {p} : HeldAt(t, x, q) = HeldAt(t, End(s), q)
    BY <2>1, <2>2, AfterPlace
  <2>4a. HeldAt(t, x, p) \in Nat
    BY HeldIsNat
  <2> HIDE DEF p, s
  <2>5. /\ held[t][p] = HeldAt(t, x, p) + 1 /\ held'[t][p] = HeldAt(t, x, p)
        /\ \A u \in Borrowers, q \in Pools : u # t \/ q # p => held'[u][q] = held[u][q]
    BY <2>2, <2>3, <2>4, <2>4a DEF ConnIInv
  <2>6. free' \in [Pools -> Nat] /\ held' \in [Borrowers -> [Pools -> Nat]]
    BY <2>3, <2>4a, <2>5 DEF ConnIInv
  <2>7. \A q \in Pools : held'[t][q] = HeldAt(t, x, q)
    BY <2>2, <2>3, <2>4, <2>5 DEF ConnIInv
  <2>8. Balanced(free', held', size)
    <3>1. /\ LentBy(held, p) = LentBy(held', p) \cup {<<t, held[t][p]>>}
          /\ <<t, held[t][p]>> \notin LentBy(held', p)
          /\ \A q \in Pools \ {p} : LentBy(held, q) = LentBy(held', q)
      <4>1. OneMore(held', held, t, p)
        BY <2>5, <2>6, <2>9 DEF OneMore
      <4>2. p \in Pools
        BY <2>3
      <4>3. OneLent(held', held, t, p)
        BY <4>1, <4>2, LentMore
      <4> QED
        BY <4>3 DEF OneLent
    <3> DEFINE l == <<t, held[t][p]>>
    <3>2. LentBy(held', p) = LentBy(held, p) \ {l} /\ l \in LentBy(held, p)
      BY <3>1
    <3> HIDE DEF l
    <3>3. /\ IsFiniteSet(LentBy(held', p))
          /\ Cardinality(LentBy(held', p)) = Cardinality(LentBy(held, p)) - 1
      <4>1. IsFiniteSet(LentBy(held, p))
        BY <2>3, <2>9 DEF Balanced
      <4> QED
        BY <3>2, <4>1, FS_RemoveElement
    <3>4. Cardinality(LentBy(held, p)) \in Nat
      BY <2>3, <2>9, FS_CardinalityType DEF Balanced
    <3>5. free'[p] = free[p] + 1 /\ free[p] \in Nat /\ \A q \in Pools \ {p} : free'[q] = free[q]
      BY <2>3 DEF ConnIInv
    <3>6. free'[p] + Cardinality(LentBy(held', p)) = size[p]
      <4> DEFINE k == Cardinality(LentBy(held, p))
                 m == Cardinality(LentBy(held', p))
      <4>1. free[p] + k = size[p] /\ k \in Nat /\ m = k - 1
        BY <2>3, <2>9, <3>3, <3>4 DEF Balanced
      <4> HIDE DEF k, m
      <4>2. free'[p] + m = size[p]
        BY <4>1, <3>5
      <4> QED
        BY <4>2 DEF m
    <3> QED
      BY <2>9, <3>1, <3>3, <3>4, <3>5, <3>6 DEF Balanced
  <2> QED
    BY <2>1, <2>3, <2>4, <2>5, <2>6, <2>7, <2>8, ConnStep
<1>4. CASE UNCHANGED connPoolVars
  BY <1>4 DEF connPoolVars, ConnIInv, Balanced, LentBy
<1> QED
  BY <1>1, <1>2, <1>3, <1>4 DEF ConnNext

\* RedisConnectionPool and DBConnectionPool have lent exactly the connections
\* they do not hold, and a thread that has ended its task has given back all.
THEOREM ConnTypeCorrect == ConnSpec => []ConnTypeOK
<1>1. ASSUME ConnIInv PROVE ConnTypeOK
  <2>1. \A p \in Pools : free[p] + Cardinality(Lent(p)) = size[p]
    BY <1>1 DEF ConnIInv, Balanced, Lent, LentBy
  <2>2. ASSUME NEW t \in Borrowers, at[t] = NoTask PROVE held[t] = [p \in Pools |-> 0]
    <3>1. \A p \in Pools : held[t][p] = 0
      BY <1>1, <2>2 DEF ConnIInv, HeldAt, NoTask
    <3>2. held[t] \in [Pools -> Nat]
      BY <1>1 DEF ConnIInv
    <3> QED
      BY <3>1, <3>2
  <2> QED
    BY <1>1, <2>1, <2>2 DEF ConnIInv, ConnTypeOK
<1> QED
  BY <1>1, InitConnIInv, NextConnIInv, PTL DEF ConnSpec

\* No thread of a standstill has a MySQL connection, and only threads that
\* dispatch have Redis connections.
LEMMA Standstill == ConnIInv => StandstillNeedsNesting
<1> SUFFICES ASSUME ConnIInv, InTask # {}, \A t \in InTask : ~CanGoOn(t)
             PROVE  /\ free["redis"] = 0 /\ free["db"] = size["db"]
                    /\ \A t \in InTask : PoolOf(at[t].scope) = "redis"
                    /\ \A t \in DbWorkers : held[t]["redis"] <= 1
                    /\ \A t \in RetryThreads : held[t]["redis"] <= 2
                    /\ size["redis"] <= Cardinality(DbWorkers) + 2 * Cardinality(RetryThreads)
  BY DEF StandstillNeedsNesting
<1> USE DEF Pools
<1>1. ASSUME NEW t \in Borrowers
      PROVE  at[t] = NoTask \/ \E s \in Scopes(t) : at[t] = Start(s) /\ free[PoolOf(s)] = 0
  <2>1. at[t] = NoTask \/ \E s \in Scopes(t) : at[t] = Start(s)
    BY DEF ConnIInv, Placed, InTask, CanGoOn, NoTask, Start, End
  <2>2. ASSUME NEW s \in Scopes(t), at[t] = Start(s) PROVE free[PoolOf(s)] = 0
    <3>1. at[t] # NoTask /\ at[t].scope = s
      BY <2>2 DEF NoTask, Start
    <3>2. free[PoolOf(s)] \in Nat
      BY DEF ConnIInv, PoolOf
    <3> QED
      BY <3>1, <3>2 DEF InTask, CanGoOn
  <2> QED
    BY <2>1, <2>2
<1>2. free["db"] = size["db"]
  <2>1. \A t \in Borrowers : held[t]["db"] = 0
    BY <1>1 DEF ConnIInv, HeldAt, AtStart, NoTask, Start
  <2>2. LentBy(held, "db") = {}
    BY <2>1 DEF LentBy
  <2> QED
    BY <2>2, FS_EmptySet DEF ConnIInv, Balanced
<1>3. ASSUME NEW t \in InTask
      PROVE  \E s \in Scopes(t) : at[t] = Start(s) /\ PoolOf(s) = "redis" /\ free["redis"] = 0
  <2>1. PICK s \in Scopes(t) : at[t] = Start(s) /\ free[PoolOf(s)] = 0
    BY <1>1 DEF InTask
  <2> QED
    BY <1>2, <2>1 DEF PoolOf, ConnIInv
<1>4. free["redis"] = 0 /\ \A t \in InTask : PoolOf(at[t].scope) = "redis"
  <2>1. \A s : Start(s).scope = s
    BY DEF Start
  <2> QED
    BY <1>3, <2>1
<1>5. ASSUME NEW t \in Borrowers
      PROVE  \/ held[t]["redis"] = 0
             \/ t \in DbWorkers /\ held[t]["redis"] = 1
             \/ t \in RetryThreads /\ held[t]["redis"] \in {1, 2}
  <2>1. CASE at[t] = NoTask
    BY <2>1 DEF ConnIInv, HeldAt, NoTask
  <2>2. CASE at[t] # NoTask
    <3>1. PICK s \in Scopes(t) : at[t] = Start(s) /\ PoolOf(s) = "redis"
      BY <1>3, <2>2 DEF InTask
    <3>2. held[t]["redis"] = Outer(t, s)
      BY <3>1 DEF ConnIInv, HeldAt, AtStart, Start
    <3>3. s # "friendListFromDB"
      BY <3>1 DEF PoolOf, DbScopes
    <3> QED
      BY <3>2, <3>3 DEF Outer, Scopes
  <2> QED
    BY <2>1, <2>2
<1>6. DbWorkers \cap RetryThreads = {} /\ DbWorkers \subseteq Borrowers /\ RetryThreads \subseteq Borrowers
  BY ConnPoolsAssumption DEF Borrowers
<1>7. /\ \A t \in DbWorkers : held[t]["redis"] <= 1
      /\ \A t \in RetryThreads : held[t]["redis"] <= 2
  BY <1>5, <1>6
<1>8. size["redis"] <= Cardinality(DbWorkers) + 2 * Cardinality(RetryThreads)
  <2> DEFINE L == LentBy(held, "redis")
             D == DbWorkers \X {1}
             R == RetryThreads \X {1, 2}
  <2>1. IsFiniteSet(DbWorkers) /\ IsFiniteSet(RetryThreads)
    BY <1>6, ConnPoolsAssumption, FS_Subset
  <2>2. /\ IsFiniteSet({1}) /\ Cardinality({1}) = 1
        /\ IsFiniteSet({1, 2}) /\ Cardinality({1, 2}) = 2
    <3>1. {1, 2} = {1} \cup {2} /\ 2 \notin {1}
      OBVIOUS
    <3>2. IsFiniteSet({1}) /\ Cardinality({1}) = 1
      BY FS_Singleton
    <3>3. IsFiniteSet({1} \cup {2}) /\ Cardinality({1} \cup {2}) = 1 + 1
      BY <3>1, <3>2, FS_AddElement
    <3> QED
      BY <3>1, <3>2, <3>3
  <2>3. /\ IsFiniteSet(D) /\ Cardinality(D) = Cardinality(DbWorkers) * 1
        /\ IsFiniteSet(R) /\ Cardinality(R) = Cardinality(RetryThreads) * 2
    BY <2>1, <2>2, FS_Product
  <2>4. \A t \in Borrowers : \A k \in 1..held[t]["redis"] : <<t, k>> \in D \cup R
    BY <1>5
  <2>5. L \subseteq D \cup R
    BY <2>4 DEF LentBy
  <2>6. Cardinality(L) = size["redis"]
    <3>1. IsFiniteSet(L) /\ free["redis"] + Cardinality(L) = size["redis"]
      BY DEF ConnIInv, Balanced
    <3> HIDE DEF L
    <3>2. Cardinality(L) \in Nat
      BY <3>1, FS_CardinalityType
    <3> QED
      BY <1>4, <3>1, <3>2
  <2> HIDE DEF L, D, R
  <2>7. /\ IsFiniteSet(D \cup R)
        /\ Cardinality(D \cup R) = Cardinality(D) + Cardinality(R) - Cardinality(D \cap R)
    BY <2>3, FS_Union
  <2>8. Cardinality(L) <= Cardinality(D \cup R)
    BY <2>5, <2>7, FS_Subset
  <2>9. IsFiniteSet(D \cap R)
    BY <2>3, FS_Subset
  <2>10. /\ Cardinality(D \cap R) \in Nat
         /\ Cardinality(DbWorkers) \in Nat /\ Cardinality(RetryThreads) \in Nat
    BY <2>1, <2>9, FS_CardinalityType
  <2>11. size["redis"] \in Nat
    BY DEF ConnIInv
  <2> QED
    BY <2>3, <2>6, <2>7, <2>8, <2>10, <2>11
<1> QED
  BY <1>2, <1>4, <1>7, <1>8

\* Threads wait for each other for ever only over the nested Redis connections
\* of dispatchDueMessagesForUser and retryLoop, for any number of threads and
\* any sizes of the pools.
THEOREM StandstillAlwaysNesting == ConnSpec => []StandstillNeedsNesting
BY InitConnIInv, NextConnIInv, Standstill, PTL DEF ConnSpec

\* Every Redis pool the server can be given is larger than what the nested gets
\* can hold between them.
EnoughRedis ==
    \A n \in RedisSizes : n > Cardinality(DbWorkers) + 2 * Cardinality(RetryThreads)

\* With a Redis pool of that size some thread in a task can always go on: the
\* waits in getConnection cannot close a cycle.
THEOREM EnoughNeverStandsStill ==
    EnoughRedis => (ConnSpec => [](InTask # {} => \E t \in InTask : CanGoOn(t)))
<1> SUFFICES ASSUME EnoughRedis
             PROVE  ConnSpec => [](InTask # {} => \E t \in InTask : CanGoOn(t))
  OBVIOUS
<1>1. ConnIInv => (InTask # {} => \E t \in InTask : CanGoOn(t))
  <2> SUFFICES ASSUME ConnIInv, InTask # {}, ~(\E t \in InTask : CanGoOn(t)) PROVE FALSE
    OBVIOUS
  <2>1. size["redis"] <= Cardinality(DbWorkers) + 2 * Cardinality(RetryThreads)
    BY Standstill DEF StandstillNeedsNesting
  <2>2. size["redis"] \in RedisSizes /\ size["redis"] \in Nat
    BY DEF ConnIInv, Pools
  <2>3. IsFiniteSet(DbWorkers) /\ IsFiniteSet(RetryThreads)
    BY ConnPoolsAssumption, FS_Subset DEF Borrowers
  <2>4. Cardinality(DbWorkers) \in Nat /\ Cardinality(RetryThreads) \in Nat
    BY <2>3, FS_CardinalityType
  <2> QED
    BY <2>1, <2>2, <2>4 DEF EnoughRedis
<1> QED
  BY <1>1, InitConnIInv, NextConnIInv, PTL DEF ConnSpec
=============================================================================
