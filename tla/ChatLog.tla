------------------------------ MODULE ChatLog ------------------------------
(***************************************************************************)
(* The log of chat messages: enqueueChatLog, called by the workers, puts   *)
(* an entry in m_chatLogActiveQueue; chatLogFlushLoop swaps the two queues *)
(* under the mutex and then empties m_chatLogFlushQueue in batches without *)
(* it, one INSERT to a batch.  enqueueChatLog reads the size of that queue *)
(* meanwhile, a data race: while an element is being removed the size it   *)
(* sees may be off by up to Torn elements (a block of the deque).          *)
(*                                                                         *)
(* An entry is the number of its acceptance.  The counters that are only   *)
(* printed are left out.                                                   *)
(***************************************************************************)
EXTENDS Integers, Sequences

CONSTANTS
    BatchSize,  \* kChatLogBatchSize
    Limit,      \* kChatLogQueueLimit
    Torn,       \* error of a size read during a removal
    Stops,      \* whether the server is destroyed
    MaxEntries  \* bound: entries accepted

ASSUME ChatLogAssumption ==
    /\ BatchSize \in Nat \ {0}
    /\ Limit \in Nat /\ Torn \in Nat /\ MaxEntries \in Nat
    /\ Stops \in BOOLEAN

VARIABLES
    active, flush,  \* the two queues
    batch,          \* the batch being put together or written
    pc,             \* the flush thread: "wait", "pop", "write" or "gone"
    draining,       \* it has left its main loop
    stop,           \* m_chatLogStop
    accepted,       \* history: number of entries accepted
    handed          \* history: entries handed to flushChatLogsBatch, in order

vars == <<active, flush, batch, pc, draining, stop, accepted, handed>>

-----------------------------------------------------------------------------
\* m_chatLogFlushQueue.size() can give n.
Sees(n) ==
    IF pc = "pop" THEN n <= Len(flush) + Torn /\ Len(flush) <= n + Torn ELSE n = Len(flush)

Room(n) == Len(active) + n < Limit

\* An entry is accepted, or dropped, which changes nothing.
EnqueueChatLog ==
    /\ accepted < MaxEntries
    /\ \E n \in 0..(Len(flush) + Torn) : Sees(n) /\ Room(n)
    /\ accepted' = accepted + 1
    /\ active' = Append(active, accepted + 1)
    /\ UNCHANGED <<flush, batch, pc, draining, stop, handed>>

\* Mutation: the thread waits for a whole batch.
SwapFullBatches ==
    IF Len(active) >= BatchSize THEN active' = flush /\ flush' = active
                                ELSE UNCHANGED <<active, flush>>

\* The swap of the queues, when there is something to write.
Swap ==
    IF active # <<>> THEN active' = flush /\ flush' = active ELSE UNCHANGED <<active, flush>>

\* Main loop: the wait ends with an entry, after kChatLogFlushIntervalMs or with
\* the stop; in the critical section the queues are swapped, or the loop is left.
Collect ==
    /\ pc = "wait" /\ ~draining
    /\ IF stop
       THEN \/ /\ draining' = TRUE
               /\ UNCHANGED <<active, flush, pc>>
            \/ \* the stop came after the test at the head of the loop
               /\ active # <<>> /\ Swap
               /\ pc' = "pop"
               /\ UNCHANGED draining
       ELSE /\ Swap
            /\ pc' = "pop"
            /\ UNCHANGED draining
    /\ UNCHANGED <<batch, stop, accepted, handed>>

\* Mutation: the active queue is not looked at again.
DrainHasty ==
    /\ pc = "wait" /\ draining
    /\ pc' = IF flush = <<>> THEN "gone" ELSE "pop"
    /\ UNCHANGED <<active, flush, batch, draining, stop, accepted, handed>>

\* After it: whatever has come is still written; with both queues empty the
\* thread ends.
Drain ==
    /\ pc = "wait" /\ draining
    /\ IF flush = <<>> THEN Swap ELSE UNCHANGED <<active, flush>>
    /\ pc' = IF flush' = <<>> THEN "gone" ELSE "pop"
    /\ UNCHANGED <<batch, draining, stop, accepted, handed>>

BatchFull == Len(batch) >= BatchSize

\* Mutation: the newest entry is taken first.
PopBack ==
    /\ pc = "pop" /\ flush # <<>> /\ ~BatchFull
    /\ batch' = Append(batch, flush[Len(flush)])
    /\ flush' = SubSeq(flush, 1, Len(flush) - 1)
    /\ UNCHANGED <<active, pc, draining, stop, accepted, handed>>

\* One removal from the flush queue, without the mutex.
PopFront ==
    /\ pc = "pop" /\ flush # <<>> /\ ~BatchFull
    /\ batch' = Append(batch, Head(flush))
    /\ flush' = Tail(flush)
    /\ UNCHANGED <<active, pc, draining, stop, accepted, handed>>

BatchReady ==
    /\ pc = "pop" /\ (flush = <<>> \/ BatchFull)
    /\ pc' = IF batch = <<>> THEN "wait" ELSE "write"
    /\ UNCHANGED <<active, flush, batch, draining, stop, accepted, handed>>

\* flushChatLogsBatch: the batch is gone afterwards, whether MySQL took it or not.
FlushChatLogsBatch ==
    /\ pc = "write"
    /\ handed' = handed \o batch
    /\ batch' = <<>>
    /\ pc' = IF flush = <<>> THEN "wait" ELSE "pop"
    /\ UNCHANGED <<active, flush, draining, stop, accepted>>

\* The destructor of the server stops the thread and then waits for it.
Stop ==
    /\ Stops /\ ~stop
    /\ stop' = TRUE
    /\ UNCHANGED <<active, flush, batch, pc, draining, accepted, handed>>

Init ==
    /\ active = <<>> /\ flush = <<>> /\ batch = <<>>
    /\ pc = "wait" /\ draining = FALSE /\ stop = FALSE
    /\ accepted = 0 /\ handed = <<>>

FlushThread == Collect \/ Drain \/ PopFront \/ BatchReady \/ FlushChatLogsBatch

Next == EnqueueChatLog \/ FlushThread \/ Stop

Spec == Init /\ [][Next]_vars

\* The flush thread is scheduled: its wait ends after an interval at the latest.
FairSpec == Spec /\ WF_vars(FlushThread)

-----------------------------------------------------------------------------
(* Properties.                                                             *)

\* Every variable keeps its type, and a batch keeps to kChatLogBatchSize.
TypeOK ==
    /\ active \in Seq(Nat) /\ flush \in Seq(Nat) /\ batch \in Seq(Nat)
    /\ Len(batch) <= BatchSize
    /\ pc \in {"wait", "pop", "write", "gone"}
    /\ draining \in BOOLEAN /\ stop \in BOOLEAN
    /\ accepted \in Nat /\ handed \in Seq(Nat)

\* No entry that enqueueChatLog accepted is lost, repeated or overtaken on its
\* way through the two queues to flushChatLogsBatch, although the flush queue is
\* emptied without the mutex.
InOrder == ((handed \o batch) \o flush) \o active = [i \in 1..accepted |-> i]

\* The queues keep to kChatLogQueueLimit, up to the error of the unlocked size.
QueuesBounded == Len(active) + Len(flush) <= Limit + Torn

\* The flush thread ends only when it has handed over everything accepted so far.
EndsWithNothingLeft == [][pc' = "gone" => pc = "gone" \/ Len(handed) = accepted]_vars

\* An entry is handed to flushChatLogsBatch unless the thread has ended.
AcceptedIsHanded ==
    \A n \in 1..MaxEntries : accepted >= n ~> (Len(handed) >= n \/ pc = "gone")
=============================================================================
