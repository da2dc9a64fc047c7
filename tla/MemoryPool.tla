----------------------------- MODULE MemoryPool -----------------------------
(***************************************************************************)
(* The memory pool under v2/: a cache of free blocks per thread, a central *)
(* cache with one list and one spin lock per size class, and a page cache  *)
(* that maps new spans.  A block is a span and an index.  A free block     *)
(* holds the pointer to the next one of its list in its first word, which  *)
(* its user overwrites: link is that word, Junk in a block that is in use. *)
(*                                                                         *)
(* A free returns a block to the cache of the thread that makes it, and no *)
(* path leads back from there: the code that returns blocks to the central *)
(* cache, and spans to the page cache, is switched off, so every span is a *)
(* new one.  Requests above MAX_BYTES go to malloc and are left out.       *)
(***************************************************************************)
EXTENDS Integers, FiniteSets

CONSTANTS
    Threads,
    Central,      \* the home of the lists of CentralCache
    Spans,        \* what mmap can return
    Sizes,        \* the sizes asked for
    Alignment,    \* ALIGNMENT
    MaxBytes,     \* MAX_BYTES
    PageSize, SpanPages,
    MaxTrackers,  \* the length of spanTrackers_
    Null, Junk, None

Homes == Threads \cup {Central}

ASSUME MemoryPoolAssumption ==
    /\ Central \notin Threads /\ None \notin Homes \cup Spans \cup Int
    /\ IsFiniteSet(Spans)
    /\ Alignment \in Nat \ {0} /\ PageSize \in Nat \ {0} /\ SpanPages \in Nat \ {0}
    /\ MaxBytes \in Nat /\ Alignment <= MaxBytes /\ MaxBytes % Alignment = 0
    /\ Sizes \subseteq 0..MaxBytes
    /\ MaxTrackers \in Nat
    /\ Null \notin Spans \X Nat /\ Junk \notin Spans \X Nat /\ Null # Junk

-----------------------------------------------------------------------------
(* Size classes and spans.                                                 *)

\* Mutation: the division rounds down.
IndexBelow(bytes) ==
    LET b == IF bytes < Alignment THEN Alignment ELSE bytes IN b \div Alignment - 1

GetIndex(bytes) ==
    LET b == IF bytes < Alignment THEN Alignment ELSE bytes
    IN  (b + Alignment - 1) \div Alignment - 1

Classes == 0 .. MaxBytes \div Alignment - 1

BlockSize(c) == (c + 1) * Alignment

NumPages(c) ==
    IF BlockSize(c) <= SpanPages * PageSize THEN SpanPages
    ELSE (BlockSize(c) + PageSize - 1) \div PageSize

BlockNum(c) == (NumPages(c) * PageSize) \div BlockSize(c)

Blocks == Spans \X (0 .. (SpanPages * PageSize) \div Alignment)
Lists == Homes \X Classes

VARIABLES
    head,          \* freeList_ of each thread and centralFreeList_, by home and class
    link,          \* the first word of each block
    freeListSize,  \* per thread and class
    locks,         \* per class: the thread that has the spin lock
    classOf,       \* per span: the class it was split for, None before it is mapped
    spanCount, trackers,  \* spanTrackers_: per index, span and freeCount
    th,            \* per thread: what it does next, for what size, with what block
    size,          \* per block in use: the size it was asked for, else None
    owner          \* history: where each block is

centralVars == <<locks, classOf, spanCount, trackers>>
vars == <<head, link, freeListSize, centralVars, th, size, owner>>

Idle == [pc |-> "idle", want |-> 0, hand |-> Null, slot |-> 0]
At(t, pc) == th[t].pc = pc
Class(t) == GetIndex(th[t].want)
Goes(t, pc) == th' = [th EXCEPT ![t].pc = pc]

\* The places of a block other than the lists.
Nowhere == <<None, -1>>
InUse == <<None, 0>>
Hand(t) == <<t, -1>>

-----------------------------------------------------------------------------
(* ThreadCache.                                                            *)

\* Block b is given to the caller, who asked for n bytes.
Give(b, n) == size' = [size EXCEPT ![b] = n]

\* Mutation: the block stays at the head of its list.
KeepHead(list, b) == head[list]

\* The list without its first block b.
Popped(list, b) == link[b]

LengthAfterPop(n) == IF n > 0 THEN n - 1 ELSE n

AllocateLocal(t, n) ==
    LET list == <<t, GetIndex(n)>>
        b == head[list] IN
    /\ th[t] = Idle /\ b # Null
    /\ head' = [head EXCEPT ![list] = Popped(list, b)]
    /\ freeListSize' = [freeListSize EXCEPT ![list] = LengthAfterPop(@)]
    /\ Give(b, n)
    /\ link' = [link EXCEPT ![b] = Junk]
    /\ owner' = [owner EXCEPT ![b] = InUse]
    /\ UNCHANGED <<centralVars, th>>

\* The list is empty: fetchFromCentralCache.
AllocateMiss(t, n) ==
    /\ th[t] = Idle /\ head[<<t, GetIndex(n)>>] = Null
    /\ th' = [th EXCEPT ![t] = [pc |-> "lock", want |-> n, hand |-> Null, slot |-> 0]]
    /\ UNCHANGED <<head, link, freeListSize, centralVars, size, owner>>

\* Mutation: the first word of the freed block is cleared.
Cleared(list) == Null

\* The first word of a block pushed on a list.
Pushed(list) == head[list]

\* Deallocation by any thread, with the size the block was asked for.
Deallocate(t, b) ==
    LET list == <<t, GetIndex(size[b])>> IN
    /\ th[t] = Idle /\ size[b] # None
    /\ link' = [link EXCEPT ![b] = Pushed(list)]
    /\ head' = [head EXCEPT ![list] = b]
    /\ freeListSize' = [freeListSize EXCEPT ![list] = @ + 1]
    /\ size' = [size EXCEPT ![b] = None]
    /\ owner' = [owner EXCEPT ![b] = list]
    /\ UNCHANGED <<centralVars, th>>

\* S has the block p points to and, with a block, the one its first word points to.
Leads(p, S) ==
    /\ p = Null \/ p \in S
    /\ \A b \in S : link[b] = Null \/ link[b] \in S

\* The links lead from p through the blocks of S, and end.
IsChain(p, S) ==
    /\ Leads(p, S) /\ \A R \in SUBSET S : Leads(p, R) => R = S
    /\ S # {} => \E b \in S : link[b] = Null

ListLength(p) == Cardinality(CHOOSE S \in SUBSET Blocks : IsChain(p, S))

\* The end of fetchFromCentralCache: the first block of the batch is given to
\* the caller and the rest, as the first word of the block tells, is kept.
TakeBatch(t) ==
    LET b == th[t].hand
        list == <<t, Class(t)>> IN
    /\ At(t, "take")
    /\ head' = [head EXCEPT ![list] = link[b]]
    /\ freeListSize' = [freeListSize EXCEPT ![list] = @ + ListLength(link[b])]
    /\ Give(b, th[t].want)
    /\ link' = [link EXCEPT ![b] = Junk]
    /\ owner' = [owner EXCEPT ![b] = InUse]
    /\ th' = [th EXCEPT ![t] = Idle]
    /\ UNCHANGED centralVars

-----------------------------------------------------------------------------
(* CentralCache::fetchRange.                                               *)

Lock(t) ==
    /\ At(t, "lock") /\ locks[Class(t)] = None
    /\ locks' = [locks EXCEPT ![Class(t)] = t]
    /\ Goes(t, "fetch")
    /\ UNCHANGED <<head, link, freeListSize, classOf, spanCount, trackers, size, owner>>

\* The first block of the central list.
PopCentral(t) ==
    LET list == <<Central, Class(t)>>
        b == head[list] IN
    /\ At(t, "fetch") /\ b # Null
    /\ head' = [head EXCEPT ![list] = link[b]]
    /\ link' = [link EXCEPT ![b] = Null]
    /\ th' = [th EXCEPT ![t] = [@ EXCEPT !.pc = "count", !.hand = b]]
    /\ owner' = [owner EXCEPT ![b] = Hand(t)]
    /\ UNCHANGED <<freeListSize, centralVars, size>>

\* getSpanTracker: the published entries for the span of a block.
GetSpanTracker(b) ==
    {i \in 0 .. MaxTrackers - 1 : i < spanCount /\ trackers[i].span = b[1]}

\* Mutation: the count is not updated.
CountSame(n) == n

CountLess(n) == n - 1

CountDown(t) ==
    LET found == GetSpanTracker(th[t].hand) IN
    /\ At(t, "count")
    /\ trackers' = [i \in DOMAIN trackers |->
                      IF i \in found THEN [trackers[i] EXCEPT !.free = CountLess(@)]
                      ELSE trackers[i]]
    /\ Goes(t, "unlock")
    /\ UNCHANGED <<head, link, freeListSize, locks, classOf, spanCount, size, owner>>

\* The central list is empty: PageCache::allocateSpan maps zeroed memory.
AllocateSpan(t, s) ==
    /\ At(t, "fetch") /\ head[<<Central, Class(t)>>] = Null
    /\ classOf[s] = None
    /\ classOf' = [classOf EXCEPT ![s] = Class(t)]
    /\ link' = [b \in Blocks |-> IF b[1] = s THEN Null ELSE link[b]]
    /\ th' = [th EXCEPT ![t] = [@ EXCEPT !.pc = "split", !.hand = <<s, 0>>]]
    /\ owner' = [owner EXCEPT ![<<s, 0>>] = Hand(t)]
    /\ UNCHANGED <<head, freeListSize, locks, spanCount, trackers, size>>

\* Mutation: mmap is tried again, with the lock held, until it succeeds.
FailRetries(t) ==
    At(t, "fetch") /\ head[<<Central, Class(t)>>] = Null /\ UNCHANGED vars

\* mmap fails: the lock is cleared and the caller gets a null pointer.
AllocationFails(t) ==
    /\ At(t, "fetch") /\ head[<<Central, Class(t)>>] = Null
    /\ locks' = [locks EXCEPT ![Class(t)] = None]
    /\ th' = [th EXCEPT ![t] = Idle]
    /\ UNCHANGED <<head, link, freeListSize, classOf, spanCount, trackers, size, owner>>

LastBlock(t) == BlockNum(Class(t)) - 1

\* The blocks of the span after the first become the central list.
Split(t) ==
    LET s == th[t].hand[1]
        last == LastBlock(t)
        list == <<Central, Class(t)>>
        rest == {s} \X (1 .. last) IN
    /\ At(t, "split") /\ last > 0
    /\ link' = [b \in Blocks |->
                  IF b \in rest /\ b[2] < last THEN <<s, b[2] + 1>>
                  ELSE IF b[1] = s THEN Null ELSE link[b]]
    /\ head' = [head EXCEPT ![list] = <<s, 1>>]
    /\ owner' = [b \in Blocks |-> IF b \in rest THEN list ELSE owner[b]]
    /\ Goes(t, "slot")
    /\ UNCHANGED <<freeListSize, centralVars, size>>

\* A span of one block is given as it is, and gets no tracker.
WholeSpan(t) ==
    /\ At(t, "split") /\ ~(LastBlock(t) > 0)
    /\ Goes(t, "unlock")
    /\ UNCHANGED <<head, link, freeListSize, centralVars, size, owner>>

HasSlot(i) == i < MaxTrackers

\* fetch_add on spanCount_; past the end of the array the span has no tracker.
TakeSlot(t) ==
    /\ At(t, "slot")
    /\ spanCount' = spanCount + 1
    /\ th' = [th EXCEPT ![t] =
                [@ EXCEPT !.pc = IF HasSlot(spanCount) THEN "publish" ELSE "unlock",
                          !.slot = spanCount]]
    /\ UNCHANGED <<head, link, freeListSize, locks, classOf, trackers, size, owner>>

\* The entry is filled in; its address, stored last, makes it visible as a whole.
PublishTracker(t) ==
    /\ At(t, "publish")
    /\ trackers' = [trackers EXCEPT ![th[t].slot] =
                      [span |-> th[t].hand[1], free |-> LastBlock(t)]]
    /\ Goes(t, "unlock")
    /\ UNCHANGED <<head, link, freeListSize, locks, classOf, spanCount, size, owner>>

Unlock(t) ==
    /\ At(t, "unlock")
    /\ locks' = [locks EXCEPT ![Class(t)] = None]
    /\ Goes(t, "take")
    /\ UNCHANGED <<head, link, freeListSize, classOf, spanCount, trackers, size, owner>>

-----------------------------------------------------------------------------
Init ==
    /\ head = [list \in Lists |-> Null]
    /\ link = [b \in Blocks |-> Null]
    /\ freeListSize = [list \in Threads \X Classes |-> 0]
    /\ locks = [c \in Classes |-> None]
    /\ classOf = [s \in Spans |-> None]
    /\ spanCount = 0
    /\ trackers = [i \in 0 .. MaxTrackers - 1 |-> [span |-> None, free |-> 0]]
    /\ th = [t \in Threads |-> Idle]
    /\ size = [b \in Blocks |-> None]
    /\ owner = [b \in Blocks |-> Nowhere]

\* What a thread does while it has a lock.
Locked(t) ==
    \/ PopCentral(t) \/ CountDown(t)
    \/ AllocationFails(t) \/ Split(t) \/ WholeSpan(t) \/ TakeSlot(t) \/ PublishTracker(t)
    \/ Unlock(t) \/ \E s \in Spans : AllocateSpan(t, s)

Next ==
    \E t \in Threads :
        \/ \E n \in Sizes : AllocateLocal(t, n) \/ AllocateMiss(t, n)
        \/ \E b \in Blocks : Deallocate(t, b)
        \/ Lock(t) \/ Locked(t) \/ TakeBatch(t)

Spec == Init /\ [][Next]_vars

\* A thread that has a lock is scheduled.
FairSpec == Spec /\ \A t \in Threads : WF_vars(Locked(t))

-----------------------------------------------------------------------------
Pointers == Blocks \cup {Null}
States == {"idle", "lock", "fetch", "count", "split", "slot", "publish", "unlock", "take"}
ThreadStates == [pc : States, want : 0 .. MaxBytes, hand : Pointers, slot : Nat]
SpanTracker == [span : Spans \cup {None}, free : Int]
Whereabouts == {Nowhere, InUse} \cup Lists \cup (Threads \X {-1})

\* The kinds of value, the classes within the arrays they index, and an entry
\* of spanTrackers_ filled in only where the array has one.
TypeOK ==
    /\ head \in [Lists -> Pointers]
    /\ link \in [Blocks -> Pointers \cup {Junk}]
    /\ freeListSize \in [Threads \X Classes -> Nat]
    /\ locks \in [Classes -> Threads \cup {None}]
    /\ classOf \in [Spans -> Classes \cup {None}]
    /\ spanCount \in Nat
    /\ trackers \in [0 .. MaxTrackers - 1 -> SpanTracker]
    /\ th \in [Threads -> ThreadStates]
    /\ size \in [Blocks -> (0 .. MaxBytes) \cup {None}]
    /\ owner \in [Blocks -> Whereabouts]
    /\ \A t \in Threads : At(t, "publish") => th[t].slot \in DOMAIN trackers

\* A block that the pool can give away next, the first of a list or the one a
\* thread brings from the central cache, is in nobody's use, and no two lists or
\* threads can give away the same block.
GivenToOne ==
    /\ \A l \in Lists : head[l] # Null => size[head[l]] = None
    /\ \A t \in Threads : th[t].hand # Null => size[th[t].hand] = None
    /\ \A l, m \in Lists : l # m /\ head[l] # Null => head[l] # head[m]
    /\ \A t, u \in Threads : t # u /\ th[t].hand # Null => th[t].hand # th[u].hand
    /\ \A l \in Lists, t \in Threads : head[l] # Null => head[l] # th[t].hand

\* The blocks put on a list and not taken since.
PutOn(l) == {b \in Blocks : owner[b] = l}

\* The links of a list lead to all the blocks put on it and not taken since, and
\* to no other, whatever users write to their blocks: no block is lost, and each
\* that is free is on the one list of the thread that freed it.  freeListSize_ of
\* a thread's list is its length.
NothingLost ==
    \A l \in Lists :
        /\ IsChain(head[l], PutOn(l))
        /\ l \in DOMAIN freeListSize => freeListSize[l] = Cardinality(PutOn(l))

\* While no thread is in fetchRange for a class, the tracker of each of its spans
\* counts the blocks of the span on the central list; a span of several blocks is
\* without a tracker only once the array is used up.
TrackerExact ==
    \A s \in Spans :
        classOf[s] # None /\ locks[classOf[s]] = None =>
            LET found == GetSpanTracker(<<s, 0>>)
                list == <<Central, classOf[s]>> IN
            /\ \A i \in found :
                  trackers[i].free = Cardinality({b \in PutOn(list) : b[1] = s})
            /\ found = {} /\ BlockNum(classOf[s]) > 1 => spanCount > MaxTrackers

\* A block in use has room for what was asked for, lies within the pages of its
\* span, and is freed to the class it was cut for.
BlockFits ==
    \A b \in Blocks :
        size[b] # None =>
            LET c == classOf[b[1]] IN
            /\ c \in Classes /\ c = GetIndex(size[b])
            /\ size[b] <= BlockSize(c)
            /\ (b[2] + 1) * BlockSize(c) <= NumPages(c) * PageSize

\* A spin lock that is taken is cleared: whichever way fetchRange ends, and
\* mmap's failure is one, it does not leave its class locked.
LockIsReleased ==
    \A c \in Classes : locks[c] # None ~> locks[c] = None
=============================================================================
