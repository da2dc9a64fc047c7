----------------------- MODULE MemoryPoolTrackerProofs ----------------------
(***************************************************************************)
(* Proofs that the span trackers of MemoryPool count the blocks of their   *)
(* spans that are on the central lists.                                    *)
(***************************************************************************)
EXTENDS MemoryPoolListProofs

-----------------------------------------------------------------------------
(* The trackers count the blocks of their spans.                           *)

\* The blocks of a span on the central list.
Left(s) == {b \in PutOn(<<Central, classOf[s]>>) : b[1] = s}

\* A block of the span is popped, and not counted yet.
Counting(s) == \E t \in Threads : At(t, "count") /\ th[t].hand[1] = s

\* A thread with a span that has no tracker yet.
Fresh(t) == th[t].pc \in {"split", "slot", "publish"}

TrackedSpans ==
    \A i \in DOMAIN trackers :
        trackers[i].span # None => i < spanCount /\ classOf[trackers[i].span] \in Classes

TrackedCounts ==
    \A i \in DOMAIN trackers, s \in Spans :
        trackers[i].span = s =>
            /\ Counting(s) => trackers[i].free = Cardinality(Left(s)) + 1
            /\ ~Counting(s) => trackers[i].free = Cardinality(Left(s))

\* An entry that is taken and not filled in is empty, and is taken by one thread.
SlotsApart ==
    \A t \in Threads :
        At(t, "publish") =>
            /\ th[t].slot < spanCount /\ trackers[th[t].slot].span = None
            /\ \A u \in Threads : At(u, "publish") /\ th[u].slot = th[t].slot => u = t

FreshUntracked ==
    \A t \in Threads :
        Fresh(t) => \A i \in DOMAIN trackers : trackers[i].span # th[t].hand[1]

FreshLeft ==
    \A t \in Threads :
        th[t].pc \in {"slot", "publish"} =>
            Left(th[t].hand[1]) = {th[t].hand[1]} \X (1 .. LastBlock(t))

\* A span of several blocks has its tracker, is about to get it, or found none.
AllTracked ==
    \A s \in Spans :
        /\ classOf[s] # None /\ BlockNum(classOf[s]) > 1
        /\ \A i \in DOMAIN trackers : trackers[i].span # s
        /\ \A t \in Threads : Fresh(t) => th[t].hand[1] # s
        => spanCount > MaxTrackers

Tracked ==
    /\ TrackedSpans /\ TrackedCounts /\ SlotsApart
    /\ FreshUntracked /\ FreshLeft /\ AllTracked

\* Two threads in fetchRange, for the same span, are one.
LEMMA SpanAlone ==
    ASSUME IInv, NEW t \in Threads, NEW u \in Threads,
           th[t].pc \in Holding \ {"take"},
           \/ th[u].pc \in Holding \ {"take"} /\ th[u].hand[1] = th[t].hand[1]
           \/ th[u].pc = "fetch" /\ Class(u) = classOf[th[t].hand[1]]
    PROVE  u = t
<1>1. /\ th[t].hand # Null /\ classOf[th[t].hand[1]] = Class(t)
      /\ locks[Class(t)] = t
  BY DEF IInv, HandOwned, LockHeld
<1>2. locks[Class(u)] = u /\ Class(u) = classOf[th[t].hand[1]]
  BY DEF IInv, HandOwned, LockHeld
<1> QED
  BY <1>1, <1>2

\* A thread in fetchRange has a mapped span, of its class.
LEMMA HandSpan ==
    ASSUME IInv, NEW t \in Threads, th[t].pc \in Holding
    PROVE  /\ th[t].hand \in Blocks /\ th[t].hand[1] \in Spans
           /\ classOf[th[t].hand[1]] = Class(t) /\ Class(t) \in Classes
<1>1. th[t].hand # Null /\ classOf[th[t].hand[1]] = Class(t)
  BY DEF IInv, HandOwned
<1>2. th[t].hand \in Blocks
  BY <1>1, HandsAreBlocks DEF IInv
<1> QED
  BY <1>1, <1>2, ThreadTyped DEF IInv, Blocks

\* None is no class and no span.
LEMMA NoneApart == None \notin Classes /\ None \notin Spans /\ None # Central
BY MemoryPoolAssumption DEF Classes, Homes

Busy == {"count", "split", "slot", "publish"}

\* Steps that leave the trackers and the blocks on the central lists alone.
LEMMA QuietTracked ==
    ASSUME Tracked, UNCHANGED <<trackers, spanCount, classOf>>,
           \A s \in Spans : Left(s)' = Left(s),
           \A u \in Threads : \/ th'[u] = th[u]
                              \/ th[u].pc \notin Busy /\ th'[u].pc \notin Busy,
           IInv
    PROVE  Tracked'
<1>1. \A u \in Threads : th'[u].pc \in Busy => th'[u] = th[u]
  OBVIOUS
<1>2. \A u \in Threads : Fresh(u)' => Fresh(u) /\ th'[u] = th[u]
  BY <1>1 DEF Fresh, Busy
<1>3. \A u \in Threads : Fresh(u) => Fresh(u)' /\ th'[u] = th[u]
  BY DEF Fresh, Busy
<1>4. \A s : Counting(s)' <=> Counting(s)
  BY <1>1 DEF Counting, At, Busy
<1>5. TrackedSpans'
  BY DEF Tracked, TrackedSpans
<1>6. TrackedCounts'
  BY <1>4 DEF Tracked, TrackedCounts
<1>7. SlotsApart'
  BY <1>1 DEF Tracked, SlotsApart, At, Busy
<1>8. FreshUntracked'
  BY <1>2 DEF Tracked, FreshUntracked
<1>9. FreshLeft'
  <2> SUFFICES ASSUME NEW u \in Threads, th'[u].pc \in {"slot", "publish"}
               PROVE  Left(th[u].hand[1])' = {th'[u].hand[1]} \X (1 .. LastBlock(u)')
                      /\ th'[u] = th[u]
    BY DEF FreshLeft, Left
  <2>1. th'[u] = th[u]
    BY <1>1 DEF Busy
  <2>2. LastBlock(u)' = LastBlock(u)
    BY <2>1 DEF LastBlock, Class
  <2>3. th[u].hand[1] \in Spans
    BY <2>1, HandSpan DEF Holding
  <2>4. Left(th[u].hand[1]) = {th[u].hand[1]} \X (1 .. LastBlock(u))
    BY <2>1 DEF Tracked, FreshLeft
  <2>5. Left(th[u].hand[1])' = Left(th[u].hand[1])
    BY <2>1, <2>3 DEF Left
  <2> QED
    BY <2>1, <2>2, <2>4, <2>5
<1>10. AllTracked'
  BY <1>3 DEF Tracked, AllTracked
<1> QED
  BY <1>5, <1>6, <1>7, <1>8, <1>9, <1>10 DEF Tracked

\* A block that moves from and to places other than the central lists.
LEMMA LeftSame ==
    ASSUME TypeOK, NEW b \in Blocks, NEW x, owner' = [owner EXCEPT ![b] = x],
           classOf' = classOf,
           \A c : x # <<Central, c>> /\ owner[b] # <<Central, c>>
    PROVE  \A s \in Spans : Left(s)' = Left(s)
<1>1. ASSUME NEW c PROVE PutOn(<<Central, c>>)' = PutOn(<<Central, c>>)
  BY DEF TypeOK, PutOn
<1> QED
  BY <1>1 DEF Left

\* The places that are no central lists.
LEMMA NotCentral ==
    /\ \A c : InUse # <<Central, c>>
    /\ \A t \in Threads : \A c, d : Hand(t) # <<Central, c>> /\ <<t, d>> # <<Central, c>>
BY NoneApart, MemoryPoolAssumption DEF InUse, Hand

\* What threads do outside fetchRange, and the lock itself.
LEMMA OutsideTracked ==
    ASSUME IInv, Tracked, NEW t \in Threads,
           \/ \E n \in Sizes : AllocateLocal(t, n) \/ AllocateMiss(t, n)
           \/ \E b \in Blocks : Deallocate(t, b)
           \/ TakeBatch(t) \/ Lock(t) \/ AllocationFails(t) \/ Unlock(t)
    PROVE  Tracked'
<1>0. TypeOK /\ HeadOwned /\ HandOwned /\ UsedOwned
  BY DEF IInv
<1>1. th \in [Threads -> ThreadStates]
  BY <1>0 DEF TypeOK
<1>2. "idle" \notin Busy /\ "lock" \notin Busy /\ "fetch" \notin Busy
      /\ "unlock" \notin Busy /\ "take" \notin Busy
  BY DEF Busy
<1>3. Idle.pc = "idle"
  BY DEF Idle
<1>4. CASE \E n \in Sizes : AllocateLocal(t, n)
  <2>1. PICK n \in Sizes : AllocateLocal(t, n)
    BY <1>4
  <2> DEFINE list == <<t, GetIndex(n)>>
             b == head[list]
  <2>2. list \in Lists
    BY SizesInRange, SizesHaveClass, Places DEF Homes
  <2>3. /\ owner' = [owner EXCEPT ![b] = InUse] /\ b # Null
        /\ UNCHANGED <<trackers, spanCount, classOf, th>>
    BY <2>1 DEF AllocateLocal, centralVars
  <2>4. \A c : list # <<Central, c>>
    BY NotCentral
  <2> HIDE DEF list
  <2>5. b \in Blocks /\ owner[b] = list
    BY <2>2, <2>3, <1>0, HeadsAreBlocks
  <2> HIDE DEF b
  <2>6. \A s \in Spans : Left(s)' = Left(s)
    BY <2>3, <2>4, <2>5, <1>0, NotCentral, LeftSame
  <2> QED
    BY <2>3, <2>6, QuietTracked
<1>5. CASE \E b \in Blocks : Deallocate(t, b)
  <2>1. PICK b \in Blocks : Deallocate(t, b)
    BY <1>5
  <2> DEFINE list == <<t, GetIndex(size[b])>>
  <2>2. /\ owner' = [owner EXCEPT ![b] = list] /\ size[b] # None
        /\ UNCHANGED <<trackers, spanCount, classOf, th>>
    BY <2>1 DEF Deallocate, centralVars
  <2>3. owner[b] = InUse /\ \A c : list # <<Central, c>>
    BY <2>2, <1>0, NotCentral DEF UsedOwned
  <2> HIDE DEF list
  <2>4. \A s \in Spans : Left(s)' = Left(s)
    BY <2>2, <2>3, <1>0, NotCentral, LeftSame
  <2> QED
    BY <2>2, <2>4, QuietTracked
<1>6. CASE TakeBatch(t)
  <2> DEFINE b == th[t].hand
  <2>1. /\ owner' = [owner EXCEPT ![b] = InUse] /\ th[t].pc = "take"
        /\ UNCHANGED <<trackers, spanCount, classOf>> /\ th' = [th EXCEPT ![t] = Idle]
    BY <1>6 DEF TakeBatch, At, centralVars
  <2>2. b \in Blocks /\ owner[b] = Hand(t)
    BY <2>1, <1>0, HandsAreBlocks DEF HandOwned, Holding
  <2> HIDE DEF b
  <2>3. \A s \in Spans : Left(s)' = Left(s)
    BY <2>1, <2>2, <1>0, NotCentral, LeftSame
  <2>4. \A u \in Threads : \/ th'[u] = th[u]
                           \/ th[u].pc \notin Busy /\ th'[u].pc \notin Busy
    BY <2>1, <1>1, <1>2, <1>3
  <2> QED
    BY <2>1, <2>3, <2>4, QuietTracked
<1>7. ASSUME NEW r, th' = [th EXCEPT ![t] = r], th[t].pc \notin Busy, r.pc \notin Busy,
             UNCHANGED <<trackers, spanCount, classOf, owner>>
      PROVE  Tracked'
  <2>1. \A s \in Spans : Left(s)' = Left(s)
    BY <1>7 DEF Left, PutOn
  <2>2. \A u \in Threads : \/ th'[u] = th[u]
                           \/ th[u].pc \notin Busy /\ th'[u].pc \notin Busy
    BY <1>1, <1>7
  <2> QED
    BY <2>1, <2>2, <1>7, QuietTracked
<1>8. CASE \E n \in Sizes : AllocateMiss(t, n)
  <2>1. PICK n \in Sizes : AllocateMiss(t, n)
    BY <1>8
  <2> DEFINE r == [pc |-> "lock", want |-> n, hand |-> Null, slot |-> 0]
  <2>2. /\ th' = [th EXCEPT ![t] = r] /\ th[t] = Idle
        /\ UNCHANGED <<trackers, spanCount, classOf, owner>>
    BY <2>1 DEF AllocateMiss, centralVars
  <2>3. r.pc = "lock"
    OBVIOUS
  <2> HIDE DEF r
  <2> QED
    BY <2>2, <2>3, <1>2, <1>3, <1>7
<1>9. CASE AllocationFails(t)
  <2>1. /\ th' = [th EXCEPT ![t] = Idle] /\ th[t].pc = "fetch"
        /\ UNCHANGED <<trackers, spanCount, classOf, owner>>
    BY <1>9 DEF AllocationFails, At
  <2> QED
    BY <2>1, <1>2, <1>3, <1>7
<1>10. CASE Lock(t) \/ Unlock(t)
  <2>1. PICK pc \in {"fetch", "take"} : Goes(t, pc)
    BY <1>10 DEF Lock, Unlock
  <2> DEFINE r == [th[t] EXCEPT !.pc = pc]
  <2>2. th' = [th EXCEPT ![t] = r] /\ r.pc = pc
    BY <2>1, <1>1 DEF Goes, ThreadStates
  <2>3. /\ UNCHANGED <<trackers, spanCount, classOf, owner>>
        /\ th[t].pc \in {"lock", "unlock"}
    BY <1>10 DEF Lock, Unlock, At
  <2> HIDE DEF r
  <2> QED
    BY <2>2, <2>3, <1>2, <1>7
<1> QED
  BY <1>4, <1>5, <1>6, <1>8, <1>9, <1>10

\* FreshLeft, for the threads that a step does not concern.
LEMMA OthersLeft ==
    ASSUME IInv, FreshLeft, NEW u \in Threads, th'[u] = th[u],
           th[u].pc \in {"slot", "publish"}, Left(th[u].hand[1])' = Left(th[u].hand[1])
    PROVE  Left(th[u].hand[1])' = {th'[u].hand[1]} \X (1 .. LastBlock(u)')
<1>1. Left(th[u].hand[1]) = {th[u].hand[1]} \X (1 .. LastBlock(u))
  BY DEF FreshLeft
<1>2. LastBlock(u)' = LastBlock(u)
  BY DEF LastBlock, Class
<1> QED
  BY <1>1, <1>2

\* The blocks of a span on the central list are finitely many.
LEMMA LeftFinite ==
    ASSUME NEW s PROVE IsFiniteSet(Left(s)) /\ Cardinality(Left(s)) \in Nat
<1>1. Left(s) \in SUBSET Blocks
  BY DEF Left, PutOn
<1>2. IsFiniteSet(Left(s))
  BY <1>1, BlocksFinite, FS_Subset, Zenon
<1> QED
  BY <1>2, FS_CardinalityType

\* A block is popped from the central list, and is still to be counted.
LEMMA PopCentralTracked ==
    ASSUME IInv, Tracked, NEW t \in Threads, PopCentral(t)
    PROVE  Tracked'
<1>0. TypeOK /\ HeadOwned /\ HandOwned /\ ClassOwned
  BY DEF IInv
<1>1. PICK list \in Lists : list = <<Central, Class(t)>>
  <2>1. <<Central, Class(t)>> \in Lists
    BY <1>0, ThreadTyped, Places DEF Homes
  <2> QED
    BY <2>1, Zenon
<1>2. PICK b \in Blocks : b = head[list] /\ owner[b] = list
  <2>1. head[list] # Null
    BY <1>1 DEF PopCentral
  <2> QED
    BY <2>1, <1>0, HeadsAreBlocks
<1> DEFINE r == [th[t] EXCEPT !.pc = "count", !.hand = b]
<1>3. /\ owner' = [owner EXCEPT ![b] = Hand(t)] /\ th' = [th EXCEPT ![t] = r]
      /\ UNCHANGED <<trackers, spanCount, classOf>> /\ th[t].pc = "fetch"
  BY <1>1, <1>2 DEF PopCentral, At, centralVars
<1>4. r.pc = "count" /\ r.hand = b
  BY <1>0 DEF TypeOK, ThreadStates
<1> HIDE DEF r
<1>5. th'[t] = r /\ \A u \in Threads : u # t => th'[u] = th[u]
  BY <1>0, <1>3 DEF TypeOK
<1>6. PICK sb \in Spans : sb = b[1] /\ classOf[sb] = Class(t)
  BY <1>0, <1>1, <1>2, Places DEF ClassOwned, Blocks
<1>7. /\ b \in Left(sb) /\ Left(sb)' = Left(sb) \ {b}
      /\ \A s \in Spans : s # sb => Left(s)' = Left(s)
  <2>1. \A l : l # Hand(t) => PutOn(l)' = PutOn(l) \ {b}
    BY <1>0, <1>3, Moved
  <2>2. \A c : PutOn(<<Central, c>>)' = PutOn(<<Central, c>>) \ {b}
    BY <2>1, NotCentral
  <2>3. \A s \in Spans : Left(s)' = Left(s) \ {b}
    BY <2>2, <1>3 DEF Left
  <2>4. b \in Left(sb) /\ \A s \in Spans : s # sb => b \notin Left(s)
    BY <1>1, <1>2, <1>6 DEF Left, PutOn
  <2> QED
    BY <2>3, <2>4
<1>8. \A u \in Threads : th[u].pc \in Busy => u # t /\ th[u].hand[1] # sb
  BY <1>3, <1>6, SpanAlone DEF Busy, Holding
<1>9. ~Counting(sb) /\ Counting(sb)' /\ \A s : s # sb => (Counting(s)' <=> Counting(s))
  BY <1>3, <1>4, <1>5, <1>6, <1>8 DEF Counting, At, Busy
<1>10. Cardinality(Left(sb)') + 1 = Cardinality(Left(sb))
  <2>1. Cardinality(Left(sb) \ {b}) = Cardinality(Left(sb)) - 1
    BY <1>7, LeftFinite, FS_RemoveElement
  <2>2. Cardinality(Left(sb)) \in Nat
    BY LeftFinite
  <2> QED
    BY <2>1, <2>2, <1>7
<1>11. TrackedSpans'
  BY <1>3 DEF Tracked, TrackedSpans
<1>12. TrackedCounts'
  <2> SUFFICES ASSUME NEW i \in DOMAIN trackers, NEW s \in Spans, trackers[i].span = s
               PROVE  /\ Counting(s)' => trackers[i].free = Cardinality(Left(s)') + 1
                      /\ ~Counting(s)' => trackers[i].free = Cardinality(Left(s)')
    BY <1>3 DEF TrackedCounts
  <2>1. /\ Counting(s) => trackers[i].free = Cardinality(Left(s)) + 1
        /\ ~Counting(s) => trackers[i].free = Cardinality(Left(s))
    BY DEF Tracked, TrackedCounts
  <2>2. CASE s = sb
    BY <2>1, <2>2, <1>9, <1>10
  <2>3. CASE s # sb
    BY <2>1, <2>3, <1>7, <1>9
  <2> QED
    BY <2>2, <2>3
<1>13. \A u \in Threads : th'[u].pc \in {"split", "slot", "publish"} =>
                            th'[u] = th[u] /\ u # t /\ th[u].pc \in Busy
  BY <1>4, <1>5 DEF Busy
<1>14. SlotsApart'
  BY <1>3, <1>13 DEF Tracked, SlotsApart, At
<1>15. FreshUntracked'
  BY <1>3, <1>13 DEF Tracked, FreshUntracked, Fresh
<1>16. FreshLeft'
  <2> SUFFICES ASSUME NEW u \in Threads, th'[u].pc \in {"slot", "publish"}
               PROVE  Left(th[u].hand[1])' = {th'[u].hand[1]} \X (1 .. LastBlock(u)')
    BY DEF FreshLeft
  <2>1. th'[u] = th[u] /\ th[u].pc \in Holding /\ th[u].hand[1] # sb
    BY <1>8, <1>13 DEF Holding, Busy
  <2>2. PICK s \in Spans : s = th[u].hand[1]
    BY <2>1, HandSpan
  <2>3. Left(s)' = Left(s) /\ s = th'[u].hand[1]
    BY <2>1, <2>2, <1>7
  <2>4. Left(th[u].hand[1])' = Left(th[u].hand[1])
    BY <2>2, <2>3 DEF Left
  <2> QED
    BY <2>1, <2>4, OthersLeft DEF Tracked
<1>17. \A u \in Threads : Fresh(u) => Fresh(u)' /\ th'[u] = th[u]
  BY <1>3, <1>5 DEF Fresh
<1>18. AllTracked'
  BY <1>3, <1>17 DEF Tracked, AllTracked
<1> QED
  BY <1>11, <1>12, <1>14, <1>15, <1>16, <1>18 DEF Tracked

\* updateSpanFreeCount: the tracker of the span of the block is one less.
LEMMA CountDownTracked ==
    ASSUME IInv, Tracked, NEW t \in Threads, CountDown(t)
    PROVE  Tracked'
<1>0. TypeOK
  BY DEF IInv
<1>1. /\ th[t].pc = "count" /\ th' = [th EXCEPT ![t] = [@ EXCEPT !.pc = "unlock"]]
      /\ UNCHANGED <<spanCount, classOf, owner>>
      /\ trackers' = [i \in DOMAIN trackers |->
                        IF i \in GetSpanTracker(th[t].hand)
                        THEN [trackers[i] EXCEPT !.free = CountLess(@)] ELSE trackers[i]]
  BY DEF CountDown, At, Goes
<1>2. PICK sb \in Spans : sb = th[t].hand[1]
  BY <1>1, HandSpan DEF Holding
<1>3. /\ DOMAIN trackers = 0 .. MaxTrackers - 1
      /\ \A i \in DOMAIN trackers : trackers[i] \in SpanTracker
  BY <1>0 DEF TypeOK
<1>4. ASSUME NEW i \in DOMAIN trackers
      PROVE  /\ i \in DOMAIN trackers' /\ trackers'[i].span = trackers[i].span
             /\ trackers[i].span = sb => trackers'[i].free = trackers[i].free - 1
             /\ trackers[i].span # sb => trackers'[i].free = trackers[i].free
  <2>1. trackers[i].span = sb => i \in GetSpanTracker(th[t].hand)
    BY <1>2, <1>3, NoneApart DEF Tracked, TrackedSpans, GetSpanTracker
  <2>2. trackers[i].span # sb => i \notin GetSpanTracker(th[t].hand)
    BY <1>2 DEF GetSpanTracker
  <2> QED
    BY <2>1, <2>2, <1>1, <1>3 DEF SpanTracker, CountLess
<1>5. DOMAIN trackers' = DOMAIN trackers
  BY <1>1
<1>6. th'[t].pc = "unlock" /\ \A u \in Threads : u # t => th'[u] = th[u]
  BY <1>0, <1>1 DEF TypeOK, ThreadStates
<1>7. \A s : Left(s)' = Left(s)
  BY <1>1 DEF Left, PutOn
<1>8. Counting(sb) /\ ~Counting(sb)' /\ \A s : s # sb => (Counting(s)' <=> Counting(s))
  <2>1. \A u \in Threads : th[u].pc = "count" /\ th[u].hand[1] = sb => u = t
    BY <1>1, <1>2, SpanAlone DEF Holding
  <2> QED
    BY <2>1, <1>1, <1>2, <1>6 DEF Counting, At
<1>9. TrackedSpans'
  BY <1>1, <1>4, <1>5 DEF Tracked, TrackedSpans
<1>10. TrackedCounts'
  <2> SUFFICES ASSUME NEW i \in DOMAIN trackers, NEW s \in Spans, trackers[i].span = s
               PROVE  /\ Counting(s)' => trackers'[i].free = Cardinality(Left(s)) + 1
                      /\ ~Counting(s)' => trackers'[i].free = Cardinality(Left(s))
    BY <1>4, <1>5, <1>7 DEF TrackedCounts
  <2>1. /\ Counting(s) => trackers[i].free = Cardinality(Left(s)) + 1
        /\ ~Counting(s) => trackers[i].free = Cardinality(Left(s))
    BY DEF Tracked, TrackedCounts
  <2>2. Cardinality(Left(s)) \in Nat
    BY LeftFinite
  <2>3. CASE s = sb
    BY <2>1, <2>2, <2>3, <1>4, <1>8
  <2>4. CASE s # sb
    BY <2>1, <2>4, <1>4, <1>8
  <2> QED
    BY <2>3, <2>4
<1>11. \A u \in Threads : th'[u].pc \in {"split", "slot", "publish"} => th'[u] = th[u]
  BY <1>6
<1>12. SlotsApart'
  <2> SUFFICES ASSUME NEW u \in Threads, th'[u].pc = "publish"
               PROVE  /\ th'[u].slot < spanCount /\ trackers'[th'[u].slot].span = None
                      /\ \A w \in Threads :
                            th'[w].pc = "publish" /\ th'[w].slot = th'[u].slot => w = u
    BY <1>1 DEF SlotsApart, At
  <2>1. th'[u] = th[u] /\ th[u].slot \in DOMAIN trackers
    BY <1>0, <1>11 DEF TypeOK, At
  <2> QED
    BY <2>1, <1>4, <1>11 DEF Tracked, SlotsApart, At
<1>13. FreshUntracked'
  BY <1>4, <1>5, <1>11 DEF Tracked, FreshUntracked, Fresh
<1>14. FreshLeft'
  <2> SUFFICES ASSUME NEW u \in Threads, th'[u].pc \in {"slot", "publish"}
               PROVE  Left(th[u].hand[1])' = {th'[u].hand[1]} \X (1 .. LastBlock(u)')
    BY DEF FreshLeft
  <2>1. th'[u] = th[u]
    BY <1>11
  <2>2. Left(th[u].hand[1])' = Left(th[u].hand[1])
    BY <2>1, <1>7 DEF Left
  <2> QED
    BY <2>1, <2>2, OthersLeft DEF Tracked
<1>15. \A u \in Threads : Fresh(u) => Fresh(u)' /\ th'[u] = th[u]
  BY <1>1, <1>6 DEF Fresh
<1>16. AllTracked'
  BY <1>1, <1>4, <1>5, <1>15 DEF Tracked, AllTracked
<1> QED
  BY <1>9, <1>10, <1>12, <1>13, <1>14, <1>16 DEF Tracked

\* A new span has no tracker, and its thread is to give it one.
LEMMA AllocateSpanTracked ==
    ASSUME IInv, Tracked, NEW t \in Threads, NEW s \in Spans, AllocateSpan(t, s)
    PROVE  Tracked'
<1> DEFINE r == [th[t] EXCEPT !.pc = "split", !.hand = <<s, 0>>]
           b == <<s, 0>>
<1>0. TypeOK
  BY DEF IInv
<1>1. /\ classOf[s] = None /\ classOf' = [classOf EXCEPT ![s] = Class(t)]
      /\ th' = [th EXCEPT ![t] = r] /\ owner' = [owner EXCEPT ![b] = Hand(t)]
      /\ th[t].pc = "fetch" /\ UNCHANGED <<trackers, spanCount>>
  BY DEF AllocateSpan, At
<1>2. r.pc = "split" /\ r.hand[1] = s
  BY <1>0 DEF TypeOK, ThreadStates
<1>3. b \in Blocks /\ b[1] = s
  BY MemoryPoolAssumption, Quotient, Products DEF Blocks
<1> HIDE DEF r, b
<1>4. th'[t] = r /\ \A u \in Threads : u # t => th'[u] = th[u]
  BY <1>0, <1>1 DEF TypeOK
<1>5. classOf'[s] = Class(t) /\ Class(t) \in Classes
      /\ \A q \in Spans : q # s => classOf'[q] = classOf[q]
  BY <1>0, <1>1, ThreadTyped DEF TypeOK
<1>6. \A u \in Threads : th[u].pc \in Holding => th[u].hand[1] \in Spans /\ th[u].hand[1] # s
  BY <1>1, HandSpan, NoneApart
<1>7. \A i \in DOMAIN trackers : trackers[i].span # s
  BY <1>1, NoneApart DEF Tracked, TrackedSpans
<1>8. \A q \in Spans : q # s => Left(q)' = Left(q)
  <2> SUFFICES ASSUME NEW q \in Spans, q # s, NEW d \in Blocks, d[1] = q
               PROVE  owner'[d] = owner[d] /\ classOf'[q] = classOf[q]
    BY DEF Left, PutOn
  <2> QED
    BY <1>0, <1>1, <1>3, <1>5 DEF TypeOK
<1>9. \A q : Counting(q)' <=> Counting(q)
  BY <1>1, <1>2, <1>4 DEF Counting, At
<1>10. TrackedSpans'
  <2> SUFFICES ASSUME NEW i \in DOMAIN trackers, trackers[i].span # None
               PROVE  i < spanCount /\ classOf'[trackers[i].span] \in Classes
    BY <1>1 DEF TrackedSpans
  <2>1. trackers[i].span \in Spans
    BY <1>0 DEF TypeOK, SpanTracker
  <2> QED
    BY <2>1, <1>5, <1>7 DEF Tracked, TrackedSpans
<1>11. TrackedCounts'
  BY <1>1, <1>7, <1>8, <1>9 DEF Tracked, TrackedCounts
<1>12. SlotsApart'
  BY <1>1, <1>2, <1>4 DEF Tracked, SlotsApart, At
<1>13. FreshUntracked'
  BY <1>1, <1>2, <1>4, <1>7 DEF Tracked, FreshUntracked, Fresh
<1>14. FreshLeft'
  <2> SUFFICES ASSUME NEW u \in Threads, th'[u].pc \in {"slot", "publish"}
               PROVE  Left(th[u].hand[1])' = {th'[u].hand[1]} \X (1 .. LastBlock(u)')
    BY DEF FreshLeft
  <2>1. th'[u] = th[u] /\ th[u].pc \in Holding
    BY <1>2, <1>4 DEF Holding
  <2>2. PICK q \in Spans : q = th[u].hand[1] /\ q # s
    BY <2>1, <1>6
  <2>3. Left(th[u].hand[1])' = Left(th[u].hand[1])
    BY <2>1, <2>2, <1>8 DEF Left
  <2> QED
    BY <2>1, <2>3, OthersLeft DEF Tracked
<1>15. AllTracked'
  <2> SUFFICES ASSUME NEW q \in Spans, classOf'[q] # None, BlockNum(classOf'[q]) > 1,
                      \A i \in DOMAIN trackers : trackers[i].span # q,
                      \A u \in Threads : Fresh(u)' => th'[u].hand[1] # q
               PROVE  spanCount > MaxTrackers
    BY <1>1 DEF AllTracked
  <2>1. q # s
    BY <1>2, <1>4 DEF Fresh
  <2>2. \A u \in Threads : Fresh(u) => Fresh(u)' /\ th'[u] = th[u]
    BY <1>1, <1>4 DEF Fresh
  <2> QED
    BY <2>1, <2>2, <1>5 DEF Tracked, AllTracked
<1> QED
  BY <1>10, <1>11, <1>12, <1>13, <1>14, <1>15 DEF Tracked

\* The cut of a span puts all its blocks but the first on the central list.
LEMMA SplitTracked ==
    ASSUME IInv, Tracked, NEW t \in Threads, Split(t)
    PROVE  Tracked'
<1>0. TypeOK
  BY DEF IInv
<1>1. PICK s, c, last, list, rest :
         /\ s = th[t].hand[1] /\ c = Class(t) /\ last = LastBlock(t)
         /\ list = <<Central, c>> /\ rest = {s} \X (1 .. last)
  OBVIOUS
<1>c. IsCut(s, c, last, list, rest)
  BY <1>1, SplitCuts
<1>2. /\ s \in Spans /\ list \in Lists /\ rest \subseteq Blocks /\ classOf[s] = c
      /\ \A d \in rest : d[1] = s
      /\ \A d \in Blocks : d[1] = s => owner[d] \notin Lists
      /\ \A d \in Blocks \ rest : owner'[d] = owner[d]
      /\ \A d \in rest : owner'[d] = list
  BY <1>c DEF IsCut
<1> DEFINE r == [th[t] EXCEPT !.pc = "slot"]
<1>3. /\ th' = [th EXCEPT ![t] = r] /\ th[t].pc = "split"
      /\ UNCHANGED <<trackers, spanCount, classOf>>
  BY DEF Split, Goes, At, centralVars
<1>4. r.pc = "slot" /\ r.hand = th[t].hand /\ r.want = th[t].want
  BY <1>0 DEF TypeOK, ThreadStates
<1> HIDE DEF r
<1>5. th'[t] = r /\ \A u \in Threads : u # t => th'[u] = th[u]
  BY <1>0, <1>3 DEF TypeOK
<1>6. Left(s)' = rest
  <2>1. \A d \in Blocks : d[1] = s => (owner'[d] = list <=> d \in rest)
    BY <1>2
  <2>2. Left(s)' = {d \in Blocks : owner'[d] = list /\ d[1] = s}
    BY <1>1, <1>2, <1>3 DEF Left, PutOn
  <2> QED
    BY <2>1, <2>2, <1>2
<1>7. \A q \in Spans : q # s => Left(q)' = Left(q)
  BY <1>2, <1>3 DEF Left, PutOn
<1>8. \A u \in Threads : u # t /\ th[u].pc \in Holding \ {"take"} => th[u].hand[1] # s
  BY <1>1, <1>3, SpanAlone DEF Holding
<1>9. \A i \in DOMAIN trackers : trackers[i].span # s
  BY <1>1, <1>3 DEF Tracked, FreshUntracked, Fresh
<1>10. \A q : Counting(q)' <=> Counting(q)
  BY <1>3, <1>4, <1>5 DEF Counting, At
<1>11. TrackedSpans'
  BY <1>3 DEF Tracked, TrackedSpans
<1>12. TrackedCounts'
  BY <1>3, <1>7, <1>9, <1>10 DEF Tracked, TrackedCounts
<1>13. SlotsApart'
  BY <1>3, <1>4, <1>5 DEF Tracked, SlotsApart, At
<1>14. FreshUntracked'
  BY <1>1, <1>3, <1>4, <1>5, <1>9 DEF Tracked, FreshUntracked, Fresh
<1>15. FreshLeft'
  <2> SUFFICES ASSUME NEW u \in Threads, th'[u].pc \in {"slot", "publish"}
               PROVE  Left(th[u].hand[1])' = {th'[u].hand[1]} \X (1 .. LastBlock(u)')
    BY DEF FreshLeft
  <2>1. CASE u = t
    <3>1. LastBlock(u)' = last /\ th'[u].hand[1] = s
      BY <2>1, <1>1, <1>4, <1>5 DEF LastBlock, Class
    <3>2. Left(th[u].hand[1])' = Left(s)'
      BY <3>1 DEF Left
    <3> QED
      BY <3>1, <3>2, <1>1, <1>6
  <2>2. CASE u # t
    <3>1. th'[u] = th[u] /\ th[u].pc \in Holding \ {"take"}
      BY <2>2, <1>5 DEF Holding
    <3>2. PICK q \in Spans : q = th[u].hand[1] /\ q # s
      BY <2>2, <3>1, <1>8, HandSpan
    <3>3. Left(th[u].hand[1])' = Left(th[u].hand[1])
      BY <3>1, <3>2, <1>7 DEF Left
    <3> QED
      BY <3>1, <3>3, OthersLeft DEF Tracked
  <2> QED
    BY <2>1, <2>2
<1>16. \A u \in Threads : Fresh(u) => Fresh(u)' /\ th'[u].hand = th[u].hand
  BY <1>4, <1>5 DEF Fresh
<1>17. AllTracked'
  BY <1>3, <1>16 DEF Tracked, AllTracked
<1> QED
  BY <1>11, <1>12, <1>13, <1>14, <1>15, <1>17 DEF Tracked

\* A step by which a thread is done with a new span without a tracker: it has
\* one block, or the array is used up.
LEMMA UntrackedTracked ==
    ASSUME IInv, Tracked, NEW t \in Threads, WholeSpan(t) \/ TakeSlot(t)
    PROVE  Tracked'
<1>0. TypeOK
  BY DEF IInv
<1>1. PICK r : /\ th' = [th EXCEPT ![t] = r] /\ r.hand = th[t].hand /\ r.want = th[t].want
               /\ \/ /\ WholeSpan(t) /\ r.pc = "unlock" /\ ~(LastBlock(t) > 0)
                     /\ spanCount' = spanCount /\ th[t].pc = "split"
                  \/ /\ TakeSlot(t) /\ r.slot = spanCount /\ spanCount' = spanCount + 1
                     /\ th[t].pc = "slot"
                     /\ \/ r.pc = "publish" /\ spanCount < MaxTrackers
                        \/ r.pc = "unlock" /\ ~(spanCount < MaxTrackers)
  <2>1. CASE WholeSpan(t)
    <3> DEFINE r == [th[t] EXCEPT !.pc = "unlock"]
    <3>1. /\ th' = [th EXCEPT ![t] = r] /\ ~(LastBlock(t) > 0) /\ spanCount' = spanCount
          /\ th[t].pc = "split"
      BY <2>1 DEF WholeSpan, Goes, At, centralVars
    <3>2. r.pc = "unlock" /\ r.hand = th[t].hand /\ r.want = th[t].want
      BY <1>0 DEF TypeOK, ThreadStates
    <3> HIDE DEF r
    <3> QED
      BY <2>1, <3>1, <3>2, Zenon
  <2>2. CASE TakeSlot(t)
    <3> DEFINE pc == IF HasSlot(spanCount) THEN "publish" ELSE "unlock"
               r == [th[t] EXCEPT !.pc = pc, !.slot = spanCount]
    <3>1. th' = [th EXCEPT ![t] = r] /\ spanCount' = spanCount + 1 /\ th[t].pc = "slot"
      BY <2>2 DEF TakeSlot, At
    <3>2. \/ pc = "publish" /\ spanCount < MaxTrackers
          \/ pc = "unlock" /\ ~(spanCount < MaxTrackers)
      BY DEF HasSlot
    <3> HIDE DEF pc
    <3>3. r.pc = pc /\ r.hand = th[t].hand /\ r.want = th[t].want /\ r.slot = spanCount
      BY <1>0 DEF TypeOK, ThreadStates
    <3> HIDE DEF r
    <3> QED
      BY <2>2, <3>1, <3>2, <3>3, Zenon
  <2> QED
    BY <2>1, <2>2
<1>2. UNCHANGED <<trackers, classOf, owner>>
  BY DEF WholeSpan, TakeSlot, centralVars
<1>3. th'[t] = r /\ \A u \in Threads : u # t => th'[u] = th[u]
  BY <1>0, <1>1 DEF TypeOK
<1>4. spanCount \in Nat /\ spanCount' \in Nat /\ spanCount <= spanCount' /\ MaxTrackers \in Nat
      /\ DOMAIN trackers = 0 .. MaxTrackers - 1
  BY <1>0, <1>1, MemoryPoolAssumption DEF TypeOK
<1>5. \A s : Left(s)' = Left(s)
  BY <1>2 DEF Left, PutOn
<1>6. \A s : Counting(s)' <=> Counting(s)
  BY <1>1, <1>3 DEF Counting, At
<1>7. TrackedSpans'
  BY <1>2, <1>4 DEF Tracked, TrackedSpans
<1>8. TrackedCounts'
  BY <1>2, <1>5, <1>6 DEF Tracked, TrackedCounts
<1>9. SlotsApart'
  <2>1. ASSUME NEW u \in Threads, th'[u].pc = "publish", u # t
        PROVE  /\ th'[u] = th[u] /\ th[u].slot < spanCount /\ th[u].slot \in Nat
               /\ trackers[th[u].slot].span = None
               /\ \A w \in Threads \ {t} :
                     th'[w].pc = "publish" /\ th'[w].slot = th'[u].slot => w = u
    BY <2>1, <1>0, <1>3, ThreadTyped DEF Tracked, SlotsApart, At
  <2>2. ASSUME th'[t].pc = "publish"
        PROVE  /\ th'[t].slot = spanCount /\ spanCount' = spanCount + 1
               /\ trackers[spanCount].span = None
    <3>1. th'[t].slot = spanCount /\ spanCount' = spanCount + 1 /\ spanCount < MaxTrackers
      BY <2>2, <1>1, <1>3
    <3>2. spanCount \in DOMAIN trackers /\ ~(spanCount < spanCount)
      BY <3>1, <1>4
    <3> QED
      BY <3>1, <3>2 DEF Tracked, TrackedSpans
  <2> SUFFICES ASSUME NEW u \in Threads, th'[u].pc = "publish"
               PROVE  /\ th'[u].slot < spanCount' /\ trackers[th'[u].slot].span = None
                      /\ \A w \in Threads :
                            th'[w].pc = "publish" /\ th'[w].slot = th'[u].slot => w = u
    BY <1>2 DEF SlotsApart, At
  <2>3. CASE u = t
    <3>1. th'[u].slot < spanCount' /\ trackers[th'[u].slot].span = None
      BY <2>2, <2>3, <1>4
    <3>2. \A w \in Threads : th'[w].pc = "publish" /\ w # t => th'[w].slot # spanCount
      BY <2>1, <1>4
    <3> QED
      BY <2>2, <2>3, <3>1, <3>2
  <2>4. CASE u # t
    <3>1. th'[u].slot < spanCount' /\ trackers[th'[u].slot].span = None
      BY <2>1, <2>4, <1>4
    <3>2. th'[u].slot # spanCount
      BY <2>1, <2>4, <1>4
    <3> QED
      BY <2>1, <2>2, <2>4, <3>1, <3>2
  <2> QED
    BY <2>3, <2>4
<1>10. \A u \in Threads : Fresh(u)' => Fresh(u) /\ th'[u].hand = th[u].hand
  BY <1>1, <1>3 DEF Fresh
<1>11. FreshUntracked'
  BY <1>2, <1>10 DEF Tracked, FreshUntracked
<1>12. FreshLeft'
  <2> SUFFICES ASSUME NEW u \in Threads, th'[u].pc \in {"slot", "publish"}
               PROVE  Left(th[u].hand[1])' = {th'[u].hand[1]} \X (1 .. LastBlock(u)')
    BY DEF FreshLeft
  <2>1. /\ th'[u].hand = th[u].hand /\ th'[u].want = th[u].want
        /\ th[u].pc \in {"slot", "publish"}
    BY <1>1, <1>3
  <2>2. LastBlock(u)' = LastBlock(u)
    BY <2>1 DEF LastBlock, Class
  <2>3. Left(th[u].hand[1])' = Left(th[u].hand[1])
    BY <2>1, <1>5 DEF Left
  <2> QED
    BY <2>1, <2>2, <2>3 DEF Tracked, FreshLeft
<1>13. AllTracked'
  <2> SUFFICES ASSUME NEW q \in Spans, classOf[q] # None, BlockNum(classOf[q]) > 1,
                      \A i \in DOMAIN trackers : trackers[i].span # q,
                      \A u \in Threads : Fresh(u)' => th'[u].hand[1] # q,
                      ~(spanCount' > MaxTrackers)
               PROVE  FALSE
    BY <1>2 DEF AllTracked
  <2>1. ~(spanCount > MaxTrackers)
    BY <1>4
  <2>2. PICK u \in Threads : Fresh(u) /\ th[u].hand[1] = q
    BY <2>1 DEF Tracked, AllTracked
  <2>3. u = t
    BY <2>2, <1>3 DEF Fresh
  <2>4. classOf[q] = Class(t) /\ Class(t) \in Classes
    BY <2>2, <2>3, HandSpan DEF Fresh, Holding
  <2>5. r.pc \notin {"split", "slot", "publish"}
    BY <2>2, <2>3, <1>1, <1>3 DEF Fresh
  <2>6. CASE WholeSpan(t) /\ ~(LastBlock(t) > 0)
    <3>1. BlockNum(Class(t)) \in Nat
      BY <2>4, BlocksInSpan
    <3> QED
      BY <2>4, <2>6, <3>1 DEF LastBlock
  <2>7. CASE spanCount' = spanCount + 1 /\ ~(spanCount < MaxTrackers)
    BY <2>7, <1>4
  <2> QED
    BY <2>5, <2>6, <2>7, <1>1
<1> QED
  BY <1>7, <1>8, <1>9, <1>11, <1>12, <1>13 DEF Tracked

\* How many blocks the cut of a span puts on the central list.
LEMMA RowCount ==
    ASSUME NEW s, NEW n \in Nat
    PROVE  Cardinality({s} \X (1 .. n)) = n
<1>1. IsFiniteSet({s}) /\ Cardinality({s}) = 1
  BY FS_Singleton
<1>2. IsFiniteSet(1 .. n) /\ Cardinality(1 .. n) = IF 1 > n THEN 0 ELSE n - 1 + 1
  BY FS_Interval
<1>3. Cardinality(1 .. n) = n
  <2>1. CASE n = 0
    BY <2>1, <1>2
  <2>2. CASE n # 0
    BY <2>2, <1>2
  <2> QED
    BY <2>1, <2>2
<1>4. Cardinality({s} \X (1 .. n)) = Cardinality({s}) * Cardinality(1 .. n)
  BY <1>1, <1>2, FS_Product
<1> QED
  BY <1>1, <1>3, <1>4

\* The tracker of the new span is filled in.
LEMMA PublishTracked ==
    ASSUME IInv, Tracked, NEW t \in Threads, PublishTracker(t)
    PROVE  Tracked'
<1>0. TypeOK
  BY DEF IInv
<1>1. PICK s, k, n :
         s = th[t].hand[1] /\ k = th[t].slot /\ n = LastBlock(t)
  OBVIOUS
<1> DEFINE r == [th[t] EXCEPT !.pc = "unlock"]
<1>2. /\ th[t].pc = "publish" /\ th' = [th EXCEPT ![t] = r]
      /\ trackers' = [trackers EXCEPT ![k] = [span |-> s, free |-> n]]
      /\ UNCHANGED <<spanCount, classOf, owner>>
  BY <1>1 DEF PublishTracker, At, Goes
<1>3. r.pc = "unlock"
  BY <1>0 DEF TypeOK, ThreadStates
<1> HIDE DEF r
<1>4. th'[t] = r /\ \A u \in Threads : u # t => th'[u] = th[u]
  BY <1>0, <1>2 DEF TypeOK
<1>5. k \in DOMAIN trackers /\ DOMAIN trackers' = DOMAIN trackers
      /\ k < spanCount /\ trackers[k].span = None
      /\ \A u \in Threads : th[u].pc = "publish" /\ th[u].slot = k => u = t
  BY <1>0, <1>1, <1>2 DEF TypeOK, Tracked, SlotsApart, At
<1>6. /\ trackers'[k].span = s /\ trackers'[k].free = n
      /\ \A i \in DOMAIN trackers : i # k => trackers'[i] = trackers[i]
  BY <1>2, <1>5
<1>7. s \in Spans /\ classOf[s] = Class(t) /\ Class(t) \in Classes
  BY <1>1, <1>2, HandSpan DEF Holding
<1>8. n \in Nat
  <2>1. BlockNum(Class(t)) \in Nat /\ 1 <= BlockNum(Class(t))
    BY <1>7, BlocksInSpan
  <2> QED
    BY <2>1, <1>1 DEF LastBlock
<1>9. Cardinality(Left(s)) = n
  <2>1. Left(s) = {s} \X (1 .. n)
    BY <1>1, <1>2 DEF Tracked, FreshLeft
  <2> QED
    BY <2>1, <1>8, RowCount
<1>10. \A u \in Threads : u # t /\ th[u].pc \in Holding \ {"take"} => th[u].hand[1] # s
  BY <1>1, <1>2, SpanAlone DEF Holding
<1>11. \A i \in DOMAIN trackers : trackers[i].span # s
  BY <1>1, <1>2 DEF Tracked, FreshUntracked, Fresh
<1>12. ~Counting(s)' /\ \A q : Counting(q)' <=> Counting(q)
  BY <1>2, <1>3, <1>4, <1>10 DEF Counting, At, Holding
<1>13. \A q : Left(q)' = Left(q)
  BY <1>2 DEF Left, PutOn
<1>14. TrackedSpans'
  BY <1>2, <1>5, <1>6, <1>7 DEF Tracked, TrackedSpans
<1>15. TrackedCounts'
  <2> SUFFICES ASSUME NEW i \in DOMAIN trackers, NEW q \in Spans, trackers'[i].span = q
               PROVE  /\ Counting(q)' => trackers'[i].free = Cardinality(Left(q)) + 1
                      /\ ~Counting(q)' => trackers'[i].free = Cardinality(Left(q))
    BY <1>5, <1>13 DEF TrackedCounts
  <2>1. CASE i = k
    BY <2>1, <1>6, <1>9, <1>12
  <2>2. CASE i # k
    BY <2>2, <1>6, <1>12 DEF Tracked, TrackedCounts
  <2> QED
    BY <2>1, <2>2
<1>16. \A u \in Threads : th'[u].pc \in {"split", "slot", "publish"} =>
                            th'[u] = th[u] /\ u # t
  BY <1>3, <1>4
<1>17. SlotsApart'
  <2> SUFFICES ASSUME NEW u \in Threads, th'[u].pc = "publish"
               PROVE  /\ th'[u].slot < spanCount /\ trackers'[th'[u].slot].span = None
                      /\ \A w \in Threads :
                            th'[w].pc = "publish" /\ th'[w].slot = th'[u].slot => w = u
    BY <1>2 DEF SlotsApart, At
  <2>1. th'[u] = th[u] /\ th[u].slot \in DOMAIN trackers /\ th[u].slot # k
    BY <1>0, <1>5, <1>16 DEF TypeOK, At
  <2> QED
    BY <2>1, <1>6, <1>16 DEF Tracked, SlotsApart, At
<1>18. FreshUntracked'
  <2> SUFFICES ASSUME NEW u \in Threads, Fresh(u)', NEW i \in DOMAIN trackers
               PROVE  trackers'[i].span # th'[u].hand[1]
    BY <1>5 DEF FreshUntracked
  <2>1. th'[u] = th[u] /\ u # t /\ Fresh(u)
    BY <1>16 DEF Fresh
  <2>2. th[u].hand[1] # s
    BY <2>1, <1>10 DEF Fresh, Holding
  <2> QED
    BY <2>1, <2>2, <1>6 DEF Tracked, FreshUntracked
<1>19. FreshLeft'
  <2> SUFFICES ASSUME NEW u \in Threads, th'[u].pc \in {"slot", "publish"}
               PROVE  Left(th[u].hand[1])' = {th'[u].hand[1]} \X (1 .. LastBlock(u)')
    BY DEF FreshLeft
  <2>1. th'[u] = th[u]
    BY <1>16
  <2>2. Left(th[u].hand[1])' = Left(th[u].hand[1])
    BY <2>1, <1>13 DEF Left
  <2> QED
    BY <2>1, <2>2, OthersLeft DEF Tracked
<1>20. AllTracked'
  <2> SUFFICES ASSUME NEW q \in Spans, classOf[q] # None, BlockNum(classOf[q]) > 1,
                      \A i \in DOMAIN trackers : trackers'[i].span # q,
                      \A u \in Threads : Fresh(u)' => th'[u].hand[1] # q
               PROVE  spanCount > MaxTrackers
    BY <1>2, <1>5 DEF AllTracked
  <2>1. q # s
    BY <1>5, <1>6
  <2>2. \A i \in DOMAIN trackers : trackers[i].span # q
    BY <1>5, <1>6, <1>7, NoneApart
  <2>3. \A u \in Threads : Fresh(u) => th[u].hand[1] # q
    BY <2>1, <1>1, <1>4 DEF Fresh
  <2> QED
    BY <2>2, <2>3 DEF Tracked, AllTracked
<1> QED
  BY <1>14, <1>15, <1>17, <1>18, <1>19, <1>20 DEF Tracked

\* At the start no span is mapped.
LEMMA InitTracked == Init => Tracked
<1> SUFFICES ASSUME Init PROVE Tracked
  OBVIOUS
<1>1. \A i \in DOMAIN trackers : trackers[i].span = None
  BY DEF Init
<1>2. \A t \in Threads : th[t].pc = "idle"
  BY DEF Init, Idle
<1>3. \A s \in Spans : classOf[s] = None
  BY DEF Init
<1> QED
  BY <1>1, <1>2, <1>3, NoneApart
     DEF Tracked, TrackedSpans, TrackedCounts, SlotsApart, FreshUntracked, FreshLeft,
         AllTracked, At, Fresh

\* Every step keeps the trackers in step with the central lists.
LEMMA NextTracked == IInv /\ Tracked /\ [Next]_vars => Tracked'
<1> SUFFICES ASSUME IInv, Tracked, [Next]_vars PROVE Tracked'
  OBVIOUS
<1>1. CASE UNCHANGED vars
  <2>1. UNCHANGED <<trackers, spanCount, classOf, th, owner>>
    BY <1>1 DEF vars, centralVars
  <2>2. \A s \in Spans : Left(s)' = Left(s)
    BY <2>1 DEF Left, PutOn
  <2> QED
    BY <2>1, <2>2, QuietTracked
<1>2. CASE Next
  <2>1. PICK t \in Threads :
          \/ \E n \in Sizes : AllocateLocal(t, n) \/ AllocateMiss(t, n)
          \/ \E b \in Blocks : Deallocate(t, b)
          \/ Lock(t) \/ Locked(t) \/ TakeBatch(t)
    BY <1>2 DEF Next
  <2>2. CASE \/ \E n \in Sizes : AllocateLocal(t, n) \/ AllocateMiss(t, n)
             \/ \E b \in Blocks : Deallocate(t, b)
             \/ TakeBatch(t) \/ Lock(t) \/ AllocationFails(t) \/ Unlock(t)
    BY <2>2, OutsideTracked
  <2>3. CASE PopCentral(t)
    BY <2>3, PopCentralTracked
  <2>4. CASE CountDown(t)
    BY <2>4, CountDownTracked
  <2>5. CASE Split(t)
    BY <2>5, SplitTracked
  <2>6. CASE WholeSpan(t) \/ TakeSlot(t)
    BY <2>6, UntrackedTracked
  <2>7. CASE PublishTracker(t)
    BY <2>7, PublishTracked
  <2>8. CASE \E s \in Spans : AllocateSpan(t, s)
    BY <2>8, AllocateSpanTracked
  <2> QED
    BY <2>1, <2>2, <2>3, <2>4, <2>5, <2>6, <2>7, <2>8, Zenon DEF Locked
<1> QED
  BY <1>1, <1>2

\* Whenever no thread is in fetchRange for a class, the tracker of each of its
\* spans says how many of its blocks are on the central list, and a span that
\* was cut is without one only once spanTrackers_ is used up: the two updates,
\* of the list and of the count, and the late publication of a tracker never
\* let the two drift apart.
THEOREM TrackersAlwaysExact == Spec => []TrackerExact
<1>1. Spec => []Tracked
  BY InitTracked, NextTracked, Invariance, PTL DEF Spec
<1>2. IInv /\ Tracked => TrackerExact
  <2> SUFFICES ASSUME IInv, Tracked, NEW s \in Spans, classOf[s] # None,
                      locks[classOf[s]] = None
               PROVE  /\ \A i \in GetSpanTracker(<<s, 0>>) :
                            trackers[i].free
                              = Cardinality({b \in PutOn(<<Central, classOf[s]>>) : b[1] = s})
                      /\ GetSpanTracker(<<s, 0>>) = {} /\ BlockNum(classOf[s]) > 1
                            => spanCount > MaxTrackers
    BY DEF TrackerExact
  <2>1. DOMAIN trackers = 0 .. MaxTrackers - 1
    BY DEF IInv, TypeOK
  <2>2. \A i \in DOMAIN trackers :
           trackers[i].span = s <=> i \in GetSpanTracker(<<s, 0>>)
    BY <2>1, NoneApart DEF Tracked, TrackedSpans, GetSpanTracker
  <2>3. \A i \in GetSpanTracker(<<s, 0>>) : i \in DOMAIN trackers
    BY <2>1 DEF GetSpanTracker
  <2>4. \A t \in Threads : th[t].pc \in Holding \ {"take"} => th[t].hand[1] # s
    <3> SUFFICES ASSUME NEW t \in Threads, th[t].pc \in Holding \ {"take"}, th[t].hand[1] = s
                 PROVE  FALSE
      OBVIOUS
    <3>1. locks[Class(t)] = t /\ classOf[s] = Class(t)
      BY HandSpan DEF IInv, LockHeld
    <3>2. t # None
      BY MemoryPoolAssumption DEF Homes
    <3> QED
      BY <3>1, <3>2
  <2>5. ~Counting(s)
    BY <2>4 DEF Counting, At, Holding
  <2>6. \A i \in GetSpanTracker(<<s, 0>>) : trackers[i].free = Cardinality(Left(s))
    BY <2>2, <2>3, <2>5 DEF Tracked, TrackedCounts
  <2>7. \A t \in Threads : Fresh(t) => th[t].hand[1] # s
    BY <2>4 DEF Fresh, Holding
  <2>8. GetSpanTracker(<<s, 0>>) = {} /\ BlockNum(classOf[s]) > 1 => spanCount > MaxTrackers
    BY <2>2, <2>7 DEF Tracked, AllTracked
  <2> QED
    BY <2>6, <2>8 DEF Left
<1> QED
  BY <1>1, <1>2, Invariance, PTL
=============================================================================
