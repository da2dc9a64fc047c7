-------------------------- MODULE MemoryPoolProofs --------------------------
(***************************************************************************)
(* Proofs about MemoryPool for any finite number of spans, any threads, any*)
(* sizes of pages, spans and blocks and any number of trackers: the pool   *)
(* gives no block to two, and every block fits its request.                *)
(***************************************************************************)
EXTENDS MemoryPool, TLAPS

-----------------------------------------------------------------------------
(* Sizes.                                                                  *)

\* What the quotient of two numbers is.
LEMMA Quotient ==
    ASSUME NEW a \in Nat, NEW d \in Nat \ {0}
    PROVE  a \div d \in Nat /\ (a \div d) * d <= a /\ a < (a \div d + 1) * d
BY SMT

\* A product grows with its factors.
LEMMA Products ==
    ASSUME NEW a \in Nat, NEW b \in Nat, NEW c \in Nat
    PROVE  /\ a * c \in Nat
           /\ a <= b => a * c <= b * c
           /\ a * c < b * c => a < b
BY SMT

\* getIndex gives a class within the array for every size up to MAX_BYTES, and
\* the blocks of the class have room for that many bytes.
LEMMA IndexHolds ==
    ASSUME NEW n \in 0 .. MaxBytes
    PROVE  /\ GetIndex(n) \in Classes
           /\ n <= BlockSize(GetIndex(n))
<1> DEFINE b == IF n < Alignment THEN Alignment ELSE n
           a == b + Alignment - 1
           q == a \div Alignment
           m == MaxBytes \div Alignment
<1>1. /\ Alignment \in Nat \ {0} /\ MaxBytes \in Nat /\ n \in Nat
      /\ b \in Nat /\ a \in Nat /\ n <= b /\ Alignment <= b /\ b <= MaxBytes
  BY MemoryPoolAssumption
<1>2. GetIndex(n) = q - 1
  BY DEF GetIndex
<1> HIDE DEF b
<1>3. q \in Nat /\ q * Alignment <= a /\ a < (q + 1) * Alignment
  BY <1>1, Quotient
<1>4. m \in Nat /\ m * Alignment <= MaxBytes /\ MaxBytes < (m + 1) * Alignment
  BY <1>1, Quotient
<1>5. MaxBytes = m * Alignment
  BY <1>1, MemoryPoolAssumption, SMT
<1> HIDE DEF q, m
<1>6. b <= q * Alignment
  <2>1. (q + 1) * Alignment = q * Alignment + Alignment
    BY <1>1, <1>3
  <2> QED
    BY <2>1, <1>1, <1>3, Products
<1>7. 1 <= q
  <2>1. 0 * Alignment < q * Alignment
    BY <1>1, <1>3, <1>6, Products
  <2> QED
    BY <2>1, <1>1, <1>3, Products
<1>8. q <= m
  <2>1. (m + 1) * Alignment = m * Alignment + Alignment
    BY <1>1, <1>4
  <2>2. q * Alignment < (m + 1) * Alignment
    BY <2>1, <1>1, <1>3, <1>4, <1>5, Products
  <2>3. q < m + 1
    BY <2>2, <1>1, <1>3, <1>4, Products
  <2> QED
    BY <2>3, <1>3, <1>4
<1>9. BlockSize(GetIndex(n)) = q * Alignment
  BY <1>2, <1>3 DEF BlockSize
<1>10. q * Alignment \in Nat
  BY <1>1, <1>3, Products
<1> QED
  BY <1>1, <1>2, <1>3, <1>4, <1>6, <1>7, <1>8, <1>9, <1>10 DEF Classes, m

\* fetchRange cuts a span into at least one block, all of them within the pages
\* that it asked the page cache for.
LEMMA BlocksInSpan ==
    ASSUME NEW c \in Classes
    PROVE  /\ BlockNum(c) \in Nat /\ 1 <= BlockNum(c)
           /\ \A i \in Nat :
                i < BlockNum(c) =>
                    /\ (i + 1) * BlockSize(c) <= NumPages(c) * PageSize
                    /\ i \in 0 .. (SpanPages * PageSize) \div Alignment
<1> DEFINE z == BlockSize(c)
           room == SpanPages * PageSize
           total == NumPages(c) * PageSize
<1>1. /\ Alignment \in Nat \ {0} /\ PageSize \in Nat \ {0} /\ SpanPages \in Nat \ {0}
      /\ room \in Nat /\ PageSize <= room
  <2>1. /\ Alignment \in Nat \ {0} /\ PageSize \in Nat \ {0} /\ SpanPages \in Nat \ {0}
    BY MemoryPoolAssumption
  <2>2. 1 * PageSize <= room
    BY <2>1, Products
  <2> QED
    BY <2>1, <2>2, Products
<1>2. c \in Nat
  BY <1>1, Quotient, MemoryPoolAssumption DEF Classes
<1>3. z \in Nat \ {0} /\ Alignment <= z
  <2>1. 1 * Alignment <= (c + 1) * Alignment /\ (c + 1) * Alignment \in Nat
    BY <1>1, <1>2, Products
  <2> QED
    BY <2>1, <1>1 DEF BlockSize
<1>4. total \in Nat /\ z <= total
      /\ (z <= room => total = room) /\ (room < z => total < z + PageSize)
  <2>1. CASE z <= room
    BY <2>1, <1>1, <1>3 DEF NumPages
  <2>2. CASE ~ (z <= room)
    <3> DEFINE q == (z + PageSize - 1) \div PageSize
    <3>1. total = q * PageSize
      BY <2>2 DEF NumPages
    <3>2. z + PageSize - 1 \in Nat
      BY <1>1, <1>3
    <3>3. q \in Nat /\ q * PageSize <= z + PageSize - 1 /\ z + PageSize - 1 < (q + 1) * PageSize
      BY <3>2, <1>1, Quotient
    <3> HIDE DEF q
    <3>4. (q + 1) * PageSize = q * PageSize + PageSize /\ q * PageSize \in Nat
      BY <3>3, <1>1, Products
    <3> HIDE DEF z, total, room
    <3> QED
      BY <3>1, <3>3, <3>4, <2>2, <1>1, <1>3
  <2> QED
    BY <2>1, <2>2
<1> DEFINE k == BlockNum(c)
           top == room \div Alignment
<1>5. k \in Nat /\ k * z <= total /\ total < (k + 1) * z
  BY <1>3, <1>4, Quotient, Zenon DEF BlockNum
<1>6. top \in Nat /\ room < (top + 1) * Alignment
  BY <1>1, Quotient
<1> HIDE DEF z, room, total, k, top
<1>7. 1 <= k
  <2>1. 1 * z < (k + 1) * z
    BY <1>3, <1>4, <1>5, Products
  <2>2. 1 < k + 1
    BY <2>1, <1>3, <1>5, Products
  <2> QED
    BY <2>2, <1>5
<1>8. k - 1 <= top
  <2>1. CASE z <= room
    <3>1. k * Alignment <= k * z
      BY <1>1, <1>3, <1>5, SMT
    <3>2. k * Alignment < (top + 1) * Alignment
      BY <3>1, <2>1, <1>1, <1>3, <1>4, <1>5, <1>6, Products
    <3>3. k < top + 1
      BY <3>2, <1>1, <1>5, <1>6, Products
    <3> QED
      BY <3>3, <1>5, <1>6
  <2>2. CASE room < z
    <3>1. total < 2 * z
      BY <2>2, <1>1, <1>3, <1>4
    <3>2. k * z < 2 * z
      BY <3>1, <1>3, <1>4, <1>5, Products
    <3>3. k < 2
      BY <3>2, <1>3, <1>5, Products
    <3> QED
      BY <3>3, <1>5, <1>6
  <2> QED
    BY <2>1, <2>2, <1>1, <1>3
<1>9. ASSUME NEW i \in Nat, i < k
      PROVE  (i + 1) * z <= total
  <2>1. (i + 1) * z <= k * z
    BY <1>9, <1>3, <1>5, Products
  <2> QED
    BY <2>1, <1>3, <1>4, <1>5, Products
<1> QED
  BY <1>5, <1>6, <1>7, <1>8, <1>9 DEF z, room, total, k, top

-----------------------------------------------------------------------------
(* The inductive invariant.                                                *)

\* A list begins with a block that is on it, and no block on a list is linked
\* to the first of one.
HeadOwned ==
    \A l \in Lists :
        head[l] # Null =>
            /\ owner[head[l]] = l
            /\ \A b \in Blocks : owner[b] \in Lists => link[b] # head[l]

\* The next block of one on a list is on the same list, and is next of one only.
LinkOwned ==
    \A b \in Blocks :
        owner[b] \in Lists /\ link[b] # Null =>
            /\ link[b] \in Blocks /\ owner[link[b]] = owner[b]
            /\ \A d \in Blocks : owner[d] \in Lists /\ link[d] = link[b] => d = b

Holding == {"count", "split", "slot", "publish", "unlock", "take"}

\* The block a thread brings from the central cache is its own, for the class it
\* asked for.
HandOwned ==
    \A t \in Threads :
        /\ th[t].pc \in Holding <=> th[t].hand # Null
        /\ th[t].hand # Null =>
              /\ owner[th[t].hand] = Hand(t)
              /\ link[th[t].hand] = Null
              /\ classOf[th[t].hand[1]] = Class(t)

\* A block has a user while it is in use.
UsedOwned ==
    \A b \in Blocks : size[b] # None <=> owner[b] = InUse

\* A block that is anywhere belongs to a mapped span, of the class of its list
\* or of the size it was asked for.
ClassOwned ==
    \A b \in Blocks :
        /\ owner[b] # Nowhere =>
              classOf[b[1]] \in Classes /\ b[2] < BlockNum(classOf[b[1]])
        /\ owner[b] \in Lists => classOf[b[1]] = owner[b][2]
        /\ owner[b] = InUse => classOf[b[1]] = GetIndex(size[b])

\* A thread within fetchRange has the lock of its class.
LockHeld ==
    \A t \in Threads :
        th[t].pc \in (Holding \ {"take"}) \cup {"fetch"} => locks[Class(t)] = t

\* A span that is about to be cut has one block so far, and the central list of
\* its class is empty.
SplitFresh ==
    \A t \in Threads :
        At(t, "split") =>
            /\ th[t].hand[2] = 0
            /\ head[<<Central, Class(t)>>] = Null
            /\ \A b \in Blocks : b[1] = th[t].hand[1] /\ b # th[t].hand => owner[b] = Nowhere

IInv ==
    /\ TypeOK /\ HeadOwned /\ LinkOwned /\ HandOwned
    /\ UsedOwned /\ ClassOwned /\ LockHeld /\ SplitFresh

\* The places where a block can be are told apart.
LEMMA Places ==
    /\ InUse \notin Lists /\ Nowhere \notin Lists /\ InUse # Nowhere
    /\ \A t \in Threads :
          Hand(t) \notin Lists /\ Hand(t) # InUse /\ Hand(t) # Nowhere
    /\ \A t, u \in Threads : Hand(t) = Hand(u) => t = u
    /\ \A h \in Homes, c \in Classes : <<h, c>> \in Lists /\ <<h, c>>[2] = c
BY MemoryPoolAssumption, Quotient DEF InUse, Nowhere, Hand, Lists, Homes, Classes

\* Each of them is a value that owner can have.
LEMMA PlacesTyped ==
    /\ InUse \in Whereabouts /\ Nowhere \in Whereabouts
    /\ \A l \in Lists : l \in Whereabouts
    /\ \A t \in Threads : Hand(t) \in Whereabouts
BY DEF Whereabouts, Hand

\* Null and Junk are no blocks.
LEMMA NoBlocks == Null \notin Blocks /\ Junk \notin Blocks /\ Null # Junk
BY MemoryPoolAssumption DEF Blocks

\* The sizes asked for have classes.
LEMMA SizesHaveClass ==
    \A n \in 0 .. MaxBytes : GetIndex(n) \in Classes
BY IndexHolds

\* The sizes asked for are within MAX_BYTES, and None is not one of them.
LEMMA SizesInRange == Sizes \subseteq 0 .. MaxBytes /\ None \notin Sizes /\ 0 \in 0 .. MaxBytes
<1>1. Sizes \subseteq 0 .. MaxBytes /\ MaxBytes \in Nat
  BY MemoryPoolAssumption
<1>2. None \notin Int
  BY MemoryPoolAssumption
<1>3. \A n \in Sizes : n \in Int
  BY <1>1
<1>4. None \notin Sizes
  BY <1>2, <1>3, Zenon
<1>5. 0 \in 0 .. MaxBytes
  BY <1>1
<1> QED
  BY <1>1, <1>4, <1>5, Zenon

\* What TypeOK says of one thread.
LEMMA ThreadTyped ==
    ASSUME TypeOK, NEW t \in Threads
    PROVE  /\ th[t] \in ThreadStates
           /\ th[t].want \in 0 .. MaxBytes /\ th[t].slot \in Nat /\ th[t].hand \in Pointers
           /\ Class(t) \in Classes
<1>1. th[t] \in ThreadStates
  BY DEF TypeOK
<1>2. th[t].want \in 0 .. MaxBytes /\ th[t].slot \in Nat /\ th[t].hand \in Pointers
  BY <1>1 DEF ThreadStates
<1> QED
  BY <1>1, <1>2, SizesHaveClass DEF Class

\* What a thread brings from the central cache is a block in its hands.
LEMMA HandsAreBlocks ==
    ASSUME TypeOK, HandOwned
    PROVE  \A u \in Threads :
              th[u].hand # Null => th[u].hand \in Blocks /\ owner[th[u].hand] = Hand(u)
BY ThreadTyped DEF HandOwned, Pointers

\* The first block of a list is a block, and is on that list.
LEMMA HeadsAreBlocks ==
    ASSUME TypeOK, HeadOwned
    PROVE  \A l \in Lists : head[l] # Null => head[l] \in Blocks /\ owner[head[l]] = l
<1>1. head \in [Lists -> Pointers]
  BY DEF TypeOK
<1> QED
  BY <1>1 DEF HeadOwned, Pointers

\* A block from the thread's own list.
LEMMA AllocateLocalIInv ==
    ASSUME IInv, NEW t \in Threads, NEW n \in Sizes, AllocateLocal(t, n)
    PROVE  IInv'
<1> DEFINE list == <<t, GetIndex(n)>>
           b == head[list]
<1>0. TypeOK /\ HeadOwned /\ LinkOwned /\ HandOwned /\ UsedOwned /\ ClassOwned
      /\ LockHeld /\ SplitFresh
  BY DEF IInv
<1>1. list \in Lists /\ list \in Threads \X Classes /\ n \in 0 .. MaxBytes
      /\ list[2] = GetIndex(n) /\ list[1] # Central
  BY SizesInRange, SizesHaveClass, Places, MemoryPoolAssumption DEF Homes
<1>2. /\ head' = [head EXCEPT ![list] = link[b]] /\ link' = [link EXCEPT ![b] = Junk]
      /\ owner' = [owner EXCEPT ![b] = InUse] /\ size' = [size EXCEPT ![b] = n]
      /\ th' = th /\ classOf' = classOf /\ locks' = locks /\ b # Null
  BY DEF AllocateLocal, Popped, Give, centralVars
<1> HIDE DEF list
<1>3. b \in Blocks /\ owner[b] = list /\ link[b] \in Pointers
      /\ classOf[b[1]] = GetIndex(n)
  <2>1. b \in Blocks
    BY <1>0, <1>1, <1>2, HeadsAreBlocks
  <2>2. owner[b] = list
    BY <1>0, <1>1, <1>2, HeadsAreBlocks
  <2>3. link[b] \in Pointers
    BY <1>0, <1>1, <2>1, <2>2 DEF LinkOwned, Pointers
  <2>4. classOf[b[1]] = GetIndex(n)
    BY <1>0, <1>1, <2>1, <2>2 DEF ClassOwned
  <2> QED
    BY <2>1, <2>2, <2>3, <2>4
<1>b. b = head[list]
  OBVIOUS
<1> HIDE DEF b
<1>4. /\ owner'[b] \notin Lists
      /\ \A d \in Blocks : d # b => owner'[d] = owner[d] /\ link'[d] = link[d]
  BY <1>0, <1>2, <1>3, Places DEF TypeOK
<1>12. TypeOK'
  <2>1. freeListSize' \in [Threads \X Classes -> Nat]
    BY <1>0, <1>1 DEF AllocateLocal, LengthAfterPop, TypeOK, list
  <2>2. UNCHANGED <<locks, classOf, spanCount, trackers, th>>
    BY DEF AllocateLocal, centralVars
  <2>3. head' \in [Lists -> Pointers] /\ link' \in [Blocks -> Pointers \cup {Junk}]
    BY <1>0, <1>2, <1>3, Zenon DEF TypeOK
  <2>4. size' \in [Blocks -> (0 .. MaxBytes) \cup {None}]
        /\ owner' \in [Blocks -> Whereabouts]
    BY <1>0, <1>1, <1>2, <1>3, PlacesTyped DEF TypeOK
  <2> QED
    BY <1>0, <2>1, <2>2, <2>3, <2>4 DEF TypeOK, At
<1>5. HeadOwned'
  <2> SUFFICES ASSUME NEW l \in Lists, head'[l] # Null
               PROVE  /\ owner'[head'[l]] = l
                      /\ \A d \in Blocks : owner'[d] \in Lists => link'[d] # head'[l]
    BY DEF HeadOwned
  <2>1. head'[list] = link[b] /\ (l # list => head'[l] = head[l])
    BY <1>0, <1>1, <1>2 DEF TypeOK
  <2>2. /\ head'[l] \in Blocks /\ head'[l] # b /\ owner[head'[l]] = l
        /\ \A d \in Blocks : owner[d] \in Lists /\ d # b => link[d] # head'[l]
    <3>1. CASE l = list
      <4>1. link[b] \in Blocks /\ owner[link[b]] = list
            /\ \A d \in Blocks : owner[d] \in Lists /\ link[d] = link[b] => d = b
        BY <3>1, <2>1, <1>0, <1>1, <1>3 DEF LinkOwned
      <4>2. link[b] # b
        BY <1>0, <1>1, <1>2, <1>3, <1>b DEF HeadOwned
      <4> QED
        BY <3>1, <2>1, <4>1, <4>2
    <3>2. CASE l # list
      <4>1. head[l] \in Blocks /\ owner[head[l]] = l
            /\ \A d \in Blocks : owner[d] \in Lists => link[d] # head[l]
        BY <3>2, <2>1, <1>0, HeadsAreBlocks DEF HeadOwned
      <4> QED
        BY <3>2, <2>1, <4>1, <1>3
    <3> QED
      BY <3>1, <3>2
  <2> QED
    BY <2>2, <1>4
<1>6. LinkOwned'
  <2> SUFFICES ASSUME NEW d \in Blocks, owner'[d] \in Lists, link'[d] # Null
               PROVE  /\ link'[d] \in Blocks /\ owner'[link'[d]] = owner'[d]
                      /\ \A e \in Blocks :
                            owner'[e] \in Lists /\ link'[e] = link'[d] => e = d
    BY DEF LinkOwned
  <2>1. d # b /\ owner[d] \in Lists /\ link'[d] = link[d]
    BY <1>4
  <2>2. /\ link[d] \in Blocks /\ owner[link[d]] = owner[d]
        /\ \A e \in Blocks : owner[e] \in Lists /\ link[e] = link[d] => e = d
    BY <2>1, <1>0 DEF LinkOwned
  <2>3. link[d] # b
    BY <2>1, <1>0, <1>1, <1>2, <1>b DEF HeadOwned
  <2> QED
    BY <2>1, <2>2, <2>3, <1>4
<1>7. HandOwned'
  BY <1>0, <1>1, <1>2, <1>3, <1>b, Places, NoBlocks DEF TypeOK, HandOwned, Class, Pointers
<1>8. UsedOwned'
  BY <1>0, <1>1, <1>2, <1>3, SizesInRange DEF TypeOK, UsedOwned
<1>9. ClassOwned'
  BY <1>0, <1>1, <1>2, <1>3, Places DEF TypeOK, ClassOwned
<1>10. LockHeld'
  BY <1>0, <1>2 DEF LockHeld, Class
<1>11. SplitFresh'
  <2>1. \A c : head'[<<Central, c>>] = head[<<Central, c>>]
    BY <1>1, <1>2, <1>0 DEF TypeOK
  <2> QED
    BY <1>0, <1>1, <1>2, <1>3, <2>1, Places DEF TypeOK, SplitFresh, Class, At
<1> QED
  BY <1>12, <1>5, <1>6, <1>7, <1>8, <1>9, <1>10, <1>11 DEF IInv

\* A block given back.
LEMMA DeallocateIInv ==
    ASSUME IInv, NEW t \in Threads, NEW b \in Blocks, Deallocate(t, b)
    PROVE  IInv'
<1> DEFINE list == <<t, GetIndex(size[b])>>
<1>0. TypeOK /\ HeadOwned /\ LinkOwned /\ HandOwned /\ UsedOwned /\ ClassOwned
      /\ LockHeld /\ SplitFresh
  BY DEF IInv
<1>1. list \in Lists /\ list \in Threads \X Classes
      /\ list[2] = GetIndex(size[b]) /\ list[1] # Central
  <2>1. size[b] \in 0 .. MaxBytes
    BY <1>0 DEF TypeOK, Deallocate
  <2> QED
    BY <2>1, SizesHaveClass, Places, MemoryPoolAssumption DEF Homes
<1>2. /\ head' = [head EXCEPT ![list] = b] /\ link' = [link EXCEPT ![b] = head[list]]
      /\ owner' = [owner EXCEPT ![b] = list] /\ size' = [size EXCEPT ![b] = None]
      /\ th' = th /\ classOf' = classOf /\ locks' = locks /\ size[b] # None
  BY DEF Deallocate, Pushed, centralVars
<1>3. owner[b] = InUse /\ classOf[b[1]] = list[2] /\ head[list] \in Pointers
      /\ classOf[b[1]] \in Classes /\ b[2] < BlockNum(classOf[b[1]])
  BY <1>0, <1>1, <1>2, Places DEF UsedOwned, ClassOwned, TypeOK
<1>4. TypeOK'
  <2>1. freeListSize' \in [Threads \X Classes -> Nat]
    BY <1>0, <1>1 DEF Deallocate, TypeOK
  <2>2. UNCHANGED <<locks, classOf, spanCount, trackers, th>>
    BY DEF Deallocate, centralVars
  <2>3. head' \in [Lists -> Pointers] /\ link' \in [Blocks -> Pointers \cup {Junk}]
    BY <1>0, <1>2, <1>3, Zenon DEF TypeOK, Pointers
  <2>4. size' \in [Blocks -> (0 .. MaxBytes) \cup {None}]
        /\ owner' \in [Blocks -> Whereabouts]
    BY <1>0, <1>1, <1>2, <1>3, PlacesTyped DEF TypeOK
  <2> QED
    BY <1>0, <2>1, <2>2, <2>3, <2>4 DEF TypeOK, At
<1> HIDE DEF list
<1>5. HeadOwned'
  <2> SUFFICES ASSUME NEW l \in Lists, head'[l] # Null
               PROVE  /\ owner'[head'[l]] = l
                      /\ \A d \in Blocks : owner'[d] \in Lists => link'[d] # head'[l]
    BY DEF HeadOwned
  <2>1. CASE l = list
    <3>1. head'[l] = b
      BY <2>1, <1>0, <1>1, <1>2 DEF TypeOK
    <3>2. ASSUME NEW d \in Blocks, owner'[d] \in Lists
          PROVE  link'[d] # b
      <4>1. CASE d = b
        BY <4>1, <1>0, <1>1, <1>2, <1>3, Places, NoBlocks DEF TypeOK, HeadOwned
      <4>2. CASE d # b
        BY <4>2, <3>2, <1>0, <1>1, <1>2, <1>3, Places, NoBlocks DEF TypeOK, LinkOwned
      <4> QED
        BY <4>1, <4>2
    <3> QED
      BY <2>1, <3>1, <3>2, <1>0, <1>2 DEF TypeOK
  <2>2. CASE l # list
    <3>1. head'[l] = head[l] /\ owner[head[l]] = l /\ head[l] # b /\ head[l] # head[list]
          /\ head[l] \in Blocks
      BY <2>2, <1>0, <1>1, <1>2, <1>3, Places DEF TypeOK, HeadOwned, Pointers
    <3> QED
      BY <2>2, <3>1, <1>0, <1>1, <1>2, <1>3 DEF TypeOK, HeadOwned
  <2> QED
    BY <2>1, <2>2
<1>6. LinkOwned'
  BY <1>0, <1>1, <1>2, <1>3, Places, NoBlocks DEF TypeOK, HeadOwned, LinkOwned, Pointers
<1>7. HandOwned'
  BY <1>0, <1>1, <1>2, <1>3, Places, NoBlocks DEF TypeOK, HandOwned, Class, Pointers
<1>8. UsedOwned'
  BY <1>0, <1>1, <1>2, <1>3, Places DEF TypeOK, UsedOwned
<1>9. ClassOwned'
  BY <1>0, <1>1, <1>2, <1>3, Places DEF TypeOK, ClassOwned
<1>10. LockHeld'
  BY <1>0, <1>2 DEF LockHeld, Class
<1>11. SplitFresh'
  <2>1. \A c : head'[<<Central, c>>] = head[<<Central, c>>]
    BY <1>1, <1>2, <1>0 DEF TypeOK
  <2> QED
    BY <1>0, <1>1, <1>2, <1>3, <2>1, Places DEF TypeOK, SplitFresh, Class, At
<1> QED
  BY <1>4, <1>5, <1>6, <1>7, <1>8, <1>9, <1>10, <1>11 DEF IInv

\* A step that moves no block keeps the invariant if the types, and who has the
\* locks, stay right.
LEMMA QuietIInv ==
    ASSUME IInv, TypeOK', LockHeld',
           UNCHANGED <<head, link, size, owner, classOf>>,
           NEW t \in Threads, NEW r \in ThreadStates,
           th' = [th EXCEPT ![t] = r],
           r.hand = th[t].hand,
           r.hand # Null => r.want = th[t].want,
           r.pc \in Holding <=> r.hand # Null,
           r.pc # "split"
    PROVE  IInv'
<1>0. TypeOK /\ HeadOwned /\ LinkOwned /\ HandOwned /\ UsedOwned /\ ClassOwned
      /\ LockHeld /\ SplitFresh
  BY DEF IInv
<1>1. HeadOwned' /\ LinkOwned' /\ UsedOwned'
  BY <1>0 DEF HeadOwned, LinkOwned, UsedOwned
<1>2. ClassOwned'
  BY <1>0 DEF ClassOwned
<1>3. HandOwned'
  BY <1>0 DEF TypeOK, HandOwned, Class
<1>4. SplitFresh'
  BY <1>0 DEF TypeOK, SplitFresh, Class, At
<1> QED
  BY <1>1, <1>2, <1>3, <1>4 DEF IInv

\* The thread's own list is empty.
LEMMA AllocateMissIInv ==
    ASSUME IInv, NEW t \in Threads, NEW n \in Sizes, AllocateMiss(t, n)
    PROVE  IInv'
<1> DEFINE r == [pc |-> "lock", want |-> n, hand |-> Null, slot |-> 0]
<1>0. TypeOK /\ HandOwned /\ LockHeld
  BY DEF IInv
<1>1. th' = [th EXCEPT ![t] = r] /\ th[t] = Idle
      /\ UNCHANGED <<head, link, freeListSize, locks, classOf, spanCount, trackers, size, owner>>
  BY Zenon DEF AllocateMiss, centralVars
<1>2. r.pc = "lock" /\ r.hand = Null /\ th[t].hand = Null
  BY <1>1 DEF Idle
<1>3. r \in ThreadStates
  <2>1. n \in 0 .. MaxBytes
    BY SizesInRange, Zenon
  <2> QED
    BY <2>1 DEF ThreadStates, States, Pointers
<1> HIDE DEF r
<1>4. TypeOK'
  BY <1>0, <1>1, <1>2, <1>3 DEF TypeOK, At, ThreadStates
<1>5. LockHeld'
  BY <1>0, <1>1, <1>2 DEF TypeOK, LockHeld, Class, Holding
<1> QED
  BY <1>1, <1>2, <1>3, <1>4, <1>5, QuietIInv, Zenon DEF Holding

\* test_and_set of a free lock.
LEMMA LockIInv ==
    ASSUME IInv, NEW t \in Threads, Lock(t)
    PROVE  IInv'
<1> DEFINE r == [th[t] EXCEPT !.pc = "fetch"]
<1>0. TypeOK /\ HandOwned /\ LockHeld
  BY DEF IInv
<1>1. th' = [th EXCEPT ![t] = r] /\ th[t].pc = "lock"
      /\ locks[Class(t)] = None /\ locks' = [locks EXCEPT ![Class(t)] = t]
      /\ UNCHANGED <<head, link, freeListSize, classOf, spanCount, trackers, size, owner>>
  BY DEF Lock, Goes, At
<1>2. r \in ThreadStates /\ r.pc = "fetch" /\ r.hand = th[t].hand /\ r.want = th[t].want
  BY <1>0, Zenon DEF TypeOK, ThreadStates, States
<1>3. Class(t) \in Classes
  BY <1>0, ThreadTyped
<1> HIDE DEF r
<1>4. TypeOK'
  BY <1>0, <1>1, <1>2, <1>3 DEF TypeOK, At, ThreadStates
<1>5. LockHeld'
  <2>1. \A u \in Threads : Class(u)' = Class(u)
    BY <1>0, <1>1, <1>2 DEF TypeOK, Class
  <2>2. None \notin Threads
    BY MemoryPoolAssumption DEF Homes
  <2> QED
    BY <1>0, <1>1, <1>2, <1>3, <2>1, <2>2 DEF TypeOK, LockHeld, Holding
<1> QED
  BY <1>0, <1>1, <1>2, <1>4, <1>5, QuietIInv, Zenon DEF HandOwned, Holding

\* The lock is cleared, with or without a block.
LEMMA UnlockIInv ==
    ASSUME IInv, NEW t \in Threads, Unlock(t) \/ AllocationFails(t)
    PROVE  IInv'
<1> DEFINE r == IF Unlock(t) THEN [th[t] EXCEPT !.pc = "take"] ELSE Idle
<1>0. TypeOK /\ HandOwned /\ LockHeld
  BY DEF IInv
<1>1. th' = [th EXCEPT ![t] = r] /\ th[t].pc \in {"unlock", "fetch"}
      /\ locks' = [locks EXCEPT ![Class(t)] = None]
      /\ UNCHANGED <<head, link, freeListSize, classOf, spanCount, trackers, size, owner>>
  BY DEF Unlock, AllocationFails, Goes, At
<1>2. /\ r \in ThreadStates /\ r.hand = th[t].hand /\ r.pc \in {"take", "idle"}
      /\ r.pc = "take" <=> r.hand # Null
      /\ r.hand # Null => r.want = th[t].want
  <2>1. CASE Unlock(t)
    BY <2>1, <1>0, Zenon DEF TypeOK, HandOwned, ThreadStates, States, Unlock, At, Holding
  <2>2. CASE ~ Unlock(t)
    <3>1. th[t].hand = Null
      BY <2>2, <1>0 DEF AllocationFails, HandOwned, At, Holding
    <3> QED
      BY <2>2, <3>1, SizesInRange DEF Idle, ThreadStates, States, Pointers
  <2> QED
    BY <2>1, <2>2
<1>3. Class(t) \in Classes /\ None \notin Threads
  BY <1>0, ThreadTyped, MemoryPoolAssumption DEF Homes
<1> HIDE DEF r
<1>4. TypeOK'
  BY <1>0, <1>1, <1>2, <1>3 DEF TypeOK, At, ThreadStates
<1>5. LockHeld'
  <2> SUFFICES ASSUME NEW u \in Threads,
                      (th[u].pc \in (Holding \ {"take"}) \cup {"fetch"})'
               PROVE  (locks[Class(u)] = u)'
    BY DEF LockHeld
  <2>1. u # t
    BY <1>0, <1>1, <1>2 DEF TypeOK, Holding
  <2>2. th'[u] = th[u]
    BY <2>1, <1>0, <1>1 DEF TypeOK
  <2>3. locks[Class(u)] = u /\ locks[Class(t)] = t
    BY <2>2, <1>0, <1>1 DEF LockHeld, Holding
  <2>4. locks'[Class(u)] = locks[Class(u)]
    BY <2>1, <2>3, <1>1
  <2> QED
    BY <2>2, <2>3, <2>4 DEF Class
<1> QED
  BY <1>0, <1>1, <1>2, <1>4, <1>5, QuietIInv, Zenon DEF HandOwned, Holding

\* The steps about the trackers.
LEMMA TrackerIInv ==
    ASSUME IInv, NEW t \in Threads, CountDown(t) \/ TakeSlot(t) \/ PublishTracker(t)
    PROVE  IInv'
<1>0. TypeOK /\ HandOwned /\ LockHeld
  BY DEF IInv
<1>1. PICK pc \in {"unlock", "publish"}, slot \in Nat :
          /\ th' = [th EXCEPT ![t] = [@ EXCEPT !.pc = pc, !.slot = slot]]
          /\ pc = "publish" => slot < MaxTrackers
  <2>1. CASE CountDown(t) \/ PublishTracker(t)
    <3>1. th' = [th EXCEPT ![t] = [@ EXCEPT !.pc = "unlock", !.slot = th[t].slot]]
      BY <2>1, <1>0, Zenon DEF CountDown, PublishTracker, Goes, TypeOK, ThreadStates
    <3>2. th[t].slot \in Nat
      BY <1>0, ThreadTyped
    <3> QED
      BY <3>1, <3>2, Zenon
  <2>2. CASE TakeSlot(t)
    BY <2>2, <1>0, MemoryPoolAssumption, Zenon DEF TakeSlot, TypeOK, HasSlot
  <2> QED
    BY <2>1, <2>2, Zenon
<1> DEFINE r == [th[t] EXCEPT !.pc = pc, !.slot = slot]
<1>2. /\ th' = [th EXCEPT ![t] = r] /\ th[t].pc \in {"count", "slot", "publish"}
      /\ UNCHANGED <<head, link, freeListSize, locks, classOf, size, owner>>
  BY <1>1 DEF CountDown, TakeSlot, PublishTracker, At
<1>3. /\ r \in ThreadStates /\ r.hand = th[t].hand /\ r.want = th[t].want
      /\ r.pc = pc /\ r.slot = slot
  BY <1>0, <1>1, Zenon DEF TypeOK, ThreadStates, States
<1> HIDE DEF r
<1>4. TypeOK'
  <2>1. spanCount' \in Nat
    BY <1>0 DEF CountDown, TakeSlot, PublishTracker, TypeOK
  <2>2. trackers' \in [0 .. MaxTrackers - 1 -> SpanTracker]
    <3>1. CASE CountDown(t)
      <4>1. trackers \in [0 .. MaxTrackers - 1 -> SpanTracker]
        BY <1>0 DEF TypeOK
      <4>2. \A e \in SpanTracker : [e EXCEPT !.free = CountLess(@)] \in SpanTracker
        BY DEF SpanTracker, CountLess
      <4> QED
        BY <3>1, <4>1, <4>2 DEF CountDown
    <3>2. CASE TakeSlot(t)
      BY <3>2, <1>0 DEF TakeSlot, TypeOK
    <3>3. CASE PublishTracker(t)
      <4>1. th[t].hand \in Blocks
        BY <3>3, <1>0, HandsAreBlocks DEF PublishTracker, At, HandOwned, Holding
      <4>2. th[t].hand[1] \in Spans
        BY <4>1 DEF Blocks
      <4>3. LastBlock(t) \in Int
        <5>1. Class(t) \in Classes
          BY <1>0, ThreadTyped
        <5> QED
          BY <5>1, BlocksInSpan DEF LastBlock
      <4> QED
        BY <3>3, <4>2, <4>3, <1>0 DEF PublishTracker, TypeOK, SpanTracker
    <3> QED
      BY <3>1, <3>2, <3>3
  <2>3. \A u \in Threads : th'[u].pc = "publish" => th'[u].slot \in 0 .. MaxTrackers - 1
    <3>1. slot < MaxTrackers => slot \in 0 .. MaxTrackers - 1
      BY <1>1, MemoryPoolAssumption
    <3>2. \A u \in Threads : th[u].pc = "publish" => th[u].slot \in 0 .. MaxTrackers - 1
      BY <1>0 DEF TypeOK, At
    <3> QED
      BY <1>0, <1>1, <1>2, <1>3, <3>1, <3>2 DEF TypeOK
  <2>4. th' \in [Threads -> ThreadStates]
    BY <1>0, <1>2, <1>3 DEF TypeOK, ThreadStates
  <2> QED
    BY <1>0, <1>2, <2>1, <2>2, <2>3, <2>4 DEF TypeOK, At, ThreadStates
<1>5. LockHeld'
  BY <1>0, <1>1, <1>2, <1>3 DEF TypeOK, LockHeld, Class, Holding
<1> QED
  BY <1>0, <1>1, <1>2, <1>3, <1>4, <1>5, QuietIInv, Zenon DEF HandOwned, Holding

\* The first block of the central list.
LEMMA PopCentralIInv ==
    ASSUME IInv, NEW t \in Threads, PopCentral(t)
    PROVE  IInv'
<1> DEFINE list == <<Central, Class(t)>>
           b == head[list]
           r == [th[t] EXCEPT !.pc = "count", !.hand = b]
<1>0. TypeOK /\ HeadOwned /\ LinkOwned /\ HandOwned /\ UsedOwned /\ ClassOwned
      /\ LockHeld /\ SplitFresh
  BY DEF IInv
<1>1. list \in Lists /\ list[2] = Class(t)
  <2>1. Class(t) \in Classes
    BY <1>0, ThreadTyped
  <2> QED
    BY <2>1, Places DEF Homes
<1>2. /\ head' = [head EXCEPT ![list] = link[b]] /\ link' = [link EXCEPT ![b] = Null]
      /\ owner' = [owner EXCEPT ![b] = Hand(t)] /\ th' = [th EXCEPT ![t] = r]
      /\ UNCHANGED <<size, freeListSize, locks, classOf, spanCount, trackers>>
      /\ b # Null /\ th[t].pc = "fetch"
  BY DEF PopCentral, centralVars, At
<1>3. b \in Blocks /\ owner[b] = list /\ link[b] \in Pointers /\ classOf[b[1]] = Class(t)
  <2>1. b \in Blocks
    BY <1>0, <1>1, <1>2, HeadsAreBlocks
  <2>2. owner[b] = list
    BY <1>0, <1>1, <1>2, HeadsAreBlocks
  <2>3. link[b] \in Pointers
    BY <1>0, <1>1, <2>1, <2>2 DEF LinkOwned, Pointers
  <2>4. classOf[b[1]] = Class(t)
    BY <1>0, <1>1, <2>1, <2>2 DEF ClassOwned
  <2> QED
    BY <2>1, <2>2, <2>3, <2>4
<1>b. b = head[list]
  OBVIOUS
<1> HIDE DEF b
<1>4. r \in ThreadStates /\ r.pc = "count" /\ r.hand = b /\ r.want = th[t].want
  BY <1>0, <1>3, Zenon DEF TypeOK, ThreadStates, States, Pointers
<1>5. th'[t] = r /\ Class(t)' = Class(t)
      /\ \A u \in Threads : u # t => th'[u] = th[u] /\ Class(u)' = Class(u)
  BY <1>0, <1>2, <1>4 DEF TypeOK, Class
<1> HIDE DEF r, list
<1>6. TypeOK'
  <2>1. head' \in [Lists -> Pointers] /\ link' \in [Blocks -> Pointers \cup {Junk}]
    BY <1>0, <1>2, <1>3, Zenon DEF TypeOK, Pointers
  <2>2. owner' \in [Blocks -> Whereabouts]
    BY <1>0, <1>2, <1>3, PlacesTyped DEF TypeOK
  <2>3. th' \in [Threads -> ThreadStates]
        /\ \A u \in Threads : th'[u].pc = "publish" => th'[u].slot \in DOMAIN trackers
    BY <1>0, <1>2, <1>4 DEF TypeOK, ThreadStates, At
  <2> QED
    BY <1>0, <1>2, <2>1, <2>2, <2>3 DEF TypeOK, At, ThreadStates
<1>m. /\ owner'[b] = Hand(t) /\ link'[b] = Null /\ owner'[b] \notin Lists
      /\ \A d \in Blocks : d # b => owner'[d] = owner[d] /\ link'[d] = link[d]
  BY <1>0, <1>2, <1>3, Places DEF TypeOK
<1>7. HeadOwned'
  <2> SUFFICES ASSUME NEW l \in Lists, head'[l] # Null
               PROVE  /\ owner'[head'[l]] = l
                      /\ \A d \in Blocks : owner'[d] \in Lists => link'[d] # head'[l]
    BY DEF HeadOwned
  <2>1. head'[list] = link[b] /\ (l # list => head'[l] = head[l])
    BY <1>0, <1>1, <1>2 DEF TypeOK
  <2>2. /\ head'[l] \in Blocks /\ head'[l] # b /\ owner[head'[l]] = l
        /\ \A d \in Blocks : owner[d] \in Lists /\ d # b => link[d] # head'[l]
    <3>1. CASE l = list
      <4>1. link[b] \in Blocks /\ owner[link[b]] = list
            /\ \A d \in Blocks : owner[d] \in Lists /\ link[d] = link[b] => d = b
        BY <3>1, <2>1, <1>0, <1>1, <1>3 DEF LinkOwned
      <4>2. link[b] # b
        BY <1>0, <1>1, <1>2, <1>3, <1>b DEF HeadOwned
      <4> QED
        BY <3>1, <2>1, <4>1, <4>2
    <3>2. CASE l # list
      <4>1. head[l] \in Blocks /\ owner[head[l]] = l
            /\ \A d \in Blocks : owner[d] \in Lists => link[d] # head[l]
        BY <3>2, <2>1, <1>0, HeadsAreBlocks DEF HeadOwned
      <4> QED
        BY <3>2, <2>1, <4>1, <1>3
    <3> QED
      BY <3>1, <3>2
  <2> QED
    BY <2>2, <1>m
<1>8. LinkOwned'
  <2> SUFFICES ASSUME NEW d \in Blocks, owner'[d] \in Lists, link'[d] # Null
               PROVE  /\ link'[d] \in Blocks /\ owner'[link'[d]] = owner'[d]
                      /\ \A e \in Blocks :
                            owner'[e] \in Lists /\ link'[e] = link'[d] => e = d
    BY DEF LinkOwned
  <2>1. d # b /\ owner[d] \in Lists /\ link'[d] = link[d]
    BY <1>m
  <2>2. /\ link[d] \in Blocks /\ owner[link[d]] = owner[d]
        /\ \A e \in Blocks : owner[e] \in Lists /\ link[e] = link[d] => e = d
    BY <2>1, <1>0 DEF LinkOwned
  <2>3. link[d] # b
    BY <2>1, <1>0, <1>1, <1>2, <1>b DEF HeadOwned
  <2> QED
    BY <2>1, <2>2, <2>3, <1>m
<1>9. HandOwned'
  <2>1. \A u \in Threads : u # t /\ th[u].hand # Null => th[u].hand \in Blocks /\ th[u].hand # b
    BY <1>0, <1>1, <1>3, Places, HandsAreBlocks
  <2> SUFFICES ASSUME NEW u \in Threads
               PROVE  (/\ th[u].pc \in Holding <=> th[u].hand # Null
                       /\ th[u].hand # Null =>
                             /\ owner[th[u].hand] = Hand(u)
                             /\ link[th[u].hand] = Null
                             /\ classOf[th[u].hand[1]] = Class(u))'
    BY DEF HandOwned
  <2>2. CASE u = t
    BY <2>2, <1>2, <1>3, <1>4, <1>5, <1>m, NoBlocks DEF Holding
  <2>3. CASE u # t
    <3>1. /\ th[u].pc \in Holding <=> th[u].hand # Null
          /\ th[u].hand # Null =>
                /\ owner[th[u].hand] = Hand(u)
                /\ link[th[u].hand] = Null
                /\ classOf[th[u].hand[1]] = Class(u)
      BY <1>0 DEF HandOwned
    <3> QED
      BY <3>1, <2>1, <2>3, <1>2, <1>5, <1>m
  <2> QED
    BY <2>2, <2>3
<1>10. UsedOwned'
  BY <1>0, <1>1, <1>2, <1>3, Places DEF TypeOK, UsedOwned
<1>11. ClassOwned'
  BY <1>0, <1>1, <1>2, <1>3, Places DEF TypeOK, ClassOwned
<1>12. LockHeld'
  BY <1>0, <1>2, <1>4, <1>5 DEF LockHeld, Holding
<1>13. SplitFresh'
  <2> SUFFICES ASSUME NEW u \in Threads, th'[u].pc = "split"
               PROVE  (/\ th[u].hand[2] = 0
                       /\ head[<<Central, Class(u)>>] = Null
                       /\ \A d \in Blocks : d[1] = th[u].hand[1] /\ d # th[u].hand
                                              => owner[d] = Nowhere)'
    BY DEF SplitFresh, At
  <2>1. u # t /\ th'[u] = th[u] /\ Class(u)' = Class(u)
    BY <1>4, <1>5
  <2>2. th[u].hand[2] = 0 /\ head[<<Central, Class(u)>>] = Null
        /\ \A d \in Blocks : d[1] = th[u].hand[1] /\ d # th[u].hand => owner[d] = Nowhere
    BY <2>1, <1>0 DEF SplitFresh, At
  <2>3. <<Central, Class(u)>> # list
    BY <2>2, <1>2, <1>b
  <2>4. head'[<<Central, Class(u)>>] = head[<<Central, Class(u)>>]
    BY <2>3, <1>0, <1>2 DEF TypeOK
  <2> QED
    BY <2>1, <2>2, <2>4, <1>0, <1>1, <1>2, <1>3, Places DEF TypeOK
<1> QED
  BY <1>6, <1>7, <1>8, <1>9, <1>10, <1>11, <1>12, <1>13 DEF IInv

\* A new span.
LEMMA AllocateSpanIInv ==
    ASSUME IInv, NEW t \in Threads, NEW s \in Spans, AllocateSpan(t, s)
    PROVE  IInv'
<1> DEFINE b == <<s, 0>>
           c == Class(t)
           r == [th[t] EXCEPT !.pc = "split", !.hand = b]
<1>0. TypeOK /\ HeadOwned /\ LinkOwned /\ HandOwned /\ UsedOwned /\ ClassOwned
      /\ LockHeld /\ SplitFresh
  BY DEF IInv
<1>1. c \in Classes /\ b \in Blocks /\ b[1] = s /\ b[2] = 0
  <2>1. c \in Classes
    BY <1>0, ThreadTyped
  <2>2. 0 \in 0 .. (SpanPages * PageSize) \div Alignment
    BY MemoryPoolAssumption, Quotient, Products
  <2> QED
    BY <2>1, <2>2 DEF Blocks
<1>2. /\ th[t].pc = "fetch" /\ head[<<Central, c>>] = Null /\ classOf[s] = None
      /\ classOf' = [classOf EXCEPT ![s] = c]
      /\ link' = [d \in Blocks |-> IF d[1] = s THEN Null ELSE link[d]]
      /\ owner' = [owner EXCEPT ![b] = Hand(t)] /\ th' = [th EXCEPT ![t] = r]
      /\ UNCHANGED <<head, freeListSize, locks, spanCount, trackers, size>>
  BY DEF AllocateSpan, At
<1>3. None \notin Classes
  <2>1. None \notin Int
    BY MemoryPoolAssumption
  <2>2. \A i \in Classes : i \in Int
    BY DEF Classes
  <2> QED
    BY <2>1, <2>2, Zenon
<1>4. \A d \in Blocks : d[1] \in Spans /\ (d[1] = s => owner[d] = Nowhere)
  BY <1>0, <1>2, <1>3 DEF ClassOwned, Blocks
<1>5. r \in ThreadStates /\ r.pc = "split" /\ r.hand = b /\ r.want = th[t].want
  BY <1>0, <1>1, Zenon DEF TypeOK, ThreadStates, States, Pointers
<1>6. th'[t] = r /\ Class(t)' = Class(t)
      /\ \A u \in Threads : u # t => th'[u] = th[u] /\ Class(u)' = Class(u)
  BY <1>0, <1>2, <1>5 DEF TypeOK, Class
<1> HIDE DEF r, b, c
<1>7. TypeOK'
  <2>1. link' \in [Blocks -> Pointers \cup {Junk}] /\ classOf' \in [Spans -> Classes \cup {None}]
    BY <1>0, <1>1, <1>2 DEF TypeOK, Pointers
  <2>2. owner' \in [Blocks -> Whereabouts]
    BY <1>0, <1>1, <1>2, PlacesTyped DEF TypeOK
  <2>3. th' \in [Threads -> ThreadStates]
        /\ \A u \in Threads : th'[u].pc = "publish" => th'[u].slot \in DOMAIN trackers
    BY <1>0, <1>2, <1>5 DEF TypeOK, ThreadStates, At
  <2> QED
    BY <1>0, <1>2, <2>1, <2>2, <2>3 DEF TypeOK, At, ThreadStates
<1>8. \A d \in Blocks : owner'[d] \in Lists => owner[d] = owner'[d] /\ link'[d] = link[d] /\ d[1] # s
  BY <1>0, <1>1, <1>2, <1>4, Places, Zenon DEF TypeOK
<1>9. \A d \in Blocks : owner[d] \in Lists => owner'[d] = owner[d] /\ d # b
  BY <1>0, <1>1, <1>2, <1>4, Places DEF TypeOK
<1>10. HeadOwned'
  <2>1. \A l \in Lists : head[l] # Null => head[l] \in Blocks
    BY <1>0 DEF TypeOK, Pointers
  <2> QED
    BY <1>0, <1>2, <1>8, <1>9, <2>1, Zenon DEF HeadOwned
<1>11. LinkOwned'
  BY <1>0, <1>8, <1>9 DEF LinkOwned
<1>12. \A u \in Threads : u # t /\ th[u].hand # Null =>
          th[u].hand \in Blocks /\ th[u].hand # b /\ th[u].hand[1] \in Spans /\ th[u].hand[1] # s
  <2>1. \A u \in Threads : u # t /\ th[u].hand # Null =>
            th[u].hand \in Blocks /\ owner[th[u].hand] # Nowhere
    BY <1>0, Places, HandsAreBlocks
  <2> QED
    BY <1>1, <1>4, <2>1
<1>13. HandOwned'
  <2>1. owner'[b] = Hand(t) /\ link'[b] = Null /\ classOf'[b[1]] = c
    BY <1>0, <1>1, <1>2 DEF TypeOK
  <2> QED
    <3>1. \A d \in Blocks : d[1] # s => owner'[d] = owner[d] /\ link'[d] = link[d]
                                        /\ classOf'[d[1]] = classOf[d[1]]
      BY <1>0, <1>1, <1>2, <1>4 DEF TypeOK
    <3> SUFFICES ASSUME NEW u \in Threads
                 PROVE  (/\ th[u].pc \in Holding <=> th[u].hand # Null
                         /\ th[u].hand # Null =>
                               /\ owner[th[u].hand] = Hand(u)
                               /\ link[th[u].hand] = Null
                               /\ classOf[th[u].hand[1]] = Class(u))'
      BY DEF HandOwned
    <3>2. CASE u = t
      BY <3>2, <1>1, <1>5, <1>6, <2>1, NoBlocks DEF Holding, c
    <3>3. CASE u # t
      <4>1. /\ th[u].pc \in Holding <=> th[u].hand # Null
            /\ th[u].hand # Null =>
                  /\ owner[th[u].hand] = Hand(u)
                  /\ link[th[u].hand] = Null
                  /\ classOf[th[u].hand[1]] = Class(u)
        BY <1>0 DEF HandOwned
      <4>2. th'[u] = th[u] /\ Class(u)' = Class(u)
        BY <3>3, <1>6
      <4>3. th[u].hand # Null => th[u].hand \in Blocks /\ th[u].hand[1] # s
        BY <3>3, <1>12
      <4> QED
        BY <3>1, <4>1, <4>2, <4>3
    <3> QED
      BY <3>2, <3>3
<1>14. UsedOwned'
  BY <1>0, <1>1, <1>2, <1>4, Places, Zenon DEF TypeOK, UsedOwned
<1>15. ClassOwned'
  <2>1. 0 < BlockNum(c)
    BY <1>1, BlocksInSpan
  <2>2. ASSUME NEW d \in Blocks, d[1] = s
        PROVE  /\ owner'[d] # Nowhere => d = b
               /\ owner'[d] \notin Lists /\ owner'[d] # InUse
    BY <2>2, <1>0, <1>1, <1>2, <1>4, Places DEF TypeOK
  <2>3. ASSUME NEW d \in Blocks, d[1] # s
        PROVE  owner'[d] = owner[d] /\ classOf'[d[1]] = classOf[d[1]]
    BY <2>3, <1>0, <1>1, <1>2, <1>4 DEF TypeOK
  <2>4. classOf'[s] = c
    BY <1>0, <1>2 DEF TypeOK
  <2> SUFFICES ASSUME NEW d \in Blocks
               PROVE  /\ owner'[d] # Nowhere =>
                            classOf'[d[1]] \in Classes /\ d[2] < BlockNum(classOf'[d[1]])
                      /\ owner'[d] \in Lists => classOf'[d[1]] = owner'[d][2]
                      /\ owner'[d] = InUse => classOf'[d[1]] = GetIndex(size[d])
    BY <1>2, Zenon DEF ClassOwned
  <2>5. CASE d[1] = s
    <3>1. d = b => classOf'[d[1]] \in Classes /\ d[2] < BlockNum(classOf'[d[1]])
      BY <1>1, <2>1, <2>4
    <3> QED
      BY <3>1, <2>2, <2>5
  <2>6. CASE d[1] # s
    <3>1. owner'[d] = owner[d] /\ classOf'[d[1]] = classOf[d[1]]
      BY <2>3, <2>6
    <3> QED
      BY <3>1, <1>0, Zenon DEF ClassOwned
  <2> QED
    BY <2>5, <2>6
<1>16. LockHeld'
  BY <1>0, <1>2, <1>5, <1>6, Zenon DEF LockHeld, Holding
<1>17. SplitFresh'
  <2>1. \A d \in Blocks : d # b => owner'[d] = owner[d]
    BY <1>0, <1>1, <1>2 DEF TypeOK
  <2> SUFFICES ASSUME NEW u \in Threads, th'[u].pc = "split"
               PROVE  (/\ th[u].hand[2] = 0
                       /\ head[<<Central, Class(u)>>] = Null
                       /\ \A d \in Blocks : d[1] = th[u].hand[1] /\ d # th[u].hand
                                              => owner[d] = Nowhere)'
    BY DEF SplitFresh, At
  <2>2. CASE u = t
    <3>1. th'[u].hand = b /\ Class(u)' = c
      BY <2>2, <1>5, <1>6 DEF c
    <3>2. head'[<<Central, c>>] = Null
      BY <1>2
    <3>3. \A d \in Blocks : d[1] = b[1] /\ d # b => owner'[d] = Nowhere
      BY <2>1, <1>1, <1>4
    <3> QED
      BY <3>1, <3>2, <3>3, <1>1
  <2>3. CASE u # t
    <3>1. th'[u] = th[u] /\ Class(u)' = Class(u)
      BY <2>3, <1>6
    <3>2. th[u].hand[2] = 0 /\ head[<<Central, Class(u)>>] = Null
          /\ \A d \in Blocks : d[1] = th[u].hand[1] /\ d # th[u].hand => owner[d] = Nowhere
      BY <3>1, <1>0 DEF SplitFresh, At
    <3>3. th[u].hand[1] # b[1]
      BY <3>1, <2>3, <1>0, <1>1, <1>12 DEF HandOwned, Holding
    <3> QED
      BY <3>1, <3>2, <3>3, <2>1, <1>2, Zenon
  <2> QED
    BY <2>2, <2>3
<1> QED
  BY <1>7, <1>10, <1>11, <1>13, <1>14, <1>15, <1>16, <1>17 DEF IInv

\* A span of one block is not cut.
LEMMA WholeSpanIInv ==
    ASSUME IInv, NEW t \in Threads, WholeSpan(t)
    PROVE  IInv'
<1> DEFINE r == [th[t] EXCEPT !.pc = "unlock"]
<1>0. TypeOK /\ HandOwned /\ LockHeld
  BY DEF IInv
<1>1. /\ th[t].pc = "split" /\ th' = [th EXCEPT ![t] = r]
      /\ UNCHANGED <<head, link, freeListSize, locks, classOf, spanCount, trackers, size, owner>>
  BY DEF WholeSpan, Goes, At, centralVars
<1>2. r \in ThreadStates /\ r.pc = "unlock" /\ r.hand = th[t].hand /\ r.want = th[t].want
  BY <1>0, Zenon DEF TypeOK, ThreadStates, States
<1> HIDE DEF r
<1>3. TypeOK'
  BY <1>0, <1>1, <1>2 DEF TypeOK, At, ThreadStates
<1>4. LockHeld'
  BY <1>0, <1>1, <1>2 DEF TypeOK, LockHeld, Class, Holding
<1> QED
  BY <1>0, <1>1, <1>2, <1>3, <1>4, QuietIInv, Zenon DEF HandOwned, Holding

\* The new span is cut into blocks.
LEMMA SplitIInv ==
    ASSUME IInv, NEW t \in Threads, Split(t)
    PROVE  IInv'
<1> DEFINE b == th[t].hand
           s == b[1]
           c == Class(t)
           last == LastBlock(t)
           list == <<Central, c>>
           rest == {s} \X (1 .. last)
           r == [th[t] EXCEPT !.pc = "slot"]
<1>0. TypeOK /\ HeadOwned /\ LinkOwned /\ HandOwned /\ UsedOwned /\ ClassOwned
      /\ LockHeld /\ SplitFresh
  BY DEF IInv
<1>1. /\ c \in Classes /\ list \in Lists /\ list[2] = c
      /\ BlockNum(c) \in Nat /\ last \in Nat /\ last < BlockNum(c)
  <2>1. c \in Classes
    BY <1>0, ThreadTyped
  <2>2. BlockNum(c) \in Nat /\ 1 <= BlockNum(c)
    BY <2>1, BlocksInSpan
  <2>3. last = BlockNum(c) - 1
    BY DEF LastBlock
  <2>4. last \in Nat /\ last < BlockNum(c)
    BY <2>2, <2>3
  <2>5. list \in Lists /\ list[2] = c
    BY <2>1, Places DEF Homes
  <2> QED
    BY <2>1, <2>2, <2>4, <2>5
<1>2. /\ th[t].pc = "split" /\ th' = [th EXCEPT ![t] = r] /\ last > 0
      /\ UNCHANGED <<freeListSize, locks, classOf, spanCount, trackers, size>>
  BY DEF Split, Goes, At, centralVars
<1>3. /\ b \in Blocks /\ owner[b] = Hand(t) /\ s \in Spans /\ b[2] = 0 /\ classOf[s] = c
      /\ head[list] = Null /\ link[b] = Null
      /\ \A d \in Blocks : d[1] = s /\ d # b => owner[d] = Nowhere
  <2>1. b # Null
    BY <1>0, <1>2 DEF HandOwned, Holding
  <2>2. b \in Blocks /\ s \in Spans
    BY <2>1, <1>0, HandsAreBlocks DEF Blocks
  <2> QED
    BY <2>1, <2>2, <1>0, <1>2 DEF HandOwned, SplitFresh, At
<1>4. r \in ThreadStates /\ r.pc = "slot" /\ r.hand = b /\ r.want = th[t].want
  BY <1>0, Zenon DEF TypeOK, ThreadStates, States
<1>5. th'[t] = r /\ Class(t)' = Class(t)
      /\ \A u \in Threads : u # t => th'[u] = th[u] /\ Class(u)' = Class(u)
  BY <1>0, <1>2, <1>4 DEF TypeOK, Class
<1>6. th' \in [Threads -> ThreadStates]
      /\ \A u \in Threads : th'[u].pc = "publish" => th'[u].slot \in DOMAIN trackers
  BY <1>0, <1>2, <1>4 DEF TypeOK, ThreadStates, At
<1>7. LockHeld'
  BY <1>0, <1>2, <1>4, <1>5 DEF LockHeld, Holding
<1>8. /\ link' = [d \in Blocks |->
                    IF d \in rest /\ d[2] < last THEN <<s, d[2] + 1>>
                    ELSE IF d[1] = s THEN Null ELSE link[d]]
      /\ head' = [head EXCEPT ![list] = <<s, 1>>]
      /\ owner' = [d \in Blocks |-> IF d \in rest THEN list ELSE owner[d]]
  BY DEF Split
<1> HIDE DEF r, last
<1>9. rest \subseteq Blocks /\ <<s, 1>> \in rest
      /\ \A d \in rest : d[1] = s /\ d # b /\ owner[d] = Nowhere /\ d[2] \in 1 .. last
                         /\ d = <<s, d[2]>>
  <2>1. \A i \in 1 .. last : i \in 0 .. (SpanPages * PageSize) \div Alignment
    BY <1>1, BlocksInSpan
  <2>2. rest \subseteq Blocks
    BY <2>1, <1>3 DEF Blocks
  <2>3. <<s, 1>> \in rest
    <3>1. 1 \in 1 .. last
      BY <1>1, <1>2
    <3> QED
      BY <3>1
  <2>4. ASSUME NEW d \in rest
        PROVE  d[1] = s /\ d[2] \in 1 .. last /\ d = <<s, d[2]>>
    OBVIOUS
  <2>5. ASSUME NEW d \in rest
        PROVE  d # b /\ owner[d] = Nowhere
    <3>1. d[2] \in 1 .. last /\ last \in Nat
      BY <2>4, <1>1
    <3>2. d[2] # 0
      <4> HIDE DEF rest, list, c, s, b
      <4> QED
        BY <3>1
    <3> QED
      BY <3>2, <2>2, <2>4, <1>3
  <2> QED
    BY <2>2, <2>3, <2>4, <2>5
<1>10. ASSUME NEW d \in rest
      PROVE  /\ owner'[d] = list
             /\ link'[d] = Null \/ (link'[d] = <<s, d[2] + 1>> /\ link'[d] \in rest)
  <2>1. d \in Blocks /\ d[1] = s /\ d[2] \in 1 .. last
    BY <1>9
  <2>2. owner'[d] = list
    BY <2>1, <1>8
  <2>3. CASE d[2] < last
    <3>1. link'[d] = <<s, d[2] + 1>>
      BY <2>1, <2>3, <1>8
    <3>2. d[2] + 1 \in 1 .. last
      <4> HIDE DEF last
      <4> QED
        BY <2>1, <2>3, <1>1
    <3>3. <<s, d[2] + 1>> \in rest
      BY <3>2
    <3> QED
      BY <2>2, <3>1, <3>3
  <2>4. CASE ~(d[2] < last)
    <3>1. link'[d] = Null
      BY <2>1, <2>4, <1>8
    <3> QED
      BY <2>2, <3>1
  <2> QED
    BY <2>3, <2>4, Zenon
<1>11. ASSUME NEW d \in Blocks, d \notin rest
      PROVE  /\ owner'[d] = owner[d]
             /\ link'[d] = IF d[1] = s THEN Null ELSE link[d]
  BY <1>8, <1>11
<1> HIDE DEF rest, list, c, s, b
<1>12. ASSUME NEW d \in Blocks, d \notin rest, owner[d] \in Lists
      PROVE  /\ link'[d] = link[d] /\ link[d] # Null => link[d] \in Blocks \ rest
  <2>1. d[1] # s
    BY <1>12, <1>3, Places
  <2>2. link[d] # Null => link[d] \in Blocks /\ owner[link[d]] \in Lists
    BY <1>12, <1>0 DEF LinkOwned
  <2> QED
    BY <2>1, <2>2, <1>9, <1>11, <1>12, Places
<1>13. TypeOK'
  <2>1. link' \in [Blocks -> Pointers \cup {Junk}]
    <3>1. \A d \in Blocks : link'[d] \in Pointers \cup {Junk}
      BY <1>9, <1>10, <1>11, <1>0 DEF TypeOK, Pointers
    <3> QED
      BY <3>1, <1>8
  <2>2. head' \in [Lists -> Pointers]
    BY <1>8, <1>9, <1>0, Zenon DEF TypeOK, Pointers
  <2>3. owner' \in [Blocks -> Whereabouts]
    BY <1>8, <1>0, <1>1, PlacesTyped DEF TypeOK
  <2> QED
    BY <1>0, <1>2, <1>6, <2>1, <2>2, <2>3 DEF TypeOK, At, ThreadStates
<1>14. HeadOwned'
  <2> SUFFICES ASSUME NEW l \in Lists, head'[l] # Null
               PROVE  /\ owner'[head'[l]] = l
                      /\ \A d \in Blocks : owner'[d] \in Lists => link'[d] # head'[l]
    BY DEF HeadOwned
  <2>1. CASE l = list
    <3>1. head'[l] = <<s, 1>>
      BY <2>1, <1>8, <1>0, <1>1 DEF TypeOK
    <3>2. ASSUME NEW d \in Blocks, owner'[d] \in Lists, link'[d] = <<s, 1>>
          PROVE  FALSE
      <4>1. CASE d \in rest
        <5>1. d[2] \in 1 .. last /\ (link'[d] = Null \/ link'[d] = <<s, d[2] + 1>>)
          BY <4>1, <1>9, <1>10
        <5>2. d[2] + 1 # 1
          BY <5>1, <1>1
        <5> QED
          BY <5>1, <5>2, <3>2, <1>9, NoBlocks
      <4>2. CASE d \notin rest
        BY <4>2, <3>2, <1>9, <1>11, <1>12, NoBlocks
      <4> QED
        BY <4>1, <4>2
    <3> QED
      BY <2>1, <3>1, <3>2, <1>9, <1>10
  <2>2. CASE l # list
    <3>1. head'[l] = head[l] /\ head[l] \in Blocks /\ owner[head[l]] = l
      <4>1. head'[l] = head[l]
        BY <2>2, <1>8, <1>0 DEF TypeOK
      <4> QED
        BY <4>1, <1>0, HeadsAreBlocks
    <3>2. head[l] \notin rest
      BY <3>1, <1>9, Places
    <3>3. ASSUME NEW d \in Blocks, owner'[d] \in Lists
          PROVE  link'[d] # head[l]
      <4>1. CASE d \in rest
        BY <4>1, <3>1, <3>2, <1>10, NoBlocks
      <4>2. CASE d \notin rest
        BY <4>2, <3>1, <3>3, <1>11, <1>12, <1>0, NoBlocks DEF HeadOwned
      <4> QED
        BY <4>1, <4>2
    <3> QED
      BY <3>1, <3>2, <3>3, <1>11
  <2> QED
    BY <2>1, <2>2
<1>15. LinkOwned'
  <2> SUFFICES ASSUME NEW d \in Blocks, owner'[d] \in Lists, link'[d] # Null
               PROVE  /\ link'[d] \in Blocks /\ owner'[link'[d]] = owner'[d]
                      /\ \A e \in Blocks :
                            owner'[e] \in Lists /\ link'[e] = link'[d] => e = d
    BY DEF LinkOwned
  <2>1. CASE d \in rest
    <3>1. link'[d] = <<s, d[2] + 1>> /\ link'[d] \in rest
      BY <2>1, <1>10
    <3>2. ASSUME NEW e \in Blocks, owner'[e] \in Lists, link'[e] = link'[d]
          PROVE  e = d
      <4>1. e \in rest
        BY <3>1, <3>2, <1>11, <1>12, <1>9, NoBlocks
      <4>2. link'[e] = <<s, e[2] + 1>>
        BY <4>1, <3>1, <3>2, <1>9, <1>10, NoBlocks
      <4>3. e[2] + 1 = d[2] + 1
        BY <4>2, <3>1, <3>2
      <4>4. e[2] = d[2]
        BY <4>1, <4>3, <2>1, <1>9, <1>1
      <4> QED
        BY <4>1, <4>4, <2>1, <1>9
    <3> QED
      BY <2>1, <3>1, <3>2, <1>9, <1>10
  <2>2. CASE d \notin rest
    <3>1. owner'[d] = owner[d] /\ link'[d] = link[d] /\ link[d] \in Blocks \ rest
          /\ owner[link[d]] = owner[d]
      BY <2>2, <1>11, <1>12, <1>0 DEF LinkOwned
    <3>2. ASSUME NEW e \in Blocks, owner'[e] \in Lists, link'[e] = link'[d]
          PROVE  e = d
      <4>1. e \notin rest
        BY <3>1, <3>2, <1>10, NoBlocks
      <4> QED
        BY <4>1, <3>1, <3>2, <1>11, <1>12, <1>0, NoBlocks DEF LinkOwned
    <3> QED
      BY <3>1, <3>2, <1>11
  <2> QED
    BY <2>1, <2>2
<1>16. HandOwned'
  <2>1. ASSUME NEW u \in Threads, th[u].hand # Null
        PROVE  /\ th[u].hand \in Blocks /\ th[u].hand \notin rest
               /\ link'[th[u].hand] = Null /\ owner'[th[u].hand] = Hand(u)
    <3>1. th[u].hand \in Blocks /\ owner[th[u].hand] = Hand(u) /\ link[th[u].hand] = Null
      BY <2>1, <1>0, HandsAreBlocks DEF HandOwned
    <3>2. th[u].hand \notin rest
      BY <3>1, <1>9, Places
    <3> QED
      BY <3>1, <3>2, <1>11
  <2>2. \A u \in Threads : th'[u].hand = th[u].hand /\ Class(u)' = Class(u)
    BY <1>4, <1>5 DEF b
  <2>3. \A u \in Threads : th'[u].pc \in Holding <=> th[u].pc \in Holding
    BY <1>2, <1>4, <1>5 DEF Holding
  <2> QED
    BY <2>1, <2>2, <2>3, <1>0, <1>2 DEF HandOwned
<1>17. UsedOwned'
  BY <1>0, <1>1, <1>2, <1>9, <1>10, <1>11, Places DEF UsedOwned
<1>18. ClassOwned'
  <2> SUFFICES ASSUME NEW d \in Blocks
               PROVE  (/\ owner[d] # Nowhere =>
                            classOf[d[1]] \in Classes /\ d[2] < BlockNum(classOf[d[1]])
                       /\ owner[d] \in Lists => classOf[d[1]] = owner[d][2]
                       /\ owner[d] = InUse => classOf[d[1]] = GetIndex(size[d]))'
    BY DEF ClassOwned
  <2>1. CASE d \in rest
    <3>1. d[1] = s /\ d[2] \in 1 .. last /\ owner'[d] = list
      BY <2>1, <1>9, <1>10
    <3>2. d[2] < BlockNum(c)
      BY <3>1, <1>1
    <3>3. classOf'[d[1]] = c
      BY <3>1, <1>2, <1>3
    <3>4. owner'[d] # InUse /\ owner'[d][2] = c
      BY <3>1, <1>1, Places
    <3> HIDE DEF c, list, rest, s
    <3> QED
      BY <3>2, <3>3, <3>4, <1>1
  <2>2. CASE d \notin rest
    <3>1. owner'[d] = owner[d]
      BY <2>2, <1>11
    <3> HIDE DEF c, list, rest, s
    <3> QED
      BY <3>1, <1>0, <1>2 DEF ClassOwned
  <2> QED
    BY <2>1, <2>2
<1>19. SplitFresh'
  <2> SUFFICES ASSUME NEW u \in Threads, th'[u].pc = "split"
               PROVE  (/\ th[u].hand[2] = 0
                       /\ head[<<Central, Class(u)>>] = Null
                       /\ \A d \in Blocks : d[1] = th[u].hand[1] /\ d # th[u].hand
                                              => owner[d] = Nowhere)'
    BY DEF SplitFresh, At
  <2>1. u # t /\ th'[u] = th[u] /\ Class(u)' = Class(u) /\ th[u].pc = "split"
    BY <1>4, <1>5
  <2>2. th[u].hand[2] = 0 /\ head[<<Central, Class(u)>>] = Null
        /\ \A d \in Blocks : d[1] = th[u].hand[1] /\ d # th[u].hand => owner[d] = Nowhere
    BY <2>1, <1>0 DEF SplitFresh, At
  <2>3. locks[Class(u)] = u /\ locks[c] = t
    BY <2>1, <1>0, <1>2 DEF LockHeld, Holding, c
  <2>4. head'[<<Central, Class(u)>>] = head[<<Central, Class(u)>>]
    <3>1. <<Central, Class(u)>> # list
      BY <2>1, <2>3 DEF list
    <3>2. head \in [Lists -> Pointers]
      BY <1>0 DEF TypeOK
    <3> QED
      BY <3>1, <3>2, <1>8
  <2>5. th[u].hand[1] # s
    <3>1. th[u].hand # Null
      BY <2>1, <1>0 DEF HandOwned, Holding
    <3>2. classOf[th[u].hand[1]] = Class(u)
      BY <3>1, <1>0 DEF HandOwned
    <3> QED
      BY <3>2, <2>1, <2>3, <1>3
  <2> QED
    BY <2>1, <2>2, <2>4, <2>5, <1>9, <1>11
<1> QED
  BY <1>7, <1>13, <1>14, <1>15, <1>16, <1>17, <1>18, <1>19 DEF IInv

INSTANCE FiniteSetTheorems

\* There are finitely many blocks.
LEMMA BlocksFinite == IsFiniteSet(Blocks)
<1>1. IsFiniteSet(Spans)
  BY MemoryPoolAssumption
<1>2. (SpanPages * PageSize) \div Alignment \in Nat
  BY MemoryPoolAssumption, Quotient, Products
<1>3. IsFiniteSet(0 .. (SpanPages * PageSize) \div Alignment)
  BY <1>2, FS_Interval
<1> QED
  BY <1>1, <1>3, FS_Product, Zenon DEF Blocks

\* The batch ends with its first block: no length is added to freeListSize_.
LEMMA NullLength == ListLength(Null) = 0
<1>1. IsChain(Null, {})
  BY DEF IsChain, Leads
<1>2. ASSUME NEW S, IsChain(Null, S) PROVE S = {}
  <2>1. Leads(Null, {}) /\ {} \in SUBSET S
    BY DEF Leads
  <2> QED BY <1>2, <2>1 DEF IsChain
<1> DEFINE C == CHOOSE S \in SUBSET Blocks : IsChain(Null, S)
<1>3. C = {}
  <2>1. {} \in SUBSET Blocks
    OBVIOUS
  <2>2. IsChain(Null, C)
    BY <1>1, <2>1, Zenon
  <2> HIDE DEF C
  <2> QED BY <1>2, <2>2
<1> QED
  BY <1>3, FS_EmptySet, Zenon DEF ListLength

\* The block from the central cache is given to the caller.
LEMMA TakeBatchIInv ==
    ASSUME IInv, NEW t \in Threads, TakeBatch(t)
    PROVE  IInv'
<1> DEFINE list == <<t, Class(t)>>
           b == th[t].hand
           n == th[t].want
<1>0. TypeOK /\ HeadOwned /\ LinkOwned /\ HandOwned /\ UsedOwned /\ ClassOwned
      /\ LockHeld /\ SplitFresh
  BY DEF IInv
<1>1. list \in Lists /\ list \in Threads \X Classes /\ n \in 0 .. MaxBytes /\ list[1] # Central
  <2>1. n \in 0 .. MaxBytes /\ Class(t) \in Classes
    BY <1>0, ThreadTyped
  <2> QED
    BY <2>1, Places, MemoryPoolAssumption DEF Homes
<1>2. b \in Blocks /\ owner[b] = Hand(t) /\ link[b] = Null /\ classOf[b[1]] = GetIndex(n)
  <2>1. b # Null
    BY <1>0 DEF TakeBatch, At, HandOwned, Holding
  <2> QED
    BY <2>1, <1>0, HandsAreBlocks DEF HandOwned, Class
<1>3. /\ head' = [head EXCEPT ![list] = Null] /\ link' = [link EXCEPT ![b] = Junk]
      /\ owner' = [owner EXCEPT ![b] = InUse] /\ size' = [size EXCEPT ![b] = n]
      /\ th' = [th EXCEPT ![t] = Idle] /\ UNCHANGED <<locks, classOf, spanCount, trackers>>
  BY <1>2 DEF TakeBatch, Give, centralVars
<1>4. Idle \in ThreadStates /\ Idle.pc = "idle" /\ Idle.hand = Null
  BY SizesInRange DEF Idle, ThreadStates, States, Pointers
<1>5. TypeOK'
  <2>1. freeListSize' \in [Threads \X Classes -> Nat]
    <3>1. ListLength(link[b]) \in Nat
      BY <1>2, NullLength
    <3> QED
      BY <3>1, <1>0, <1>1 DEF TakeBatch, TypeOK
  <2>2. head' \in [Lists -> Pointers] /\ link' \in [Blocks -> Pointers \cup {Junk}]
    BY <1>0, <1>2, <1>3, Zenon DEF TypeOK, Pointers
  <2>3. size' \in [Blocks -> (0 .. MaxBytes) \cup {None}]
        /\ owner' \in [Blocks -> Whereabouts]
    BY <1>0, <1>1, <1>2, <1>3, PlacesTyped DEF TypeOK
  <2>4. th' \in [Threads -> ThreadStates]
        /\ \A u \in Threads : th'[u].pc = "publish" => th'[u].slot \in DOMAIN trackers
    BY <1>0, <1>3, <1>4 DEF TypeOK, ThreadStates, At
  <2> QED
    BY <1>0, <1>3, <2>1, <2>2, <2>3, <2>4 DEF TypeOK, At, ThreadStates
<1>6. \A u \in Threads : u # t => th'[u] = th[u] /\ Class(u)' = Class(u)
  BY <1>0, <1>3 DEF TypeOK, Class
<1>7. th'[t] = Idle
  BY <1>0, <1>3 DEF TypeOK
<1> HIDE DEF list, b, n
<1>8. HeadOwned'
  BY <1>0, <1>1, <1>2, <1>3, Places DEF TypeOK, HeadOwned, Pointers
<1>9. LinkOwned'
  BY <1>0, <1>1, <1>2, <1>3, Places DEF TypeOK, LinkOwned
<1>10. HandOwned'
  <2>1. ASSUME NEW u \in Threads, u # t, th[u].hand # Null
        PROVE  th[u].hand \in Blocks /\ th[u].hand # b
    <3>1. th[u].hand \in Blocks /\ owner[th[u].hand] = Hand(u)
      BY <2>1, <1>0, HandsAreBlocks
    <3>2. Hand(u) # Hand(t)
      BY <2>1, Places
    <3> QED
      BY <3>1, <3>2, <1>2
  <2> QED
    BY <1>0, <1>2, <1>3, <1>4, <1>6, <1>7, <2>1 DEF TypeOK, HandOwned, Holding
<1>11. UsedOwned'
  <2>1. n # None
    BY <1>1, SizesInRange, MemoryPoolAssumption
  <2> QED
    BY <1>0, <1>2, <1>3, <2>1 DEF TypeOK, UsedOwned
<1>12. ClassOwned'
  <2>1. /\ owner'[b] = InUse /\ size'[b] = n
        /\ \A d \in Blocks : d # b => owner'[d] = owner[d] /\ size'[d] = size[d]
    BY <1>0, <1>2, <1>3 DEF TypeOK
  <2>2. owner[b] # Nowhere /\ InUse \notin Lists
    BY <1>2, Places
  <2> DEFINE Fits(d, place, bytes) ==
               /\ place # Nowhere => /\ classOf[d[1]] \in Classes
                                     /\ d[2] < BlockNum(classOf[d[1]])
               /\ place \in Lists => classOf[d[1]] = place[2]
               /\ place = InUse => classOf[d[1]] = GetIndex(bytes)
  <2>3. \A d \in Blocks : Fits(d, owner[d], size[d])
    BY <1>0 DEF ClassOwned
  <2>4. Fits(b, owner[b], size[b])
    BY <1>2, <2>3
  <2>5. Fits(b, InUse, n)
    BY <1>2, <2>2, <2>4
  <2> HIDE DEF Fits
  <2>6. \A d \in Blocks : Fits(d, owner'[d], size'[d])
    BY <2>1, <2>3, <2>5
  <2>7. classOf' = classOf
    BY <1>3
  <2> QED
    BY <2>6, <2>7 DEF Fits, ClassOwned
<1>13. LockHeld'
  BY <1>0, <1>3, <1>4, <1>6, <1>7 DEF LockHeld, Holding
<1>14. SplitFresh'
  <2>1. \A c : head'[<<Central, c>>] = head[<<Central, c>>]
    BY <1>1, <1>3, <1>0 DEF TypeOK
  <2> QED
    <3>1. \A d \in Blocks : owner[d] = Nowhere => owner'[d] = Nowhere
      BY <1>0, <1>2, <1>3, Places DEF TypeOK
    <3>2. \A u \in Threads : th'[u].pc = "split" => u # t
      BY <1>4, <1>7
    <3> QED
      BY <3>1, <3>2, <2>1, <1>0, <1>6 DEF SplitFresh, At
<1> QED
  BY <1>5, <1>8, <1>9, <1>10, <1>11, <1>12, <1>13, <1>14 DEF IInv

-----------------------------------------------------------------------------
(* The theorems.                                                           *)

\* The invariant holds when the pool is new.
LEMMA InitIInv == Init => IInv
<1> SUFFICES ASSUME Init PROVE IInv
  OBVIOUS
<1> USE DEF Init
<1>1. Idle \in ThreadStates /\ Idle.pc = "idle" /\ Idle.hand = Null
  BY SizesInRange DEF Idle, ThreadStates, States, Pointers
<1>2. th \in [Threads -> ThreadStates] /\ \A t \in Threads : th[t] = Idle
  BY <1>1
<1>3. TypeOK
  <2>1. head \in [Lists -> Pointers] /\ link \in [Blocks -> Pointers \cup {Junk}]
    BY DEF Pointers
  <2>2. /\ freeListSize \in [Threads \X Classes -> Nat] /\ spanCount \in Nat
        /\ locks \in [Classes -> Threads \cup {None}]
        /\ classOf \in [Spans -> Classes \cup {None}]
    OBVIOUS
  <2>3. trackers \in [0 .. MaxTrackers - 1 -> SpanTracker]
    BY DEF SpanTracker
  <2>4. /\ size \in [Blocks -> (0 .. MaxBytes) \cup {None}]
        /\ owner \in [Blocks -> Whereabouts]
    BY PlacesTyped
  <2>5. \A t \in Threads : ~At(t, "publish")
    BY <1>1, <1>2 DEF At
  <2> QED
    BY <1>2, <2>1, <2>2, <2>3, <2>4, <2>5 DEF TypeOK, ThreadStates
<1>4. HeadOwned /\ LinkOwned /\ HandOwned
  BY <1>1, <1>2 DEF HeadOwned, LinkOwned, HandOwned, Holding
<1>5. UsedOwned /\ ClassOwned
  BY Places DEF UsedOwned, ClassOwned
<1>6. LockHeld /\ SplitFresh
  BY <1>1, <1>2, Zenon DEF LockHeld, SplitFresh, Holding, At
<1> QED
  BY <1>3, <1>4, <1>5, <1>6 DEF IInv

\* Every step keeps it.
LEMMA NextIInv == IInv /\ [Next]_vars => IInv'
<1> SUFFICES ASSUME IInv, [Next]_vars PROVE IInv'
  OBVIOUS
<1>1. CASE Next
  <2> PICK t \in Threads :
         \/ \E n \in Sizes : AllocateLocal(t, n) \/ AllocateMiss(t, n)
         \/ \E b \in Blocks : Deallocate(t, b)
         \/ Lock(t) \/ Locked(t) \/ TakeBatch(t)
    BY <1>1 DEF Next
  <2>1. CASE \E n \in Sizes : AllocateLocal(t, n) \/ AllocateMiss(t, n)
    BY <2>1, AllocateLocalIInv, AllocateMissIInv
  <2>2. CASE \E b \in Blocks : Deallocate(t, b)
    BY <2>2, DeallocateIInv
  <2>3. CASE Lock(t) \/ TakeBatch(t)
    BY <2>3, LockIInv, TakeBatchIInv
  <2>4. CASE Locked(t)
    BY <2>4, PopCentralIInv, TrackerIInv, UnlockIInv, SplitIInv, WholeSpanIInv,
       AllocateSpanIInv DEF Locked
  <2> QED
    BY <2>1, <2>2, <2>3, <2>4
<1>2. CASE UNCHANGED vars
  <2>1. UNCHANGED <<head, link, freeListSize, locks, classOf, spanCount, trackers, th, size, owner>>
    BY <1>2 DEF vars, centralVars
  <2>2. TypeOK'
    BY <2>1 DEF IInv, TypeOK, At
  <2>3. HeadOwned' /\ LinkOwned' /\ UsedOwned'
    BY <2>1 DEF IInv, HeadOwned, LinkOwned, UsedOwned
  <2>4. HandOwned' /\ LockHeld'
    BY <2>1 DEF IInv, HandOwned, LockHeld, Class
  <2>5. ClassOwned'
    BY <2>1 DEF IInv, ClassOwned
  <2>6. SplitFresh'
    BY <2>1 DEF IInv, SplitFresh, At, Class
  <2> QED
    BY <2>2, <2>3, <2>4, <2>5, <2>6 DEF IInv
<1> QED
  BY <1>1, <1>2

\* Every reachable state of the pool satisfies it.
LEMMA Invariance == Spec => []IInv
BY InitIInv, NextIInv, PTL DEF Spec

\* The kinds of value that the pool's variables have; in particular no class is
\* past the end of an array, and no tracker is filled in past spanTrackers_.
THEOREM TypeCorrect == Spec => []TypeOK
BY Invariance, PTL DEF IInv

\* However allocations, frees and fetches of any number of threads interleave,
\* the block that a list or a thread is to give away next is in no use, and is
\* the next of no other.
THEOREM BlocksAlwaysGivenToOne == Spec => []GivenToOne
<1>1. IInv => GivenToOne
  <2> SUFFICES ASSUME IInv PROVE GivenToOne
    OBVIOUS
  <2>1. \A l \in Lists : head[l] # Null => head[l] \in Blocks /\ owner[head[l]] = l
    BY HeadsAreBlocks DEF IInv
  <2>2. \A t \in Threads :
          th[t].hand # Null => th[t].hand \in Blocks /\ owner[th[t].hand] = Hand(t)
    BY HandsAreBlocks DEF IInv
  <2>3. \A b \in Blocks : size[b] # None => owner[b] = InUse
    BY DEF IInv, UsedOwned
  <2>4. /\ \A l \in Lists : owner[head[l]] = l => owner[head[l]] # InUse
        /\ \A t \in Threads : Hand(t) # InUse
    BY Places
  <2>5. \A l \in Lists : head[l] # Null => size[head[l]] = None
    BY <2>1, <2>3, <2>4
  <2>6. \A t \in Threads : th[t].hand # Null => size[th[t].hand] = None
    BY <2>2, <2>3, <2>4
  <2>7. \A l, m \in Lists : l # m /\ head[l] # Null => head[l] # head[m]
    BY <2>1
  <2>8. \A t, u \in Threads : t # u => Hand(t) # Hand(u)
    BY Places
  <2>9. \A t, u \in Threads : t # u /\ th[t].hand # Null => th[t].hand # th[u].hand
    BY <2>2, <2>8
  <2>10. \A l \in Lists, t \in Threads : l # Hand(t)
    BY Places
  <2>11. \A l \in Lists, t \in Threads : head[l] # Null => head[l] # th[t].hand
    BY <2>1, <2>2, <2>10
  <2> QED
    BY <2>5, <2>6, <2>7, <2>9, <2>11 DEF GivenToOne
<1> QED
  BY <1>1, Invariance, PTL

\* Every block in use is large enough for its request, within its span, and of
\* the class that a free with the same size returns it to.
THEOREM BlocksAlwaysFit == Spec => []BlockFits
<1>1. IInv => BlockFits
  <2> SUFFICES ASSUME IInv, NEW b \in Blocks, size[b] # None
               PROVE  LET c == classOf[b[1]] IN
                      /\ c \in Classes /\ c = GetIndex(size[b])
                      /\ size[b] <= BlockSize(c)
                      /\ (b[2] + 1) * BlockSize(c) <= NumPages(c) * PageSize
    BY DEF BlockFits
  <2> DEFINE c == classOf[b[1]]
  <2>1. owner[b] = InUse /\ size[b] \in 0 .. MaxBytes
    BY DEF IInv, TypeOK, UsedOwned
  <2>2. c \in Classes /\ c = GetIndex(size[b]) /\ b[2] < BlockNum(c)
    BY <2>1, Places DEF IInv, ClassOwned
  <2>3. b[2] \in Nat
    BY DEF Blocks
  <2> HIDE DEF c
  <2>4. size[b] <= BlockSize(c)
    BY <2>1, <2>2, IndexHolds
  <2>5. (b[2] + 1) * BlockSize(c) <= NumPages(c) * PageSize
    BY <2>2, <2>3, BlocksInSpan
  <2> QED
    BY <2>2, <2>4, <2>5 DEF c
<1> QED
  BY <1>1, Invariance, PTL
=============================================================================
