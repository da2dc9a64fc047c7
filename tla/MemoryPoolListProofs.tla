------------------------ MODULE MemoryPoolListProofs ------------------------
(***************************************************************************)
(* Proofs that the lists of MemoryPool hold what was put on them: the links*)
(* that are kept in the blocks themselves lead from the head of a list to  *)
(* all of its blocks, and freeListSize_ is their number.                   *)
(***************************************************************************)
EXTENDS MemoryPoolProofs

-----------------------------------------------------------------------------
(* Chains of blocks, for any contents k of their first words.              *)

\* Leads and IsChain of MemoryPool, with the first words as an argument; a chain
\* ends with a null pointer.
LeadsBy(k, p, S) ==
    /\ p = Null \/ p \in S
    /\ \A b \in S : k[b] = Null \/ k[b] \in S

ChainBy(k, p, S) ==
    /\ LeadsBy(k, p, S)
    /\ \A R \in SUBSET S : LeadsBy(k, p, R) => R = S
    /\ S # {} => \E b \in S : k[b] = Null

\* A chain does not depend on the first words of other blocks.
LEMMA ChainSame ==
    ASSUME NEW k, NEW m, NEW p, NEW S, ChainBy(k, p, S), \A b \in S : m[b] = k[b]
    PROVE  ChainBy(m, p, S)
<1>1. \A R \in SUBSET S : LeadsBy(m, p, R) <=> LeadsBy(k, p, R)
  BY DEF LeadsBy
<1>2. S \in SUBSET S
  OBVIOUS
<1> QED
  BY <1>1, <1>2, Zenon DEF ChainBy

\* A null pointer is a chain of no blocks, and of no others.
LEMMA ChainEmpty ==
    ASSUME NEW k, NEW S
    PROVE  ChainBy(k, Null, S) <=> S = {}
<1>1. LeadsBy(k, Null, {}) /\ {} \in SUBSET S
  BY DEF LeadsBy
<1>2. ChainBy(k, Null, S) => S = {}
  BY <1>1, Zenon DEF ChainBy
<1>3. ChainBy(k, Null, {})
  BY <1>1 DEF ChainBy
<1> QED
  BY <1>2, <1>3

\* A block pushed on a chain.
LEMMA ChainPush ==
    ASSUME NEW k, NEW m, NEW p, NEW S, ChainBy(k, p, S),
           NEW b, b \notin S, b # Null, m[b] = p, \A d \in S : m[d] = k[d]
    PROVE  ChainBy(m, b, S \cup {b})
<1> DEFINE T == S \cup {b}
<1>1. /\ p = Null \/ p \in S
      /\ \A d \in S : k[d] = Null \/ k[d] \in S
      /\ \A R \in SUBSET S : LeadsBy(k, p, R) => R = S
      /\ S # {} => \E d \in S : k[d] = Null
  BY Zenon DEF ChainBy, LeadsBy
<1>2. LeadsBy(m, b, T)
  BY <1>1 DEF LeadsBy
<1>3. ASSUME NEW R \in SUBSET T, LeadsBy(m, b, R) PROVE R = T
  <2>1. b \in R /\ \A d \in R : m[d] = Null \/ m[d] \in R
    BY <1>3 DEF LeadsBy
  <2>2. p = Null \/ p \in R \ {b}
    BY <2>1, <1>1
  <2>3. ASSUME NEW d \in R \ {b} PROVE k[d] = Null \/ k[d] \in R \ {b}
    <3>1. d \in S /\ m[d] = k[d] /\ d \in R
      OBVIOUS
    <3> QED
      BY <3>1, <2>1, <1>1
  <2>4. R \ {b} \in SUBSET S
    OBVIOUS
  <2>5. LeadsBy(k, p, R \ {b})
    BY <2>2, <2>3 DEF LeadsBy
  <2>6. R \ {b} = S
    BY <1>1, <2>4, <2>5, Zenon
  <2> QED
    BY <2>1, <2>6
<1>4. \E d \in T : m[d] = Null
  BY <1>1
<1> HIDE DEF T
<1>5. ChainBy(m, b, T)
  BY <1>2, <1>3, <1>4 DEF ChainBy
<1> QED
  BY <1>5 DEF T

\* The first block popped from a chain.
LEMMA ChainPop ==
    ASSUME NEW k, NEW m, NEW p, NEW S, ChainBy(k, p, S),
           p # Null, Null \notin S, \A d \in S : k[d] # p,
           \A d \in S \ {p} : m[d] = k[d]
    PROVE  ChainBy(m, k[p], S \ {p})
<1> DEFINE T == S \ {p}
<1>1. /\ p \in S
      /\ \A d \in S : k[d] = Null \/ k[d] \in S
      /\ \A R \in SUBSET S : LeadsBy(k, p, R) => R = S
      /\ \E d \in S : k[d] = Null
  BY Zenon DEF ChainBy, LeadsBy
<1>2. LeadsBy(m, k[p], T)
  BY <1>1 DEF LeadsBy
<1>3. ASSUME NEW R \in SUBSET T, LeadsBy(m, k[p], R) PROVE R = T
  <2>1. /\ k[p] = Null \/ k[p] \in R
        /\ \A d \in R : m[d] = Null \/ m[d] \in R
    BY <1>3 DEF LeadsBy
  <2>2. \A d \in R : m[d] = k[d]
    OBVIOUS
  <2>3. R \cup {p} \in SUBSET S
    BY <1>1
  <2>4. LeadsBy(k, p, R \cup {p})
    BY <2>1, <2>2 DEF LeadsBy
  <2>5. R \cup {p} = S
    BY <1>1, <2>3, <2>4, Zenon
  <2> QED
    BY <2>5
<1>4. ASSUME T # {} PROVE \E d \in T : m[d] = Null
  <2>1. PICK d \in S : k[d] = Null
    BY <1>1
  <2>2. CASE d = p
    <3>1. LeadsBy(k, p, {p}) /\ {p} \in SUBSET S
      BY <1>1, <2>1, <2>2 DEF LeadsBy
    <3>2. {p} = S
      BY <1>1, <3>1, Zenon
    <3> QED
      BY <1>4, <3>2
  <2>3. CASE d # p
    BY <2>1, <2>3
  <2> QED
    BY <2>2, <2>3
<1> HIDE DEF T
<1>5. ChainBy(m, k[p], T)
  BY <1>2, <1>3, <1>4 DEF ChainBy
<1> QED
  BY <1>5 DEF T

\* The row of blocks that Split leaves.
LEMMA ChainRow ==
    ASSUME NEW k, NEW s \in Spans, NEW n \in Nat, n > 0,
           \A i \in 1 .. n : i < n => k[<<s, i>>] = <<s, i + 1>>, k[<<s, n>>] = Null
    PROVE  ChainBy(k, <<s, 1>>, {s} \X (1 .. n))
<1> DEFINE T == {s} \X (1 .. n)
           p == <<s, 1>>
<1>1. \A i \in 1 .. n : <<s, i>> \in T /\ <<s, i>> # Null
  BY MemoryPoolAssumption
<1>2. \A d \in T : d[2] \in 1 .. n /\ d = <<s, d[2]>>
  OBVIOUS
<1>3. 1 \in 1 .. n /\ n \in 1 .. n /\ \A i \in 1 .. n : i < n => i + 1 \in 1 .. n
  OBVIOUS
<1>4. p \in T /\ p # Null
  BY <1>1, <1>3
<1>5. \A i \in 1 .. n : k[<<s, i>>] = Null \/ k[<<s, i>>] \in T
  <2> SUFFICES ASSUME NEW i \in 1 .. n PROVE k[<<s, i>>] = Null \/ k[<<s, i>>] \in T
    OBVIOUS
  <2>1. CASE i < n
    BY <2>1, <1>1, <1>3
  <2>2. CASE i = n
    BY <2>2
  <2> QED
    BY <2>1, <2>2
<1> HIDE DEF T
<1>6. LeadsBy(k, p, T)
  BY <1>2, <1>4, <1>5 DEF LeadsBy
<1>7. ASSUME NEW R \in SUBSET T, LeadsBy(k, p, R) PROVE R = T
  <2>1. p \in R /\ \A d \in R : k[d] = Null \/ k[d] \in R
    BY <1>4, <1>7 DEF LeadsBy
  <2> DEFINE Out == {i \in 1 .. n : <<s, i>> \notin R}
  <2>2. ASSUME Out # {} PROVE FALSE
    <3>1. Out \subseteq Nat
      OBVIOUS
    <3>2. \E j \in Out : \A i \in Out : ~ (<<i, j>> \in OpToRel(<, Nat))
      <4> HIDE DEF Out
      <4> QED
        BY <2>2, <3>1, NatLessThanWellFounded, WFMin, Zenon
    <3>3. PICK j \in Out : \A i \in Out : ~ (<<i, j>> \in OpToRel(<, Nat))
      BY <3>2, Zenon
    <3>4. \A i \in Out : ~ (i < j)
      BY <3>1, <3>3 DEF OpToRel
    <3>5. j \in 1 .. n /\ j # 1 /\ <<s, j>> \notin R
      BY <2>1
    <3>6. j - 1 \in 1 .. n /\ j - 1 < n /\ j - 1 + 1 = j /\ j - 1 < j
      BY <3>5
    <3>7. <<s, j - 1>> \in R
      BY <3>4, <3>6
    <3>8. k[<<s, j - 1>>] = <<s, j>>
      BY <3>6
    <3> QED
      BY <2>1, <3>5, <3>7, <3>8, <1>1
  <2>3. \A i \in 1 .. n : <<s, i>> \in R
    BY <2>2
  <2> QED
    BY <1>2, <2>3
<1>8. \E d \in T : k[d] = Null
  BY <1>1, <1>3
<1>9. ChainBy(k, p, T)
  BY <1>6, <1>7, <1>8 DEF ChainBy
<1> QED
  BY <1>9 DEF T

-----------------------------------------------------------------------------
(* The lists hold what was put on them.                                    *)

Chained == \A l \in Lists : ChainBy(link, head[l], PutOn(l))

Counted == \A l \in Threads \X Classes : freeListSize[l] = Cardinality(PutOn(l))

\* A thread goes to the central cache when its list is empty, and nobody else
\* puts a block there.
MissEmpty == \A t \in Threads : th[t].pc # "idle" => head[<<t, Class(t)>>] = Null

Kept == Chained /\ Counted /\ MissEmpty

\* The blocks put on a list are finitely many.
LEMMA PutOnFinite ==
    \A l : PutOn(l) \subseteq Blocks /\ IsFiniteSet(PutOn(l)) /\ Cardinality(PutOn(l)) \in Nat
<1> SUFFICES ASSUME NEW l
             PROVE  PutOn(l) \subseteq Blocks /\ IsFiniteSet(PutOn(l))
                    /\ Cardinality(PutOn(l)) \in Nat
  OBVIOUS
<1>1. PutOn(l) \in SUBSET Blocks
  BY DEF PutOn
<1>2. IsFiniteSet(PutOn(l))
  BY <1>1, BlocksFinite, FS_Subset, Zenon
<1> QED
  BY <1>1, <1>2, FS_CardinalityType

\* One block moves.
LEMMA Moved ==
    ASSUME TypeOK, NEW b \in Blocks, NEW x, owner' = [owner EXCEPT ![b] = x]
    PROVE  /\ PutOn(x)' = PutOn(x) \cup {b}
           /\ \A l : l # x => PutOn(l)' = PutOn(l) \ {b}
BY DEF TypeOK, PutOn

\* A list that no step touches.
LEMMA ListSame ==
    ASSUME Chained, NEW l \in Lists, head'[l] = head[l], PutOn(l)' = PutOn(l),
           \A d \in PutOn(l) : link'[d] = link[d]
    PROVE  ChainBy(link', head'[l], PutOn(l)')
<1>1. ChainBy(link, head[l], PutOn(l))
  BY DEF Chained
<1>2. ChainBy(link', head[l], PutOn(l))
  BY <1>1, ChainSame
<1> QED
  BY <1>2

\* The first block of a list is taken from it, whatever is then written to it.
LEMMA PopKeeps ==
    ASSUME TypeOK, HeadOwned, Chained, NEW list \in Lists, NEW b, b = head[list], b # Null,
           NEW x, x \notin Lists, NEW y,
           head' = [head EXCEPT ![list] = link[b]], link' = [link EXCEPT ![b] = y],
           owner' = [owner EXCEPT ![b] = x]
    PROVE  /\ Chained' /\ b \in PutOn(list) /\ PutOn(list)' = PutOn(list) \ {b}
           /\ \A l \in Lists : l # list => PutOn(l)' = PutOn(l)
<1>1. b \in Blocks /\ owner[b] = list
  BY HeadsAreBlocks
<1>2. /\ b \in PutOn(list) /\ PutOn(list)' = PutOn(list) \ {b}
      /\ \A l \in Lists : l # list => PutOn(l)' = PutOn(l) /\ b \notin PutOn(l)
  <2>1. \A l \in Lists : PutOn(l)' = PutOn(l) \ {b}
    BY <1>1, Moved
  <2>2. b \in PutOn(list) /\ \A l \in Lists : l # list => b \notin PutOn(l)
    BY <1>1 DEF PutOn
  <2> QED
    BY <2>1, <2>2
<1>3. \A d \in Blocks : d # b => link'[d] = link[d]
  BY DEF TypeOK
<1>4. head'[list] = link[b] /\ \A l \in Lists : l # list => head'[l] = head[l]
  BY DEF TypeOK
<1>5. ChainBy(link', link[b], PutOn(list) \ {b})
  <2>1. ChainBy(link, b, PutOn(list))
    BY DEF Chained
  <2>2. Null \notin PutOn(list) /\ \A d \in PutOn(list) : link[d] # b
    BY NoBlocks DEF PutOn, HeadOwned
  <2>3. \A d \in PutOn(list) \ {b} : link'[d] = link[d]
    BY <1>3 DEF PutOn
  <2> QED
    BY <2>1, <2>2, <2>3, ChainPop
<1>6. ASSUME NEW l \in Lists PROVE ChainBy(link', head'[l], PutOn(l)')
  <2>1. CASE l = list
    BY <2>1, <1>2, <1>4, <1>5
  <2>2. CASE l # list
    <3>1. \A d \in PutOn(l) : link'[d] = link[d]
      BY <2>2, <1>2, <1>3 DEF PutOn
    <3> QED
      BY <2>2, <3>1, <1>2, <1>4, ListSame
  <2> QED
    BY <2>1, <2>2
<1>7. Chained'
  BY <1>6 DEF Chained
<1> QED
  BY <1>2, <1>7

\* A block from the thread's own list.
LEMMA AllocateLocalKept ==
    ASSUME IInv, Kept, NEW t \in Threads, NEW n \in Sizes, AllocateLocal(t, n)
    PROVE  Kept'
<1> DEFINE list == <<t, GetIndex(n)>>
           b == head[list]
<1>0. TypeOK /\ HeadOwned /\ Chained /\ Counted /\ MissEmpty
  BY DEF IInv, Kept
<1>1. list \in Lists /\ list \in Threads \X Classes
  BY SizesInRange, SizesHaveClass, Places DEF Homes
<1>2. /\ head' = [head EXCEPT ![list] = link[b]] /\ link' = [link EXCEPT ![b] = Junk]
      /\ owner' = [owner EXCEPT ![b] = InUse]
      /\ freeListSize' = [freeListSize EXCEPT ![list] = LengthAfterPop(@)]
      /\ th' = th /\ b # Null /\ th[t] = Idle
  BY DEF AllocateLocal, Popped
<1>b. b = head[list]
  OBVIOUS
<1>l. list[1] = t
  OBVIOUS
<1> HIDE DEF list, b
<1>3. /\ Chained' /\ b \in PutOn(list) /\ PutOn(list)' = PutOn(list) \ {b}
      /\ \A l \in Lists : l # list => PutOn(l)' = PutOn(l)
  BY <1>0, <1>1, <1>2, <1>b, Places, PopKeeps
<1>4. freeListSize'[list] = Cardinality(PutOn(list)')
  <2> DEFINE N == Cardinality(PutOn(list))
  <2>1. Cardinality(PutOn(list) \ {b}) = N - 1
    BY <1>3, PutOnFinite, FS_RemoveElement
  <2>2. N \in Nat /\ N - 1 \in Nat
    BY <1>3, <2>1, PutOnFinite, FS_RemoveElement, FS_CardinalityType
  <2>3. freeListSize[list] = N
    BY <1>0, <1>1 DEF Counted
  <2>4. freeListSize'[list] = LengthAfterPop(N)
    BY <1>0, <1>1, <1>2, <2>3 DEF TypeOK
  <2> HIDE DEF N
  <2>5. LengthAfterPop(N) = N - 1
    BY <2>2 DEF LengthAfterPop
  <2> QED
    BY <1>3, <2>1, <2>4, <2>5
<1>5. Counted'
  <2> SUFFICES ASSUME NEW l \in Threads \X Classes
               PROVE  freeListSize'[l] = Cardinality(PutOn(l)')
    BY DEF Counted
  <2>1. l \in Lists
    BY DEF Lists, Homes
  <2>2. CASE l # list
    BY <2>1, <2>2, <1>0, <1>2, <1>3 DEF Counted, TypeOK
  <2> QED
    BY <2>2, <1>4
<1>6. MissEmpty'
  <2> SUFFICES ASSUME NEW u \in Threads, th[u].pc # "idle"
               PROVE  head'[<<u, Class(u)>>] = Null
    BY <1>2 DEF MissEmpty, Class
  <2>1. head[<<u, Class(u)>>] = Null
    BY <1>0 DEF MissEmpty
  <2>2. u # t
    BY <1>2 DEF Idle
  <2>3. <<u, Class(u)>> # list /\ <<u, Class(u)>> \in Lists
    BY <2>2, <1>0, <1>l, ThreadTyped, Places DEF Homes
  <2> QED
    BY <2>1, <2>3, <1>0, <1>2 DEF TypeOK
<1> QED
  BY <1>3, <1>5, <1>6 DEF Kept

\* A block freed to the list of the thread that frees it.
LEMMA DeallocateKept ==
    ASSUME IInv, Kept, NEW t \in Threads, NEW b \in Blocks, Deallocate(t, b)
    PROVE  Kept'
<1>0. TypeOK /\ UsedOwned /\ Chained /\ Counted /\ MissEmpty
  BY DEF IInv, Kept
<1>1. PICK list \in Lists : list = <<t, GetIndex(size[b])>> /\ list \in Threads \X Classes
  <2>1. size[b] \in 0 .. MaxBytes
    BY <1>0 DEF TypeOK, Deallocate
  <2>2. <<t, GetIndex(size[b])>> \in Lists /\ <<t, GetIndex(size[b])>> \in Threads \X Classes
    BY <2>1, SizesHaveClass, Places DEF Homes
  <2> QED
    BY <2>2, Zenon
<1>2. /\ head' = [head EXCEPT ![list] = b] /\ link' = [link EXCEPT ![b] = head[list]]
      /\ owner' = [owner EXCEPT ![b] = list]
      /\ freeListSize' = [freeListSize EXCEPT ![list] = @ + 1]
      /\ th' = th /\ th[t] = Idle /\ size[b] # None
  BY <1>1 DEF Deallocate, Pushed
<1>l. list[1] = t
  BY <1>1
<1>3. \A l \in Lists : b \notin PutOn(l)
  BY <1>0, <1>2, Places DEF UsedOwned, PutOn
<1>4. /\ PutOn(list)' = PutOn(list) \cup {b}
      /\ \A l \in Lists : l # list => PutOn(l)' = PutOn(l)
  <2>1. PutOn(list)' = PutOn(list) \cup {b} /\ \A l : l # list => PutOn(l)' = PutOn(l) \ {b}
    BY <1>0, <1>2, Moved
  <2> QED
    BY <2>1, <1>3
<1>5. \A d \in Blocks : d # b => link'[d] = link[d]
  BY <1>0, <1>2 DEF TypeOK
<1>6. ChainBy(link', b, PutOn(list) \cup {b})
  <2>1. ChainBy(link, head[list], PutOn(list))
    BY <1>0, <1>1 DEF Chained
  <2>2. link'[b] = head[list] /\ b # Null
    BY <1>0, <1>2, NoBlocks DEF TypeOK
  <2>3. \A d \in PutOn(list) : link'[d] = link[d]
    BY <1>1, <1>3, <1>5 DEF PutOn
  <2> QED
    BY <2>1, <2>2, <2>3, <1>1, <1>3, ChainPush
<1>7. Chained'
  <2> SUFFICES ASSUME NEW l \in Lists PROVE ChainBy(link', head'[l], PutOn(l)')
    BY DEF Chained
  <2>1. CASE l = list
    BY <2>1, <1>0, <1>1, <1>2, <1>4, <1>6 DEF TypeOK
  <2>2. CASE l # list
    <3>1. \A d \in PutOn(l) : link'[d] = link[d]
      BY <1>3, <1>5 DEF PutOn
    <3>2. head'[l] = head[l]
      BY <2>2, <1>0, <1>2 DEF TypeOK
    <3> QED
      BY <2>2, <3>1, <3>2, <1>0, <1>4, ListSame
  <2> QED
    BY <2>1, <2>2
<1>8. freeListSize'[list] = Cardinality(PutOn(list)')
  <2>1. Cardinality(PutOn(list) \cup {b}) = Cardinality(PutOn(list)) + 1
    BY <1>1, <1>3, PutOnFinite, FS_AddElement
  <2>2. freeListSize'[list] = Cardinality(PutOn(list)) + 1
    BY <1>0, <1>1, <1>2 DEF TypeOK, Counted
  <2> QED
    BY <2>1, <2>2, <1>4
<1>9. Counted'
  <2> SUFFICES ASSUME NEW l \in Threads \X Classes
               PROVE  freeListSize'[l] = Cardinality(PutOn(l)')
    BY DEF Counted
  <2>1. l \in Lists
    BY DEF Lists, Homes
  <2>2. CASE l # list
    BY <2>1, <2>2, <1>0, <1>2, <1>4 DEF Counted, TypeOK
  <2> QED
    BY <2>2, <1>8
<1>10. MissEmpty'
  <2> SUFFICES ASSUME NEW u \in Threads, th[u].pc # "idle"
               PROVE  head'[<<u, Class(u)>>] = Null
    BY <1>2 DEF MissEmpty, Class
  <2>1. head[<<u, Class(u)>>] = Null
    BY <1>0 DEF MissEmpty
  <2>2. u # t
    BY <1>2 DEF Idle
  <2>3. <<u, Class(u)>> # list /\ <<u, Class(u)>> \in Lists
    BY <2>2, <1>0, <1>l, ThreadTyped, Places DEF Homes
  <2> QED
    BY <2>1, <2>3, <1>0, <1>2 DEF TypeOK
<1> QED
  BY <1>7, <1>9, <1>10 DEF Kept

\* A step that leaves the lists alone.
LEMMA QuietKept ==
    ASSUME IInv, Kept, UNCHANGED <<head, link, freeListSize, owner>>,
           NEW t \in Threads, NEW r, th' = [th EXCEPT ![t] = r],
           r.pc # "idle" => head[<<t, GetIndex(r.want)>>] = Null
    PROVE  Kept'
<1>1. \A l : PutOn(l)' = PutOn(l)
  BY DEF PutOn
<1>2. Chained' /\ Counted'
  BY <1>1 DEF Kept, Chained, Counted
<1>3. th \in [Threads -> ThreadStates]
  BY DEF IInv, TypeOK
<1>4. \A u \in Threads : u # t => th'[u] = th[u]
  BY <1>3
<1>5. th'[t] = r
  BY <1>3
<1>6. MissEmpty'
  BY <1>4, <1>5 DEF Kept, MissEmpty, Class
<1> QED
  BY <1>2, <1>6 DEF Kept

\* The rest of what a thread does on its way to and in the central cache.
LEMMA OtherKept ==
    ASSUME IInv, Kept, NEW t \in Threads,
           \/ \E n \in Sizes : AllocateMiss(t, n)
           \/ Lock(t) \/ CountDown(t) \/ AllocationFails(t) \/ WholeSpan(t)
           \/ TakeSlot(t) \/ PublishTracker(t) \/ Unlock(t)
    PROVE  Kept'
<1>1. CASE \E n \in Sizes : AllocateMiss(t, n)
  <2>1. PICK n \in Sizes : AllocateMiss(t, n)
    BY <1>1
  <2> DEFINE r == [pc |-> "lock", want |-> n, hand |-> Null, slot |-> 0]
  <2>2. /\ UNCHANGED <<head, link, freeListSize, owner>> /\ th' = [th EXCEPT ![t] = r]
        /\ head[<<t, GetIndex(n)>>] = Null
    BY <2>1 DEF AllocateMiss
  <2>3. r.want = n
    OBVIOUS
  <2> HIDE DEF r
  <2> QED
    BY <2>2, <2>3, QuietKept
<1>2. CASE AllocationFails(t)
  <2>1. UNCHANGED <<head, link, freeListSize, owner>> /\ th' = [th EXCEPT ![t] = Idle]
    BY <1>2 DEF AllocationFails
  <2>2. Idle.pc = "idle"
    BY DEF Idle
  <2> QED
    BY <2>1, <2>2, QuietKept
<1>3. ASSUME NEW r, r.want = th[t].want, th[t].pc # "idle", th' = [th EXCEPT ![t] = r],
             UNCHANGED <<head, link, freeListSize, owner>>
      PROVE  Kept'
  <2>1. head[<<t, GetIndex(r.want)>>] = Null
    BY <1>3 DEF Kept, MissEmpty, Class
  <2> QED
    BY <1>3, <2>1, QuietKept
<1>4. CASE TakeSlot(t)
  <2> DEFINE r == [th[t] EXCEPT !.pc = IF HasSlot(spanCount) THEN "publish" ELSE "unlock",
                                !.slot = spanCount]
  <2>1. /\ UNCHANGED <<head, link, freeListSize, owner>> /\ th' = [th EXCEPT ![t] = r]
        /\ th[t].pc # "idle"
    BY <1>4 DEF TakeSlot, At
  <2>2. r.want = th[t].want
    BY DEF IInv, TypeOK, ThreadStates
  <2> HIDE DEF r
  <2> QED
    BY <1>3, <2>1, <2>2
<1>5. CASE Lock(t) \/ CountDown(t) \/ WholeSpan(t) \/ PublishTracker(t) \/ Unlock(t)
  <2>1. PICK pc : Goes(t, pc)
    BY <1>5 DEF Lock, CountDown, WholeSpan, PublishTracker, Unlock
  <2> DEFINE r == [th[t] EXCEPT !.pc = pc]
  <2>2. th' = [th EXCEPT ![t] = r]
    BY <2>1 DEF Goes
  <2>3. UNCHANGED <<head, link, freeListSize, owner>> /\ th[t].pc # "idle"
    BY <1>5 DEF Lock, CountDown, WholeSpan, PublishTracker, Unlock, At
  <2>4. r.want = th[t].want
    BY DEF IInv, TypeOK, ThreadStates
  <2> HIDE DEF r
  <2> QED
    BY <1>3, <2>2, <2>3, <2>4
<1> QED
  BY <1>1, <1>2, <1>4, <1>5

\* A block from the central list.
LEMMA PopCentralKept ==
    ASSUME IInv, Kept, NEW t \in Threads, PopCentral(t)
    PROVE  Kept'
<1>0. TypeOK /\ HeadOwned /\ Chained /\ Counted /\ MissEmpty
  BY DEF IInv, Kept
<1>1. PICK list \in Lists : list = <<Central, Class(t)>>
  <2>1. <<Central, Class(t)>> \in Lists
    BY <1>0, ThreadTyped, Places DEF Homes
  <2> QED
    BY <2>1, Zenon
<1> DEFINE b == head[list]
           r == [th[t] EXCEPT !.pc = "count", !.hand = b]
<1>2. /\ head' = [head EXCEPT ![list] = link[b]] /\ link' = [link EXCEPT ![b] = Null]
      /\ owner' = [owner EXCEPT ![b] = Hand(t)] /\ freeListSize' = freeListSize
      /\ th' = [th EXCEPT ![t] = r] /\ b # Null /\ th[t].pc # "idle"
  BY <1>1 DEF PopCentral, At
<1>3. r.want = th[t].want
  BY <1>0 DEF TypeOK, ThreadStates
<1>4. \A u \in Threads, c \in Classes : <<u, c>> # list
  BY <1>1, MemoryPoolAssumption
<1>b. b = head[list]
  OBVIOUS
<1> HIDE DEF b, r
<1>5. /\ Chained' /\ b \in PutOn(list) /\ PutOn(list)' = PutOn(list) \ {b}
      /\ \A l \in Lists : l # list => PutOn(l)' = PutOn(l)
  BY <1>0, <1>2, <1>b, Places, PopKeeps
<1>6. Counted'
  <2> SUFFICES ASSUME NEW l \in Threads \X Classes
               PROVE  freeListSize'[l] = Cardinality(PutOn(l)')
    BY DEF Counted
  <2>1. l \in Lists /\ l # list
    BY <1>4 DEF Lists, Homes
  <2> QED
    BY <2>1, <1>0, <1>2, <1>5 DEF Counted
<1>7. th'[t] = r /\ \A u \in Threads : u # t => th'[u] = th[u]
  BY <1>0, <1>2 DEF TypeOK
<1>8. MissEmpty'
  <2> SUFFICES ASSUME NEW u \in Threads, th'[u].pc # "idle"
               PROVE  head'[<<u, Class(u)'>>] = Null
    BY DEF MissEmpty
  <2>1. Class(u)' = Class(u) /\ th[u].pc # "idle"
    BY <1>2, <1>3, <1>7 DEF Class
  <2>2. head[<<u, Class(u)>>] = Null
    BY <2>1, <1>0 DEF MissEmpty
  <2>3. <<u, Class(u)>> # list /\ <<u, Class(u)>> \in Lists
    BY <1>0, <1>4, ThreadTyped, Places DEF Homes
  <2> QED
    BY <2>1, <2>2, <2>3, <1>0, <1>2 DEF TypeOK
<1> QED
  BY <1>5, <1>6, <1>8 DEF Kept

\* The block from the central cache is given to the caller: the batch has no
\* other block, and the thread's list stays empty.
LEMMA TakeBatchKept ==
    ASSUME IInv, Kept, NEW t \in Threads, TakeBatch(t)
    PROVE  Kept'
<1>0. TypeOK /\ HandOwned /\ Chained /\ Counted /\ MissEmpty
  BY DEF IInv, Kept
<1>1. PICK list \in Lists : list = <<t, Class(t)>> /\ list \in Threads \X Classes
  <2>1. <<t, Class(t)>> \in Lists /\ <<t, Class(t)>> \in Threads \X Classes
    BY <1>0, ThreadTyped, Places DEF Homes
  <2> QED
    BY <2>1, Zenon
<1> DEFINE b == th[t].hand
<1>2. b \in Blocks /\ owner[b] = Hand(t) /\ link[b] = Null
  <2>1. b # Null
    BY <1>0 DEF TakeBatch, At, HandOwned, Holding
  <2> QED
    BY <2>1, <1>0, HandsAreBlocks DEF HandOwned
<1>3. /\ head' = [head EXCEPT ![list] = Null] /\ link' = [link EXCEPT ![b] = Junk]
      /\ owner' = [owner EXCEPT ![b] = InUse] /\ th' = [th EXCEPT ![t] = Idle]
      /\ freeListSize' = [freeListSize EXCEPT ![list] = @ + ListLength(link[b])]
  BY <1>1, <1>2 DEF TakeBatch
<1>4. head[list] = Null
  BY <1>0, <1>1 DEF MissEmpty, TakeBatch, At
<1> HIDE DEF b
<1>5. head' = head
  BY <1>0, <1>3, <1>4 DEF TypeOK
<1>6. freeListSize' = freeListSize
  <2>1. freeListSize[list] \in Nat
    BY <1>0, <1>1 DEF TypeOK
  <2>2. freeListSize[list] + ListLength(link[b]) = freeListSize[list]
    BY <2>1, <1>2, NullLength
  <2> QED
    BY <2>2, <1>0, <1>3 DEF TypeOK
<1>7. \A l \in Lists : b \notin PutOn(l) /\ PutOn(l)' = PutOn(l)
  <2>1. \A l \in Lists : b \notin PutOn(l)
    BY <1>2, Places DEF PutOn
  <2>2. \A l \in Lists : PutOn(l)' = PutOn(l) \ {b}
    <3>1. b \in Blocks /\ owner' = [owner EXCEPT ![b] = InUse]
      BY <1>2, <1>3
    <3>2. \A l : l # InUse => PutOn(l)' = PutOn(l) \ {b}
      BY <1>0, <3>1, Moved
    <3>3. \A l \in Lists : l # InUse
      BY Places
    <3> QED
      BY <3>2, <3>3
  <2> QED
    BY <2>1, <2>2
<1>8. Chained'
  <2> SUFFICES ASSUME NEW l \in Lists PROVE ChainBy(link', head'[l], PutOn(l)')
    BY DEF Chained
  <2>1. \A d \in PutOn(l) : link'[d] = link[d]
    BY <1>0, <1>3, <1>7 DEF TypeOK, PutOn
  <2> QED
    BY <2>1, <1>0, <1>5, <1>7, ListSame
<1>9. Counted'
  <2>1. \A l \in Threads \X Classes : l \in Lists
    BY DEF Lists, Homes
  <2> QED
    BY <2>1, <1>0, <1>6, <1>7 DEF Counted
<1>10. th'[t] = Idle /\ \A u \in Threads : u # t => th'[u] = th[u]
  BY <1>0, <1>3 DEF TypeOK
<1>11. MissEmpty'
  BY <1>0, <1>5, <1>10 DEF MissEmpty, Class, Idle
<1> QED
  BY <1>8, <1>9, <1>11 DEF Kept

\* A new span: none of its blocks was anywhere.
LEMMA AllocateSpanKept ==
    ASSUME IInv, Kept, NEW t \in Threads, NEW s \in Spans, AllocateSpan(t, s)
    PROVE  Kept'
<1> DEFINE r == [th[t] EXCEPT !.pc = "split", !.hand = <<s, 0>>]
<1>0. TypeOK /\ ClassOwned /\ Chained /\ Counted /\ MissEmpty
  BY DEF IInv, Kept
<1>1. /\ classOf[s] = None /\ UNCHANGED <<head, freeListSize>> /\ th' = [th EXCEPT ![t] = r]
      /\ link' = [b \in Blocks |-> IF b[1] = s THEN Null ELSE link[b]]
      /\ owner' = [owner EXCEPT ![<<s, 0>>] = Hand(t)] /\ th[t].pc # "idle"
  BY DEF AllocateSpan, At
<1>2. r.want = th[t].want
  BY <1>0 DEF TypeOK, ThreadStates
<1> HIDE DEF r
<1>3. \A b \in Blocks : b[1] = s => owner[b] \notin Lists
  <2>1. None \notin Classes
    BY MemoryPoolAssumption DEF Classes
  <2> QED
    BY <2>1, <1>0, <1>1, Places DEF ClassOwned
<1>4. \A l \in Lists : PutOn(l)' = PutOn(l) /\ \A b \in PutOn(l) : link'[b] = link[b]
  <2> DEFINE b == <<s, 0>>
  <2>1. b \in Blocks /\ b[1] = s
    BY MemoryPoolAssumption, Quotient, Products DEF Blocks
  <2>2. owner' = [owner EXCEPT ![b] = Hand(t)]
    BY <1>1
  <2> HIDE DEF b
  <2>3. \A l \in Lists : PutOn(l)' = PutOn(l) \ {b}
    <3>1. \A l : l # Hand(t) => PutOn(l)' = PutOn(l) \ {b}
      BY <2>1, <2>2, <1>0, Moved
    <3> QED
      BY <3>1, Places
  <2>4. \A l \in Lists : \A d \in PutOn(l) : d \in Blocks /\ d[1] # s
    BY <1>3 DEF PutOn
  <2>5. \A l \in Lists : b \notin PutOn(l)
    BY <2>1, <2>4
  <2> QED
    BY <2>3, <2>4, <2>5, <1>1
<1>5. Chained'
  <2> SUFFICES ASSUME NEW l \in Lists PROVE ChainBy(link', head'[l], PutOn(l)')
    BY DEF Chained
  <2> QED
    BY <1>0, <1>1, <1>4, ListSame
<1>6. Counted'
  <2>1. \A l \in Threads \X Classes : l \in Lists
    BY DEF Lists, Homes
  <2> QED
    BY <2>1, <1>0, <1>1, <1>4 DEF Counted
<1>7. th'[t] = r /\ \A u \in Threads : u # t => th'[u] = th[u]
  BY <1>0, <1>1 DEF TypeOK
<1>8. MissEmpty'
  BY <1>0, <1>1, <1>2, <1>7 DEF MissEmpty, Class
<1> QED
  BY <1>5, <1>6, <1>8 DEF Kept

\* What the cut of span s into blocks does: rest, the blocks 1 to last, make up
\* the list of class c.
IsCut(s, c, last, list, rest) ==
    /\ s \in Spans /\ c \in Classes /\ list \in Lists /\ last \in Nat /\ last > 0
    /\ rest \subseteq Blocks /\ classOf[s] = c /\ head[list] = Null
    /\ \A d \in rest : d[1] = s /\ owner[d] = Nowhere
    /\ \A d \in Blocks : d[1] = s => owner[d] \notin Lists
    /\ \A i \in 1 .. last : i < last => link'[<<s, i>>] = <<s, i + 1>>
    /\ link'[<<s, last>>] = Null
    /\ \A d \in Blocks : d[1] # s => link'[d] = link[d]
    /\ \A d \in Blocks \ rest : owner'[d] = owner[d]
    /\ \A d \in rest : owner'[d] = list
    /\ head' = [head EXCEPT ![list] = <<s, 1>>]

\* The loop of fetchRange makes such a cut.
LEMMA SplitCuts ==
    ASSUME IInv, NEW t \in Threads, Split(t),
           NEW s, s = th[t].hand[1], NEW c, c = Class(t), NEW last, last = LastBlock(t),
           NEW list, list = <<Central, c>>, NEW rest, rest = {s} \X (1 .. last)
    PROVE  IsCut(s, c, last, list, rest)
<1> DEFINE b == th[t].hand
<1>0. TypeOK /\ HandOwned /\ SplitFresh
  BY DEF IInv
<1>1. /\ c \in Classes /\ list \in Lists /\ last \in Nat /\ last < BlockNum(c) /\ last > 0
  <2>1. c \in Classes
    BY <1>0, ThreadTyped
  <2>2. BlockNum(c) \in Nat /\ 1 <= BlockNum(c)
    BY <2>1, BlocksInSpan
  <2>3. last = BlockNum(c) - 1 /\ last > 0
    BY DEF LastBlock, Split
  <2>4. last \in Nat /\ last < BlockNum(c)
    BY <2>2, <2>3
  <2>5. list \in Lists
    BY <2>1, Places DEF Homes
  <2> QED
    BY <2>1, <2>3, <2>4, <2>5
<1>2. /\ b \in Blocks /\ owner[b] = Hand(t) /\ s \in Spans /\ b[2] = 0 /\ classOf[s] = c
      /\ head[list] = Null
      /\ \A d \in Blocks : d[1] = s /\ d # b => owner[d] = Nowhere
  <2>1. b # Null
    BY <1>0 DEF HandOwned, Holding, Split, At
  <2>2. b \in Blocks /\ s \in Spans
    BY <2>1, <1>0, HandsAreBlocks DEF Blocks
  <2> QED
    BY <2>1, <2>2, <1>0 DEF HandOwned, SplitFresh, Split, At
<1>3. /\ link' = [d \in Blocks |->
                    IF d \in rest /\ d[2] < last THEN <<s, d[2] + 1>>
                    ELSE IF d[1] = s THEN Null ELSE link[d]]
      /\ head' = [head EXCEPT ![list] = <<s, 1>>]
      /\ owner' = [d \in Blocks |-> IF d \in rest THEN list ELSE owner[d]]
  BY DEF Split
<1>s. s = b[1]
  OBVIOUS
<1> HIDE DEF b
<1>4. \A d \in rest : d[1] = s /\ d[2] \in 1 .. last /\ d = <<s, d[2]>>
  OBVIOUS
<1>5. \A i \in 1 .. last : <<s, i>> \in rest /\ <<s, i>>[1] = s /\ <<s, i>>[2] = i
  OBVIOUS
<1>6. rest \subseteq Blocks
  <2>1. \A i \in 1 .. last : i \in 0 .. (SpanPages * PageSize) \div Alignment
    BY <1>1, BlocksInSpan
  <2> QED
    BY <2>1, <1>2, <1>4 DEF Blocks
<1>7. \A d \in rest : d # b /\ owner[d] = Nowhere
  <2>1. \A i \in 1 .. last : i # 0
    BY <1>1
  <2> QED
    BY <2>1, <1>2, <1>4, <1>6
<1>8. \A d \in Blocks : d[1] = s => owner[d] \notin Lists
  BY <1>2, Places
<1>9. \A i \in 1 .. last : i < last => link'[<<s, i>>] = <<s, i + 1>>
  BY <1>3, <1>5, <1>6
<1>10. link'[<<s, last>>] = Null
  <2> DEFINE d == <<s, last>>
  <2>1. last \in 1 .. last /\ ~(last < last)
    BY <1>1
  <2>2. d \in Blocks /\ d[1] = s /\ d[2] = last
    BY <2>1, <1>5, <1>6
  <2> HIDE DEF d
  <2>3. link'[d] = Null
    BY <2>1, <2>2, <1>3
  <2> QED
    BY <2>3 DEF d
<1>11. \A d \in Blocks : d[1] # s => link'[d] = link[d]
  BY <1>3, <1>4
<1>12. /\ \A d \in Blocks \ rest : owner'[d] = owner[d]
       /\ \A d \in rest : owner'[d] = list
  BY <1>3, <1>6
<1> QED
  BY <1>1, <1>2, <1>3, <1>4, <1>6, <1>7, <1>8, <1>9, <1>10, <1>11, <1>12, Zenon
     DEF IsCut

\* The new span is cut, and all its blocks but the first become the central list.
LEMMA SplitKept ==
    ASSUME IInv, Kept, NEW t \in Threads, Split(t)
    PROVE  Kept'
<1>1. PICK s, c, last, list, rest :
         /\ s = th[t].hand[1] /\ c = Class(t) /\ last = LastBlock(t)
         /\ list = <<Central, c>> /\ rest = {s} \X (1 .. last)
  OBVIOUS
<1>0. TypeOK /\ Chained /\ Counted /\ MissEmpty
  BY DEF IInv, Kept
<1>c. IsCut(s, c, last, list, rest)
  BY <1>1, SplitCuts
<1>2. /\ s \in Spans /\ c \in Classes /\ list \in Lists /\ last \in Nat /\ last > 0
      /\ rest \subseteq Blocks /\ head[list] = Null
      /\ \A d \in rest : d[1] = s /\ owner[d] = Nowhere
      /\ \A d \in Blocks : d[1] = s => owner[d] \notin Lists
      /\ \A i \in 1 .. last : i < last => link'[<<s, i>>] = <<s, i + 1>>
      /\ link'[<<s, last>>] = Null
      /\ \A d \in Blocks : d[1] # s => link'[d] = link[d]
      /\ \A d \in Blocks \ rest : owner'[d] = owner[d]
      /\ \A d \in rest : owner'[d] = list
      /\ head' = [head EXCEPT ![list] = <<s, 1>>]
  BY <1>c DEF IsCut
<1> DEFINE r == [th[t] EXCEPT !.pc = "slot"]
<1>3. th' = [th EXCEPT ![t] = r] /\ th[t].pc # "idle" /\ freeListSize' = freeListSize
  BY DEF Split, Goes, At
<1>4. r.want = th[t].want
  BY <1>0 DEF TypeOK, ThreadStates
<1>5. \A u \in Threads, d \in Classes : <<u, d>> # list
  BY <1>1, MemoryPoolAssumption
<1> HIDE DEF r
<1>6. \A l \in Lists : l # list => PutOn(l)' = PutOn(l)
  BY <1>2, Places DEF PutOn
<1>7. PutOn(list)' = rest
  <2>1. PutOn(list) = {}
    BY <1>0, <1>2, ChainEmpty DEF Chained
  <2>2. \A d \in Blocks : owner[d] # list
    BY <2>1 DEF PutOn
  <2> QED
    BY <2>2, <1>2 DEF PutOn
<1>8. Chained'
  <2> SUFFICES ASSUME NEW l \in Lists PROVE ChainBy(link', head'[l], PutOn(l)')
    BY DEF Chained
  <2>1. CASE l = list
    <3>1. ChainBy(link', <<s, 1>>, rest)
      BY <1>1, <1>2, ChainRow
    <3>2. head'[list] = <<s, 1>>
      BY <1>0, <1>2 DEF TypeOK
    <3> QED
      BY <2>1, <3>1, <3>2, <1>7
  <2>2. CASE l # list
    <3>1. head'[l] = head[l]
      BY <2>2, <1>0, <1>2 DEF TypeOK
    <3>2. \A d \in PutOn(l) : link'[d] = link[d]
      BY <1>2 DEF PutOn
    <3> QED
      BY <2>2, <3>1, <3>2, <1>0, <1>6, ListSame
  <2> QED
    BY <2>1, <2>2
<1>9. Counted'
  <2> SUFFICES ASSUME NEW l \in Threads \X Classes
               PROVE  freeListSize'[l] = Cardinality(PutOn(l)')
    BY DEF Counted
  <2>1. l \in Lists /\ l # list
    BY <1>5 DEF Lists, Homes
  <2> QED
    BY <2>1, <1>0, <1>3, <1>6 DEF Counted
<1>10. th'[t] = r /\ \A u \in Threads : u # t => th'[u] = th[u]
  BY <1>0, <1>3 DEF TypeOK
<1>11. MissEmpty'
  <2> SUFFICES ASSUME NEW u \in Threads, th'[u].pc # "idle"
               PROVE  head'[<<u, Class(u)'>>] = Null
    BY DEF MissEmpty
  <2>1. Class(u)' = Class(u) /\ th[u].pc # "idle"
    BY <1>3, <1>4, <1>10 DEF Class
  <2>2. head[<<u, Class(u)>>] = Null
    BY <2>1, <1>0 DEF MissEmpty
  <2>3. <<u, Class(u)>> # list /\ <<u, Class(u)>> \in Lists
    BY <1>0, <1>5, ThreadTyped, Places DEF Homes
  <2> QED
    BY <2>1, <2>2, <2>3, <1>0, <1>2 DEF TypeOK
<1> QED
  BY <1>8, <1>9, <1>11 DEF Kept

\* At the start nothing is on a list.
LEMMA InitKept == Init => Kept
<1> SUFFICES ASSUME Init PROVE Kept
  OBVIOUS
<1>1. \A l \in Lists : PutOn(l) = {}
  BY Places DEF Init, PutOn
<1>2. \A l \in Lists : head[l] = Null
  BY DEF Init
<1>3. Chained
  BY <1>1, <1>2, ChainEmpty DEF Chained
<1>4. Counted
  <2>1. \A l \in Threads \X Classes : l \in Lists /\ freeListSize[l] = 0
    BY DEF Init, Lists, Homes
  <2> QED
    BY <2>1, <1>1, FS_EmptySet DEF Counted
<1>5. MissEmpty
  BY DEF Init, Idle, MissEmpty
<1> QED
  BY <1>3, <1>4, <1>5 DEF Kept

\* Every step keeps what the lists hold.
LEMMA NextKept == IInv /\ Kept /\ [Next]_vars => Kept'
<1> SUFFICES ASSUME IInv, Kept, [Next]_vars PROVE Kept'
  OBVIOUS
<1>1. CASE UNCHANGED vars
  BY <1>1 DEF vars, centralVars, Kept, Chained, Counted, MissEmpty, PutOn, Class
<1>2. CASE Next
  <2>1. PICK t \in Threads :
          \/ \E n \in Sizes : AllocateLocal(t, n) \/ AllocateMiss(t, n)
          \/ \E b \in Blocks : Deallocate(t, b)
          \/ Lock(t) \/ Locked(t) \/ TakeBatch(t)
    BY <1>2 DEF Next
  <2>2. CASE \E n \in Sizes : AllocateLocal(t, n)
    BY <2>2, AllocateLocalKept
  <2>3. CASE \E b \in Blocks : Deallocate(t, b)
    BY <2>3, DeallocateKept
  <2>4. CASE TakeBatch(t)
    BY <2>4, TakeBatchKept
  <2>5. CASE PopCentral(t)
    BY <2>5, PopCentralKept
  <2>6. CASE Split(t)
    BY <2>6, SplitKept
  <2>7. CASE \E s \in Spans : AllocateSpan(t, s)
    BY <2>7, AllocateSpanKept
  <2>8. CASE \/ \E n \in Sizes : AllocateMiss(t, n)
             \/ Lock(t) \/ CountDown(t) \/ AllocationFails(t) \/ WholeSpan(t)
             \/ TakeSlot(t) \/ PublishTracker(t) \/ Unlock(t)
    BY <2>8, OtherKept
  <2> QED
    BY <2>1, <2>2, <2>3, <2>4, <2>5, <2>6, <2>7, <2>8, Zenon DEF Locked
<1> QED
  BY <1>1, <1>2

\* Whatever users write to their blocks and however threads interleave, the links
\* of a list lead to the blocks put on it and to no others, and freeListSize_ is
\* its length: no block is lost.
THEOREM NothingEverLost == Spec => []NothingLost
<1>1. Spec => []Kept
  BY InitKept, NextKept, Invariance, PTL DEF Spec
<1>2. IInv /\ Kept => NothingLost
  <2> SUFFICES ASSUME IInv, Kept, NEW l \in Lists
               PROVE  /\ IsChain(head[l], PutOn(l))
                      /\ l \in DOMAIN freeListSize => freeListSize[l] = Cardinality(PutOn(l))
    BY DEF NothingLost
  <2>1. ChainBy(link, head[l], PutOn(l))
    BY DEF Kept, Chained
  <2>2. IsChain(head[l], PutOn(l))
    BY <2>1 DEF ChainBy, LeadsBy, IsChain, Leads
  <2> QED
    BY <2>2 DEF IInv, TypeOK, Kept, Counted
<1> QED
  BY <1>1, <1>2, Invariance, PTL
=============================================================================
