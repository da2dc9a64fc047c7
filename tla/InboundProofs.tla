--------------------------- MODULE InboundProofs ----------------------------
(***************************************************************************)
(* Proofs about RecvBuffer and Inbound for every capacity, read size,      *)
(* packet limit and stream: the ring is a queue, and the receive buffer of *)
(* a connection holds exactly what was read and not yet consumed.          *)
(***************************************************************************)
EXTENDS Inbound, SequenceTheorems, WellFoundedInduction, TLAPS

USE DEF LengthSize, HeaderSize

IsRing(r) ==
    /\ r \in [buf : Seq(Units), read : Nat, size : Nat]
    /\ Len(r.buf) \in Capacities
    /\ r.read < Len(r.buf)
    /\ r.size <= Len(r.buf)

\* The i-th unit a ring holds.
At(r, i) == IF r.read + i <= Len(r.buf) THEN r.buf[r.read + i]
                                        ELSE r.buf[r.read + i - Len(r.buf)]

\* The remainder of a position that passes the end of the ring at most once.
LEMMA MaskValue ==
    ASSUME NEW cap \in Nat \ {0}, NEW x \in 0 .. 2 * cap - 1
    PROVE  Mask(x, cap) = IF x < cap THEN x ELSE x - cap
<1>1. CASE x < cap
  BY <1>1 DEF Mask
<1>2. CASE ~ (x < cap)
  <2>1. x \in cap .. 2 * cap - 1
    BY <1>2
  <2>2. x % cap = x - cap
    BY <2>1
  <2> QED BY <2>2, <1>2 DEF Mask
<1> QED BY <1>1, <1>2

\* nextPowerOfTwo returns a capacity that is large enough.
LEMMA NextPowerOfTwoFits ==
    ASSUME NEW x \in 0 .. MaxHeld
    PROVE  NextPowerOfTwo(x) \in Capacities /\ x <= NextPowerOfTwo(x)
<1>1. PICK c \in Capacities : x <= c
  BY RecvBufferAssumption
<1> DEFINE Fits == {n \in Capacities : x <= n}
<1>2. \E n \in Fits : \A m \in Fits : n <= m
  <2>1. Fits \subseteq Nat /\ c \in Fits
    BY <1>1, RecvBufferAssumption
  <2>2. \E n \in Fits : \A m \in Fits : ~ (<<m, n>> \in OpToRel(<, Nat))
    <3>1. Fits # {}
      BY <2>1
    <3> HIDE DEF Fits
    <3> QED BY <2>1, <3>1, NatLessThanWellFounded, WFMin, Zenon
  <2>3. PICK n \in Fits : \A m \in Fits : ~ (<<m, n>> \in OpToRel(<, Nat))
    BY <2>2, Zenon
  <2>4. \A m \in Fits : ~ (m < n)
    BY <2>1, <2>3 DEF OpToRel
  <2> QED BY <2>1, <2>4
<1>3. \E n \in Capacities : x <= n /\ \A d \in Capacities : x <= d => n <= d
  BY <1>2
<1> QED BY <1>3 DEF NextPowerOfTwo

\* Copying the units of a ring out, from the oldest on.
LEMMA PeekFront ==
    ASSUME NEW r, IsRing(r), NEW n \in 0 .. r.size
    PROVE  /\ RingPeek(r, 0, n) \in Seq(Units)
           /\ Len(RingPeek(r, 0, n)) = n
           /\ \A i \in 1 .. n : RingPeek(r, 0, n)[i] = At(r, i)
<1> DEFINE cap == Len(r.buf)
           first == Smaller(n, cap - r.read)
           out == [i \in 1 .. n |-> IF i <= first THEN r.buf[r.read + i] ELSE r.buf[i - first]]
<1>1. /\ cap \in Nat \ {0} /\ r.read \in Nat /\ r.read < cap /\ r.size \in Nat /\ r.size <= cap
      /\ r.buf \in Seq(Units) /\ n \in Nat /\ n <= r.size
  BY RecvBufferAssumption DEF IsRing
<1>2. Mask(r.read + 0, cap) = r.read
  <2>1. r.read + 0 = r.read /\ r.read \in 0 .. 2 * cap - 1
    BY <1>1
  <2> HIDE DEF cap
  <2> QED BY <1>1, <2>1, MaskValue
<1>3. RingPeek(r, 0, n) = out
  BY <1>2 DEF RingPeek, CopyOut, Capacity
<1>4. \A i \in 1 .. n : out[i] = At(r, i) /\ At(r, i) \in Units
  <2> SUFFICES ASSUME NEW i \in 1 .. n
               PROVE  out[i] = At(r, i) /\ At(r, i) \in Units
    OBVIOUS
  <2>1. CASE r.read + i <= cap
    BY <1>1, <2>1 DEF At, Smaller
  <2>2. CASE ~ (r.read + i <= cap)
    BY SMTT(30), <1>1, <2>2 DEF At, Smaller
  <2> QED BY <2>1, <2>2
<1>5. out \in Seq(Units) /\ Len(out) = n
  <2>1. \A i \in 1 .. n : out[i] \in Units
    BY <1>4
  <2> QED BY <1>1, <2>1
<1> QED BY <1>3, <1>4, <1>5

\* What a ring holds.
LEMMA ContentsAre ==
    ASSUME NEW r, IsRing(r)
    PROVE  /\ Contents(r) \in Seq(Units)
           /\ Len(Contents(r)) = r.size
           /\ \A i \in 1 .. r.size : Contents(r)[i] = At(r, i)
<1>1. r.size \in 0 .. r.size
  BY DEF IsRing
<1> QED BY <1>1, PeekFront DEF Contents

\* ensureCapacityForAppend makes room and keeps what the ring holds.
LEMMA GrowKeeps ==
    ASSUME NEW r, IsRing(r), NEW n \in Nat, r.size + n <= MaxHeld
    PROVE  LET g == EnsureCapacityForAppend(r, n)
           IN  /\ IsRing(g)
               /\ g.size = r.size
               /\ g.size + n <= Len(g.buf)
               /\ \A i \in 1 .. r.size : At(g, i) = At(r, i)
<1> DEFINE g == EnsureCapacityForAppend(r, n)
<1>1. /\ Len(r.buf) \in Nat \ {0} /\ r.read \in Nat /\ r.size \in Nat /\ r.size <= Len(r.buf)
      /\ r.buf \in Seq(Units)
  BY RecvBufferAssumption DEF IsRing
<1>2. CASE Len(r.buf) - r.size >= n
  <2>1. g = r
    BY <1>2 DEF EnsureCapacityForAppend, Capacity
  <2> QED BY <1>1, <1>2, <2>1
<1>3. CASE ~ (Len(r.buf) - r.size >= n)
  <2> DEFINE held == CopyOut(r, r.read, r.size)
             cap == NextPowerOfTwo(r.size + n)
             buf == [i \in 1 .. cap |-> IF i <= r.size THEN held[i] ELSE Zero]
  <2>1. g = [buf |-> buf, read |-> 0, size |-> r.size]
    BY <1>3 DEF EnsureCapacityForAppend, Capacity
  <2>2. cap \in Capacities /\ cap \in Nat \ {0} /\ r.size + n <= cap
    <3>1. r.size + n \in 0 .. MaxHeld
      BY <1>1
    <3> QED BY <3>1, NextPowerOfTwoFits, RecvBufferAssumption
  <2>3. held = Contents(r)
    <3>1. Mask(r.read + 0, Len(r.buf)) = r.read
      <4>1. r.read + 0 = r.read /\ r.read \in 0 .. 2 * Len(r.buf) - 1
        BY <1>1 DEF IsRing
      <4> QED BY <1>1, <4>1, MaskValue DEF IsRing
    <3> QED BY <3>1 DEF Contents, RingPeek, Capacity
  <2>4. \A i \in 1 .. r.size : held[i] = At(r, i) /\ held[i] \in Units
    BY <2>3, ContentsAre
  <2> HIDE DEF held, cap
  <2>5. buf \in Seq(Units) /\ Len(buf) = cap
    <3>1. \A i \in 1 .. cap : buf[i] \in Units
      BY <2>4, <1>1, <2>2, InboundAssumption
    <3> QED BY <2>2, <3>1
  <2>6. \A i \in 1 .. r.size : At(g, i) = At(r, i)
    <3> TAKE i \in 1 .. r.size
    <3>1. g.read + i <= Len(g.buf) /\ g.read + i = i
      BY <1>1, <2>1, <2>2, <2>5
    <3>2. At(g, i) = buf[i]
      BY <2>1, <3>1 DEF At
    <3> QED BY <3>2, <2>4, <2>2, <1>1
  <2> QED BY SMTT(30), <1>1, <2>1, <2>2, <2>5, <2>6 DEF IsRing
<1> QED BY <1>2, <1>3

\* Where append writes: not over what the ring holds, and in its order.
Place(cap, read, i) == IF read + i <= cap THEN read + i ELSE read + i - cap

Places(cap, read, size, n, pos, first) ==
    /\ \A i \in 1 .. size :
          /\ Place(cap, read, i) \in 1 .. cap
          /\ ~ (Place(cap, read, i) > pos /\ Place(cap, read, i) <= pos + first)
          /\ ~ (Place(cap, read, i) <= n - first)
    /\ \A i \in 1 .. n :
          /\ Place(cap, read, size + i) \in 1 .. cap
          /\ IF Place(cap, read, size + i) > pos /\ Place(cap, read, size + i) <= pos + first
             THEN Place(cap, read, size + i) - pos = i
             ELSE /\ Place(cap, read, size + i) <= n - first
                  /\ first + Place(cap, read, size + i) = i

\* The places of the units a ring holds and of those append adds.
LEMMA WritePlaces ==
    \A cap, read, size, n \in Nat : \A pos, first \in Int :
        /\ read < cap /\ size + n <= cap
        /\ pos = (IF read + size < cap THEN read + size ELSE read + size - cap)
        /\ first = (IF n < cap - pos THEN n ELSE cap - pos)
        => /\ Places(cap, read, size, n, pos, first)
           /\ \A i \in 1 .. cap :
                 /\ i > pos /\ i <= pos + first => i - pos \in 1 .. n
                 /\ ~ (i > pos /\ i <= pos + first) /\ i <= n - first => first + i \in 1 .. n
  BY DEF Places, Place

\* append puts the new units after those the ring holds.
LEMMA CopyInAdds ==
    ASSUME NEW g, IsRing(g), NEW in \in Seq(Units), in # <<>>, g.size + Len(in) <= Len(g.buf)
    PROVE  LET a == [buf |-> CopyIn(g, in), read |-> g.read, size |-> g.size + Len(in)]
           IN  IsRing(a) /\ Contents(a) = Contents(g) \o in
<1> DEFINE cap == Len(g.buf)
           n == Len(in)
           pos == IF g.read + g.size < cap THEN g.read + g.size ELSE g.read + g.size - cap
           first == Smaller(n, cap - pos)
           a == [buf |-> CopyIn(g, in), read |-> g.read, size |-> g.size + n]
<1>1. /\ cap \in Nat \ {0} /\ g.read \in Nat /\ g.read < cap /\ g.size \in Nat /\ g.size <= cap
      /\ g.buf \in Seq(Units) /\ n \in Nat \ {0} /\ g.size + n <= cap
      /\ cap \in Capacities
  BY RecvBufferAssumption DEF IsRing
<1>2. Mask(g.read + g.size, cap) = pos /\ pos \in 0 .. cap - 1
  <2> DEFINE x == g.read + g.size
  <2>1. x \in 0 .. 2 * cap - 1
    BY <1>1
  <2> HIDE DEF cap
  <2>2. Mask(x, cap) = IF x < cap THEN x ELSE x - cap
    <3> HIDE DEF x
    <3> QED BY <1>1, <2>1, MaskValue
  <2>3. pos \in 0 .. cap - 1
    BY SMTT(30), <1>1
  <2> QED BY <1>1, <2>2, <2>3
<1>p. first \in Int /\ pos \in Int /\ first = (IF n < cap - pos THEN n ELSE cap - pos)
  BY <1>1, <1>2 DEF Smaller
<1>w. /\ Places(cap, g.read, g.size, n, pos, first)
      /\ \A i \in 1 .. cap :
            /\ i > pos /\ i <= pos + first => i - pos \in 1 .. n
            /\ ~ (i > pos /\ i <= pos + first) /\ i <= n - first => first + i \in 1 .. n
  <2>1. pos = (IF g.read + g.size < cap THEN g.read + g.size ELSE g.read + g.size - cap)
    OBVIOUS
  <2>2. cap \in Nat /\ n \in Nat
    BY <1>1
  <2> HIDE DEF cap, n, first, pos
  <2> QED BY <1>1, <1>p, <2>1, <2>2, WritePlaces, Zenon
<1>3. a.buf = [i \in 1 .. cap |->
                  IF i > pos /\ i <= pos + first THEN in[i - pos]
                  ELSE IF i <= n - first THEN in[first + i] ELSE g.buf[i]]
  BY <1>2 DEF CopyIn, Capacity
<1>4. a.buf \in Seq(Units) /\ Len(a.buf) = cap
  <2>1. \A i \in 1 .. cap : a.buf[i] \in Units
    <3> TAKE i \in 1 .. cap
    <3>1. CASE i > pos /\ i <= pos + first
      <4>1. i - pos \in 1 .. n
        BY <1>w, <3>1, Zenon
      <4> QED BY <1>3, <3>1, <4>1
    <3>2. CASE ~ (i > pos /\ i <= pos + first) /\ i <= n - first
      <4>1. first + i \in 1 .. n
        BY <1>w, <3>2, Zenon
      <4> QED BY <1>3, <3>2, <4>1
    <3>3. CASE ~ (i > pos /\ i <= pos + first) /\ ~ (i <= n - first)
      BY SMTT(30), <1>1, <1>3, <3>3
    <3> QED BY <3>1, <3>2, <3>3
  <2>2. a.buf = [i \in 1 .. cap |-> a.buf[i]]
    BY <1>3, Zenon
  <2>3. a.buf \in [1 .. cap -> Units]
    BY <2>1, <2>2, Zenon
  <2> QED BY <1>1, <2>3
<1>5. IsRing(a)
  BY <1>1, <1>4 DEF IsRing
<1>6. \A i \in 1 .. g.size : At(a, i) = At(g, i)
  <2> TAKE i \in 1 .. g.size
  <2> DEFINE k == Place(cap, g.read, i)
  <2>1. k \in 1 .. cap /\ ~ (k > pos /\ k <= pos + first) /\ ~ (k <= n - first)
    <3> HIDE DEF cap, n, first, pos
    <3> QED BY <1>w, Zenon DEF Places
  <2>2. At(a, i) = a.buf[k] /\ At(g, i) = g.buf[k]
    BY <1>4 DEF At, Place
  <2> HIDE DEF k, first, pos
  <2> QED BY <2>1, <2>2, <1>3
<1>7. \A i \in 1 .. n : At(a, g.size + i) = in[i]
  <2> TAKE i \in 1 .. n
  <2> DEFINE j == g.size + i
             k == Place(cap, g.read, j)
  <2>1. k \in 1 .. cap /\ IF k > pos /\ k <= pos + first THEN k - pos = i
                          ELSE k <= n - first /\ first + k = i
    <3> HIDE DEF cap, n, first, pos
    <3> QED BY <1>w, Zenon DEF Places
  <2>2. At(a, j) = a.buf[k]
    BY <1>4 DEF At, Place
  <2> HIDE DEF k, first, pos
  <2>3. a.buf[k] = in[i]
    BY <2>1, <1>3
  <2> QED BY <2>2, <2>3
<1> HIDE DEF a
<1>8. a.size = g.size + n
  BY DEF a
<1>9. /\ Contents(a) \in Seq(Units) /\ Len(Contents(a)) = g.size + n
      /\ \A i \in 1 .. g.size + n : Contents(a)[i] = At(a, i)
  BY <1>5, <1>8, ContentsAre
<1>10. /\ Contents(g) \in Seq(Units) /\ Len(Contents(g)) = g.size
       /\ \A i \in 1 .. g.size : Contents(g)[i] = At(g, i)
  BY ContentsAre
<1>11. Contents(g) \o in \in Seq(Units) /\ Len(Contents(g) \o in) = g.size + n
  BY <1>10
<1>12. \A i \in 1 .. g.size + n : Contents(a)[i] = (Contents(g) \o in)[i]
  <2> TAKE i \in 1 .. g.size + n
  <2>1. CASE i <= g.size
    BY <1>1, <1>6, <1>9, <1>10, <2>1
  <2>2. CASE ~ (i <= g.size)
    <3>1. i - g.size \in 1 .. n /\ g.size + (i - g.size) = i
      BY <1>1, <2>2
    <3>2. At(a, i) = in[i - g.size]
      BY <1>7, <3>1
    <3> QED BY SMTT(30), <1>1, <1>9, <1>10, <2>2, <3>2
  <2> QED BY <2>1, <2>2
<1>13. Contents(a) = Contents(g) \o in
  BY <1>9, <1>11, <1>12, SeqEqual
<1> QED BY <1>5, <1>13 DEF a

\* append, with room or after growing, adds its bytes at the end.
LEMMA AppendAdds ==
    ASSUME NEW r, IsRing(r), NEW in \in Seq(Units), r.size + Len(in) <= MaxHeld
    PROVE  /\ IsRing(RingAppend(r, in))
           /\ Contents(RingAppend(r, in)) = Contents(r) \o in
<1>1. CASE in = <<>>
  <2>1. RingAppend(r, in) = r
    BY <1>1 DEF RingAppend
  <2>2. Contents(r) \o in = Contents(r)
    BY <1>1, ContentsAre
  <2> QED BY <2>1, <2>2
<1>2. CASE in # <<>>
  <2> DEFINE g == EnsureCapacityForAppend(r, Len(in))
             a == [buf |-> CopyIn(g, in), read |-> g.read, size |-> g.size + Len(in)]
  <2>1. Len(in) \in Nat
    OBVIOUS
  <2>2. /\ IsRing(g) /\ g.size = r.size /\ g.size + Len(in) <= Len(g.buf)
        /\ \A i \in 1 .. r.size : At(g, i) = At(r, i)
    BY <2>1, GrowKeeps
  <2>3. RingAppend(r, in) = a
    BY <1>2 DEF RingAppend
  <2> HIDE DEF g
  <2>4. IsRing(a) /\ Contents(a) = Contents(g) \o in
    BY <1>2, <2>2, CopyInAdds
  <2>5. Contents(g) = Contents(r)
    <3>1. /\ Contents(g) \in Seq(Units) /\ Len(Contents(g)) = r.size
          /\ \A i \in 1 .. r.size : Contents(g)[i] = At(g, i)
      BY <2>2, ContentsAre
    <3>2. /\ Contents(r) \in Seq(Units) /\ Len(Contents(r)) = r.size
          /\ \A i \in 1 .. r.size : Contents(r)[i] = At(r, i)
      BY ContentsAre
    <3>3. \A i \in 1 .. r.size : Contents(g)[i] = Contents(r)[i]
      BY <2>2, <3>1, <3>2
    <3> QED BY <3>1, <3>2, <3>3, SeqEqual
  <2> QED BY <2>3, <2>4, <2>5
<1> QED BY <1>1, <1>2

\* consume drops the oldest units.
LEMMA ConsumeDrops ==
    ASSUME NEW r, IsRing(r), NEW n \in 0 .. r.size
    PROVE  /\ IsRing(RingConsume(r, n))
           /\ RingConsume(r, n).size = r.size - n
           /\ Contents(RingConsume(r, n)) = SubSeq(Contents(r), n + 1, r.size)
<1> DEFINE c == RingConsume(r, n)
           cap == Len(r.buf)
<1>1. /\ cap \in Nat \ {0} /\ r.read \in Nat /\ r.read < cap /\ r.size \in Nat /\ r.size <= cap
      /\ r.buf \in Seq(Units) /\ cap \in Capacities /\ n \in Nat /\ n <= r.size
      /\ r = [buf |-> r.buf, read |-> r.read, size |-> r.size]
  BY RecvBufferAssumption DEF IsRing
<1>2. IsRing(c) /\ c.size = r.size - n /\ \A i \in 1 .. r.size - n : At(c, i) = At(r, n + i)
  <2>1. CASE n >= r.size
    <3>1. c = [buf |-> r.buf, read |-> 0, size |-> 0]
      BY <2>1 DEF RingConsume
    <3>2. c.buf = r.buf /\ c.read = 0 /\ c.size = 0 /\ c \in [buf : Seq(Units), read : Nat, size : Nat]
      BY <3>1, <1>1
    <3> QED BY <1>1, <2>1, <3>2 DEF IsRing
  <2>2. CASE ~ (n >= r.size)
    <3> DEFINE pos == IF r.read + n < cap THEN r.read + n ELSE r.read + n - cap
    <3>1. Mask(r.read + n, cap) = pos /\ pos \in 0 .. cap - 1
      <4>1. r.read + n \in 0 .. 2 * cap - 1
        BY <1>1
      <4> HIDE DEF cap
      <4>2. Mask(r.read + n, cap) = pos
        BY <1>1, <4>1, MaskValue
      <4> QED BY <1>1, <4>2
    <3>2. c = [buf |-> r.buf, read |-> pos, size |-> r.size - n]
      BY <2>2, <3>1 DEF RingConsume, Capacity
    <3>3. /\ c.buf = r.buf /\ c.read = pos /\ c.size = r.size - n
          /\ c \in [buf : Seq(Units), read : Nat, size : Nat]
      BY <3>2, <3>1, <1>1
    <3>4. \A i \in 1 .. r.size - n : At(c, i) = At(r, n + i)
      BY SMTT(30), <1>1, <3>3, <3>1 DEF At
    <3> QED BY <1>1, <2>2, <3>1, <3>3, <3>4 DEF IsRing
  <2> QED BY <2>1, <2>2
<1> HIDE DEF c
<1>3. /\ Contents(c) \in Seq(Units) /\ Len(Contents(c)) = r.size - n
      /\ \A i \in 1 .. r.size - n : Contents(c)[i] = At(c, i)
  BY <1>2, ContentsAre
<1>4. /\ Contents(r) \in Seq(Units) /\ Len(Contents(r)) = r.size
      /\ \A i \in 1 .. r.size : Contents(r)[i] = At(r, i)
  BY ContentsAre
<1> DEFINE rest == SubSeq(Contents(r), n + 1, r.size)
<1>5. /\ rest \in Seq(Units) /\ Len(rest) = r.size - n
      /\ \A i \in 1 .. r.size - n : rest[i] = Contents(r)[n + i]
  <2>1. \A i \in n + 1 .. r.size : Contents(r)[i] \in Units
    BY <1>1, <1>4, ElementOfSeq
  <2>2. /\ rest \in Seq(Units)
        /\ Len(rest) = IF n + 1 <= r.size THEN r.size - (n + 1) + 1 ELSE 0
        /\ \A i \in 1 .. r.size - (n + 1) + 1 : rest[i] = Contents(r)[(n + 1) + i - 1]
    BY SMTT(30), <1>1, <2>1, SubSeqProperties
  <2> HIDE DEF rest
  <2>3. \A i \in 1 .. r.size - n : (n + 1) + i - 1 = n + i /\ i \in 1 .. r.size - (n + 1) + 1
    BY <1>1
  <2> QED BY <1>1, <2>2, <2>3
<1>6. \A i \in 1 .. r.size - n : Contents(c)[i] = rest[i]
  <2> TAKE i \in 1 .. r.size - n
  <2>1. n + i \in 1 .. r.size
    BY <1>1
  <2> QED BY <1>2, <1>3, <1>4, <1>5, <2>1
<1>7. Contents(c) = rest
  BY <1>3, <1>5, <1>6, SeqEqual
<1> QED BY <1>2, <1>7 DEF c

-----------------------------------------------------------------------------
\* The loop that cuts packets ends with less than a packet in the buffer.
SmallAfterCut == pc \in {"wait", "dispatch"} => buffer.size < MaxPacket

\* The inductive invariant.
IInv == TypeOK /\ BufferHoldsStream /\ SmallAfterCut

\* What TypeOK says of the buffer.
LEMMA BufferIsRing ==
    ASSUME Capacity(buffer) \in Capacities
    PROVE  buffer \in [buf : Seq(Units), read : 0 .. Capacity(buffer) - 1,
                       size : 0 .. Capacity(buffer)]
           <=> IsRing(buffer)
<1>1. Len(buffer.buf) \in Nat \ {0}
  BY RecvBufferAssumption DEF Capacity
<1> QED BY <1>1 DEF IsRing, Capacity

\* The stream of a behaviour.
LEMMA StreamType ==
    ASSUME script \in Scripts
    PROVE  script.stream \in Seq(Units) /\ Len(script.stream) \in Nat
           /\ Len(script.stream) <= MaxHeld
BY InboundAssumption

\* The length field is a number.
LEMMA LengthIsNat ==
    ASSUME IsRing(buffer), buffer.size >= LengthSize
    PROVE  TotalLength \in Nat
<1> DEFINE d == RingPeek(buffer, 0, LengthSize)
<1>1. LengthSize \in 0 .. buffer.size
  BY DEF IsRing
<1>2. d \in Seq(Units) /\ Len(d) = 2
  BY <1>1, PeekFront
<1>3. d[1] \in Units /\ d[2] \in Units
  BY <1>2
<1>4. d[1].b \in Nat /\ d[2].b \in Nat
  BY <1>3, InboundAssumption DEF Units
<1> HIDE DEF d
<1>5. Base * d[1].b + d[2].b \in Nat
  <2>1. Base * d[1].b \in Nat
    BY <1>4, InboundAssumption
  <2> QED BY <1>4, <2>1
<1> QED BY <1>5 DEF TotalLength, Number, d

\* A new connection satisfies the inductive invariant.
LEMMA InitIInv == Init => IInv
<1> SUFFICES ASSUME Init PROVE IInv
  OBVIOUS
<1> DEFINE cap == NextPowerOfTwo(InitialCapacity)
<1>1. cap \in Capacities /\ cap \in Nat \ {0}
  BY InboundAssumption, RecvBufferAssumption, NextPowerOfTwoFits
<1>2. buffer = [buf |-> [i \in 1 .. cap |-> Zero], read |-> 0, size |-> 0]
  BY DEF Init, NewRing
<1> HIDE DEF cap
<1>3. buffer.buf \in Seq(Units) /\ Len(buffer.buf) = cap
  <2>1. buffer.buf = [i \in 1 .. cap |-> Zero]
    BY <1>2
  <2> QED BY <1>1, <2>1, InboundAssumption
<1>4. IsRing(buffer) /\ Capacity(buffer) \in Capacities /\ buffer.size = 0
  <2>1. buffer.read = 0 /\ buffer.size = 0
    BY <1>2
  <2>2. buffer = [buf |-> buffer.buf, read |-> buffer.read, size |-> buffer.size]
    BY <1>2
  <2>3. buffer \in [buf : Seq(Units), read : Nat, size : Nat]
    BY <1>3, <2>1, <2>2
  <2> QED BY <1>1, <1>3, <2>1, <2>3 DEF IsRing, Capacity
<1>5. TypeOK
  <2>1. buffer \in [buf : Seq(Units), read : 0 .. Capacity(buffer) - 1, size : 0 .. Capacity(buffer)]
    BY <1>4, BufferIsRing
  <2>2. script \in Scripts /\ Len(script.stream) \in Nat
    BY StreamType DEF Init
  <2>3. /\ sent \in 0 .. Len(script.stream) /\ received \in 0 .. sent
        /\ consumed \in 0 .. received
    BY <2>2 DEF Init
  <2>4. ready \in BOOLEAN /\ peer \in {"up", "fin", "rst"}
        /\ pc \in {"wait", "recv", "cut", "dispatch", "closed"}
    BY DEF Init
  <2> QED BY <1>4, <2>1, <2>2, <2>3, <2>4, Zenon DEF TypeOK
<1>6. BufferHoldsStream
  <2>1. Contents(buffer) \in Seq(Units) /\ Len(Contents(buffer)) = 0
    BY <1>4, ContentsAre
  <2>2. SubSeq(script.stream, consumed + 1, received) = <<>>
    BY SubSeqEmpty DEF Init
  <2> QED BY <2>1, <2>2, EmptySeq DEF BufferHoldsStream
<1>7. SmallAfterCut
  BY <1>4, InboundAssumption DEF Init, SmallAfterCut
<1> QED BY <1>5, <1>6, <1>7 DEF IInv

\* The buffer's size is the number of units read and not consumed.
LEMMA SizeIs ==
    ASSUME TypeOK, BufferHoldsStream
    PROVE  buffer.size = received - consumed
<1>1. IsRing(buffer)
  BY BufferIsRing DEF TypeOK
<1>2. script.stream \in Seq(Units) /\ Len(script.stream) \in Nat
  BY StreamType DEF TypeOK
<1>3. /\ consumed \in Nat /\ received \in Nat /\ consumed <= received
      /\ received <= Len(script.stream)
  BY <1>2 DEF TypeOK
<1>4. \A i \in consumed + 1 .. received : script.stream[i] \in Units
  BY <1>2, <1>3
<1>5. Len(SubSeq(script.stream, consumed + 1, received)) =
        IF consumed + 1 <= received THEN received - (consumed + 1) + 1 ELSE 0
  <2>1. consumed + 1 \in Int /\ received \in Int
    BY <1>3
  <2> QED BY <1>4, <2>1, SubSeqProperties
<1>6. Len(Contents(buffer)) = buffer.size
  BY <1>1, ContentsAre
<1> QED BY <1>3, <1>5, <1>6 DEF BufferHoldsStream

\* Steps that leave the stream, the buffer and the counters alone.
LEMMA ControlStep ==
    ASSUME IInv, UNCHANGED <<script, received, consumed, buffer>>,
           sent' \in sent .. Len(script.stream), peer' \in {"up", "fin", "rst"},
           ready' \in BOOLEAN, pc' \in {"wait", "recv", "cut", "dispatch", "closed"},
           pc' \in {"wait", "dispatch"} => buffer.size < MaxPacket
    PROVE  IInv'
<1>1. script.stream \in Seq(Units) /\ Len(script.stream) \in Nat
  BY StreamType DEF IInv, TypeOK
<1>2. TypeOK'
  BY <1>1 DEF IInv, TypeOK, Capacity
<1>3. BufferHoldsStream'
  BY DEF IInv, BufferHoldsStream, Contents, RingPeek, CopyOut, Capacity
<1>4. SmallAfterCut'
  BY DEF SmallAfterCut
<1> QED BY <1>2, <1>3, <1>4 DEF IInv

\* Reading from the socket keeps it.
LEMMA RecvDataIInv ==
    ASSUME IInv, RecvData
    PROVE  IInv'
<1>1. IsRing(buffer) /\ buffer.size = received - consumed
  BY BufferIsRing, SizeIs DEF IInv, TypeOK
<1>2. script.stream \in Seq(Units) /\ Len(script.stream) \in Nat /\ Len(script.stream) <= MaxHeld
  BY StreamType DEF IInv, TypeOK
<1>3. /\ sent \in Nat /\ sent <= Len(script.stream) /\ received \in Nat /\ received < sent
      /\ consumed \in Nat /\ consumed <= received
  BY <1>2 DEF IInv, TypeOK, RecvData
<1>4. received' \in Nat /\ received < received' /\ received' <= sent
  BY <1>3, InboundAssumption DEF RecvData, Smaller
<1> DEFINE in == SubSeq(script.stream, received + 1, received')
<1>5. in \in Seq(Units) /\ Len(in) \in Nat /\ Len(in) = received' - received
  <2>1. \A i \in received + 1 .. received' : script.stream[i] \in Units
    BY <1>2, <1>3, <1>4
  <2>2. /\ in \in Seq(Units)
        /\ Len(in) = IF received + 1 <= received' THEN received' - (received + 1) + 1 ELSE 0
    <3>1. received + 1 \in Int /\ received' \in Int
      BY <1>3, <1>4
    <3> QED BY <2>1, <3>1, SubSeqProperties
  <2> HIDE DEF in
  <2>3. received + 1 <= received' /\ received' - (received + 1) + 1 = received' - received
    BY <1>3, <1>4
  <2>4. Len(in) = received' - received
    BY <2>2, <2>3, Zenon
  <2>5. received' - received \in Nat
    <3>1. \A a, b \in Nat : a < b => b - a \in Nat
      OBVIOUS
    <3> QED BY <1>3, <1>4, <3>1, Zenon
  <2> QED BY <2>2, <2>4, <2>5
<1>6. buffer' = RingAppend(buffer, in)
  BY DEF RecvData
<1> HIDE DEF in
<1>7. buffer.size + Len(in) <= MaxHeld
  <2>1. buffer.size + Len(in) = received' - consumed
    BY <1>1, <1>3, <1>4, <1>5
  <2> QED BY <1>2, <1>3, <1>4, <2>1, RecvBufferAssumption
<1>8. IsRing(buffer') /\ Contents(buffer') = Contents(buffer) \o in
  BY <1>1, <1>5, <1>6, <1>7, AppendAdds
<1>9. TypeOK'
  <2>1. Capacity(buffer') \in Capacities
    BY <1>8 DEF IsRing, Capacity
  <2>2. buffer' \in [buf : Seq(Units), read : 0 .. Capacity(buffer') - 1,
                     size : 0 .. Capacity(buffer')]
    BY <1>8, <2>1, RecvBufferAssumption DEF IsRing, Capacity
  <2>3. /\ script' \in Scripts /\ sent' \in 0 .. Len(script'.stream) /\ received' \in 0 .. sent'
        /\ consumed' \in 0 .. received' /\ peer' \in {"up", "fin", "rst"} /\ ready' \in BOOLEAN
        /\ pc' \in {"wait", "recv", "cut", "dispatch", "closed"}
    BY <1>3, <1>4 DEF IInv, TypeOK, RecvData, peerVars
  <2> QED BY <2>1, <2>2, <2>3 DEF TypeOK, Capacity
<1>10. BufferHoldsStream'
  <2>1. SubSeq(script.stream, consumed + 1, received) \o in
          = SubSeq(script.stream, consumed + 1, received')
    <3>1. /\ consumed + 1 \in 1 .. Len(script.stream) + 1
          /\ received \in (consumed + 1) - 1 .. Len(script.stream)
          /\ received' \in received .. Len(script.stream)
      BY <1>2, <1>3, <1>4
    <3> HIDE DEF in
    <3> DEFINE s == script.stream
               m == consumed + 1
               k == received
               j == received'
    <3>2. SubSeq(s, m, k) \o SubSeq(s, k + 1, j) = SubSeq(s, m, j)
      <4>1. s \in Seq(Units) /\ m \in 1 .. Len(s) + 1 /\ k \in m - 1 .. Len(s) /\ j \in k .. Len(s)
        BY <1>2, <3>1
      <4> HIDE DEF s, m, k, j
      <4> QED BY <4>1, ConcatAdjacentSubSeq
    <3> QED BY <3>2 DEF in
  <2>2. script' = script /\ consumed' = consumed
    BY DEF RecvData, peerVars
  <2>3. Contents(buffer)' = Contents(buffer')
    BY DEF Contents, RingPeek, CopyOut, Capacity
  <2> QED BY <1>8, <2>1, <2>2, <2>3 DEF IInv, BufferHoldsStream
<1>11. SmallAfterCut'
  BY DEF RecvData, SmallAfterCut
<1> QED BY <1>9, <1>10, <1>11 DEF IInv

\* Cutting a packet from the buffer keeps it.
LEMMA CutPacketIInv ==
    ASSUME IInv, CutPacket
    PROVE  IInv'
<1>1. IsRing(buffer) /\ buffer.size = received - consumed
  BY BufferIsRing, SizeIs DEF IInv, TypeOK
<1>2. script.stream \in Seq(Units) /\ Len(script.stream) \in Nat
  BY StreamType DEF IInv, TypeOK
<1>3. /\ sent \in Nat /\ sent <= Len(script.stream) /\ received \in Nat /\ received <= sent
      /\ consumed \in Nat /\ consumed <= received
  BY <1>2 DEF IInv, TypeOK
<1> DEFINE n == TotalLength
<1>4. n \in Nat /\ n <= buffer.size
  BY <1>1, LengthIsNat DEF CutPacket, IsRing
<1>5. buffer' = RingConsume(buffer, n) /\ consumed' = consumed + n
  BY DEF CutPacket
<1> HIDE DEF n
<1>6. /\ IsRing(buffer') /\ buffer'.size = buffer.size - n
      /\ Contents(buffer') = SubSeq(Contents(buffer), n + 1, buffer.size)
  <2>1. n \in 0 .. buffer.size
    BY <1>1, <1>3, <1>4
  <2> QED BY <1>1, <1>5, <2>1, ConsumeDrops
<1>7. TypeOK'
  <2>1. Capacity(buffer') \in Capacities
    BY <1>6 DEF IsRing, Capacity
  <2>2. buffer' \in [buf : Seq(Units), read : 0 .. Capacity(buffer') - 1,
                     size : 0 .. Capacity(buffer')]
    BY <1>6, <2>1, RecvBufferAssumption DEF IsRing, Capacity
  <2>3. consumed' \in 0 .. received
    BY <1>1, <1>3, <1>4, <1>5
  <2>4. /\ script' \in Scripts /\ sent' \in 0 .. Len(script'.stream) /\ received' \in 0 .. sent'
        /\ consumed' \in 0 .. received' /\ peer' \in {"up", "fin", "rst"} /\ ready' \in BOOLEAN
        /\ pc' \in {"wait", "recv", "cut", "dispatch", "closed"}
    BY <2>3 DEF IInv, TypeOK, CutPacket, peerVars
  <2> QED BY <2>1, <2>2, <2>4 DEF TypeOK, Capacity
<1>8. BufferHoldsStream'
  <2> DEFINE held == SubSeq(script.stream, consumed + 1, received)
             rest == SubSeq(held, n + 1, buffer.size)
             goal == SubSeq(script.stream, consumed + n + 1, received)
  <2>1. /\ held \in Seq(Units) /\ Len(held) = received - consumed
        /\ \A i \in 1 .. received - consumed : held[i] = script.stream[consumed + i]
    <3>1. \A i \in consumed + 1 .. received : script.stream[i] \in Units
      BY <1>2, <1>3
    <3>2. /\ held \in Seq(Units)
          /\ Len(held) = IF consumed + 1 <= received THEN received - (consumed + 1) + 1 ELSE 0
          /\ \A i \in 1 .. received - (consumed + 1) + 1 :
               held[i] = script.stream[(consumed + 1) + i - 1]
      <4>1. consumed + 1 \in Int /\ received \in Int
        BY <1>3
      <4> QED BY <3>1, <4>1, SubSeqProperties
    <3> HIDE DEF held
    <3>3. \A i \in 1 .. received - consumed :
            i \in 1 .. received - (consumed + 1) + 1 /\ (consumed + 1) + i - 1 = consumed + i
      BY <1>3
    <3> QED BY SMTT(30), <1>3, <3>2, <3>3
  <2>2. /\ goal \in Seq(Units) /\ Len(goal) = received - consumed - n
        /\ \A i \in 1 .. received - consumed - n : goal[i] = script.stream[consumed + n + i]
    <3>1. \A i \in consumed + n + 1 .. received : script.stream[i] \in Units
      BY <1>2, <1>3, <1>4
    <3>2. /\ goal \in Seq(Units)
          /\ Len(goal) = IF consumed + n + 1 <= received THEN received - (consumed + n + 1) + 1 ELSE 0
          /\ \A i \in 1 .. received - (consumed + n + 1) + 1 :
               goal[i] = script.stream[(consumed + n + 1) + i - 1]
      <4>1. consumed + n + 1 \in Int /\ received \in Int
        BY <1>3, <1>4
      <4> QED BY <3>1, <4>1, SubSeqProperties
    <3> HIDE DEF goal
    <3>3. \A i \in 1 .. received - consumed - n :
            /\ i \in 1 .. received - (consumed + n + 1) + 1
            /\ (consumed + n + 1) + i - 1 = consumed + n + i
      BY <1>3, <1>4
    <3>4. Len(goal) = received - consumed - n
      BY <1>1, <1>3, <1>4, <3>2
    <3>5. \A i \in 1 .. received - consumed - n : goal[i] = script.stream[consumed + n + i]
      BY <3>2, <3>3
    <3> QED BY <3>2, <3>4, <3>5
  <2> HIDE DEF held, goal
  <2>3. /\ rest \in Seq(Units) /\ Len(rest) = received - consumed - n
        /\ \A i \in 1 .. received - consumed - n : rest[i] = held[n + i]
    <3>1. \A i \in n + 1 .. buffer.size : held[i] \in Units
      BY <1>1, <1>3, <1>4, <2>1
    <3>2. /\ rest \in Seq(Units)
          /\ Len(rest) = IF n + 1 <= buffer.size THEN buffer.size - (n + 1) + 1 ELSE 0
          /\ \A i \in 1 .. buffer.size - (n + 1) + 1 : rest[i] = held[(n + 1) + i - 1]
      <4>1. n + 1 \in Int /\ buffer.size \in Int
        BY <1>1, <1>3, <1>4
      <4> QED BY <3>1, <4>1, SubSeqProperties
    <3> HIDE DEF rest
    <3>3. \A i \in 1 .. received - consumed - n :
            i \in 1 .. buffer.size - (n + 1) + 1 /\ (n + 1) + i - 1 = n + i
      BY <1>1, <1>3, <1>4
    <3>4. Len(rest) = received - consumed - n
      BY <1>1, <1>3, <1>4, <3>2
    <3>5. \A i \in 1 .. received - consumed - n : rest[i] = held[n + i]
      BY <3>2, <3>3
    <3> QED BY <3>2, <3>4, <3>5
  <2> HIDE DEF rest
  <2>4. \A i \in 1 .. received - consumed - n : rest[i] = goal[i]
    <3> TAKE i \in 1 .. received - consumed - n
    <3>1. n + i \in 1 .. received - consumed /\ consumed + (n + i) = consumed + n + i
      BY <1>1, <1>3, <1>4
    <3> QED BY <2>1, <2>2, <2>3, <3>1
  <2>5. rest = goal
    BY <2>2, <2>3, <2>4, SeqEqual
  <2>6. script' = script /\ received' = received
    BY DEF CutPacket, peerVars
  <2>7. Contents(buffer)' = Contents(buffer')
    BY DEF Contents, RingPeek, CopyOut, Capacity
  <2>8. Contents(buffer) = held
    BY DEF IInv, BufferHoldsStream, held
  <2>9. Contents(buffer') = goal
    BY <1>6, <2>5, <2>8 DEF rest
  <2>10. goal = SubSeq(script.stream, consumed' + 1, received)
    BY <1>5 DEF goal
  <2> QED BY <2>6, <2>7, <2>9, <2>10 DEF BufferHoldsStream
<1>9. SmallAfterCut'
  BY DEF CutPacket, SmallAfterCut
<1> QED BY <1>7, <1>8, <1>9 DEF IInv

\* Leaving the loop of cuts: what stays is no complete packet.
LEMMA CutEndsIInv ==
    ASSUME IInv, CutEnds
    PROVE  IInv'
<1>1. IsRing(buffer) /\ buffer.size \in Nat
  BY BufferIsRing DEF IInv, TypeOK, IsRing
<1>2. buffer.size < MaxPacket
  <2>1. CASE buffer.size < LengthSize
    BY <1>1, <2>1, InboundAssumption
  <2>2. CASE buffer.size >= LengthSize /\ ~ IllegalLength /\ buffer.size < TotalLength
    <3>1. TotalLength \in Nat /\ TotalLength <= MaxPacket
      BY <1>1, <2>2, LengthIsNat, InboundAssumption DEF IllegalLength
    <3> QED BY <1>1, <2>2, <3>1, InboundAssumption
  <2> QED BY <1>1, <2>1, <2>2 DEF CutEnds
<1>3. sent' \in sent .. Len(script.stream)
  BY StreamType DEF IInv, TypeOK, CutEnds, peerVars
<1>4. /\ UNCHANGED <<script, received, consumed, buffer>>
      /\ peer' \in {"up", "fin", "rst"} /\ ready' \in BOOLEAN /\ pc' = "dispatch"
  BY DEF IInv, TypeOK, CutEnds, peerVars
<1> QED BY <1>2, <1>3, <1>4, ControlStep

\* Every step preserves the invariant.
LEMMA NextIInv == IInv /\ [Next]_vars => IInv'
<1> SUFFICES ASSUME IInv, [Next]_vars PROVE IInv'
  OBVIOUS
<1> DEFINE PCs == {"wait", "recv", "cut", "dispatch", "closed"}
<1>1. /\ sent \in sent .. Len(script.stream) /\ peer \in {"up", "fin", "rst"}
      /\ ready \in BOOLEAN /\ pc \in PCs
      /\ pc \in {"wait", "dispatch"} => buffer.size < MaxPacket
  <2>1. sent \in sent .. Len(script.stream)
    BY StreamType DEF IInv, TypeOK
  <2> QED BY <2>1 DEF IInv, TypeOK, SmallAfterCut
<1>2. CASE PeerSends
  <2>1. sent' \in sent .. Len(script.stream)
    <3>1. sent \in Nat /\ Len(script.stream) \in Nat /\ sent <= Len(script.stream)
      BY StreamType DEF IInv, TypeOK
    <3>2. PICK n \in 1 .. Len(script.stream) - sent : sent' = sent + n
      BY <1>2 DEF PeerSends
    <3> QED BY <3>1, <3>2
  <2>2. UNCHANGED <<script, received, consumed, buffer, peer, pc>> /\ ready' = TRUE
    BY <1>2 DEF PeerSends
  <2> QED BY <1>1, <2>1, <2>2, ControlStep
<1>3. CASE PeerLeaves
  <2>1. /\ UNCHANGED <<script, sent, received, consumed, buffer, pc>> /\ ready' = TRUE
        /\ peer' \in {"up", "fin", "rst"}
    BY <1>3 DEF PeerLeaves
  <2> QED BY <1>1, <2>1, ControlStep
<1>4. CASE EpollWait
  <2>1. /\ UNCHANGED <<script, sent, peer, received, consumed, buffer>> /\ ready' = FALSE
        /\ pc' = "recv"
    BY <1>4 DEF EpollWait, peerVars
  <2> QED BY <1>1, <2>1, ControlStep
<1>5. CASE RecvData
  BY <1>5, RecvDataIInv
<1>6. CASE HandleDisconnect
  <2>1. UNCHANGED <<script, sent, peer, ready, received, consumed, buffer>> /\ pc' = "closed"
    BY <1>6 DEF HandleDisconnect, peerVars
  <2> QED BY <1>1, <2>1, ControlStep
<1>7. CASE RecvEAGAIN
  <2>1. UNCHANGED <<script, sent, peer, ready, received, consumed, buffer>> /\ pc' = "cut"
    BY <1>7 DEF RecvEAGAIN, peerVars
  <2> QED BY <1>1, <2>1, ControlStep
<1>8. CASE CutPacket
  BY <1>8, CutPacketIInv
<1>9. CASE CutEnds
  BY <1>9, CutEndsIInv
<1>10. CASE Dispatch
  <2>1. UNCHANGED <<script, sent, peer, ready, received, consumed, buffer, pc>>
    BY <1>10 DEF Dispatch, peerVars
  <2> QED BY <1>1, <2>1, ControlStep
<1>11. CASE DispatchEnds
  <2>1. /\ UNCHANGED <<script, sent, peer, ready, received, consumed, buffer>> /\ pc' = "wait"
        /\ pc = "dispatch"
    BY <1>11 DEF DispatchEnds, peerVars
  <2> QED BY <1>1, <2>1, ControlStep
<1>12. CASE UNCHANGED vars
  <2>1. UNCHANGED <<script, sent, peer, ready, received, consumed, buffer, pc>>
    BY <1>12 DEF vars
  <2> QED BY <1>1, <2>1, ControlStep
<1> QED
  BY <1>2, <1>3, <1>4, <1>5, <1>6, <1>7, <1>8, <1>9, <1>10, <1>11, <1>12
  DEF Next, HandleRead, RecvEnds, CutBad

\* The counters, the ring and the control state keep their types: the
\* ring's indices stay inside it whatever is appended and consumed.
THEOREM TypeCorrect == Spec => []TypeOK
<1>1. IInv => TypeOK
  BY DEF IInv
<1> QED BY <1>1, InitIInv, NextIInv, PTL DEF Spec

\* The receive buffer holds exactly the units read and not consumed, in
\* order, for every stream, every split of it, every read size and wherever
\* the ring of PoolRecvBuffer wraps or grows.
THEOREM BufferAlwaysHoldsStream == Spec => []BufferHoldsStream
<1>1. IInv => BufferHoldsStream
  BY DEF IInv
<1> QED BY <1>1, InitIInv, NextIInv, PTL DEF Spec

\* When handleRead has returned, less than one packet is left in the
\* buffer.
THEOREM LeftoverAlwaysSmall == Spec => []LeftoverIsSmall
<1>1. IInv => LeftoverIsSmall
  BY DEF IInv, SmallAfterCut, LeftoverIsSmall
<1> QED BY <1>1, InitIInv, NextIInv, PTL DEF Spec

-----------------------------------------------------------------------------
(* Where handleRead cuts the stream.                                        *)

\* Copying units out from any place of a ring on.
LEMMA PeekAt ==
    ASSUME NEW r, IsRing(r), NEW off \in Nat, NEW n \in Nat, off + n <= r.size
    PROVE  /\ DOMAIN RingPeek(r, off, n) = 1 .. n
           /\ \A i \in 1 .. n : RingPeek(r, off, n)[i] = At(r, off + i)
<1> DEFINE cap == Len(r.buf)
           start == Mask(r.read + off, cap)
           first == Smaller(n, cap - start)
<1>1. /\ cap \in Nat \ {0} /\ r.read \in Nat /\ r.read < cap /\ r.size \in Nat /\ r.size <= cap
  BY RecvBufferAssumption DEF IsRing
<1>2. start = IF r.read + off < cap THEN r.read + off ELSE r.read + off - cap
  <2>1. r.read + off \in 0 .. 2 * cap - 1
    BY <1>1
  <2> HIDE DEF cap
  <2> QED BY <1>1, <2>1, MaskValue
<1>3. RingPeek(r, off, n) =
        [i \in 1 .. n |-> IF i <= first THEN r.buf[start + i] ELSE r.buf[i - first]]
  BY DEF RingPeek, CopyOut, Capacity
<1> HIDE DEF start, cap
<1>4. ASSUME NEW i \in 1 .. n
      PROVE  (IF i <= first THEN r.buf[start + i] ELSE r.buf[i - first]) =
             IF r.read + off + i <= cap THEN r.buf[r.read + off + i]
                                        ELSE r.buf[r.read + off + i - cap]
  <2>1. CASE r.read + off < cap
    <3>1. start = r.read + off
      BY <1>2, <2>1
    <3>2. CASE r.read + off + i <= cap
      <4>1. i <= first
        BY <1>1, <3>1, <3>2 DEF Smaller
      <4> QED BY <3>1, <3>2, <4>1
    <3>3. CASE ~ (r.read + off + i <= cap)
      <4>1. ~ (i <= first) /\ i - first = r.read + off + i - cap
        BY <1>1, <2>1, <3>1, <3>3 DEF Smaller
      <4> QED BY <3>3, <4>1
    <3> QED BY <3>2, <3>3
  <2>2. CASE ~ (r.read + off < cap)
    <3>1. start = r.read + off - cap
      BY <1>2, <2>2
    <3>2. i <= first /\ ~ (r.read + off + i <= cap) /\ start + i = r.read + off + i - cap
      BY <1>1, <2>2, <3>1 DEF Smaller
    <3> QED BY <3>2
  <2> QED BY <2>1, <2>2
<1>5. ASSUME NEW i \in 1 .. n PROVE RingPeek(r, off, n)[i] = At(r, off + i)
  <2> DEFINE j == off + i
  <2>1. /\ j \in Nat /\ r.read + j = r.read + off + i
        /\ r.read + j - cap = r.read + off + i - cap
    BY <1>1
  <2>2. At(r, off + i) = IF r.read + off + i <= cap THEN r.buf[r.read + off + i]
                                                    ELSE r.buf[r.read + off + i - cap]
    <3> HIDE DEF j
    <3>1. CASE r.read + j <= cap
      <4>1. At(r, j) = r.buf[r.read + j]
        BY <3>1 DEF At, cap
      <4> QED BY <2>1, <3>1, <4>1 DEF j
    <3>2. CASE ~ (r.read + j <= cap)
      <4>1. At(r, j) = r.buf[r.read + j - cap]
        BY <3>2 DEF At, cap
      <4> QED BY <2>1, <3>2, <4>1 DEF j
    <3> QED BY <3>1, <3>2
  <2>3. RingPeek(r, off, n)[i] = IF i <= first THEN r.buf[start + i] ELSE r.buf[i - first]
    BY <1>3
  <2> QED BY <1>4, <2>2, <2>3
<1>6. DOMAIN RingPeek(r, off, n) = 1 .. n
  BY <1>3
<1> QED BY <1>5, <1>6

\* What a peek at the receive buffer reads is that part of the stream.
LEMMA PeekStream ==
    ASSUME IInv, NEW off \in Nat, NEW n \in Nat, off + n <= buffer.size
    PROVE  /\ DOMAIN RingPeek(buffer, off, n) = 1 .. n
           /\ \A i \in 1 .. n : RingPeek(buffer, off, n)[i] = script.stream[consumed + off + i]
<1>1. IsRing(buffer) /\ buffer.size = received - consumed
  BY BufferIsRing, SizeIs DEF IInv, TypeOK
<1>2. script.stream \in Seq(Units) /\ Len(script.stream) \in Nat
  BY StreamType DEF IInv, TypeOK
<1>3. /\ received \in Nat /\ received <= Len(script.stream)
      /\ consumed \in Nat /\ consumed <= received
  BY <1>2 DEF IInv, TypeOK
<1> DEFINE s == script.stream
           m == consumed + 1
<1>4. \A i \in 1 .. received - consumed : SubSeq(s, m, received)[i] = s[consumed + i]
  <2>1. \A i \in m .. received : s[i] \in Units
    BY <1>2, <1>3
  <2>2. m \in Int /\ received \in Int
    BY <1>3
  <2>3. \A i \in 1 .. received - m + 1 : SubSeq(s, m, received)[i] = s[m + i - 1]
    <3> HIDE DEF s, m
    <3> QED BY <2>1, <2>2, SubSeqProperties
  <2>4. \A i \in 1 .. received - consumed : i \in 1 .. received - m + 1 /\ m + i - 1 = consumed + i
    BY <1>3
  <2> HIDE DEF s, m
  <2> QED BY <2>3, <2>4
<1>5. ASSUME NEW i \in 1 .. n PROVE RingPeek(buffer, off, n)[i] = s[consumed + off + i]
  <2>1. off + i \in 1 .. buffer.size /\ consumed + (off + i) = consumed + off + i
    BY <1>1, <1>3
  <2>2. RingPeek(buffer, off, n)[i] = At(buffer, off + i)
    BY <1>1, PeekAt
  <2>3. Contents(buffer)[off + i] = At(buffer, off + i)
    BY <1>1, <2>1, ContentsAre
  <2>4. Contents(buffer) = SubSeq(s, m, received)
    BY DEF IInv, BufferHoldsStream
  <2>5. SubSeq(s, m, received)[off + i] = s[consumed + (off + i)]
    BY <1>1, <1>4, <2>1
  <2> QED BY <2>1, <2>2, <2>3, <2>4, <2>5
<1>6. DOMAIN RingPeek(buffer, off, n) = 1 .. n
  BY <1>1, PeekAt
<1> QED BY <1>5, <1>6

\* The packet that handleRead makes of the i-th packet of a script.
Body(s, i) == [k \in 1 .. s.packets[i].end - Start(s, i) - HeaderSize |->
                  s.stream[Start(s, i) + HeaderSize + k].field]
Cut(s, i) == [type |-> s.packets[i].type,
              json |-> DecodeProtoToJson(s.packets[i].type, Body(s, i))]
Cuts(s) == {Cut(s, i) : i \in DOMAIN s.packets}

\* The packets cut so far.
Count == Len(dispatched) + Len(pendingPackets)

\* They are the first packets of the stream, in order, and what was consumed
\* ends where the last of them does.
Cutting ==
    /\ dispatched \in Seq([packet : Cuts(script), how : {"answer", "task", "busy"}])
    /\ pendingPackets \in Seq(Cuts(script))
    /\ Count <= Len(Packets)
    /\ pc # "closed" => consumed = EndOf(Count)
    /\ \A i \in 1 .. Len(dispatched) :
          Packets[i].legal /\ dispatched[i].packet = Cut(script, i)
    /\ \A i \in 1 .. Len(pendingPackets) :
          /\ Packets[Len(dispatched) + i].legal
          /\ pendingPackets[i] = Cut(script, Len(dispatched) + i)

\* What handleRead has left behind at each point: nothing undispatched while it
\* reads, nothing unread without an event afterwards, no packet uncut at the end.
Watching ==
    /\ pc \in {"wait", "recv", "closed"} => pendingPackets = <<>>
    /\ pc \in {"cut", "dispatch", "wait"} /\ ~ready => received = sent
    /\ pc \in {"dispatch", "wait"} /\ Count < Len(Packets) => received < EndOf(Count + 1)

\* The packets of a script are a sequence.
LEMMA PacketsType ==
    ASSUME script \in Scripts
    PROVE  /\ Len(Packets) \in Nat /\ DOMAIN Packets = 1 .. Len(Packets)
           /\ \A n \in 0 .. Len(Packets) : EndOf(n) = Start(script, n + 1)
           /\ EndOf(Len(Packets)) = Len(script.stream)
<1>1. Framed(script)
  BY ScriptsAssumption
<1>2. Len(Packets) \in Nat /\ DOMAIN Packets = 1 .. Len(Packets)
  <2>1. Packets \in Seq({Packets[i] : i \in DOMAIN Packets})
    BY <1>1 DEF Framed, Packets
  <2> QED BY <2>1
<1>3. ASSUME NEW n \in 0 .. Len(Packets) PROVE EndOf(n) = Start(script, n + 1)
  <2>1. CASE n = 0
    BY <2>1 DEF EndOf, Start
  <2>2. CASE n # 0
    <3>1. n + 1 # 1 /\ (n + 1) - 1 = n
      BY <1>2, <2>2
    <3> QED BY <2>2, <3>1 DEF EndOf, Start, Packets
  <2> QED BY <2>1, <2>2
<1>4. EndOf(Len(Packets)) = Len(script.stream)
  <2>1. Len(Packets) \in 0 .. Len(Packets)
    BY <1>2
  <2> QED BY <1>1, <1>3, <2>1 DEF Framed, Packets
<1> QED BY <1>2, <1>3, <1>4

\* What Framed says of the packet after the first n.
LEMMA NextPacket ==
    ASSUME script \in Scripts, NEW n \in Nat, n < Len(Packets)
    PROVE  LET e == EndOf(n)
               p == Packets[n + 1]
               len == NumberAt(script, e)
           IN  /\ n + 1 \in DOMAIN Packets
               /\ e \in Nat /\ e + LengthSize <= p.end /\ p.end <= Len(script.stream)
               /\ p.end \in Nat /\ EndOf(n + 1) = p.end /\ Start(script, n + 1) = e
               /\ p.legal = (len >= HeaderSize /\ len <= MaxPacket)
               /\ p.legal => p.end = e + len /\ p.type = NumberAt(script, e + LengthSize)
               /\ ~p.legal => p.end = e + LengthSize
<1>1. Framed(script)
  BY ScriptsAssumption
<1>2. n + 1 \in DOMAIN Packets /\ n \in 0 .. Len(Packets) /\ n + 1 # 0
  BY PacketsType
<1>3. Start(script, n + 1) = EndOf(n)
  BY <1>2, PacketsType
<1>4. EndOf(n) \in Nat
  <2>1. CASE n = 0
    BY <2>1 DEF EndOf
  <2>2. CASE n # 0
    <3>1. n \in DOMAIN Packets
      BY <1>2, <2>2, PacketsType
    <3> QED BY <1>1, <2>2, <3>1 DEF Framed, EndOf, Packets
  <2> QED BY <2>1, <2>2
<1>5. EndOf(n + 1) = Packets[n + 1].end
  BY <1>2 DEF EndOf
<1> DEFINE p == Packets[n + 1]
           e == EndOf(n)
           len == NumberAt(script, e)
<1>6. /\ p.end \in Nat /\ e + LengthSize <= p.end /\ p.end <= Len(script.stream)
      /\ p.legal = (len >= HeaderSize /\ len <= MaxPacket)
      /\ p.end = e + IF p.legal THEN len ELSE LengthSize
      /\ p.legal => p.type = NumberAt(script, e + LengthSize)
  BY <1>1, <1>2, <1>3 DEF Framed, Packets
<1> QED BY <1>2, <1>3, <1>4, <1>5, <1>6

\* The length and the type that handleRead reads are those at the place in the
\* stream where the buffer starts.
LEMMA HeaderRead ==
    ASSUME IInv, NEW off \in Nat, off + LengthSize <= buffer.size
    PROVE  Number(RingPeek(buffer, off, LengthSize)) = NumberAt(script, consumed + off)
<1> DEFINE d == RingPeek(buffer, off, LengthSize)
<1>1. d[1] = script.stream[consumed + off + 1] /\ d[2] = script.stream[consumed + off + 2]
  BY PeekStream
<1> HIDE DEF d
<1>2. Number(d) = Number(<<script.stream[consumed + off + 1], script.stream[consumed + off + 2]>>)
  BY <1>1 DEF Number
<1> QED BY <1>2 DEF NumberAt, d

\* So are the fields of the body.
LEMMA BodyRead ==
    ASSUME IInv, NEW n \in Nat, HeaderSize + n <= buffer.size,
           NEW body, body = RingPeek(buffer, HeaderSize, n)
    PROVE  [i \in DOMAIN body |-> body[i].field] =
           [k \in 1 .. n |-> script.stream[consumed + HeaderSize + k].field]
<1>1. /\ DOMAIN body = 1 .. n
      /\ \A i \in 1 .. n : body[i] = script.stream[consumed + HeaderSize + i]
  <2>1. HeaderSize \in Nat
    OBVIOUS
  <2> QED BY <2>1, PeekStream
<1> QED BY <1>1

\* A step that cuts and dispatches nothing.
LEMMA CuttingKept ==
    ASSUME Cutting, UNCHANGED <<script, consumed, pendingPackets, dispatched>>,
           pc = "closed" => pc' = "closed"
    PROVE  Cutting'
BY DEF Cutting, Count, EndOf, Packets

\* handleDisconnect drops what was cut and not dispatched.
LEMMA DisconnectFrames ==
    ASSUME IInv, Cutting, HandleDisconnect
    PROVE  Cutting' /\ Watching'
<1>1. /\ pc' = "closed" /\ pendingPackets' = <<>>
      /\ UNCHANGED <<script, dispatched>>
  BY DEF HandleDisconnect, peerVars
<1>2. Len(dispatched) \in Nat /\ Len(pendingPackets) \in Nat /\ Len(Packets) \in Nat
  BY PacketsType DEF Cutting, IInv, TypeOK
<1>3. Packets' = Packets /\ Cuts(script)' = Cuts(script)
  BY <1>1 DEF Packets, Cuts, Cut, Body, Start
<1>4. pendingPackets' \in Seq(Cuts(script)) /\ Len(pendingPackets') = 0
  BY <1>1
<1>5. Count' <= Len(Packets)
  BY <1>1, <1>2, <1>4 DEF Cutting, Count
<1>6. \A i \in 1 .. Len(dispatched) : Packets[i].legal /\ dispatched[i].packet = Cut(script, i)
  BY DEF Cutting
<1>7. Cutting'
  BY <1>1, <1>3, <1>4, <1>5, <1>6 DEF Cutting
<1>8. Watching'
  BY <1>1 DEF Watching
<1> QED BY <1>7, <1>8

\* The length that handleRead reads when it has cut n packets is that of the
\* next one, which is there.
LEMMA NextLength ==
    ASSUME IInv, Cutting, pc = "cut", buffer.size >= LengthSize
    PROVE  /\ Count \in Nat /\ Count < Len(Packets) /\ consumed = EndOf(Count)
           /\ TotalLength = NumberAt(script, EndOf(Count))
           /\ TotalLength \in Nat
<1>1. IsRing(buffer) /\ buffer.size = received - consumed
  BY BufferIsRing, SizeIs DEF IInv, TypeOK
<1>2. /\ script \in Scripts /\ received \in Nat /\ received <= Len(script.stream)
      /\ consumed \in Nat /\ Len(script.stream) \in Nat
  BY StreamType DEF IInv, TypeOK
<1>3. Count \in Nat /\ Count <= Len(Packets) /\ Len(Packets) \in Nat /\ consumed = EndOf(Count)
  BY <1>2, PacketsType DEF Cutting, Count
<1>4. Count # Len(Packets)
  <2>1. EndOf(Len(Packets)) = Len(script.stream)
    BY <1>2, PacketsType
  <2>2. consumed # Len(script.stream)
    BY <1>1, <1>2
  <2> QED BY <1>3, <2>1, <2>2
<1>5. TotalLength = NumberAt(script, consumed)
  <2>1. consumed + 0 = consumed /\ 0 + LengthSize <= buffer.size
    BY <1>1, <1>2
  <2>2. Number(RingPeek(buffer, 0, LengthSize)) = NumberAt(script, consumed + 0)
    BY <2>1, HeaderRead
  <2> QED BY <2>1, <2>2 DEF TotalLength
<1>6. TotalLength \in Nat
  BY <1>1, LengthIsNat
<1> QED BY <1>3, <1>4, <1>5, <1>6

\* CutPacket cuts the next packet of the stream.
LEMMA CutPacketFrames ==
    ASSUME IInv, Cutting, Watching, CutPacket
    PROVE  Cutting' /\ Watching'
<1> DEFINE n == Count
           e == EndOf(n)
           len == TotalLength
           p == Packets[n + 1]
<1>1. /\ pc = "cut" /\ pc' = "cut" /\ buffer.size >= LengthSize /\ ~IllegalLength
      /\ buffer.size >= len /\ consumed' = consumed + len
      /\ UNCHANGED <<script, sent, ready, received, dispatched>>
  BY DEF CutPacket, peerVars
<1>2. /\ n \in Nat /\ n < Len(Packets) /\ consumed = e /\ len = NumberAt(script, e)
      /\ len \in Nat
  BY <1>1, NextLength
<1>3. script \in Scripts /\ buffer.size \in Nat
  BY BufferIsRing DEF IInv, TypeOK, IsRing
<1>4. len >= HeaderSize /\ len <= MaxPacket
  BY <1>1, <1>2, InboundAssumption DEF IllegalLength
<1>5. /\ p.legal /\ p.end = e + len /\ p.type = NumberAt(script, e + LengthSize)
      /\ n + 1 \in DOMAIN Packets /\ e \in Nat /\ EndOf(n + 1) = e + len
      /\ Start(script, n + 1) = e
  BY <1>2, <1>3, <1>4, NextPacket
<1> DEFINE type == Number(RingPeek(buffer, LengthSize, HeaderSize - LengthSize))
           body == RingPeek(buffer, HeaderSize, len - HeaderSize)
           fields == [i \in DOMAIN body |-> body[i].field]
           new == [type |-> type, json |-> DecodeProtoToJson(type, fields)]
<1>6. pendingPackets' = Append(pendingPackets, new)
  BY DEF CutPacket
<1>7. type = p.type
  <2>1. HeaderSize - LengthSize = LengthSize /\ LengthSize \in Nat
        /\ LengthSize + LengthSize <= buffer.size
    BY <1>1, <1>2, <1>3, <1>4
  <2>2. type = NumberAt(script, consumed + LengthSize)
    BY <2>1, HeaderRead
  <2> QED BY <1>2, <1>5, <2>2
<1>8. fields = Body(script, n + 1)
  <2>1. len - HeaderSize \in Nat /\ HeaderSize + (len - HeaderSize) <= buffer.size
    BY <1>1, <1>2, <1>3, <1>4
  <2>2. fields = [k \in 1 .. len - HeaderSize |-> script.stream[consumed + HeaderSize + k].field]
    <3> DEFINE m == len - HeaderSize
    <3> HIDE DEF m
    <3>1. m \in Nat /\ HeaderSize + m <= buffer.size
      BY <2>1 DEF m
    <3>2. [i \in DOMAIN RingPeek(buffer, HeaderSize, m) |->
              RingPeek(buffer, HeaderSize, m)[i].field] =
          [k \in 1 .. m |-> script.stream[consumed + HeaderSize + k].field]
      BY <3>1, BodyRead
    <3> QED BY <3>2 DEF m
  <2>3. script.packets[n + 1].end - Start(script, n + 1) - HeaderSize = len - HeaderSize
    BY <1>2, <1>5 DEF Packets
  <2>4. Start(script, n + 1) = consumed
    BY <1>2, <1>5
  <2> HIDE DEF fields, n, len
  <2> QED BY <2>2, <2>3, <2>4 DEF Body
<1> HIDE DEF fields, type, len, e
<1>9. new = Cut(script, n + 1)
  BY <1>7, <1>8 DEF Cut, Packets
<1>10. new \in Cuts(script)
  BY <1>5, <1>9 DEF Cuts, Packets
<1> HIDE DEF new
<1>11. /\ pendingPackets \in Seq(Cuts(script)) /\ Len(pendingPackets) \in Nat
       /\ Len(dispatched) \in Nat
  BY DEF Cutting
<1>12. /\ pendingPackets' \in Seq(Cuts(script))
       /\ Len(pendingPackets') = Len(pendingPackets) + 1
       /\ pendingPackets'[Len(pendingPackets) + 1] = new
       /\ \A i \in 1 .. Len(pendingPackets) : pendingPackets'[i] = pendingPackets[i]
  BY <1>6, <1>10, <1>11
<1>13. Count' = n + 1
  BY <1>1, <1>11, <1>12 DEF Count
<1>14. Packets' = Packets /\ EndOf(Count)' = EndOf(n + 1)
  BY <1>1, <1>13 DEF Packets, EndOf
<1>15. ASSUME NEW i \in 1 .. Len(pendingPackets')
       PROVE  /\ Packets[Len(dispatched) + i].legal
              /\ pendingPackets'[i] = Cut(script, Len(dispatched) + i)
  <2>1. CASE i = Len(pendingPackets) + 1
    <3>1. Len(dispatched) + i = n + 1
      BY <1>11, <2>1 DEF Count
    <3> QED BY <1>5, <1>9, <1>12, <2>1, <3>1
  <2>2. CASE i # Len(pendingPackets) + 1
    <3>1. i \in 1 .. Len(pendingPackets)
      BY <1>11, <1>12, <2>2
    <3> QED BY <1>12, <3>1 DEF Cutting
  <2> QED BY <2>1, <2>2
<1>16. n + 1 <= Len(Packets)
  BY <1>2, <1>3, PacketsType
<1>17. Cutting'
  <2>1. consumed' = EndOf(n + 1)
    BY <1>1, <1>2, <1>5
  <2>2. Cuts(script)' = Cuts(script)
    BY <1>1 DEF Cuts, Cut, Body, Start
  <2>3. dispatched' \in Seq([packet : Cuts(script), how : {"answer", "task", "busy"}])
    BY <1>1 DEF Cutting
  <2>4. \A i \in 1 .. Len(dispatched) : Packets[i].legal /\ dispatched[i].packet = Cut(script, i)
    BY DEF Cutting
  <2> HIDE DEF n
  <2> QED BY <1>1, <1>12, <1>13, <1>14, <1>15, <1>16, <2>1, <2>2, <2>3, <2>4 DEF Cutting
<1>18. Watching'
  BY <1>1 DEF Watching
<1> QED BY <1>17, <1>18

\* The loop of cuts ends before the next packet is complete.
LEMMA CutEndsFrames ==
    ASSUME IInv, Cutting, Watching, CutEnds
    PROVE  Cutting' /\ Watching'
<1>1. /\ pc = "cut" /\ pc' = "dispatch"
      /\ UNCHANGED <<script, sent, ready, received, consumed, buffer, pendingPackets, dispatched>>
  BY DEF CutEnds, peerVars
<1>2. Cutting'
  BY <1>1, CuttingKept
<1>3. ASSUME Count < Len(Packets) PROVE received < EndOf(Count + 1)
  <2>1. buffer.size = received - consumed /\ script \in Scripts
    BY SizeIs DEF IInv, TypeOK
  <2>2. received \in Nat /\ consumed \in Nat
    BY StreamType DEF IInv, TypeOK
  <2>3. Count \in Nat /\ consumed = EndOf(Count)
    BY <1>1 DEF Cutting, Count
  <2> DEFINE p == Packets[Count + 1]
             len == NumberAt(script, EndOf(Count))
  <2>4. /\ EndOf(Count + 1) = p.end /\ p.end \in Nat /\ EndOf(Count) + LengthSize <= p.end
        /\ p.legal = (len >= HeaderSize /\ len <= MaxPacket)
        /\ p.legal => p.end = EndOf(Count) + len
    BY <1>3, <2>1, <2>3, NextPacket
  <2> HIDE DEF len, p
  <2>5. CASE buffer.size < LengthSize
    BY <2>1, <2>2, <2>3, <2>4, <2>5
  <2>6. CASE ~ (buffer.size < LengthSize)
    <3>1. ~IllegalLength /\ buffer.size < TotalLength
      BY <2>6 DEF CutEnds
    <3>2. buffer.size >= LengthSize
      BY <2>1, <2>2, <2>6
    <3>3. TotalLength = len /\ len \in Nat
      BY <1>1, <3>2, NextLength DEF len
    <3>4. p.legal
      <4>1. ~ (len < HeaderSize) /\ ~ (len > MaxPacket)
        BY <3>1, <3>3 DEF IllegalLength
      <4>2. len >= HeaderSize /\ len <= MaxPacket
        BY <3>3, <4>1, InboundAssumption DEF HeaderSize
      <4> QED BY <2>4, <4>2
    <3> QED BY <2>1, <2>2, <2>3, <2>4, <3>1, <3>3, <3>4
  <2> QED BY <2>5, <2>6
<1>4. Packets' = Packets /\ Count' = Count /\ EndOf(Count + 1)' = EndOf(Count + 1)
  BY <1>1 DEF Packets, Count, EndOf
<1>5. Watching'
  BY <1>1, <1>3, <1>4 DEF Watching
<1> QED BY <1>2, <1>5

\* Dispatch hands on the oldest of the packets cut.
LEMMA DispatchFrames ==
    ASSUME IInv, Cutting, Watching, Dispatch
    PROVE  Cutting' /\ Watching'
<1> DEFINE S == [packet : Cuts(script), how : {"answer", "task", "busy"}]
<1>1. PICK how \in {"answer", "task", "busy"} :
          dispatched' = Append(dispatched, [packet |-> Head(pendingPackets), how |-> how])
  BY DEF Dispatch, Outcomes
<1>2. /\ pendingPackets # <<>> /\ pendingPackets' = Tail(pendingPackets)
      /\ pc = "dispatch" /\ UNCHANGED <<script, sent, ready, received, consumed, pc>>
  BY DEF Dispatch, peerVars
<1>3. /\ pendingPackets \in Seq(Cuts(script)) /\ Len(pendingPackets) \in Nat
      /\ dispatched \in Seq(S) /\ Len(dispatched) \in Nat
  BY DEF Cutting
<1>4. /\ Len(pendingPackets) > 0 /\ Head(pendingPackets) = pendingPackets[1]
      /\ pendingPackets[1] \in Cuts(script)
      /\ pendingPackets' \in Seq(Cuts(script)) /\ Len(pendingPackets') = Len(pendingPackets) - 1
      /\ \A i \in 1 .. Len(pendingPackets) - 1 : pendingPackets'[i] = pendingPackets[i + 1]
  BY <1>2, <1>3
<1> DEFINE new == [packet |-> Head(pendingPackets), how |-> how]
<1>5. new \in S /\ new.packet = pendingPackets[1]
  BY <1>4
<1> HIDE DEF new, S
<1>6. /\ dispatched' \in Seq(S) /\ Len(dispatched') = Len(dispatched) + 1
      /\ dispatched'[Len(dispatched) + 1] = new
      /\ \A i \in 1 .. Len(dispatched) : dispatched'[i] = dispatched[i]
  <2>1. dispatched' = Append(dispatched, new)
    BY <1>1 DEF new
  <2> QED BY <1>3, <1>5, <2>1
<1>7. Count' = Count
  BY <1>3, <1>4, <1>6 DEF Count
<1>8. Packets' = Packets /\ EndOf(Count)' = EndOf(Count) /\ EndOf(Count + 1)' = EndOf(Count + 1)
  BY <1>2, <1>7 DEF Packets, EndOf
<1>9. ASSUME NEW i \in 1 .. Len(dispatched')
      PROVE  Packets[i].legal /\ dispatched'[i].packet = Cut(script, i)
  <2>1. CASE i = Len(dispatched) + 1
    <3>1. 1 \in 1 .. Len(pendingPackets)
      BY <1>3, <1>4
    <3>2. Packets[Len(dispatched) + 1].legal /\ pendingPackets[1] = Cut(script, Len(dispatched) + 1)
      BY <3>1 DEF Cutting
    <3> QED BY <1>5, <1>6, <2>1, <3>2
  <2>2. CASE i # Len(dispatched) + 1
    <3>1. i \in 1 .. Len(dispatched)
      BY <1>3, <1>6, <2>2
    <3> QED BY <1>6, <3>1 DEF Cutting
  <2> QED BY <2>1, <2>2
<1>10. ASSUME NEW i \in 1 .. Len(pendingPackets')
       PROVE  /\ Packets[Len(dispatched') + i].legal
              /\ pendingPackets'[i] = Cut(script, Len(dispatched') + i)
  <2>1. /\ i + 1 \in 1 .. Len(pendingPackets) /\ i \in 1 .. Len(pendingPackets) - 1
        /\ Len(dispatched') + i = Len(dispatched) + (i + 1)
    BY <1>3, <1>4, <1>6
  <2>2. /\ Packets[Len(dispatched) + (i + 1)].legal
        /\ pendingPackets[i + 1] = Cut(script, Len(dispatched) + (i + 1))
    BY <2>1 DEF Cutting
  <2> QED BY <1>4, <2>1, <2>2
<1>11. Cuts(script)' = Cuts(script)
  BY <1>2 DEF Cuts, Cut, Body, Start
<1>12. Cutting'
  BY <1>2, <1>4, <1>6, <1>7, <1>8, <1>9, <1>10, <1>11 DEF Cutting, S
<1>13. Watching'
  BY <1>2, <1>7, <1>8 DEF Watching
<1> QED BY <1>12, <1>13

\* Every step keeps the packets as the stream has them.
LEMMA NextFrames == IInv /\ Cutting /\ Watching /\ [Next]_vars => Cutting' /\ Watching'
<1> SUFFICES ASSUME IInv, Cutting, Watching, [Next]_vars PROVE Cutting' /\ Watching'
  OBVIOUS
<1>0. ASSUME UNCHANGED <<script, consumed, pendingPackets, dispatched>>
      PROVE  Packets' = Packets /\ Count' = Count /\ EndOf(Count + 1)' = EndOf(Count + 1)
  BY <1>0 DEF Packets, Count, EndOf
<1>1. CASE PeerSends \/ PeerLeaves
  <2>1. /\ UNCHANGED <<script, received, consumed, pendingPackets, dispatched, pc>> /\ ready'
    BY <1>1 DEF PeerSends, PeerLeaves
  <2> QED BY <1>0, <2>1, CuttingKept DEF Watching
<1>2. CASE EpollWait \/ RecvData
  <2>1. UNCHANGED <<script, consumed, pendingPackets, dispatched>>
        /\ pc' = "recv" /\ pc \in {"wait", "recv"}
    BY <1>2 DEF EpollWait, RecvData, peerVars
  <2> QED BY <2>1, CuttingKept DEF Watching
<1>3. CASE RecvEAGAIN
  <2>1. UNCHANGED <<script, sent, received, consumed, pendingPackets, dispatched>>
        /\ pc' = "cut" /\ pc = "recv" /\ received = sent
    BY <1>3 DEF RecvEAGAIN, peerVars
  <2> QED BY <2>1, CuttingKept DEF Watching
<1>4. CASE DispatchEnds
  <2>1. UNCHANGED <<script, sent, ready, received, consumed, pendingPackets, dispatched>>
        /\ pc' = "wait" /\ pc = "dispatch" /\ pendingPackets = <<>>
    BY <1>4 DEF DispatchEnds, peerVars
  <2> QED BY <1>0, <2>1, CuttingKept DEF Watching
<1>5. CASE UNCHANGED vars
  <2>1. UNCHANGED <<script, sent, ready, received, consumed, pendingPackets, dispatched, pc>>
    BY <1>5 DEF vars
  <2> QED BY <1>0, <2>1, CuttingKept DEF Watching
<1>6. CASE CutPacket
  BY <1>6, CutPacketFrames
<1>7. CASE CutEnds
  BY <1>7, CutEndsFrames
<1>8. CASE Dispatch
  BY <1>8, DispatchFrames
<1>9. CASE HandleDisconnect
  BY <1>9, DisconnectFrames
<1> QED
  BY <1>1, <1>2, <1>3, <1>4, <1>5, <1>6, <1>7, <1>8, <1>9
  DEF Next, HandleRead, RecvEnds, CutBad

\* In every reachable state the packets are as the stream has them.
LEMMA Framing == Spec => [](IInv /\ Cutting /\ Watching)
<1>1. Init => Cutting /\ Watching
  <2> SUFFICES ASSUME Init PROVE Cutting /\ Watching
    OBVIOUS
  <2>1. /\ script \in Scripts /\ received = 0 /\ sent = 0 /\ consumed = 0
        /\ dispatched = <<>> /\ pendingPackets = <<>> /\ pc = "wait"
    BY DEF Init
  <2>2. Count = 0 /\ Len(Packets) \in Nat /\ EndOf(Count) = 0
    BY <2>1, PacketsType DEF Count, EndOf
  <2>3. Cutting
    BY <2>1, <2>2 DEF Cutting
  <2>4. ASSUME Count < Len(Packets) PROVE received < EndOf(Count + 1)
    <3>1. /\ EndOf(Count + 1) = Packets[Count + 1].end /\ Packets[Count + 1].end \in Nat
          /\ EndOf(Count) + LengthSize <= Packets[Count + 1].end
      BY <2>1, <2>2, <2>4, NextPacket
    <3> QED BY <2>1, <2>2, <3>1 DEF LengthSize
  <2> QED BY <2>1, <2>3, <2>4 DEF Watching
<1> QED BY <1>1, InitIInv, NextIInv, NextFrames, PTL DEF Spec

\* An edge-triggered event is never used up with work left: whatever the stream,
\* its split and the read size, when the thread waits without an event everything
\* that arrived was read and every complete packet was dispatched.
THEOREM NothingEverOverlooked == Spec => []NothingOverlooked
<1>1. IInv /\ Cutting /\ Watching => NothingOverlooked
  <2> SUFFICES ASSUME IInv, Cutting, Watching, pc = "wait", ~ready
               PROVE  /\ received = sent
                      /\ Len(dispatched) < Len(Packets) => sent < EndOf(Len(dispatched) + 1)
    BY DEF NothingOverlooked
  <2>1. pendingPackets = <<>> /\ received = sent
    BY DEF Watching
  <2>2. Count = Len(dispatched)
    BY <2>1 DEF Cutting, Count
  <2> QED BY <2>1, <2>2 DEF Watching
<1> QED BY <1>1, Framing, PTL

\* The packets handed on are the first packets of the stream, each once, in
\* order, none past an illegal length, each with its own type and fields.
CutAsSent ==
    /\ Len(Handed) <= Len(Packets)
    /\ pc # "closed" => consumed = EndOf(Len(Handed))
    /\ DOMAIN Handed = 1 .. Len(Handed)
    /\ \A i \in DOMAIN Handed : i \in DOMAIN Packets /\ Packets[i].legal /\ Handed[i] = Cut(script, i)

\* What was dispatched and what is still to be form one sequence of packets.
LEMMA HandedIs ==
    ASSUME IInv, Cutting PROVE CutAsSent
<1> DEFINE f == [i \in DOMAIN dispatched |-> dispatched[i].packet]
<1>1. /\ pendingPackets \in Seq(Cuts(script)) /\ Len(pendingPackets) \in Nat
      /\ Len(dispatched) \in Nat /\ DOMAIN dispatched = 1 .. Len(dispatched)
      /\ \A i \in DOMAIN dispatched : dispatched[i].packet \in Cuts(script)
  <2> DEFINE S == [packet : Cuts(script), how : {"answer", "task", "busy"}]
  <2>1. pendingPackets \in Seq(Cuts(script)) /\ dispatched \in Seq(S)
    BY DEF Cutting
  <2>2. \A d \in S : d.packet \in Cuts(script)
    OBVIOUS
  <2> HIDE DEF S
  <2> QED BY <2>1, <2>2
<1>2. /\ f \in Seq(Cuts(script)) /\ Len(f) = Len(dispatched)
      /\ \A i \in 1 .. Len(f) : f[i] = dispatched[i].packet
  <2>1. f \in [1 .. Len(dispatched) -> Cuts(script)]
    BY <1>1
  <2>2. f \in Seq(Cuts(script))
    <3> HIDE DEF f
    <3> QED BY <1>1, <2>1, SeqDef
  <2>3. Len(f) \in Nat /\ DOMAIN f = 1 .. Len(f)
    <3> HIDE DEF f
    <3> QED BY <2>2, LenProperties
  <2>4. DOMAIN f = 1 .. Len(dispatched)
    BY <1>1
  <2>5. Len(f) = Len(dispatched)
    <3> HIDE DEF f
    <3>1. ASSUME Len(f) < Len(dispatched) PROVE FALSE
      <4>1. Len(dispatched) \in 1 .. Len(dispatched) /\ Len(dispatched) \notin 1 .. Len(f)
        BY <1>1, <2>3, <3>1
      <4> QED BY <2>3, <2>4, <4>1
    <3>2. ASSUME Len(dispatched) < Len(f) PROVE FALSE
      <4>1. Len(f) \in 1 .. Len(f) /\ Len(f) \notin 1 .. Len(dispatched)
        BY <1>1, <2>3, <3>2
      <4> QED BY <2>3, <2>4, <4>1
    <3>3. Len(f) \in Nat /\ Len(dispatched) \in Nat
      BY <1>1, <2>3
    <3> QED BY <3>1, <3>2, <3>3
  <2>6. \A i \in 1 .. Len(dispatched) : f[i] = dispatched[i].packet
    BY <1>1
  <2> HIDE DEF f
  <2> QED BY <2>2, <2>5, <2>6
<1> HIDE DEF f
<1>3. Handed = f \o pendingPackets
  BY DEF Handed, f
<1>4. /\ Len(Handed) = Count /\ DOMAIN Handed = 1 .. Len(Handed)
      /\ \A i \in 1 .. Len(Handed) :
            Handed[i] = IF i <= Len(f) THEN f[i] ELSE pendingPackets[i - Len(f)]
  <2> DEFINE h == f \o pendingPackets
  <2>1. /\ h \in Seq(Cuts(script)) /\ Len(h) = Len(f) + Len(pendingPackets)
        /\ \A i \in 1 .. Len(f) + Len(pendingPackets) :
              h[i] = IF i <= Len(f) THEN f[i] ELSE pendingPackets[i - Len(f)]
    BY <1>1, <1>2, ConcatProperties
  <2>2. Handed = h
    BY <1>3
  <2> HIDE DEF h
  <2>3. DOMAIN h = 1 .. Len(h)
    BY <2>1, LenProperties
  <2>4. Count = Len(h)
    BY <1>2, <2>1 DEF Count
  <2> QED BY <2>1, <2>2, <2>3, <2>4
<1>5. ASSUME NEW i \in 1 .. Len(Handed) PROVE Packets[i].legal /\ Handed[i] = Cut(script, i)
  <2>1. CASE i <= Len(f)
    <3>1. i \in 1 .. Len(dispatched) /\ Handed[i] = f[i] /\ f[i] = dispatched[i].packet
      BY <1>1, <1>2, <1>4, <2>1
    <3> QED BY <3>1 DEF Cutting
  <2>2. CASE ~ (i <= Len(f))
    <3> DEFINE j == i - Len(dispatched)
    <3>1. j \in 1 .. Len(pendingPackets) /\ Len(dispatched) + j = i
      BY <1>1, <1>2, <1>4, <2>2 DEF Count
    <3>2. Handed[i] = pendingPackets[j]
      BY <1>2, <1>4, <2>2
    <3> HIDE DEF j
    <3>3. Packets[Len(dispatched) + j].legal /\ pendingPackets[j] = Cut(script, Len(dispatched) + j)
      BY <3>1 DEF Cutting
    <3> QED BY <3>1, <3>2, <3>3
  <2> QED BY <2>1, <2>2
<1>6. Len(Packets) \in Nat /\ DOMAIN Packets = 1 .. Len(Packets)
  BY PacketsType DEF IInv, TypeOK
<1>7. Len(Handed) <= Len(Packets) /\ (pc # "closed" => consumed = EndOf(Len(Handed)))
  BY <1>4 DEF Cutting
<1>8. Count \in Nat
  BY <1>1 DEF Count
<1>9. \A i \in DOMAIN Handed : i \in DOMAIN Packets
  BY <1>4, <1>6, <1>7, <1>8
<1> QED BY <1>4, <1>5, <1>7, <1>9 DEF CutAsSent

\* handleRead cuts the stream exactly where the peer's packets end, whatever the
\* stream, its split by the network and by recv, and wherever the ring wraps or
\* grows: the packets handed on are the first of the stream, once each, in order,
\* and none after an illegal length.
THEOREM StreamAlwaysCutAsSent == Spec => []CutAsSent
<1>1. IInv /\ Cutting /\ Watching => CutAsSent
  BY HandedIs
<1> QED BY <1>1, Framing, PTL

\* The codec carries the packets of a script: what processPacket reads of the
\* body of each is what the peer put in it (the target of a chat message apart).
\* A property of the script and of the codec alone, of no reachable state.
Carried(s) ==
    \A i \in DOMAIN s.packets :
        LET read == Request(s.packets[i].type, Cut(s, i).json)
            meant == s.packets[i].request
        IN  s.packets[i].legal =>
              /\ DOMAIN read = DOMAIN meant
              /\ \A k \in DOMAIN read :
                    \/ s.packets[i].type = 1 /\ k = "target"
                    \/ read[k] = IF k = "msg_ids" THEN meant[k] ELSE FirstPiece(meant[k])

\* Where the codec carries each packet alone, handleRead and processPacket carry
\* every stream of them: no split, wrap, growth or order of events can change what
\* is read from a packet.
THEOREM PacketsAlwaysAsSent ==
    ASSUME \A s \in Scripts : Carried(s)
    PROVE  Spec => []PacketsAsSent
<1>1. IInv /\ Cutting /\ Watching => PacketsAsSent
  <2> SUFFICES ASSUME IInv, Cutting PROVE PacketsAsSent
    OBVIOUS
  <2>1. CutAsSent
    BY HandedIs
  <2>2. Carried(script)
    BY DEF IInv, TypeOK
  <2>3. ASSUME NEW i \in DOMAIN Handed
        PROVE  LET read == Request(Handed[i].type, Handed[i].json)
                   meant == Packets[i].request
               IN  /\ Packets[i].legal
                   /\ Handed[i].type = Packets[i].type
                   /\ DOMAIN read = DOMAIN meant
                   /\ \A k \in DOMAIN read :
                         \/ Handed[i].type = 1 /\ k = "target"
                         \/ read[k] = IF k = "msg_ids" THEN meant[k] ELSE FirstPiece(meant[k])
    <3>1. /\ i \in DOMAIN script.packets /\ script.packets[i].legal
          /\ Handed[i] = Cut(script, i)
      BY <2>1 DEF CutAsSent, Packets
    <3>2. Cut(script, i).type = script.packets[i].type
      BY DEF Cut
    <3>3. LET read == Request(script.packets[i].type, Cut(script, i).json)
              meant == script.packets[i].request
          IN  /\ DOMAIN read = DOMAIN meant
              /\ \A k \in DOMAIN read :
                    \/ script.packets[i].type = 1 /\ k = "target"
                    \/ read[k] = IF k = "msg_ids" THEN meant[k] ELSE FirstPiece(meant[k])
      BY <2>2, <3>1 DEF Carried
    <3>4. /\ Handed[i].type = script.packets[i].type /\ Handed[i].json = Cut(script, i).json
          /\ Packets[i] = script.packets[i]
      BY <3>1, <3>2 DEF Packets
    <3> QED BY <3>1, <3>3, <3>4
  <2> QED BY <2>1, <2>3 DEF PacketsAsSent, CutAsSent
<1> QED BY <1>1, Framing, PTL
=============================================================================
