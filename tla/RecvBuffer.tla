----------------------------- MODULE RecvBuffer -----------------------------
(***************************************************************************)
(* PoolRecvBuffer, the ring in which a connection keeps what it has        *)
(* received and not yet cut into packets, as operators on a record of its  *)
(* three members.  A memcpy is an interval of indices that takes its       *)
(* values from another sequence; each operation makes two of them, up to   *)
(* the end of the ring and from its start.  The code computes an index     *)
(* with "& mask": the capacity is one of Capacities, the powers of two, so *)
(* that this is the remainder by the capacity.                             *)
(***************************************************************************)
EXTENDS Integers, Sequences

CONSTANTS
    Capacities, \* the powers of two a size_t holds
    MaxHeld,    \* bound: the bytes a ring ever holds
    Zero        \* the byte a new vector is filled with

ASSUME RecvBufferAssumption ==
    /\ Capacities \subseteq Nat \ {0}
    /\ MaxHeld \in Nat
    /\ \A n \in 0 .. MaxHeld : \E c \in Capacities : n <= c

Smaller(a, b) == IF a < b THEN a ELSE b

\* The smallest of Capacities that is at least x.
NextPowerOfTwo(x) ==
    CHOOSE c \in Capacities : x <= c /\ \A d \in Capacities : x <= d => c <= d

Capacity(r) == Len(r.buf)
Mask(x, cap) == x % cap

\* m_buf is a sequence: the element at offset i of the vector is buf[i + 1].
NewRing(capacity) ==
    [buf |-> [i \in 1 .. NextPowerOfTwo(capacity) |-> Zero], read |-> 0, size |-> 0]

\* len bytes from the offset start of the ring on.
CopyOut(r, start, len) ==
    LET first == Smaller(len, Capacity(r) - start)
    IN  [i \in 1 .. len |-> IF i <= first THEN r.buf[start + i] ELSE r.buf[i - first]]

\* Mutation: the vector is resized in place.
ResizeInPlace(r, appendLen) ==
    IF Capacity(r) - r.size >= appendLen
    THEN r
    ELSE [r EXCEPT !.buf = [i \in 1 .. NextPowerOfTwo(r.size + appendLen) |->
                               IF i <= Capacity(r) THEN r.buf[i] ELSE Zero]]

EnsureCapacityForAppend(r, appendLen) ==
    IF Capacity(r) - r.size >= appendLen
    THEN r
    ELSE LET held == CopyOut(r, r.read, r.size)
         IN  [buf  |-> [i \in 1 .. NextPowerOfTwo(r.size + appendLen) |->
                           IF i <= r.size THEN held[i] ELSE Zero],
              read |-> 0,
              size |-> r.size]

\* The two copies of append into a ring that has room.
CopyIn(r, in) ==
    LET writePos == Mask(r.read + r.size, Capacity(r))
        first    == Smaller(Len(in), Capacity(r) - writePos)
    IN  [i \in 1 .. Capacity(r) |->
            IF i > writePos /\ i <= writePos + first THEN in[i - writePos]
            ELSE IF i <= Len(in) - first THEN in[first + i]
            ELSE r.buf[i]]

RingAppend(r, in) ==
    IF in = <<>> THEN r
    ELSE LET g == EnsureCapacityForAppend(r, Len(in))
         IN  [buf |-> CopyIn(g, in), read |-> g.read, size |-> g.size + Len(in)]

\* peek and peekString, when offset + len does not exceed the size.
RingPeek(r, offset, len) == CopyOut(r, Mask(r.read + offset, Capacity(r)), len)

RingConsume(r, len) ==
    IF len >= r.size
    THEN [buf |-> r.buf, read |-> 0, size |-> 0]
    ELSE [buf |-> r.buf, read |-> Mask(r.read + len, Capacity(r)), size |-> r.size - len]

\* The bytes in the ring, in order: what the three members stand for.
Contents(r) == RingPeek(r, 0, r.size)
=============================================================================
