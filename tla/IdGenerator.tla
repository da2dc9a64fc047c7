---------------------------- MODULE IdGenerator ----------------------------
(***************************************************************************)
(* SnowflakeIdGenerator: message ids made of the milliseconds since        *)
(* kEpochMs, the worker number and a sequence number.  nextId holds a      *)
(* mutex throughout, waitNextMs included, so one call runs at a time; the  *)
(* system clock it reads may jump in both directions between two readings. *)
(***************************************************************************)
EXTENDS Integers

CONSTANTS
    Epoch,        \* kEpochMs
    SequenceSpan, \* kMaxSequence + 1
    WorkerSpan,   \* kMaxWorkerId + 1
    WorkerId,     \* m_workerId
    Clock         \* the values system_clock can have

ASSUME IdGeneratorAssumption ==
    /\ Epoch \in Nat
    /\ SequenceSpan \in Nat \ {0}
    /\ WorkerSpan \in Nat \ {0}
    /\ WorkerId \in 0 .. WorkerSpan - 1
    /\ Clock \subseteq Nat

VARIABLES
    lastTs,    \* m_lastTs
    sequence,  \* m_sequence
    phase,     \* "idle", or "waiting" while a call is in waitNextMs
    lastId     \* history: the last id returned, -1 before the first

idVars == <<lastTs, sequence, phase, lastId>>

\* Mutation: a clock that went back is believed.
ClockAsRead(now) == now

\* The reading of the clock, never before the last one used.
Timestamp(now) == IF now < lastTs THEN lastTs ELSE now

\* The three fields do not overlap, so the code's shifts and ors are sums.
MakeId(ts, seq) ==
    LET delta == IF ts > Epoch THEN ts - Epoch ELSE 0 IN
    (delta * WorkerSpan + WorkerId) * SequenceSpan + seq

Return(ts, seq) ==
    /\ lastTs' = ts
    /\ lastId' = MakeId(ts, seq)

Following(seq) == (seq + 1) % SequenceSpan

\* nextId up to its return, or up to the call of waitNextMs when the sequence
\* of this millisecond is used up.
NextId(now) ==
    LET ts == Timestamp(now)
        seq == IF ts = lastTs THEN Following(sequence) ELSE 0 IN
    /\ phase = "idle"
    /\ sequence' = seq
    /\ IF ts = lastTs /\ seq = 0
       THEN phase' = "waiting" /\ UNCHANGED <<lastTs, lastId>>
       ELSE Return(ts, seq) /\ UNCHANGED phase

\* waitNextMs returns once the clock has passed the last timestamp.
WaitNextMs(now) ==
    /\ phase = "waiting"
    /\ now > lastTs
    /\ phase' = "idle"
    /\ Return(now, sequence)
    /\ UNCHANGED sequence

IdInit == lastTs = 0 /\ sequence = 0 /\ phase = "idle" /\ lastId = -1

IdNext == \E now \in Clock : NextId(now) \/ WaitNextMs(now)

IdSpec == IdInit /\ [][IdNext]_idVars

-----------------------------------------------------------------------------
(* Properties.                                                             *)

\* Every variable keeps its type, and the sequence number fits its field.
IdTypeOK ==
    /\ lastTs \in Nat
    /\ sequence \in 0 .. SequenceSpan - 1
    /\ phase \in {"idle", "waiting"}
    /\ lastId \in Nat \cup {-1}

\* From the epoch on every id is larger than all ids returned before, so none
\* is returned twice, whatever the clock does and however many calls fall into
\* one millisecond.
IdsIncrease == [][lastTs' > Epoch /\ phase' = "idle" => lastId' > lastId]_idVars
=============================================================================
