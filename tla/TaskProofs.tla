----------------------------- MODULE TaskProofs -----------------------------
(***************************************************************************)
(* Proofs about the tasks of the server.  The Redis tasks of a message: a  *)
(* message acknowledged to its sender is kept until its recipient          *)
(* acknowledges it, and no score of the schedule is left behind or comes   *)
(* due out of order, whatever the numbers of messages, sessions and        *)
(* attempts, the size of a batch and the Redis commands that fail.  The    *)
(* thread pools that run the tasks, for any finite sets of workers and     *)
(* submitters, any limit and both ways of submitting: no task is lost, and *)
(* the counter is exact.                                                   *)
(***************************************************************************)
EXTENDS Delivery, ThreadPool, TLAPS

-----------------------------------------------------------------------------
(* Messages that wait for their recipient.                                 *)

\* Messages whose storing is over.
Past == {m \in Msgs : chat[m] \notin {"new", "task", "storing"}}

Thread ==
    [pc : {"idle", "fetch", "each", "zrem", "send", "hset", "zadd"},
     to : Sessions \cup {None}, todo : SUBSET Msgs, msgs : SUBSET Msgs,
     m : Msgs \cup {None}, attempt : Nat]

\* What a dispatch holds has been stored, and a payload it found gone stays gone.
Valid(r) ==
    /\ r.todo \subseteq Past /\ r.msgs \subseteq Past
    /\ r.pc \in {"zrem", "send", "hset", "zadd"} => r.m \in Past
    /\ r.pc = "zrem" => r.m \notin payload

ThreadsOK == th \in [Threads -> Thread] /\ \A t \in Threads : Valid(th[t])

RedisOK ==
    /\ payload \subseteq scheduled /\ scheduled \subseteq Past
    /\ attempts \in [Msgs -> Nat \cup {None}]
    /\ confirmed \subseteq sent /\ sent \subseteq Past
    /\ confirmed \cap payload = {}

ChatOK ==
    /\ chat \in [Msgs -> {"new", "task", "storing", "stored", "acked", "done", "dropped"}]
    /\ \A m \in Msgs : chat[m] \in {"stored", "acked", "done"} =>
                           m \in payload \/ m \in confirmed
    /\ \A m \in acked : m \in Msgs /\ chat[m] \in {"acked", "done"}

UserOK == online \in Sessions \cup {None}

\* The inductive invariant.
IInv == ThreadsOK /\ RedisOK /\ ChatOK /\ UserOK

\* The initial states satisfy the inductive invariant.
LEMMA InitIInv == Init => IInv
<1> SUFFICES ASSUME Init PROVE IInv
  OBVIOUS
<1>1. Idle \in Thread /\ Valid(Idle)
  BY DEF Idle, Thread, Valid, Init
<1>2. ThreadsOK
  BY <1>1 DEF Init, ThreadsOK
<1>3. RedisOK /\ ChatOK /\ UserOK
  BY DEF Init, RedisOK, ChatOK, UserOK, Past
<1> QED
  BY <1>2, <1>3 DEF IInv

\* A step that gives one dispatch a valid state and stores nothing keeps the
\* dispatches valid.
LEMMA ThreadStep ==
    ASSUME ThreadsOK, NEW t \in Threads, NEW r \in Thread, Valid(r),
           th' = [th EXCEPT ![t] = r], UNCHANGED <<payload, chat>>
    PROVE  ThreadsOK'
<1>1. th' \in [Threads -> Thread]
  BY DEF ThreadsOK
<1>2. ASSUME NEW u \in Threads PROVE Valid(th[u])'
  <2>1. th'[u] = IF u = t THEN r ELSE th[u]
    BY DEF ThreadsOK
  <2>2. Valid(th'[u])
    BY <2>1 DEF ThreadsOK
  <2> QED
    BY <2>2 DEF Valid, Past
<1> QED
  BY <1>1, <1>2 DEF ThreadsOK

\* A step that leaves the dispatches alone, starts no storing over and brings no
\* payload back that a dispatch found gone keeps the dispatches valid.
LEMMA ThreadsKept ==
    ASSUME ThreadsOK, UNCHANGED th, Past \subseteq Past',
           \A m \in Past : m \in payload' => m \in payload
    PROVE  ThreadsOK'
BY DEF ThreadsOK, Valid, Thread

\* Handling a chat packet, and its Redis task, keep the inductive invariant.
LEMMA ChatIInv ==
    ASSUME IInv, NEW m \in Msgs, ProcessChat(m) \/ Task(m)
    PROVE  IInv'
<1> USE DEF IInv
<1>1. CASE ProcessChat(m)
  <2>1. Past \subseteq Past' /\ UNCHANGED <<payload, th>>
    BY <1>1 DEF ProcessChat, Past, ChatOK, redisVars
  <2>2. ThreadsOK'
    BY <2>1, ThreadsKept
  <2>3. RedisOK' /\ ChatOK' /\ UserOK'
    BY <1>1, <2>1 DEF ProcessChat, RedisOK, ChatOK, UserOK, redisVars, userVars
  <2> QED
    BY <2>2, <2>3
<1>2. CASE RunTask(m)
  <2>1. Past \subseteq Past' /\ UNCHANGED <<payload, th>>
    BY <1>2 DEF RunTask, Past, ChatOK
  <2>2. ThreadsOK'
    BY <2>1, ThreadsKept
  <2>3. RedisOK' /\ ChatOK' /\ UserOK'
    BY <1>2, <2>1 DEF RunTask, RedisOK, ChatOK, UserOK, userVars
  <2> QED
    BY <2>2, <2>3
<1>3. CASE StorePendingMessage(m)
  <2>1. PICK ok \in Outcomes :
          /\ chat' = [chat EXCEPT ![m] = StoreResult(ok)]
          /\ \/ /\ payload' = payload \cup {m} /\ scheduled' = scheduled \cup {m}
                /\ attempts' = [attempts EXCEPT ![m] = 0]
             \/ ~ok /\ UNCHANGED <<payload, scheduled, attempts>>
    BY <1>3 DEF StorePendingMessage, ZAdd, Forget
  <2>2. ok \in BOOLEAN /\ chat[m] = "storing" /\ UNCHANGED <<th, online, acked, sent, confirmed>>
    BY <1>3 DEF StorePendingMessage, Outcomes, userVars
  <2>3. m \notin Past /\ Past' = Past \cup {m}
    BY <2>1, <2>2 DEF Past, ChatOK, StoreResult
  <2>4. ThreadsOK'
    BY <2>1, <2>2, <2>3, ThreadsKept
  <2>5. RedisOK'
    BY <2>1, <2>2, <2>3 DEF RedisOK
  <2>6. ChatOK' /\ UserOK'
    BY <2>1, <2>2 DEF ChatOK, UserOK, StoreResult
  <2> QED
    BY <2>4, <2>5, <2>6
<1>4. CASE AckSender(m)
  <2>1. Past' = Past /\ UNCHANGED <<payload, th>>
    BY <1>4 DEF AckSender, Past, ChatOK, redisVars
  <2>2. ThreadsOK'
    BY <2>1, ThreadsKept
  <2>3. RedisOK' /\ ChatOK' /\ UserOK'
    BY <1>4, <2>1 DEF AckSender, RedisOK, ChatOK, UserOK, redisVars, userVars
  <2> QED
    BY <2>2, <2>3
<1>5. CASE SendTarget(m)
  <2>1. Past' = Past /\ UNCHANGED <<payload, th>> /\ m \in Past
    BY <1>5 DEF SendTarget, Past, ChatOK, redisVars
  <2>2. ThreadsOK'
    BY <2>1, ThreadsKept
  <2>3. RedisOK' /\ ChatOK' /\ UserOK'
    BY <1>5, <2>1 DEF SendTarget, SendTo, RedisOK, ChatOK, UserOK, redisVars, userVars
  <2> QED
    BY <2>2, <2>3
<1> QED
  BY <1>1, <1>2, <1>3, <1>4, <1>5 DEF Task

\* The client's acknowledgement keeps the inductive invariant.
LEMMA AckIInv ==
    ASSUME IInv, NEW ids \in SUBSET Msgs, AckPendingMessage(ids)
    PROVE  IInv'
<1> USE DEF IInv
<1>1. /\ ids \subseteq sent /\ payload' = payload \ ids /\ scheduled' = scheduled \ ids
      /\ confirmed' = confirmed \cup ids
      /\ UNCHANGED <<chat, acked, online, th, sent>>
  BY DEF AckPendingMessage, ZRem, chatVars, userVars
<1>2. attempts' \in [Msgs -> Nat \cup {None}]
  BY DEF AckPendingMessage, RedisOK
<1>3. Past' = Past
  BY <1>1 DEF Past
<1>4. ThreadsOK'
  BY <1>1, <1>3, ThreadsKept
<1>5. RedisOK'
  BY <1>1, <1>2, <1>3 DEF RedisOK
<1>6. ChatOK' /\ UserOK'
  BY <1>1 DEF ChatOK, UserOK
<1> QED
  BY <1>4, <1>5, <1>6

\* Logins, binds, disconnects and the retry thread's scan keep it.
LEMMA UserIInv ==
    ASSUME IInv,
           \/ \E s \in Sessions : Disconnect(s) \/ \E pull \in BOOLEAN : Connect(s, pull)
           \/ RetryScan
    PROVE  IInv'
<1> USE DEF IInv
<1> DEFINE Starting(s) == [Idle EXCEPT !.pc = "fetch", !.to = s]
<1>1. UNCHANGED <<payload, scheduled, attempts, chat, acked, sent, confirmed>>
  BY DEF Disconnect, Connect, RetryScan, redisVars, chatVars
<1>2. Past' = Past
  BY <1>1 DEF Past
<1>3. UserOK'
  BY DEF Disconnect, Connect, RetryScan, UserOK, userVars
<1>4. RedisOK' /\ ChatOK'
  BY <1>1, <1>2 DEF RedisOK, ChatOK
<1>5. \/ UNCHANGED th
      \/ \E t \in Threads, s \in Sessions : th' = [th EXCEPT ![t] = Starting(s)]
  BY DEF Disconnect, Connect, RetryScan, Threads, UserOK
<1>6. \A s \in Sessions : Starting(s) \in Thread /\ Valid(Starting(s))
  BY DEF Idle, Thread, Valid
<1>7. CASE UNCHANGED th
  BY <1>1, <1>2, <1>3, <1>4, <1>7, ThreadsKept
<1>8. CASE \E t \in Threads, s \in Sessions : th' = [th EXCEPT ![t] = Starting(s)]
  <2>1. PICK t \in Threads, s \in Sessions : th' = [th EXCEPT ![t] = Starting(s)]
    BY <1>8
  <2> HIDE DEF Starting
  <2>2. ThreadsOK'
    BY <1>1, <1>6, <2>1, ThreadStep
  <2> QED
    BY <1>3, <1>4, <2>2
<1> QED
  BY <1>5, <1>7, <1>8

\* The dispatch steps that only read keep it.
LEMMA ReadIInv ==
    ASSUME IInv, NEW t \in Threads,
           \/ Fetch(t) \/ DispatchEnds(t)
           \/ \E m \in Msgs : FetchPayload(t, m) \/ GetPendingAttempt(t, m)
    PROVE  IInv'
<1> USE DEF IInv
<1> DEFINE q == th[t]
<1>1. UNCHANGED <<payload, scheduled, attempts, chat, acked, online, sent, confirmed>>
  BY DEF Fetch, DispatchEnds, FetchPayload, GetPendingAttempt, redisVars, chatVars, userVars
<1>2. q \in Thread /\ Valid(q)
  BY DEF ThreadsOK
<1>3. Past' = Past
  BY <1>1 DEF Past
<1>4. RedisOK' /\ ChatOK' /\ UserOK'
  BY <1>1, <1>3 DEF RedisOK, ChatOK, UserOK
<1>5. CASE Fetch(t)
  <2>1. First \subseteq Past
    BY DEF First, RedisOK
  <2>2. PICK ids : /\ ids \subseteq First
                   /\ th' = [th EXCEPT ![t] = [th[t] EXCEPT !.pc = "each", !.todo = ids]]
    BY <1>5 DEF Fetch
  <2> DEFINE r == [q EXCEPT !.pc = "each", !.todo = ids]
  <2>3. r \in Thread /\ Valid(r)
    BY <1>2, <2>1, <2>2 DEF Thread, Valid, Past
  <2>4. th' = [th EXCEPT ![t] = r]
    BY <2>2
  <2> HIDE DEF r
  <2> QED
    BY <1>1, <1>4, <2>3, <2>4, ThreadStep
<1>6. CASE DispatchEnds(t)
  <2>1. Idle \in Thread /\ Valid(Idle)
    BY DEF Idle, Thread, Valid
  <2> QED
    BY <1>1, <1>4, <1>6, <2>1, ThreadStep DEF DispatchEnds
<1>7. ASSUME NEW m \in Msgs, FetchPayload(t, m) PROVE IInv'
  <2> DEFINE kept == [q EXCEPT !.todo = q.todo \ {m}, !.msgs = q.msgs \cup {m}]
             stale == [q EXCEPT !.pc = "zrem", !.m = m, !.todo = q.todo \ {m}]
             skipped == [q EXCEPT !.todo = q.todo \ {m}]
  <2>1. \/ th' = [th EXCEPT ![t] = kept]
        \/ m \notin payload /\ th' = [th EXCEPT ![t] = stale]
        \/ th' = [th EXCEPT ![t] = skipped]
    BY <1>7 DEF FetchPayload, Stale
  <2>2. m \in Past /\ q.pc = "each"
    BY <1>2, <1>7 DEF FetchPayload, Valid
  <2>3. kept \in Thread /\ Valid(kept) /\ skipped \in Thread /\ Valid(skipped)
    BY <1>2, <2>2 DEF Thread, Valid
  <2>4. m \notin payload => stale \in Thread /\ Valid(stale)
    BY <1>2, <2>2 DEF Thread, Valid
  <2> HIDE DEF kept, stale, skipped
  <2>5. PICK r \in Thread : Valid(r) /\ th' = [th EXCEPT ![t] = r]
    BY <2>1, <2>3, <2>4
  <2> QED
    BY <1>1, <1>4, <2>5, ThreadStep
<1>8. ASSUME NEW m \in Msgs, GetPendingAttempt(t, m) PROVE IInv'
  <2>1. PICK n \in {Attempt(m)} \cup (IF Faults THEN {0} ELSE {}) :
          th' = [th EXCEPT ![t] =
                   IF MayRetry(t, n)
                   THEN [th[t] EXCEPT !.pc = "send", !.m = m, !.attempt = n,
                                      !.msgs = th[t].msgs \ {m}]
                   ELSE [th[t] EXCEPT !.msgs = th[t].msgs \ {m}]]
    BY <1>8 DEF GetPendingAttempt
  <2>2. Attempt(m) \in Nat
    <3>1. 0 \in Nat /\ attempts[m] \in Nat \cup {None}
      BY DEF RedisOK
    <3> QED
      BY <3>1, Zenon DEF Attempt
  <2>3. n = Attempt(m) \/ n = 0
    BY <2>1
  <2>3a. n \in Nat
    BY <2>2, <2>3
  <2> DEFINE taken == [q EXCEPT !.pc = "send", !.m = m, !.attempt = n, !.msgs = q.msgs \ {m}]
             skipped == [q EXCEPT !.msgs = q.msgs \ {m}]
  <2>4. th' = [th EXCEPT ![t] = taken] \/ th' = [th EXCEPT ![t] = skipped]
    BY <2>1
  <2>5. m \in Past /\ q.pc = "each"
    BY <1>2, <1>8 DEF GetPendingAttempt, Valid
  <2>6. taken \in Thread /\ Valid(taken)
    BY <1>2, <2>3a, <2>5 DEF Thread, Valid
  <2>7. skipped \in Thread /\ Valid(skipped)
    BY <1>2, <2>5 DEF Thread, Valid
  <2> HIDE DEF taken, skipped
  <2> QED
    BY <1>1, <1>4, <2>4, <2>6, <2>7, ThreadStep
<1> QED
  BY <1>5, <1>6, <1>7, <1>8

\* The dispatch steps that send a message or write to Redis keep it.
LEMMA WriteIInv ==
    ASSUME IInv, NEW t \in Threads,
           RemoveStale(t) \/ SendPending(t) \/ SetPendingAttempt(t) \/ Reschedule(t)
    PROVE  IInv'
<1> USE DEF IInv
<1> DEFINE q == th[t]
<1>1. UNCHANGED <<payload, chat, acked, online, confirmed>>
  BY DEF RemoveStale, SendPending, SetPendingAttempt, Reschedule, chatVars, userVars
<1>2. q \in Thread /\ Valid(q)
  BY DEF ThreadsOK
<1>3. Past' = Past
  BY <1>1 DEF Past
<1>4. ChatOK' /\ UserOK'
  BY <1>1 DEF ChatOK, UserOK
<1>5. CASE RemoveStale(t)
  <2> DEFINE r == [q EXCEPT !.pc = "each", !.m = None]
  <2>1. r \in Thread /\ Valid(r)
    BY <1>2 DEF Thread, Valid
  <2>2. th' = [th EXCEPT ![t] = r] /\ UNCHANGED <<attempts, sent>>
    BY <1>5 DEF RemoveStale
  <2>3. q.m \notin payload /\ (scheduled' = scheduled \/ scheduled' = scheduled \ {q.m})
    BY <1>2, <1>5 DEF RemoveStale, ZRem, Valid
  <2>4. RedisOK'
    BY <1>1, <1>3, <2>2, <2>3 DEF RedisOK
  <2> HIDE DEF r
  <2> QED
    BY <1>1, <1>4, <2>1, <2>2, <2>4, ThreadStep
<1>6. CASE SendPending(t)
  <2> DEFINE r == [q EXCEPT !.pc = "hset"]
  <2>1. q.m \in Past
    BY <1>2, <1>6 DEF SendPending, Valid
  <2>2. r \in Thread /\ Valid(r)
    BY <1>2, <2>1 DEF Thread, Valid
  <2>3. /\ th' = [th EXCEPT ![t] = r] /\ UNCHANGED <<attempts, scheduled>>
        /\ sent' = sent \/ sent' = sent \cup {q.m}
    BY <1>6 DEF SendPending, SendTo
  <2>4. RedisOK'
    BY <1>1, <1>3, <2>1, <2>3 DEF RedisOK
  <2> HIDE DEF r
  <2> QED
    BY <1>1, <1>4, <2>2, <2>3, <2>4, ThreadStep
<1>7. CASE SetPendingAttempt(t)
  <2> DEFINE r == [q EXCEPT !.pc = "zadd"]
             n == q.attempt + (IF t = Retry THEN 1 ELSE 0)
  <2>1. q.m \in Past
    BY <1>2, <1>7 DEF SetPendingAttempt, Valid
  <2>2. r \in Thread /\ Valid(r)
    BY <1>2, <2>1 DEF Thread, Valid
  <2>3. n \in Nat
    BY <1>2 DEF Thread
  <2>4. /\ th' = [th EXCEPT ![t] = r] /\ UNCHANGED <<scheduled, sent>>
        /\ attempts' = attempts \/ attempts' = [attempts EXCEPT ![q.m] = n]
    BY <1>7 DEF SetPendingAttempt
  <2> HIDE DEF r, n
  <2>5. RedisOK'
    BY <1>1, <1>3, <2>3, <2>4 DEF RedisOK
  <2> QED
    BY <1>1, <1>4, <2>2, <2>4, <2>5, ThreadStep
<1>8. CASE Reschedule(t)
  <2> DEFINE r == [q EXCEPT !.pc = "each", !.m = None, !.attempt = 0]
  <2>1. q.m \in Past
    BY <1>2, <1>8 DEF Reschedule, Valid
  <2>2. r \in Thread /\ Valid(r)
    BY <1>2 DEF Thread, Valid
  <2>3. /\ th' = [th EXCEPT ![t] = r] /\ UNCHANGED <<attempts, sent>>
        /\ scheduled' = scheduled \/ scheduled' = scheduled \cup {q.m}
    BY <1>8 DEF Reschedule, ZAdd, Forget
  <2>4. RedisOK'
    BY <1>1, <1>3, <2>1, <2>3 DEF RedisOK
  <2> HIDE DEF r
  <2> QED
    BY <1>1, <1>4, <2>2, <2>3, <2>4, ThreadStep
<1> QED
  BY <1>5, <1>6, <1>7, <1>8

\* Every step keeps the inductive invariant.
LEMMA NextIInv == IInv /\ [Next]_vars => IInv'
<1> SUFFICES ASSUME IInv, [Next]_vars PROVE IInv'
  OBVIOUS
<1>1. CASE \E m \in Msgs : ProcessChat(m) \/ Task(m)
  BY <1>1, ChatIInv
<1>2. CASE \E ids \in SUBSET Msgs : AckPendingMessage(ids)
  BY <1>2, AckIInv
<1>3. CASE \/ \E s \in Sessions : Disconnect(s) \/ \E pull \in BOOLEAN : Connect(s, pull)
           \/ RetryScan
  BY <1>3, UserIInv
<1>4. CASE \E t \in Threads : Dispatch(t)
  BY <1>4, ReadIInv, WriteIInv DEF Dispatch
<1>5. CASE TimePasses \/ UNCHANGED vars
  <2>1. UNCHANGED <<payload, scheduled, attempts, chat, acked, online, th, sent, confirmed>>
    BY <1>5 DEF TimePasses, vars, redisVars, chatVars, userVars
  <2>2. Past' = Past
    BY <2>1 DEF Past
  <2>3. ThreadsOK'
    BY <2>1, <2>2, ThreadsKept DEF IInv
  <2> QED
    BY <2>1, <2>2, <2>3 DEF IInv, RedisOK, ChatOK, UserOK
<1> QED
  BY <1>1, <1>2, <1>3, <1>4, <1>5 DEF Next

\* A message acknowledged to its sender (the ACK of processPacket's Redis task)
\* keeps its payload and its schedule entry until ackPendingMessage removes it,
\* and its payload does not come back after that.
THEOREM AckedAlwaysKept == Spec => []AckedIsKept
<1>1. IInv => AckedIsKept
  BY DEF IInv, RedisOK, ChatOK, AckedIsKept
<1> QED
  BY <1>1, InitIInv, NextIInv, PTL DEF Spec

-----------------------------------------------------------------------------
(* The readings of the clock.                                              *)

\* An order of S whose first members are those in D.
Ordered(R, S, D) ==
    /\ IsOrder(R, S)
    /\ D \subseteq S
    /\ \A d, e \in S : <<d, e>> \in R /\ e \in D => d \in D

Drop(R, E) == {p \in R : p[1] \notin E /\ p[2] \notin E}

Rename(R, e, m) ==
    {<<IF p[1] = e THEN m ELSE p[1], IF p[2] = e THEN m ELSE p[2]>> : p \in R}

\* A new member after all others.
LEMMA OrderAppend ==
    ASSUME NEW R, NEW S, NEW D, NEW e, Ordered(R, S, D), e \notin S
    PROVE  Ordered(R \cup (S \X {e}), S \cup {e}, D)
<1> DEFINE Q == R \cup (S \X {e})
           T == S \cup {e}
<1>1. \A c, d \in T : <<c, d>> \in Q <=> (<<c, d>> \in R \/ (c \in S /\ d = e))
  OBVIOUS
<1>2. R \subseteq S \X S /\ Q \subseteq T \X T
  BY DEF Ordered, IsOrder
<1>3. \A c, d \in T : <<c, d>> \in R => c \in S /\ d \in S
  BY <1>2
<1> HIDE DEF Q
<1>4. \A c, d \in T : <<c, d>> \in Q <=> (c # d /\ <<d, c>> \notin Q)
  BY <1>1, <1>3 DEF Ordered, IsOrder
<1>5. \A b, c, d \in T : <<b, c>> \in Q /\ <<c, d>> \in Q => <<b, d>> \in Q
  BY <1>1, <1>3 DEF Ordered, IsOrder
<1>6. D \subseteq T /\ \A c, d \in T : <<c, d>> \in Q /\ d \in D => c \in D
  BY <1>1, <1>3 DEF Ordered
<1> HIDE DEF T
<1>7. Ordered(Q, T, D)
  BY <1>2, <1>4, <1>5, <1>6 DEF Ordered, IsOrder
<1> QED
  BY <1>7 DEF Q, T

\* Fewer members.
LEMMA OrderDrop ==
    ASSUME NEW R, NEW S, NEW D, NEW E, Ordered(R, S, D)
    PROVE  Ordered(Drop(R, E), S \ E, D \ E)
<1>1. \A c, d \in S \ E : <<c, d>> \in Drop(R, E) <=> <<c, d>> \in R
  BY DEF Drop
<1>2. Drop(R, E) \subseteq (S \ E) \X (S \ E)
  BY DEF Drop, Ordered, IsOrder
<1> QED
  BY <1>1, <1>2 DEF Ordered, IsOrder

\* Another name for a member.
LEMMA OrderRename ==
    ASSUME NEW R, NEW S, NEW D, NEW e, NEW m, Ordered(R, S, D), e \in S, m \notin S
    PROVE  Ordered(Rename(R, e, m), (S \ {e}) \cup {m},
                   (D \ {e}) \cup (IF e \in D THEN {m} ELSE {}))
<1> DEFINE Q == Rename(R, e, m)
           T == (S \ {e}) \cup {m}
           F == (D \ {e}) \cup (IF e \in D THEN {m} ELSE {})
           old(x) == IF x = m THEN e ELSE x
           new(x) == IF x = e THEN m ELSE x
<1>1. \A p \in R : p = <<p[1], p[2]>> /\ p[1] \in S /\ p[2] \in S
  BY DEF Ordered, IsOrder
<1>2. /\ \A x \in S : new(x) \in T /\ old(new(x)) = x
      /\ \A x \in T : old(x) \in S /\ new(old(x)) = x
  OBVIOUS
<1>3. \A p \in R : <<new(p[1]), new(p[2])>> \in Q
  BY DEF Rename
<1>4. ASSUME NEW q \in Q PROVE \E p \in R : q = <<new(p[1]), new(p[2])>>
  BY DEF Rename
<1>5. \A x \in T : x \in F <=> old(x) \in D
  BY DEF Ordered
<1>6. F \subseteq T
  BY DEF Ordered
<1> HIDE DEF Q, T, F, old, new
<1>7. Q \subseteq T \X T
  BY <1>1, <1>2, <1>4
<1>8. ASSUME NEW c \in T, NEW d \in T
      PROVE  <<c, d>> \in Q <=> <<old(c), old(d)>> \in R
  <2>1. ASSUME <<c, d>> \in Q PROVE <<old(c), old(d)>> \in R
    <3>1. PICK p \in R : <<c, d>> = <<new(p[1]), new(p[2])>>
      BY <1>4, <2>1
    <3>2. c = new(p[1]) /\ d = new(p[2])
      BY <3>1
    <3> QED
      BY <1>1, <1>2, <3>2
  <2>2. ASSUME <<old(c), old(d)>> \in R PROVE <<c, d>> \in Q
    <3>1. <<new(old(c)), new(old(d))>> \in Q
      BY <1>3, <2>2
    <3> QED
      BY <1>2, <3>1
  <2> QED
    BY <2>1, <2>2
<1>9. \A c, d \in T : c = d <=> old(c) = old(d)
  BY <1>2
<1>10. \A c, d \in T : <<c, d>> \in Q <=> (c # d /\ <<d, c>> \notin Q)
  BY <1>2, <1>8, <1>9 DEF Ordered, IsOrder
<1>11. \A b, c, d \in T : <<b, c>> \in Q /\ <<c, d>> \in Q => <<b, d>> \in Q
  BY <1>2, <1>8 DEF Ordered, IsOrder
<1>12. \A c, d \in T : <<c, d>> \in Q /\ d \in F => c \in F
  BY <1>2, <1>5, <1>8 DEF Ordered
<1>13. Ordered(Q, T, F)
  BY <1>6, <1>7, <1>10, <1>11, <1>12 DEF Ordered, IsOrder
<1> QED
  BY <1>13 DEF Q, T, F

\* The readings of the clock are in an order in which they come due.
ReadingsOK == Ordered(earlier, Readings, due)

\* A step of a dispatch adds its thread to those with a reading, or removes it.
LEMMA ThreadReadings ==
    ASSUME ThreadsOK, NEW t \in Threads, NEW r, th' = [th EXCEPT ![t] = r]
    PROVE  Rescheduling' = IF r.pc \in {"hset", "zadd"} THEN Rescheduling \cup {t}
                                                        ELSE Rescheduling \ {t}
<1>1. \A u \in Threads : th'[u] = IF u = t THEN r ELSE th[u]
  BY DEF ThreadsOK
<1> QED
  BY <1>1 DEF Rescheduling

\* Which step changes which readings.
LEMMA SameReadings ==
    ASSUME ReadingsOK, UNCHANGED <<scheduled, earlier, due>>, Storing' = Storing,
           Rescheduling' = Rescheduling
    PROVE  ReadingsOK'
<1>1. Readings' = Readings
  BY DEF Readings
<1> QED
  BY <1>1 DEF ReadingsOK, Ordered, IsOrder

\* The tasks of a message keep the readings in order.
LEMMA TaskReadings ==
    ASSUME IInv, ReadingsOK, NEW m \in Msgs, ProcessChat(m) \/ Task(m)
    PROVE  ReadingsOK'
<1> USE DEF IInv
<1>1. m \notin Threads /\ (chat[m] \in {"new", "task", "storing"} => m \notin scheduled)
  BY DeliveryAssumption DEF Threads, RedisOK, Past
<1>2. CASE ProcessChat(m) \/ AckSender(m) \/ SendTarget(m)
  <2>1. UNCHANGED <<scheduled, earlier, due, th>>
    BY <1>2 DEF ProcessChat, AckSender, SendTarget, redisVars
  <2>2. Storing' = Storing
    BY <1>2 DEF ProcessChat, AckSender, SendTarget, Storing, ChatOK
  <2>3. Rescheduling' = Rescheduling
    BY <2>1 DEF Rescheduling
  <2> QED
    BY <2>1, <2>2, <2>3, SameReadings
<1>3. CASE RunTask(m)
  <2>1. /\ earlier' = earlier \cup (Readings \X {m}) /\ UNCHANGED <<scheduled, due, th>>
        /\ chat[m] = "task" /\ chat' = [chat EXCEPT ![m] = "storing"]
    BY <1>3 DEF RunTask, ReadClock
  <2>2. Storing' = Storing \cup {m} /\ Rescheduling' = Rescheduling
    BY <2>1 DEF Storing, Rescheduling, ChatOK
  <2>3. Readings' = Readings \cup {m} /\ m \notin Readings
    BY <1>1, <2>1, <2>2 DEF Readings, Storing, Rescheduling
  <2>4. Ordered(earlier \cup (Readings \X {m}), Readings \cup {m}, due)
    BY <2>3, OrderAppend DEF ReadingsOK
  <2> QED
    BY <2>1, <2>3, <2>4 DEF ReadingsOK, Ordered, IsOrder
<1>4. CASE StorePendingMessage(m)
  <2>1. PICK ok \in Outcomes :
          /\ chat' = [chat EXCEPT ![m] = StoreResult(ok)]
          /\ ZAdd(m, m) \/ Forget(m)
    BY <1>4 DEF StorePendingMessage
  <2>2. chat[m] = "storing" /\ UNCHANGED th
    BY <1>4 DEF StorePendingMessage
  <2>3. /\ m \in Storing /\ m \notin scheduled /\ m \notin Rescheduling
        /\ Storing' = Storing \ {m} /\ Rescheduling' = Rescheduling
    BY <1>1, <2>1, <2>2 DEF Storing, Rescheduling, ChatOK, StoreResult
  <2>4. CASE ZAdd(m, m)
    <3>1. Readings' = Readings
      BY <2>3, <2>4 DEF Readings, ZAdd
    <3>2. earlier' = {<<p[1], p[2]>> : p \in earlier}
      BY <2>4 DEF ZAdd, Without
    <3>3. \A p \in earlier : p = <<p[1], p[2]>>
      BY DEF ReadingsOK, Ordered, IsOrder
    <3>4. earlier' = earlier
      BY <3>2, <3>3
    <3>5. due' = due
      BY <2>4 DEF ZAdd
    <3> QED
      BY <3>1, <3>4, <3>5 DEF ReadingsOK, Ordered, IsOrder
  <2>5. CASE Forget(m)
    <3>1. Readings' = Readings \ {m}
      BY <2>3, <2>5 DEF Readings, Forget
    <3>2. earlier' = Drop(earlier, {m}) /\ due' = due \ {m}
      BY <2>5 DEF Forget, Without, Drop
    <3>3. Ordered(Drop(earlier, {m}), Readings \ {m}, due \ {m})
      BY OrderDrop DEF ReadingsOK
    <3> QED
      BY <3>1, <3>2, <3>3 DEF ReadingsOK, Ordered, IsOrder
  <2> QED
    BY <2>1, <2>4, <2>5
<1> QED
  BY <1>2, <1>3, <1>4 DEF Task

\* The client's acknowledgement keeps them in order.
LEMMA AckReadings ==
    ASSUME IInv, ReadingsOK, NEW ids \in SUBSET Msgs, AckPendingMessage(ids)
    PROVE  ReadingsOK'
<1> USE DEF IInv
<1>1. /\ ids \subseteq sent /\ UNCHANGED <<chat, th>>
      /\ scheduled' = scheduled \ ids /\ earlier' = Drop(earlier, ids) /\ due' = due \ ids
  BY DEF AckPendingMessage, ZRem, Without, Drop, chatVars
<1>2. Storing' = Storing /\ Rescheduling' = Rescheduling
  BY <1>1 DEF Storing, Rescheduling
<1>3. ids \cap Storing = {} /\ ids \cap Rescheduling = {}
  BY <1>1, DeliveryAssumption DEF Storing, Rescheduling, Threads, RedisOK, Past
<1>4. Readings' = Readings \ ids
  BY <1>1, <1>2, <1>3 DEF Readings
<1>5. Ordered(Drop(earlier, ids), Readings \ ids, due \ ids)
  BY OrderDrop DEF ReadingsOK
<1> QED
  BY <1>1, <1>4, <1>5 DEF ReadingsOK, Ordered, IsOrder

\* The variables that the inductive invariant leaves out; a session that has not
\* been connected has no dispatch running.
SessionsOK ==
    /\ known \in BOOLEAN
    /\ conn \in [Sessions -> {"new", "live", "closed"}]
    /\ target \in [Msgs -> Sessions \cup {None}]
    /\ \A s \in Sessions : conn[s] = "new" => th[s].pc = "idle"

\* A step of one dispatch that neither takes a reading nor uses one.
LEMMA QuietStep ==
    ASSUME IInv, ReadingsOK, NEW t \in Threads, NEW r, th' = [th EXCEPT ![t] = r],
           r.pc \in {"hset", "zadd"} <=> th[t].pc \in {"hset", "zadd"},
           UNCHANGED <<scheduled, earlier, due, chat>>
    PROVE  ReadingsOK'
<1>1. Rescheduling' = Rescheduling
  BY ThreadReadings DEF IInv, Rescheduling
<1>2. Storing' = Storing
  BY DEF Storing
<1> QED
  BY <1>1, <1>2, SameReadings

\* Logins, binds, disconnects and scans keep the readings in order.
LEMMA UserReadings ==
    ASSUME IInv, ReadingsOK, SessionsOK,
           \/ \E s \in Sessions : Disconnect(s) \/ \E pull \in BOOLEAN : Connect(s, pull)
           \/ RetryScan
    PROVE  ReadingsOK'
<1>1. UNCHANGED <<scheduled, earlier, due, chat>>
  BY DEF Disconnect, Connect, RetryScan, redisVars, chatVars
<1>2. \/ UNCHANGED th
      \/ \E t \in Threads, s \in Sessions :
            /\ th[t].pc = "idle"
            /\ th' = [th EXCEPT ![t] = [Idle EXCEPT !.pc = "fetch", !.to = s]]
  <2>1. Idle.pc = "idle"
    BY DEF Idle
  <2> QED
    BY <2>1 DEF Disconnect, Connect, RetryScan, Threads, UserOK, IInv, SessionsOK
<1>3. CASE UNCHANGED th
  BY <1>1, <1>3, SameReadings DEF Storing, Rescheduling
<1>4. ASSUME NEW t \in Threads, NEW s \in Sessions, th[t].pc = "idle",
             th' = [th EXCEPT ![t] = [Idle EXCEPT !.pc = "fetch", !.to = s]]
      PROVE  ReadingsOK'
  <2> DEFINE r == [Idle EXCEPT !.pc = "fetch", !.to = s]
  <2>1. r.pc = "fetch"
    BY DEF Idle
  <2> HIDE DEF r
  <2>2. th' = [th EXCEPT ![t] = r]
    BY <1>4 DEF r
  <2> QED
    BY <1>1, <1>4, <2>1, <2>2, QuietStep
<1> QED
  BY <1>2, <1>3, <1>4

\* So do the steps of a dispatch.
LEMMA DispatchReadings ==
    ASSUME IInv, ReadingsOK, NEW t \in Threads, Dispatch(t)
    PROVE  ReadingsOK'
<1> USE DEF IInv
<1> DEFINE q == th[t]
<1>1. q \in Thread /\ Valid(q) /\ t \notin Msgs
  BY DeliveryAssumption DEF ThreadsOK, Threads
<1>2. UNCHANGED chat /\ Storing' = Storing
  BY DEF Dispatch, Fetch, RemoveStale, SendPending, SetPendingAttempt, Reschedule,
         DispatchEnds, FetchPayload, GetPendingAttempt, chatVars, Storing
<1>3. CASE \/ Fetch(t) \/ DispatchEnds(t) \/ SetPendingAttempt(t)
           \/ \E m \in Msgs : FetchPayload(t, m) \/ GetPendingAttempt(t, m)
  <2>1. UNCHANGED <<scheduled, earlier, due>>
    BY <1>3 DEF Fetch, DispatchEnds, SetPendingAttempt, FetchPayload, GetPendingAttempt,
                redisVars
  <2> DEFINE Quiet(r) == /\ th' = [th EXCEPT ![t] = r]
                         /\ r.pc \in {"hset", "zadd"} <=> q.pc \in {"hset", "zadd"}
  <2>2. \E r : Quiet(r)
    <3>1. CASE Fetch(t)
      <4>1. PICK ids : th' = [th EXCEPT ![t] = [q EXCEPT !.pc = "each", !.todo = ids]]
        BY <3>1 DEF Fetch
      <4>2. Quiet([q EXCEPT !.pc = "each", !.todo = ids])
        BY <1>1, <3>1, <4>1 DEF Fetch, Thread
      <4> QED
        BY <4>2
    <3>2. CASE DispatchEnds(t)
      <4>1. Quiet(Idle)
        BY <1>1, <3>2 DEF DispatchEnds, Thread, Idle
      <4> QED
        BY <4>1
    <3>3. CASE SetPendingAttempt(t)
      <4>1. Quiet([q EXCEPT !.pc = "zadd"])
        BY <1>1, <3>3 DEF SetPendingAttempt, Thread
      <4> QED
        BY <4>1
    <3>4. ASSUME NEW m \in Msgs, FetchPayload(t, m) PROVE \E r : Quiet(r)
      <4>1. q.pc = "each"
        BY <3>4 DEF FetchPayload
      <4>2. \/ Quiet([q EXCEPT !.todo = q.todo \ {m}, !.msgs = q.msgs \cup {m}])
            \/ Quiet([q EXCEPT !.pc = "zrem", !.m = m, !.todo = q.todo \ {m}])
            \/ Quiet([q EXCEPT !.todo = q.todo \ {m}])
        BY <1>1, <3>4, <4>1 DEF FetchPayload, Thread
      <4> HIDE DEF Quiet
      <4> QED
        BY <4>2
    <3>5. ASSUME NEW m \in Msgs, GetPendingAttempt(t, m) PROVE \E r : Quiet(r)
      <4>1. q.pc = "each"
        BY <3>5 DEF GetPendingAttempt
      <4>2. PICK n :
              \/ th' = [th EXCEPT ![t] = [q EXCEPT !.pc = "send", !.m = m, !.attempt = n,
                                                   !.msgs = q.msgs \ {m}]]
              \/ th' = [th EXCEPT ![t] = [q EXCEPT !.msgs = q.msgs \ {m}]]
        BY <3>5 DEF GetPendingAttempt
      <4>3. \/ Quiet([q EXCEPT !.pc = "send", !.m = m, !.attempt = n, !.msgs = q.msgs \ {m}])
            \/ Quiet([q EXCEPT !.msgs = q.msgs \ {m}])
        BY <1>1, <4>1, <4>2 DEF Thread
      <4> HIDE DEF Quiet
      <4> QED
        BY <4>3
    <3> HIDE DEF Quiet
    <3> QED
      BY <1>3, <3>1, <3>2, <3>3, <3>4, <3>5
  <2>3. PICK r : Quiet(r)
    BY <2>2
  <2> QED
    BY <1>2, <2>1, <2>3, QuietStep
<1>4. CASE RemoveStale(t)
  <2> DEFINE r == [q EXCEPT !.pc = "each", !.m = None]
  <2>1. th' = [th EXCEPT ![t] = r] /\ q.pc = "zrem" /\ r.pc = "each"
    BY <1>1, <1>4 DEF RemoveStale, Thread
  <2> HIDE DEF r
  <2>2. Rescheduling' = Rescheduling
    BY <2>1, ThreadReadings DEF Rescheduling
  <2>3. q.m \in Past /\ q.m \notin Storing /\ q.m \notin Rescheduling
    BY <1>1, <2>1, DeliveryAssumption DEF Valid, Past, Storing, Rescheduling, Threads
  <2>4. CASE UNCHANGED <<scheduled, earlier, due>>
    BY <1>2, <2>2, <2>4, SameReadings
  <2>5. CASE ZRem({q.m})
    <3>1. Readings' = Readings \ {q.m}
      BY <1>2, <2>2, <2>3, <2>5 DEF Readings, ZRem
    <3>2. earlier' = Drop(earlier, {q.m}) /\ due' = due \ {q.m}
      BY <2>5 DEF ZRem, Without, Drop
    <3>3. Ordered(Drop(earlier, {q.m}), Readings \ {q.m}, due \ {q.m})
      BY OrderDrop DEF ReadingsOK
    <3> QED
      BY <3>1, <3>2, <3>3 DEF ReadingsOK, Ordered, IsOrder
  <2> QED
    BY <1>4, <2>4, <2>5 DEF RemoveStale
<1>5. CASE SendPending(t)
  <2> DEFINE r == [q EXCEPT !.pc = "hset"]
  <2>1. th' = [th EXCEPT ![t] = r] /\ q.pc = "send" /\ r.pc = "hset"
    BY <1>1, <1>5 DEF SendPending, Thread
  <2> HIDE DEF r
  <2>2. Rescheduling' = Rescheduling \cup {t} /\ t \notin Rescheduling
    BY <2>1, ThreadReadings DEF Rescheduling
  <2>3. UNCHANGED <<scheduled, due>> /\ earlier' = earlier \cup (Readings \X {t})
    BY <1>5 DEF SendPending, ReadClock
  <2>4. Readings' = Readings \cup {t}
    BY <1>2, <2>2, <2>3 DEF Readings
  <2>5. t \notin Readings
    BY <1>1, <2>2 DEF Readings, Storing, RedisOK, Past
  <2>6. Ordered(earlier \cup (Readings \X {t}), Readings \cup {t}, due)
    BY <2>5, OrderAppend DEF ReadingsOK
  <2> QED
    BY <2>3, <2>4, <2>6 DEF ReadingsOK, Ordered, IsOrder
<1>6. CASE Reschedule(t)
  <2> DEFINE r == [q EXCEPT !.pc = "each", !.m = None, !.attempt = 0]
             m == q.m
  <2>1. th' = [th EXCEPT ![t] = r] /\ q.pc = "zadd" /\ r.pc = "each"
    BY <1>1, <1>6 DEF Reschedule, Thread
  <2> HIDE DEF r
  <2>2. Rescheduling' = Rescheduling \ {t} /\ t \in Rescheduling
    BY <2>1, ThreadReadings DEF Rescheduling
  <2>3. m \in Past /\ m \notin Storing /\ m \notin Threads
    BY <1>1, <2>1, DeliveryAssumption DEF Valid, Past, Storing, Threads
  <2>4. t \notin scheduled /\ t \notin Storing /\ t # m /\ t \in Readings
    BY <1>1, <2>2, <2>3 DEF Readings, Storing, RedisOK, Past
  <2>5. CASE Forget(t)
    <3>1. Readings' = Readings \ {t}
      BY <1>2, <2>2, <2>4, <2>5 DEF Readings, Forget
    <3>2. earlier' = Drop(earlier, {t}) /\ due' = due \ {t}
      BY <2>5 DEF Forget, Without, Drop
    <3>3. Ordered(Drop(earlier, {t}), Readings \ {t}, due \ {t})
      BY OrderDrop DEF ReadingsOK
    <3> QED
      BY <3>1, <3>2, <3>3 DEF ReadingsOK, Ordered, IsOrder
  <2>6. CASE ZAdd(m, t)
    <3> DEFINE R == Drop(earlier, {m})
               S == Readings \ {m}
               D == due \ {m}
    <3>1. Ordered(R, S, D) /\ t \in S /\ m \notin S
      BY <2>4, OrderDrop DEF ReadingsOK
    <3>2. earlier' = Rename(R, t, m)
      <4>1. {m} \ {t} = {m}
        BY <2>4
      <4> QED
        BY <2>6, <4>1 DEF ZAdd, Without, Drop, Rename
    <3>3. due' = (D \ {t}) \cup (IF t \in D THEN {m} ELSE {})
      BY <2>4, <2>6 DEF ZAdd
    <3>4. Readings' = (S \ {t}) \cup {m}
      BY <1>2, <2>2, <2>3, <2>4, <2>6 DEF Readings, ZAdd, Rescheduling
    <3> HIDE DEF R, S, D
    <3>5. Ordered(Rename(R, t, m), (S \ {t}) \cup {m},
                  (D \ {t}) \cup (IF t \in D THEN {m} ELSE {}))
      BY <3>1, OrderRename
    <3>6. Ordered(earlier', Readings', due')
      BY <3>2, <3>3, <3>4, <3>5
    <3> QED
      BY <3>6 DEF ReadingsOK, Ordered, IsOrder
  <2> QED
    BY <1>6, <2>5, <2>6 DEF Reschedule
<1> QED
  BY <1>3, <1>4, <1>5, <1>6 DEF Dispatch

\* Every step keeps the types of the remaining variables.
LEMMA NextSessions == IInv /\ SessionsOK /\ [Next]_vars => SessionsOK'
<1> SUFFICES ASSUME IInv, SessionsOK, [Next]_vars PROVE SessionsOK'
  OBVIOUS
<1> USE DEF IInv, SessionsOK
<1>1. ASSUME NEW m \in Msgs, ProcessChat(m) \/ Task(m) PROVE SessionsOK'
  <2>1. UNCHANGED <<conn, th>>
    BY <1>1 DEF ProcessChat, Task, RunTask, StorePendingMessage, AckSender, SendTarget, userVars
  <2>2. known' \in BOOLEAN
    BY <1>1 DEF ProcessChat, Task, RunTask, StorePendingMessage, AckSender, SendTarget, redisVars
  <2>3. target' \in [Msgs -> Sessions \cup {None}]
    BY <1>1 DEF ProcessChat, Task, RunTask, StorePendingMessage, AckSender, SendTarget, UserOK
  <2> QED
    BY <2>1, <2>2, <2>3
<1>2. ASSUME NEW ids \in SUBSET Msgs, AckPendingMessage(ids) PROVE SessionsOK'
  BY <1>2 DEF AckPendingMessage, chatVars, userVars
<1>3. ASSUME NEW s \in Sessions, Disconnect(s) PROVE SessionsOK'
  BY <1>3 DEF Disconnect, redisVars, chatVars
<1>4. ASSUME NEW s \in Sessions, NEW pull \in BOOLEAN, Connect(s, pull) PROVE SessionsOK'
  <2>1. /\ conn' = [conn EXCEPT ![s] = "live"] /\ UNCHANGED <<known, target>>
        /\ \A u \in Threads \ {s} : th'[u] = th[u]
    BY <1>4 DEF Connect, redisVars, chatVars, ThreadsOK
  <2> QED
    BY <2>1 DEF Threads
<1>5. CASE RetryScan
  <2>1. UNCHANGED <<known, target, conn>> /\ \A u \in Threads \ {Retry} : th'[u] = th[u]
    BY <1>5 DEF RetryScan, redisVars, chatVars, userVars, ThreadsOK
  <2> QED
    BY <2>1, DeliveryAssumption DEF Threads
<1>6. ASSUME NEW t \in Threads, Dispatch(t) PROVE SessionsOK'
  <2> USE DEF Dispatch, Fetch, RemoveStale, SendPending, SetPendingAttempt, Reschedule,
              DispatchEnds, FetchPayload, GetPendingAttempt
  <2>1. UNCHANGED <<known, target, conn>> /\ th[t].pc # "idle"
    BY <1>6 DEF redisVars, chatVars, userVars
  <2>2. \A u \in Threads \ {t} : th'[u] = th[u]
    BY <1>6 DEF ThreadsOK
  <2> QED
    BY <2>1, <2>2 DEF Threads
<1>7. CASE TimePasses \/ UNCHANGED vars
  BY <1>7 DEF TimePasses, vars, redisVars, chatVars, userVars
<1> QED
  BY <1>1, <1>2, <1>3, <1>4, <1>5, <1>6, <1>7 DEF Next

\* Every step keeps the readings in order.
LEMMA NextReadings == IInv /\ SessionsOK /\ ReadingsOK /\ [Next]_vars => ReadingsOK'
<1> SUFFICES ASSUME IInv, SessionsOK, ReadingsOK, [Next]_vars PROVE ReadingsOK'
  OBVIOUS
<1>1. CASE TimePasses
  <2>1. PICK e \in Readings \ due :
          /\ \A d \in Readings : <<d, e>> \in earlier => d \in due
          /\ due' = due \cup {e}
    BY <1>1 DEF TimePasses
  <2>2. Readings' = Readings /\ earlier' = earlier
    BY <1>1 DEF TimePasses, Readings, Storing, Rescheduling, chatVars
  <2> QED
    BY <2>1, <2>2 DEF ReadingsOK, Ordered, IsOrder
<1>2. CASE UNCHANGED vars
  BY <1>2, SameReadings DEF vars, redisVars, chatVars, Storing, Rescheduling
<1> QED
  BY <1>1, <1>2, TaskReadings, AckReadings, UserReadings, DispatchReadings DEF Next

\* The variables of the Redis tasks keep their types, and no step of a task, a
\* dispatch or an acknowledgement leaves a score behind or loses the order of
\* two, however many messages, sessions and failing commands there are.
THEOREM DeliveryTypeCorrect == Spec => []TypeOK
<1>1. Init => SessionsOK /\ ReadingsOK
  <2> SUFFICES ASSUME Init PROVE SessionsOK /\ ReadingsOK
    OBVIOUS
  <2>1. Storing = {} /\ Rescheduling = {}
    BY DEF Init, Storing, Rescheduling, Idle
  <2>2. Readings = {} /\ earlier = {} /\ due = {}
    BY <2>1 DEF Init, Readings
  <2>3. ReadingsOK
    BY <2>2 DEF ReadingsOK, Ordered, IsOrder
  <2>4. SessionsOK
    BY DEF Init, SessionsOK, Threads, Idle
  <2> QED
    BY <2>3, <2>4
<1>2. IInv /\ SessionsOK /\ ReadingsOK => TypeOK
  <2> SUFFICES ASSUME IInv, SessionsOK, ReadingsOK PROVE TypeOK
    OBVIOUS
  <2>1. \A t \in Threads : Held(t) \subseteq Msgs /\ th[t].to \in Sessions \cup {None}
    BY DEF IInv, ThreadsOK, Thread, Held
  <2>2. DOMAIN th = Threads
    BY DEF IInv, ThreadsOK
  <2>3. payload \subseteq Msgs /\ scheduled \subseteq Msgs /\ sent \subseteq Msgs
    BY DEF IInv, RedisOK, Past
  <2>4. acked \subseteq Msgs
    BY DEF IInv, ChatOK
  <2> QED
    BY <2>1, <2>2, <2>3, <2>4
    DEF IInv, RedisOK, ChatOK, UserOK, SessionsOK, ReadingsOK, Ordered, TypeOK
<1> QED
  BY <1>1, <1>2, InitIInv, NextIInv, NextSessions, NextReadings, PTL DEF Spec

-----------------------------------------------------------------------------
(* The thread pool.                                                        *)

\* The counter is left out of the types: that it is never lowered below zero
\* needs the count of DepthExact.
Types ==
    /\ accepted \in Nat /\ started \in Nat
    /\ worker \in [Workers -> {"ready", "asleep", "running", "uncount", "gone"}]
    /\ cur \in [Workers -> Nat]

\* The inductive invariant.
PoolIInv == Types /\ TasksAccounted /\ QueueBounded

\* Sequences are equal that have the same length and the same elements.
LEMMA SameElements ==
    \A s, t \in Seq(Nat) :
        Len(s) = Len(t) /\ (\A i \in 1..Len(s) : s[i] = t[i]) => s = t
OBVIOUS

\* A queue of consecutive numbers: its length, its first element and the rest.
LEMMA QueueShape ==
    ASSUME Types, TasksAccounted
    PROVE  /\ tasks \in Seq(Nat)
           /\ Len(tasks) = accepted - started
           /\ Append(tasks, accepted + 1) =
                 [i \in 1..((accepted + 1) - started) |-> started + i]
           /\ tasks # <<>> =>
                 /\ started < accepted
                 /\ Head(tasks) = started + 1
                 /\ Tail(tasks) = [i \in 1..(accepted - (started + 1)) |-> (started + 1) + i]
<1> DEFINE n == accepted - started
<1>1. n \in Nat /\ accepted \in Nat /\ started \in Nat
  BY DEF Types, TasksAccounted
<1>2. tasks = [i \in 1..n |-> started + i]
  BY DEF TasksAccounted
<1>3. tasks \in Seq(Nat) /\ Len(tasks) = n
  BY <1>1, <1>2
<1>4. Append(tasks, accepted + 1) = [i \in 1..((accepted + 1) - started) |-> started + i]
  BY <1>1, <1>2, <1>3
<1>5. ASSUME tasks # <<>>
      PROVE  /\ started < accepted
             /\ Head(tasks) = started + 1
             /\ Tail(tasks) = [i \in 1..(accepted - (started + 1)) |-> (started + 1) + i]
  <2>1. n > 0
    BY <1>1, <1>3, <1>5
  <2>2. started < accepted /\ Head(tasks) = started + 1
    BY <1>1, <1>2, <1>3, <2>1
  <2>3. /\ Tail(tasks) \in Seq(Nat) /\ Len(Tail(tasks)) = n - 1
        /\ \A i \in 1..Len(Tail(tasks)) : Tail(tasks)[i] = tasks[i + 1]
    BY <1>3, <1>5
  <2>4. \A i \in 1..(n - 1) : tasks[i + 1] = (started + 1) + i
    BY <1>1, <1>2
  <2>5. Tail(tasks) = [i \in 1..(n - 1) |-> (started + 1) + i]
    <3> DEFINE rest == [i \in 1..(n - 1) |-> (started + 1) + i]
    <3>1. n - 1 \in Nat
      BY <1>1, <2>1
    <3>2. rest \in Seq(Nat) /\ Len(rest) = n - 1
      BY <1>1, <3>1
    <3>3. \A i \in 1..Len(Tail(tasks)) : Tail(tasks)[i] = rest[i]
      BY <2>3, <2>4
    <3> HIDE DEF rest
    <3>4. Tail(tasks) = rest
      BY <2>3, <3>2, <3>3, SameElements
    <3> QED
      BY <3>4 DEF rest
  <2>6. n - 1 = accepted - (started + 1)
    BY <1>1
  <2> QED
    BY <2>2, <2>5, <2>6
<1> QED
  BY <1>3, <1>4, <1>5

\* The initial states satisfy the inductive invariant.
LEMMA InitPoolIInv == PoolInit => PoolIInv
BY ThreadPoolAssumption DEF PoolInit, PoolIInv, Types, TasksAccounted, QueueBounded, Running

\* Steps that neither touch the queue nor start or end a task keep it.
LEMMA ControlStep ==
    ASSUME PoolIInv, UNCHANGED <<tasks, accepted, started, finished, cur, kind>>,
           worker' \in [Workers -> {"ready", "asleep", "running", "uncount", "gone"}],
           \A w \in Workers : worker'[w] = "running" <=> worker[w] = "running"
    PROVE  PoolIInv'
<1>1. Running' = Running
  BY DEF Running
<1>2. {cur[w] : w \in Running}' = {cur[w] : w \in Running}
  BY <1>1
<1> QED
  BY <1>1, <1>2 DEF PoolIInv, Types, TasksAccounted, QueueBounded, Counted

\* Putting a task in the queue keeps it.
LEMMA PushIInv ==
    ASSUME PoolIInv, Push, Counted \/ ~Full, UNCHANGED <<worker, cur, kind>>
    PROVE  PoolIInv'
<1>1. Running' = Running
  BY DEF Running
<1>2. {cur[w] : w \in Running}' = {cur[w] : w \in Running}
  BY <1>1
<1>3. /\ accepted' = accepted + 1 /\ UNCHANGED <<started, finished>>
      /\ tasks' = Append(tasks, accepted + 1)
  BY DEF Push
<1>4. Types'
  BY <1>3 DEF PoolIInv, Types
<1>5. started' \in 0..accepted'
  <2>1. accepted \in Nat /\ started \in 0..accepted
    BY DEF PoolIInv, Types, TasksAccounted
  <2> QED
    BY <1>3, <2>1
<1>6. /\ tasks \in Seq(Nat)
      /\ Append(tasks, accepted + 1) = [i \in 1..((accepted + 1) - started) |-> started + i]
  BY QueueShape DEF PoolIInv
<1>6a. tasks' = [i \in 1..(accepted' - started') |-> started' + i]
  BY <1>3, <1>6
<1>6b. Len(tasks') = Len(tasks) + 1 /\ Len(tasks) \in Nat
  BY <1>3, <1>6
<1>7. TasksAccounted'
  BY <1>1, <1>2, <1>3, <1>5, <1>6a DEF PoolIInv, TasksAccounted
<1>8. QueueBounded'
  BY <1>6b, ThreadPoolAssumption DEF PoolIInv, QueueBounded, Full, Counted
<1> QED
  BY <1>4, <1>7, <1>8 DEF PoolIInv

\* Taking a task from the queue keeps it.
LEMMA TakeIInv == ASSUME PoolIInv, NEW w \in Workers, Take(w) PROVE PoolIInv'
<1> DEFINE n == started + 1
<1>1. /\ tasks # <<>> /\ tasks' = Tail(tasks) /\ worker[w] = "ready"
      /\ cur' = [cur EXCEPT ![w] = Head(tasks)] /\ started' = n
      /\ worker' = [worker EXCEPT ![w] = "running"]
      /\ UNCHANGED <<accepted, finished, kind>>
  BY DEF Take
<1>2. /\ started < accepted /\ Head(tasks) = n /\ tasks \in Seq(Nat)
      /\ Tail(tasks) = [i \in 1..(accepted - n) |-> n + i]
      /\ Len(tasks) = accepted - started
  BY <1>1, QueueShape DEF PoolIInv
<1>3. started \in Nat /\ accepted \in Nat
  BY DEF PoolIInv, Types
<1>4. Types'
  BY <1>1, <1>2, <1>3 DEF PoolIInv, Types
<1>5. Running' = Running \cup {w} /\ w \notin Running
  BY <1>1 DEF Running, PoolIInv, Types
<1>6. cur'[w] = n /\ \A v \in Running : cur'[v] = cur[v]
  BY <1>1, <1>2, <1>5 DEF PoolIInv, Types, Running
<1>7. {cur[v] : v \in Running}' = {cur[v] : v \in Running} \cup {n}
  BY <1>5, <1>6
<1>8. 1..n = (1..started) \cup {n} /\ n \notin 1..started
  BY <1>3
<1>9. \A v \in Running : cur[v] # n
  BY <1>8 DEF PoolIInv, TasksAccounted
<1>10. n \notin finished
  BY <1>8 DEF PoolIInv, TasksAccounted
<1>11. started' \in 0..accepted' /\ tasks' = [i \in 1..(accepted' - started') |-> started' + i]
  BY <1>1, <1>2, <1>3
<1>12. (finished \cup {cur[v] : v \in Running} = 1..started)'
  BY <1>1, <1>7, <1>8 DEF PoolIInv, TasksAccounted
<1>13. \A v \in Running' : cur'[v] \notin finished'
  BY <1>1, <1>5, <1>6, <1>10 DEF PoolIInv, TasksAccounted
<1>14. \A u, v \in Running' : cur'[u] = cur'[v] => u = v
  BY <1>5, <1>6, <1>9 DEF PoolIInv, TasksAccounted
<1>15. TasksAccounted'
  BY <1>11, <1>12, <1>13, <1>14 DEF TasksAccounted
<1>16. QueueBounded'
  BY <1>1, <1>2, <1>3, ThreadPoolAssumption DEF PoolIInv, QueueBounded, Counted
<1> QED
  BY <1>4, <1>15, <1>16 DEF PoolIInv

\* The end of a task keeps it.
LEMMA RunIInv == ASSUME PoolIInv, NEW w \in Workers, Run(w) PROVE PoolIInv'
<1>1. /\ worker[w] = "running" /\ finished' = finished \cup {cur[w]}
      /\ cur' = [cur EXCEPT ![w] = 0]
      /\ worker' = [worker EXCEPT ![w] = IF Counted THEN "uncount" ELSE "ready"]
      /\ UNCHANGED <<tasks, accepted, started, kind>>
  BY DEF Run
<1>2. Types'
  BY <1>1 DEF PoolIInv, Types
<1>3. Running' = Running \ {w} /\ w \in Running
  BY <1>1 DEF Running, PoolIInv, Types
<1>4. \A v \in Running' : cur'[v] = cur[v]
  BY <1>1, <1>3 DEF PoolIInv, Types, Running
<1>5. (finished \cup {cur[v] : v \in Running})' = finished \cup {cur[v] : v \in Running}
  BY <1>1, <1>3, <1>4
<1>6. \A v \in Running' : cur'[v] \notin finished'
  BY <1>1, <1>3, <1>4 DEF PoolIInv, TasksAccounted
<1>7. \A u, v \in Running' : cur'[u] = cur'[v] => u = v
  BY <1>3, <1>4 DEF PoolIInv, TasksAccounted
<1>8. TasksAccounted'
  BY <1>1, <1>5, <1>6, <1>7 DEF PoolIInv, TasksAccounted
<1>9. QueueBounded'
  BY <1>1 DEF PoolIInv, QueueBounded, Counted
<1> QED
  BY <1>2, <1>8, <1>9 DEF PoolIInv

\* A submitter is on its way to enqueue only when tasks are counted.
PushIsCounted ==
    /\ sub \in [Submitters -> {"idle", "undo", "push", "notify"}]
    /\ \A s \in Submitters : sub[s] = "push" => Counted

\* Every step keeps that, and the initial states satisfy it.
LEMMA NextPushIsCounted ==
    /\ PoolInit => PushIsCounted
    /\ PushIsCounted /\ [PoolNext]_poolVars => PushIsCounted'
<1>1. PoolInit => PushIsCounted
  BY DEF PoolInit, PushIsCounted
<1>2. ASSUME PushIsCounted, [PoolNext]_poolVars PROVE PushIsCounted'
  <2>1. UNCHANGED kind
    BY <1>2 DEF PoolNext, poolVars, WorkerStep, SubmitterStep, Sleep, Spurious, Take, Run,
                Uncount, Leave, TryEnqueue, Count, Undo, Enqueue, NotifyOne, Stop, NotifyAll
  <2>2. \/ UNCHANGED sub
        \/ \E s \in Submitters, v \in {"idle", "undo", "push", "notify"} :
              sub' = [sub EXCEPT ![s] = v] /\ (v = "push" => Counted)
    BY <1>2 DEF PoolNext, poolVars, WorkerStep, SubmitterStep, Sleep, Spurious, Take, Run,
                Uncount, Leave, TryEnqueue, Count, Undo, Enqueue, NotifyOne, Stop, NotifyAll
  <2> QED
    BY <1>2, <2>1, <2>2 DEF PushIsCounted, Counted
<1> QED
  BY <1>1, <1>2

\* Every step keeps the inductive invariant.
LEMMA NextPoolIInv == PushIsCounted /\ PoolIInv /\ [PoolNext]_poolVars => PoolIInv'
<1> SUFFICES ASSUME PushIsCounted, PoolIInv, [PoolNext]_poolVars PROVE PoolIInv'
  OBVIOUS
<1> USE DEF queueVars
<1>1. ASSUME NEW w \in Workers,
             Sleep(w) \/ Spurious(w) \/ Uncount(w) \/ Leave(w)
      PROVE  PoolIInv'
  BY <1>1, ControlStep DEF Sleep, Spurious, Uncount, Leave, PoolIInv, Types
<1>2. ASSUME NEW s \in Submitters, Count(s) \/ Undo(s)
      PROVE  PoolIInv'
  BY <1>2, ControlStep DEF Count, Undo, PoolIInv, Types
<1>3. ASSUME NEW s \in Submitters, NotifyOne(s) PROVE PoolIInv'
  BY <1>3, ControlStep DEF NotifyOne, Wake, PoolIInv, Types
<1>4. ASSUME NEW s \in Submitters, TryEnqueue(s) PROVE PoolIInv'
  BY <1>4, PushIInv DEF TryEnqueue
<1>5. ASSUME NEW s \in Submitters, Enqueue(s) PROVE PoolIInv'
  BY <1>5, PushIInv DEF Enqueue, PushIsCounted
<1>6. CASE Stop \/ NotifyAll
  BY <1>6, ControlStep DEF Stop, NotifyAll, PoolIInv, Types
<1>7. CASE UNCHANGED poolVars
  BY <1>7, ControlStep DEF poolVars, PoolIInv, Types
<1> QED
  BY <1>1, <1>2, <1>3, <1>4, <1>5, <1>6, <1>7, TakeIInv, RunIInv
  DEF PoolNext, WorkerStep, SubmitterStep

\* ThreadPool loses no task, runs none twice and takes them in the order they
\* were accepted, for any number of workers and submitters.
THEOREM TasksAlwaysAccounted == PoolSpec => []TasksAccounted
<1>1. PoolIInv => TasksAccounted
  BY DEF PoolIInv
<1> QED
  BY <1>1, InitPoolIInv, NextPushIsCounted, NextPoolIInv, PTL DEF PoolSpec

\* try_enqueue keeps the queue within max_queue_size, for any number of
\* submitters and any limit.
THEOREM QueueAlwaysBounded == PoolSpec => []QueueBounded
<1>1. PoolIInv => QueueBounded
  BY DEF PoolIInv
<1> QED
  BY <1>1, InitPoolIInv, NextPushIsCounted, NextPoolIInv, PTL DEF PoolSpec

-----------------------------------------------------------------------------
(* Stopping.                                                               *)

\* A worker has a task exactly while it runs, and leaves only a pool that is
\* being destroyed and, where try_enqueue refuses what comes later, whose queue
\* is and stays empty.
ControlOK ==
    /\ kind \in {"bounded", "counted"} /\ stop \in BOOLEAN /\ toldAll \in BOOLEAN
    /\ \A w \in Workers : (worker[w] = "running") <=> (cur[w] # 0)
    /\ stop => kind \in Destroyed
    /\ \A w \in Workers : worker[w] = "gone" => stop /\ (~Counted => tasks = <<>>)

\* The initial states satisfy it and every step keeps it.
LEMMA NextControl ==
    /\ PoolInit => ControlOK
    /\ PushIsCounted /\ PoolIInv /\ ControlOK /\ [PoolNext]_poolVars => ControlOK'
<1>1. PoolInit => ControlOK
  BY DEF PoolInit, ControlOK
<1>2. ASSUME PushIsCounted, PoolIInv, ControlOK, [PoolNext]_poolVars PROVE ControlOK'
  <2> USE DEF queueVars, PoolIInv, Types, ControlOK, Counted
  <2>1. ASSUME NEW w \in Workers, Sleep(w) \/ Spurious(w) \/ Uncount(w) \/ Leave(w)
        PROVE  ControlOK'
    BY <1>2, <2>1 DEF Sleep, Spurious, Uncount, Leave, Leaves
  <2>2. ASSUME NEW w \in Workers, Take(w) PROVE ControlOK'
    <3>1. Head(tasks) # 0
      BY <1>2, <2>2, QueueShape DEF Take
    <3> QED
      BY <1>2, <2>2, <3>1 DEF Take
  <2>3. ASSUME NEW w \in Workers, Run(w) PROVE ControlOK'
    BY <1>2, <2>3 DEF Run
  <2>4. ASSUME NEW s \in Submitters, Count(s) \/ Undo(s) PROVE ControlOK'
    BY <1>2, <2>4 DEF Count, Undo
  <2>5. ASSUME NEW s \in Submitters, TryEnqueue(s) PROVE ControlOK'
    BY <1>2, <2>5 DEF TryEnqueue, Push
  <2>6. ASSUME NEW s \in Submitters, Enqueue(s) PROVE ControlOK'
    BY <1>2, <2>6 DEF Enqueue, Push, PushIsCounted
  <2>7. ASSUME NEW s \in Submitters, NotifyOne(s) PROVE ControlOK'
    BY <1>2, <2>7 DEF NotifyOne, Wake
  <2>8. CASE Stop \/ NotifyAll
    BY <1>2, <2>8 DEF Stop, NotifyAll
  <2>9. CASE UNCHANGED poolVars
    BY <1>2, <2>9 DEF poolVars
  <2> QED
    BY <1>2, <2>1, <2>2, <2>3, <2>4, <2>5, <2>6, <2>7, <2>8, <2>9
    DEF PoolNext, WorkerStep, SubmitterStep
<1> QED
  BY <1>1, <1>2

-----------------------------------------------------------------------------
(* The counter of a counted pool.                                          *)
INSTANCE FiniteSetTheorems

\* The members of S whose state under f is one of those in M.
Marked(f, S, M) == {x \in S : f[x] \in M}

\* Two finite sets that differ at most in one element differ in their numbers of
\* elements by that one.
LEMMA OneElement ==
    ASSUME NEW A, NEW B, NEW a, IsFiniteSet(A), IsFiniteSet(B), A \ {a} = B \ {a}
    PROVE  /\ (a \in A <=> a \in B) => Cardinality(B) = Cardinality(A)
           /\ a \notin A /\ a \in B => Cardinality(B) = Cardinality(A) + 1
           /\ a \in A /\ a \notin B => Cardinality(B) = Cardinality(A) - 1
<1> DEFINE rest == A \ {a}
<1>1. IsFiniteSet(rest) /\ rest = B \ {a}
  BY FS_RemoveElement
<1>2. Cardinality(rest) \in Nat
  BY <1>1, FS_CardinalityType
<1>3. Cardinality(rest \cup {a}) = Cardinality(rest) + 1
  BY <1>1, FS_AddElement
<1>4. /\ a \in A => A = rest \cup {a}
      /\ a \notin A => A = rest
  OBVIOUS
<1>5. /\ a \in B => B = rest \cup {a}
      /\ a \notin B => B = rest
  BY <1>1
<1> HIDE DEF rest
<1>6. /\ a \in A => Cardinality(A) = Cardinality(rest) + 1
      /\ a \notin A => Cardinality(A) = Cardinality(rest)
  BY <1>3, <1>4
<1>7. /\ a \in B => Cardinality(B) = Cardinality(rest) + 1
      /\ a \notin B => Cardinality(B) = Cardinality(rest)
  BY <1>3, <1>5
<1> QED
  BY <1>2, <1>6, <1>7

\* The members in some of the states make a finite set.
LEMMA MarkedFinite ==
    ASSUME NEW f, NEW S, NEW M, IsFiniteSet(S)
    PROVE  IsFiniteSet(Marked(f, S, M)) /\ Cardinality(Marked(f, S, M)) \in Nat
<1>1. Marked(f, S, M) \in SUBSET S
  BY DEF Marked
<1>2. IsFiniteSet(Marked(f, S, M))
  BY <1>1, FS_Subset
<1> QED
  BY <1>2, FS_CardinalityType

BusyWorkers == Cardinality(Marked(worker, Workers, {"running", "uncount"}))
Pushing == Cardinality(Marked(sub, Submitters, {"push"}))
Undoing == Cardinality(Marked(sub, Submitters, {"undo"}))

\* The same numbers after a step.
LEMMA PrimedCounts ==
    /\ BusyWorkers' = Cardinality(Marked(worker', Workers, {"running", "uncount"}))
    /\ Pushing' = Cardinality(Marked(sub', Submitters, {"push"}))
    /\ Undoing' = Cardinality(Marked(sub', Submitters, {"undo"}))
BY DEF BusyWorkers, Pushing, Undoing, Marked

\* What the counter counts, in either kind of pool.
DepthOK ==
    /\ PushIsCounted
    /\ ~Counted => /\ depth = 0
                   /\ \A w \in Workers : worker[w] # "uncount"
                   /\ \A s \in Submitters : sub[s] \notin {"undo", "push"}
    /\ Counted => /\ depth = Len(tasks) + BusyWorkers + Pushing + Undoing
                  /\ Len(tasks) + BusyWorkers + Pushing <= Limit

\* The numbers of busy workers and of submitters on their way are naturals.
LEMMA CountsAreNat ==
    /\ BusyWorkers \in Nat /\ Pushing \in Nat /\ Undoing \in Nat
    /\ BusyWorkers' \in Nat /\ Pushing' \in Nat /\ Undoing' \in Nat
<1>2. IsFiniteSet(Workers) /\ IsFiniteSet(Submitters)
  BY ThreadPoolAssumption
<1>3. BusyWorkers \in Nat /\ Pushing \in Nat /\ Undoing \in Nat
  BY <1>2, MarkedFinite DEF BusyWorkers, Pushing, Undoing
<1>4. /\ Cardinality(Marked(worker', Workers, {"running", "uncount"})) \in Nat
      /\ Cardinality(Marked(sub', Submitters, {"push"})) \in Nat
      /\ Cardinality(Marked(sub', Submitters, {"undo"})) \in Nat
  BY <1>2, MarkedFinite
<1>5. BusyWorkers' \in Nat /\ Pushing' \in Nat /\ Undoing' \in Nat
  BY <1>4, PrimedCounts
<1> QED
  BY <1>3, <1>5

\* The initial states satisfy it.
LEMMA InitDepth == PoolInit => DepthOK
<1> SUFFICES ASSUME PoolInit PROVE DepthOK
  OBVIOUS
<1>1. /\ Marked(worker, Workers, {"running", "uncount"}) = {}
      /\ Marked(sub, Submitters, {"push"}) = {}
      /\ Marked(sub, Submitters, {"undo"}) = {}
  BY DEF PoolInit, Marked
<1>2. BusyWorkers = 0 /\ Pushing = 0 /\ Undoing = 0
  BY <1>1, FS_EmptySet DEF BusyWorkers, Pushing, Undoing
<1>3. Len(tasks) = 0 /\ depth = 0
  BY DEF PoolInit
<1>4. PushIsCounted
  BY NextPushIsCounted
<1> QED
  BY <1>2, <1>3, <1>4, ThreadPoolAssumption DEF DepthOK, PoolInit, Counted

\* How a step of a worker changes the number of busy ones.
LEMMA BusyStep ==
    ASSUME NEW w \in Workers, \A x \in Workers \ {w} : worker'[x] = worker[x]
    PROVE  LET busy == {"running", "uncount"}
           IN  /\ (worker[w] \in busy <=> worker'[w] \in busy) => BusyWorkers' = BusyWorkers
               /\ worker[w] \notin busy /\ worker'[w] \in busy => BusyWorkers' = BusyWorkers + 1
               /\ worker[w] \in busy /\ worker'[w] \notin busy => BusyWorkers' = BusyWorkers - 1
<1> DEFINE A == Marked(worker, Workers, {"running", "uncount"})
           B == Marked(worker', Workers, {"running", "uncount"})
<1>1. A \ {w} = B \ {w}
  BY DEF Marked
<1>2. /\ w \in A <=> worker[w] \in {"running", "uncount"}
      /\ w \in B <=> worker'[w] \in {"running", "uncount"}
  BY DEF Marked
<1>3. IsFiniteSet(A) /\ IsFiniteSet(B)
  BY MarkedFinite, ThreadPoolAssumption
<1>4. BusyWorkers' = Cardinality(B) /\ BusyWorkers = Cardinality(A)
  BY PrimedCounts DEF BusyWorkers
<1> HIDE DEF A, B
<1>5. /\ (w \in A <=> w \in B) => Cardinality(B) = Cardinality(A)
      /\ w \notin A /\ w \in B => Cardinality(B) = Cardinality(A) + 1
      /\ w \in A /\ w \notin B => Cardinality(B) = Cardinality(A) - 1
  BY <1>1, <1>3, OneElement
<1> QED
  BY <1>2, <1>4, <1>5

\* How a step of a submitter changes the numbers of those on their way.
LEMMA SubmitterCounts ==
    ASSUME NEW s \in Submitters, \A x \in Submitters \ {s} : sub'[x] = sub[x]
    PROVE  /\ (sub[s] = "push" <=> sub'[s] = "push") => Pushing' = Pushing
           /\ sub[s] # "push" /\ sub'[s] = "push" => Pushing' = Pushing + 1
           /\ sub[s] = "push" /\ sub'[s] # "push" => Pushing' = Pushing - 1
           /\ (sub[s] = "undo" <=> sub'[s] = "undo") => Undoing' = Undoing
           /\ sub[s] # "undo" /\ sub'[s] = "undo" => Undoing' = Undoing + 1
           /\ sub[s] = "undo" /\ sub'[s] # "undo" => Undoing' = Undoing - 1
<1> DEFINE A(k) == Marked(sub, Submitters, {k})
           B(k) == Marked(sub', Submitters, {k})
<1>1. ASSUME NEW k
      PROVE  /\ (sub[s] = k <=> sub'[s] = k) => Cardinality(B(k)) = Cardinality(A(k))
             /\ sub[s] # k /\ sub'[s] = k => Cardinality(B(k)) = Cardinality(A(k)) + 1
             /\ sub[s] = k /\ sub'[s] # k => Cardinality(B(k)) = Cardinality(A(k)) - 1
  <2>1. A(k) \ {s} = B(k) \ {s} /\ (s \in A(k) <=> sub[s] = k) /\ (s \in B(k) <=> sub'[s] = k)
    BY DEF Marked
  <2>2. IsFiniteSet(A(k)) /\ IsFiniteSet(B(k))
    BY MarkedFinite, ThreadPoolAssumption
  <2> HIDE DEF A, B
  <2> QED
    BY <2>1, <2>2, OneElement
<1>2. /\ Pushing' = Cardinality(B("push")) /\ Undoing' = Cardinality(B("undo"))
      /\ Pushing = Cardinality(A("push")) /\ Undoing = Cardinality(A("undo"))
  BY PrimedCounts DEF Pushing, Undoing
<1> HIDE DEF A, B
<1> QED
  BY <1>1, <1>2

\* A step that leaves the workers, or the submitters, alone keeps their numbers.
LEMMA CountsKept ==
    /\ UNCHANGED worker => BusyWorkers' = BusyWorkers
    /\ UNCHANGED sub => Pushing' = Pushing /\ Undoing' = Undoing
<1>1. UNCHANGED worker => BusyWorkers' = BusyWorkers
  BY DEF BusyWorkers, Marked
<1>2. UNCHANGED sub => Pushing' = Pushing
  BY DEF Pushing, Marked
<1>3. UNCHANGED sub => Undoing' = Undoing
  BY DEF Undoing, Marked
<1> QED
  BY <1>1, <1>2, <1>3

\* The steps of a worker keep what the counter counts.
LEMMA WorkerDepth ==
    ASSUME PoolIInv, DepthOK, PushIsCounted', NEW w \in Workers, WorkerStep(w) \/ Spurious(w)
    PROVE  DepthOK'
<1>1. /\ Len(tasks) \in Nat /\ tasks \in Seq(Nat)
      /\ BusyWorkers \in Nat /\ Pushing \in Nat /\ Undoing \in Nat /\ Limit \in Nat
      /\ BusyWorkers' \in Nat
  BY QueueShape, CountsAreNat, ThreadPoolAssumption DEF PoolIInv
<1>2. UNCHANGED <<kind, sub>> /\ Pushing' = Pushing /\ Undoing' = Undoing
  BY CountsKept DEF WorkerStep, Sleep, Spurious, Take, Run, Uncount, Leave
<1>3. Counted' <=> Counted
  BY <1>2 DEF Counted
<1>4. CASE Sleep(w) \/ Spurious(w) \/ Leave(w)
  <2>1. PICK v \in {"asleep", "ready", "gone"} : worker' = [worker EXCEPT ![w] = v]
    BY <1>4 DEF Sleep, Spurious, Leave
  <2>2. worker[w] \notin {"running", "uncount"} /\ UNCHANGED <<tasks, depth>>
    BY <1>4 DEF Sleep, Spurious, Leave, queueVars
  <2>5. /\ worker'[w] \notin {"running", "uncount"}
        /\ \A x \in Workers \ {w} : worker'[x] = worker[x]
    BY <2>1 DEF PoolIInv, Types
  <2>3. BusyWorkers' = BusyWorkers
    BY <2>2, <2>5, BusyStep
  <2>4. ~Counted => \A u \in Workers : worker'[u] # "uncount"
    BY <2>1 DEF DepthOK, PoolIInv, Types
  <2> QED
    BY <1>2, <1>3, <2>2, <2>3, <2>4 DEF DepthOK
<1>5. CASE Take(w)
  <2>1. /\ worker' = [worker EXCEPT ![w] = "running"] /\ worker[w] = "ready"
        /\ UNCHANGED depth /\ tasks' = Tail(tasks) /\ tasks # <<>>
    BY <1>5 DEF Take
  <2>2. Len(tasks') = Len(tasks) - 1
    BY <1>1, <2>1
  <2>3. BusyWorkers' = BusyWorkers + 1
    BY <1>1, <2>1, BusyStep DEF PoolIInv, Types
  <2>4. ~Counted => \A u \in Workers : worker'[u] # "uncount"
    BY <2>1 DEF DepthOK, PoolIInv, Types
  <2>5. Counted => /\ depth' = Len(tasks') + BusyWorkers' + Pushing' + Undoing'
                   /\ Len(tasks') + BusyWorkers' + Pushing' <= Limit
    BY <1>1, <1>2, <2>1, <2>2, <2>3 DEF DepthOK
  <2> QED
    BY <1>2, <1>3, <2>1, <2>4, <2>5 DEF DepthOK
<1>6. CASE Run(w)
  <2>1. /\ worker' = [worker EXCEPT ![w] = IF Counted THEN "uncount" ELSE "ready"]
        /\ worker[w] = "running" /\ UNCHANGED <<depth, tasks>>
    BY <1>6 DEF Run
  <2>2. Counted => BusyWorkers' = BusyWorkers
    BY <1>1, <2>1, BusyStep DEF PoolIInv, Types
  <2>3. ~Counted => \A u \in Workers : worker'[u] # "uncount"
    BY <2>1 DEF DepthOK, PoolIInv, Types
  <2> QED
    BY <1>2, <1>3, <2>1, <2>2, <2>3 DEF DepthOK
<1>7. CASE Uncount(w)
  <2>1. /\ worker' = [worker EXCEPT ![w] = "ready"] /\ worker[w] = "uncount"
        /\ depth' = depth - 1 /\ UNCHANGED tasks
    BY <1>7 DEF Uncount, queueVars
  <2>2. BusyWorkers' = BusyWorkers - 1
    BY <1>1, <2>1, BusyStep DEF PoolIInv, Types
  <2>3. Counted
    BY <2>1 DEF DepthOK
  <2>4. /\ depth' = Len(tasks') + BusyWorkers' + Pushing' + Undoing'
        /\ Len(tasks') + BusyWorkers' + Pushing' <= Limit
    BY <1>1, <1>2, <2>1, <2>2, <2>3 DEF DepthOK
  <2> QED
    BY <1>3, <2>3, <2>4 DEF DepthOK
<1> QED
  BY <1>4, <1>5, <1>6, <1>7 DEF WorkerStep

\* The steps of a submitter keep it too: the limit is compared with the value
\* that the counter had, so two submitters never both pass on the last place.
LEMMA SubmitterDepth ==
    ASSUME PoolIInv, DepthOK, PushIsCounted', NEW s \in Submitters,
           TryEnqueue(s) \/ Count(s) \/ SubmitterStep(s)
    PROVE  DepthOK'
<1>1. /\ Len(tasks) \in Nat /\ tasks \in Seq(Nat)
      /\ BusyWorkers \in Nat /\ Pushing \in Nat /\ Undoing \in Nat /\ Limit \in Nat
  BY QueueShape, CountsAreNat, ThreadPoolAssumption DEF PoolIInv
<1>0. BusyWorkers' \in Nat /\ Pushing' \in Nat /\ Undoing' \in Nat
  BY CountsAreNat
<1>2. UNCHANGED kind /\ (Counted' <=> Counted)
  BY DEF TryEnqueue, Count, SubmitterStep, Undo, Enqueue, NotifyOne, Counted
<1>3. sub \in [Submitters -> {"idle", "undo", "push", "notify"}]
  BY DEF DepthOK, PushIsCounted
<1>4. CASE TryEnqueue(s)
  <2>1. ~Counted /\ UNCHANGED <<worker, depth>> /\ sub' = [sub EXCEPT ![s] = "notify"]
    BY <1>4 DEF TryEnqueue
  <2>2. \A u \in Submitters : sub'[u] \notin {"undo", "push"}
    BY <1>3, <2>1 DEF DepthOK
  <2> QED
    BY <1>2, <2>1, <2>2 DEF DepthOK
<1>5. CASE Count(s)
  <2>1. /\ Counted /\ sub[s] = "idle" /\ depth' = depth + 1 /\ UNCHANGED <<tasks, worker>>
        /\ sub' = [sub EXCEPT ![s] = IF depth + 1 > Limit THEN "undo" ELSE "push"]
    BY <1>5 DEF Count, queueVars
  <2>2. BusyWorkers' = BusyWorkers
    BY <2>1, CountsKept
  <2>3. depth = Len(tasks) + BusyWorkers + Pushing + Undoing /\ Len(tasks) + BusyWorkers + Pushing <= Limit
    BY <2>1 DEF DepthOK
  <2>4. CASE depth + 1 > Limit
    <3>1. sub' = [sub EXCEPT ![s] = "undo"]
      BY <2>1, <2>4
    <3>2. Pushing' = Pushing /\ Undoing' = Undoing + 1
      BY <1>0, <1>1, <2>1, <1>3, <3>1, SubmitterCounts
    <3>3. /\ depth' = Len(tasks') + BusyWorkers' + Pushing' + Undoing'
          /\ Len(tasks') + BusyWorkers' + Pushing' <= Limit
      BY <1>1, <2>1, <2>2, <2>3, <3>2
    <3> QED
      BY <1>2, <2>1, <3>3 DEF DepthOK
  <2>5. CASE ~(depth + 1 > Limit)
    <3>1. sub' = [sub EXCEPT ![s] = "push"]
      BY <2>1, <2>5
    <3>2. Pushing' = Pushing + 1 /\ Undoing' = Undoing
      BY <1>0, <1>1, <2>1, <1>3, <3>1, SubmitterCounts
    <3>3. /\ depth' = Len(tasks') + BusyWorkers' + Pushing' + Undoing'
          /\ Len(tasks') + BusyWorkers' + Pushing' <= Limit
      BY <1>1, <2>1, <2>2, <2>3, <2>5, <3>2
    <3> QED
      BY <1>2, <2>1, <3>3 DEF DepthOK
  <2> QED
    BY <2>4, <2>5
<1>6. CASE Undo(s)
  <2>1. /\ sub[s] = "undo" /\ depth' = depth - 1 /\ UNCHANGED <<tasks, worker>>
        /\ sub' = [sub EXCEPT ![s] = "idle"]
    BY <1>6 DEF Undo, queueVars
  <2>2. Counted
    BY <2>1 DEF DepthOK
  <2>3. BusyWorkers' = BusyWorkers /\ Pushing' = Pushing /\ Undoing' = Undoing - 1
    BY <1>0, <1>1, <1>3, <2>1, CountsKept, SubmitterCounts
  <2>4. /\ depth' = Len(tasks') + BusyWorkers' + Pushing' + Undoing'
        /\ Len(tasks') + BusyWorkers' + Pushing' <= Limit
    BY <1>1, <2>1, <2>2, <2>3 DEF DepthOK
  <2> QED
    BY <1>2, <2>2, <2>4 DEF DepthOK
<1>7. CASE Enqueue(s)
  <2>1. /\ sub[s] = "push" /\ UNCHANGED <<depth, worker>>
        /\ sub' = [sub EXCEPT ![s] = "notify"] /\ tasks' = Append(tasks, accepted + 1)
    BY <1>7 DEF Enqueue, Push
  <2>2. Counted
    BY <2>1 DEF DepthOK
  <2>3. BusyWorkers' = BusyWorkers /\ Pushing' = Pushing - 1 /\ Undoing' = Undoing
    BY <1>0, <1>1, <1>3, <2>1, CountsKept, SubmitterCounts
  <2>4. Len(tasks') = Len(tasks) + 1
    BY <1>1, <2>1 DEF PoolIInv, Types
  <2>5. /\ depth' = Len(tasks') + BusyWorkers' + Pushing' + Undoing'
        /\ Len(tasks') + BusyWorkers' + Pushing' <= Limit
    BY <1>1, <2>1, <2>2, <2>3, <2>4 DEF DepthOK
  <2> QED
    BY <1>2, <2>2, <2>5 DEF DepthOK
<1>8. CASE NotifyOne(s)
  <2>1. /\ sub[s] = "notify" /\ sub' = [sub EXCEPT ![s] = "idle"] /\ UNCHANGED <<depth, tasks>>
        /\ \/ \E w \in Workers : worker[w] = "asleep" /\ worker' = [worker EXCEPT ![w] = "ready"]
           \/ UNCHANGED worker
    BY <1>8 DEF NotifyOne, Wake, queueVars
  <2>2. Pushing' = Pushing /\ Undoing' = Undoing
    BY <1>0, <1>1, <1>3, <2>1, SubmitterCounts
  <2>3. BusyWorkers' = BusyWorkers
    BY <1>0, <1>1, <2>1, CountsKept, BusyStep DEF PoolIInv, Types
  <2>4. ~Counted => /\ \A u \in Submitters : sub'[u] \notin {"undo", "push"}
                    /\ \A w \in Workers : worker'[w] # "uncount"
    BY <1>3, <2>1 DEF DepthOK, PoolIInv, Types
  <2> QED
    BY <1>2, <2>1, <2>2, <2>3, <2>4 DEF DepthOK
<1> QED
  BY <1>4, <1>5, <1>6, <1>7, <1>8 DEF SubmitterStep

\* Every step keeps what the counter counts.
LEMMA NextDepth == PoolIInv /\ DepthOK /\ [PoolNext]_poolVars => DepthOK'
<1> SUFFICES ASSUME PoolIInv, DepthOK, [PoolNext]_poolVars PROVE DepthOK'
  OBVIOUS
<1>1. PushIsCounted'
  BY NextPushIsCounted DEF DepthOK
<1>2. CASE Stop
  BY <1>1, <1>2, CountsKept DEF Stop, DepthOK, Counted
<1>3. CASE NotifyAll
  <2>1. /\ worker' = [w \in Workers |-> IF worker[w] = "asleep" THEN "ready" ELSE worker[w]]
        /\ UNCHANGED <<kind, sub, tasks, depth>>
    BY <1>3 DEF NotifyAll, queueVars
  <2>2. BusyWorkers' = BusyWorkers
    BY <2>1 DEF BusyWorkers, Marked
  <2> QED
    BY <1>1, <2>1, <2>2, CountsKept DEF DepthOK, Counted
<1>4. CASE UNCHANGED poolVars
  BY <1>1, <1>4, CountsKept DEF poolVars, queueVars, DepthOK, Counted
<1> QED
  BY <1>1, <1>2, <1>3, <1>4, WorkerDepth, SubmitterDepth DEF PoolNext

\* The counters of enqueueDbTask and enqueueRedisTask never drift and the tasks
\* in flight keep to kWorkerQueueLimit, for any numbers of workers and of
\* submitters and any interleaving of their fetch_add, fetch_sub and enqueue.
THEOREM DepthAlwaysExact == PoolSpec => []DepthExact
<1>1. DepthOK => DepthExact
  <2>1. /\ BusyWorkers = Cardinality({w \in Workers : worker[w] \in {"running", "uncount"}})
        /\ Pushing = Cardinality({s \in Submitters : sub[s] = "push"})
        /\ Undoing = Cardinality({s \in Submitters : sub[s] = "undo"})
    <3>1. /\ Marked(sub, Submitters, {"push"}) = {s \in Submitters : sub[s] = "push"}
          /\ Marked(sub, Submitters, {"undo"}) = {s \in Submitters : sub[s] = "undo"}
          /\ Marked(worker, Workers, {"running", "uncount"}) =
                {w \in Workers : worker[w] \in {"running", "uncount"}}
      BY DEF Marked
    <3> QED
      BY <3>1 DEF BusyWorkers, Pushing, Undoing
  <2> QED
    BY <2>1 DEF DepthOK, DepthExact
<1> QED
  BY <1>1, InitPoolIInv, InitDepth, NextPushIsCounted, NextPoolIInv, NextDepth, PTL DEF PoolSpec

\* Every variable of the pool keeps its type; above all the counter never goes
\* below zero, where it would wrap, and a worker holds a task exactly while it
\* runs one.
THEOREM PoolTypeCorrect == PoolSpec => []PoolTypeOK
<1>1. PoolIInv /\ DepthOK /\ ControlOK => PoolTypeOK
  <2> SUFFICES ASSUME PoolIInv, DepthOK, ControlOK PROVE PoolTypeOK
    OBVIOUS
  <2>1. depth \in Nat
    BY CountsAreNat, QueueShape DEF DepthOK, PoolIInv
  <2>2. tasks \in Seq(Nat \ {0})
    <3>1. started \in Nat /\ accepted - started \in Nat
      BY DEF PoolIInv, Types, TasksAccounted
    <3>2. \A i \in 1..(accepted - started) : started + i \in Nat \ {0}
      BY <3>1
    <3> QED
      BY <3>1, <3>2 DEF PoolIInv, TasksAccounted
  <2>3. finished \subseteq Nat
    BY DEF PoolIInv, Types, TasksAccounted
  <2> QED
    BY <2>1, <2>2, <2>3 DEF PoolTypeOK, PoolIInv, Types, ControlOK, DepthOK, PushIsCounted
<1> QED
  BY <1>1, InitPoolIInv, InitDepth, NextPushIsCounted, NextPoolIInv, NextDepth, NextControl, PTL
  DEF PoolSpec

\* The destructor's joins return only when every accepted task has run, for any
\* number of workers, provided the pools whose enqueue does not look at stop
\* outlive their submitters.
THEOREM StoppedAlwaysDrained ==
    ASSUME "counted" \notin Destroyed
    PROVE  PoolSpec => []StoppedIsDrained
<1>1. PoolIInv /\ ControlOK => StoppedIsDrained
  <2> SUFFICES ASSUME PoolIInv, ControlOK, \A w \in Workers : worker[w] = "gone"
               PROVE  finished = 1..accepted
    BY DEF StoppedIsDrained
  <2>1. PICK w \in Workers : worker[w] = "gone"
    BY ThreadPoolAssumption
  <2>2. tasks = <<>>
    BY <2>1 DEF ControlOK, Counted
  <2>3. Len(tasks) = accepted - started /\ Len(tasks) = 0
    BY <2>2, QueueShape DEF PoolIInv
  <2>4. started = accepted
    BY <2>3 DEF PoolIInv, Types
  <2>5. Running = {}
    BY DEF Running
  <2> QED
    BY <2>4, <2>5 DEF PoolIInv, TasksAccounted
<1> QED
  BY <1>1, InitPoolIInv, NextPushIsCounted, NextPoolIInv, NextControl, PTL DEF PoolSpec
=============================================================================
