------------------------------ MODULE Delivery ------------------------------
(***************************************************************************)
(* Private messages to one user: the task that stores a message in Redis   *)
(* before it acknowledges it to the sender and sends it on, the pull of    *)
(* pending messages at login, the retry thread, and the removal of what    *)
(* the user's client has acknowledged.  Each Redis command or script and   *)
(* each sendPacket is one step, since no lock is held between them.        *)
(*                                                                         *)
(* The Redis keys of the user are payload (the fields of chat:pending),    *)
(* scheduled (the members of chat:pending_schedule), attempts              *)
(* (chat:pending_attempts) and known (the user is in chat:pending_users).  *)
(* A score is kRetryDelayMs after a reading of the clock some steps before *)
(* the command that uses it.  A reading in use is named by the member it   *)
(* is the score of, one not yet used by the message being stored or the    *)
(* thread that took it, and earlier relates a reading to those after it.   *)
(* No two readings are equal, and the keys do not reach their time to live *)
(* of seven days.  The ids of a batch, which the code takes by score, are  *)
(* taken in any order.                                                     *)
(***************************************************************************)
EXTENDS Integers, FiniteSets

CONSTANTS
    Msgs,        \* messages to the user, by msg_id
    Sessions,    \* connections the user can come to have
    Retry,       \* the retry thread
    Batch,       \* kRetryBatchPerUser
    MaxAttempts, \* kRetryMaxAttempts
    Faults,      \* whether a Redis command can fail
    None

ASSUME DeliveryAssumption ==
    /\ Retry \notin Sessions /\ None \notin Sessions
    /\ Msgs \cap (Sessions \cup {Retry}) = {}
    /\ Batch \in Nat \ {0}
    /\ MaxAttempts \in Nat
    /\ Faults \in BOOLEAN

VARIABLES
    payload, scheduled, attempts, known,
    earlier,   \* pairs of readings of the clock, in the order they were taken
    due,       \* readings whose time has come
    conn,      \* per session: "new", "live" or "closed"
    online,    \* the session getOnlineCtx finds, or None
    chat,      \* per message: progress of processPacket and of its Redis task
    target,    \* per message: targetCtx, as processPacket found it
    th,        \* dispatchDueMessagesForUser, for each login and the retry thread
    acked,     \* history: messages acknowledged to their sender
    sent,      \* history: messages sent on a live connection
    confirmed  \* history: messages whose removal the client's ACK has caused

redisVars == <<payload, scheduled, attempts, known, earlier, due>>
chatVars == <<chat, target, acked>>
userVars == <<conn, online>>
vars == <<redisVars, chatVars, userVars, th, sent, confirmed>>

Threads == Sessions \cup {Retry}
Idle == [pc |-> "idle", to |-> None, todo |-> {}, msgs |-> {}, m |-> None, attempt |-> 0]

\* Whether a Redis command works: the reply is not null.
Outcomes == IF Faults THEN BOOLEAN ELSE {TRUE}

-----------------------------------------------------------------------------
(* The sorted set chat:pending_schedule.                                   *)

\* Messages and threads with a reading of the clock that is not yet a score.
Storing == {m \in Msgs : chat[m] = "storing"}
Rescheduling == {t \in Threads : th[t].pc \in {"hset", "zadd"}}

Readings == scheduled \cup Storing \cup Rescheduling

Without(E) == {p \in earlier : p[1] \notin E /\ p[2] \notin E}

\* e reads the clock for its next score.
ReadClock(e) == earlier' = earlier \cup (Readings \X {e}) /\ UNCHANGED due

\* ZADD of m with the score that e read.
ZAdd(m, e) ==
    LET name(x) == IF x = e THEN m ELSE x
    IN  /\ scheduled' = scheduled \cup {m}
        /\ earlier' = {<<name(p[1]), name(p[2])>> : p \in Without({m} \ {e})}
        /\ due' = (due \ {m, e}) \cup (IF e \in due THEN {m} ELSE {})

ZRem(ids) ==
    /\ scheduled' = scheduled \ ids
    /\ earlier' = Without(ids)
    /\ due' = due \ ids

\* The reading that e took is not used.
Forget(e) == earlier' = Without({e}) /\ due' = due \ {e} /\ UNCHANGED scheduled

\* The first Batch members.
First == {m \in scheduled : Cardinality({k \in scheduled : <<k, m>> \in earlier}) < Batch}

\* kRetryDelayMs have passed since the first reading that was not due.
TimePasses ==
    /\ \E e \in Readings \ due :
          /\ \A d \in Readings : <<d, e>> \in earlier => d \in due
          /\ due' = due \cup {e}
    /\ UNCHANGED <<payload, scheduled, attempts, known, earlier, chatVars, userVars,
                   th, sent, confirmed>>

-----------------------------------------------------------------------------
(* processPacket for a chat message with one recipient.                    *)

\* getOnlineCtx(target), then the task is queued or the queue is full.
ProcessChat(m) ==
    /\ chat[m] = "new"
    /\ \/ /\ chat' = [chat EXCEPT ![m] = "task"]
          /\ target' = [target EXCEPT ![m] = online]
       \/ /\ chat' = [chat EXCEPT ![m] = "dropped"]
          /\ UNCHANGED target
    /\ UNCHANGED <<redisVars, userVars, th, acked, sent, confirmed>>

\* The task runs: storePendingMessage reads the clock.
RunTask(m) ==
    /\ chat[m] = "task"
    /\ chat' = [chat EXCEPT ![m] = "storing"]
    /\ ReadClock(m)
    /\ UNCHANGED <<payload, scheduled, attempts, known, target, userVars, th, acked, sent,
                   confirmed>>

\* Mutation: the task does not look at what storePendingMessage returns.
StoreUnchecked(ok) == "stored"

StoreResult(ok) == IF ok THEN "stored" ELSE "dropped"

\* The script of storePendingMessage; when it fails the script has run or not.
StorePendingMessage(m) ==
    /\ chat[m] = "storing"
    /\ \E ok \in Outcomes :
          /\ chat' = [chat EXCEPT ![m] = StoreResult(ok)]
          /\ target' = IF ok THEN target ELSE [target EXCEPT ![m] = None]
          /\ \/ /\ payload' = payload \cup {m}
                /\ ZAdd(m, m)
                /\ attempts' = [attempts EXCEPT ![m] = 0]
                /\ known' = TRUE
             \/ ~ok /\ Forget(m) /\ UNCHANGED <<payload, attempts, known>>
    /\ UNCHANGED <<userVars, th, acked, sent, confirmed>>

\* The ACK to the sender.
AckSender(m) ==
    /\ chat[m] = "stored"
    /\ acked' = acked \cup {m}
    /\ chat' = [chat EXCEPT ![m] = "acked"]
    /\ UNCHANGED <<redisVars, target, userVars, th, sent, confirmed>>

\* What a sendPacket to a session adds to the messages sent: nothing when there
\* is none or it is closed.
SendTo(s, m) == IF s # None /\ conn[s] = "live" THEN {m} ELSE {}

\* sendPacket(targetCtx), when the lookup had found one.
SendTarget(m) ==
    /\ chat[m] = "acked"
    /\ sent' = sent \cup SendTo(target[m], m)
    /\ chat' = [chat EXCEPT ![m] = "done"]
    /\ target' = [target EXCEPT ![m] = None]
    /\ UNCHANGED <<redisVars, userVars, th, acked, confirmed>>

\* ackPendingMessage: the client acknowledges messages it was sent.
AckPendingMessage(ids) ==
    /\ ids # {} /\ ids \subseteq sent
    /\ payload' = payload \ ids
    /\ ZRem(ids)
    /\ attempts' = [m \in Msgs |-> IF m \in ids THEN None ELSE attempts[m]]
    /\ confirmed' = confirmed \cup ids
    /\ UNCHANGED <<known, chatVars, userVars, th, sent>>

-----------------------------------------------------------------------------
(* The user's connections.                                                 *)

\* Bind makes the user known as online; login also pulls pending messages.
Connect(s, pull) ==
    /\ conn[s] = "new"
    /\ conn' = [conn EXCEPT ![s] = "live"]
    /\ online' = s
    /\ th' = IF pull THEN [th EXCEPT ![s] = [Idle EXCEPT !.pc = "fetch", !.to = s]] ELSE th
    /\ UNCHANGED <<redisVars, chatVars, sent, confirmed>>

\* handleDisconnect erases the user's entry, whichever session it names.
Disconnect(s) ==
    /\ conn[s] = "live"
    /\ conn' = [conn EXCEPT ![s] = "closed"]
    /\ online' = None
    /\ UNCHANGED <<redisVars, chatVars, th, sent, confirmed>>

-----------------------------------------------------------------------------
(* retryLoop and dispatchDueMessagesForUser.                               *)

RetryScan ==
    /\ th[Retry] = Idle
    /\ known /\ online # None
    /\ th' = [th EXCEPT ![Retry] = [Idle EXCEPT !.pc = "fetch", !.to = online]]
    /\ UNCHANGED <<redisVars, chatVars, userVars, sent, confirmed>>

\* ZRANGEBYSCORE up to now for the retry thread, ZRANGE for a login.
Fetch(t) ==
    /\ th[t].pc = "fetch"
    /\ \E ids \in {IF t = Retry THEN First \cap due ELSE First}
                     \cup (IF Faults THEN {{}} ELSE {}) :
          th' = [th EXCEPT ![t] = [th[t] EXCEPT !.pc = "each", !.todo = ids]]
    /\ UNCHANGED <<redisVars, chatVars, userVars, sent, confirmed>>

\* The payload of a scheduled message is gone.
Stale(m) == m \notin payload

\* HGET of one id: keep the message, or go on to remove a stale entry.
FetchPayload(t, m) ==
    /\ th[t].pc = "each" /\ m \in th[t].todo
    /\ \/ /\ m \in payload
          /\ th' = [th EXCEPT ![t] = [th[t] EXCEPT !.todo = th[t].todo \ {m},
                                                    !.msgs = th[t].msgs \cup {m}]]
       \/ /\ Stale(m)
          /\ th' = [th EXCEPT ![t] = [th[t] EXCEPT !.pc = "zrem", !.m = m,
                                                    !.todo = th[t].todo \ {m}]]
       \/ /\ Faults
          /\ th' = [th EXCEPT ![t] = [th[t] EXCEPT !.todo = th[t].todo \ {m}]]
    /\ UNCHANGED <<redisVars, chatVars, userVars, sent, confirmed>>

RemoveStale(t) ==
    /\ th[t].pc = "zrem"
    /\ \E ok \in Outcomes :
          IF ok THEN ZRem({th[t].m}) ELSE UNCHANGED <<scheduled, earlier, due>>
    /\ th' = [th EXCEPT ![t] = [th[t] EXCEPT !.pc = "each", !.m = None]]
    /\ UNCHANGED <<payload, attempts, known, chatVars, userVars, sent, confirmed>>

\* Mutation: a missing count is reported as an error code.
AttemptOrError(m) == IF attempts[m] = None THEN -1 ELSE attempts[m]

Attempt(m) == IF attempts[m] = None THEN 0 ELSE attempts[m]

\* Mutation: the last attempt is not made.
MayRetryFewer(t, n) == t = Retry => n + 1 < MaxAttempts

MayRetry(t, n) == t = Retry => n < MaxAttempts

\* getPendingAttempt, 0 when it fails; a message out of attempts is skipped by
\* the retry thread, its schedule entry left as it is.
GetPendingAttempt(t, m) ==
    /\ th[t].pc = "each" /\ th[t].todo = {} /\ m \in th[t].msgs
    /\ \E n \in {Attempt(m)} \cup (IF Faults THEN {0} ELSE {}) :
          th' = [th EXCEPT ![t] =
                   IF MayRetry(t, n)
                   THEN [th[t] EXCEPT !.pc = "send", !.m = m, !.attempt = n,
                                      !.msgs = th[t].msgs \ {m}]
                   ELSE [th[t] EXCEPT !.msgs = th[t].msgs \ {m}]]
    /\ UNCHANGED <<redisVars, chatVars, userVars, sent, confirmed>>

\* sendPacket, then the reading of the clock for the next due time.
SendPending(t) ==
    /\ th[t].pc = "send"
    /\ sent' = sent \cup SendTo(th[t].to, th[t].m)
    /\ ReadClock(t)
    /\ th' = [th EXCEPT ![t] = [th[t] EXCEPT !.pc = "hset"]]
    /\ UNCHANGED <<payload, scheduled, attempts, known, chatVars, userVars, confirmed>>

\* setPendingAttempt: the retry thread counts its attempt.
SetPendingAttempt(t) ==
    /\ th[t].pc = "hset"
    /\ \/ attempts' = [attempts EXCEPT ![th[t].m] =
                         th[t].attempt + (IF t = Retry THEN 1 ELSE 0)]
       \/ Faults /\ UNCHANGED attempts
    /\ th' = [th EXCEPT ![t] = [th[t] EXCEPT !.pc = "zadd"]]
    /\ UNCHANGED <<payload, scheduled, known, earlier, due, chatVars, userVars, sent,
                   confirmed>>

\* ZADD with the next due time.
Reschedule(t) ==
    /\ th[t].pc = "zadd"
    /\ \E ok \in Outcomes :
          IF ok THEN ZAdd(th[t].m, t) ELSE Forget(t)
    /\ th' = [th EXCEPT ![t] = [th[t] EXCEPT !.pc = "each", !.m = None, !.attempt = 0]]
    /\ UNCHANGED <<payload, attempts, known, chatVars, userVars, sent, confirmed>>

DispatchEnds(t) ==
    /\ th[t].pc = "each" /\ th[t].todo = {} /\ th[t].msgs = {}
    /\ th' = [th EXCEPT ![t] = Idle]
    /\ UNCHANGED <<redisVars, chatVars, userVars, sent, confirmed>>

-----------------------------------------------------------------------------
Init ==
    /\ payload = {} /\ scheduled = {} /\ earlier = {} /\ due = {}
    /\ attempts = [m \in Msgs |-> None]
    /\ known = FALSE
    /\ conn = [s \in Sessions |-> "new"] /\ online = None
    /\ chat = [m \in Msgs |-> "new"] /\ target = [m \in Msgs |-> None]
    /\ th = [t \in Threads |-> Idle]
    /\ acked = {} /\ sent = {} /\ confirmed = {}

Task(m) == RunTask(m) \/ StorePendingMessage(m) \/ AckSender(m) \/ SendTarget(m)

Dispatch(t) ==
    \/ Fetch(t) \/ RemoveStale(t) \/ SendPending(t)
    \/ SetPendingAttempt(t) \/ Reschedule(t) \/ DispatchEnds(t)
    \/ \E m \in Msgs : FetchPayload(t, m) \/ GetPendingAttempt(t, m)

Next ==
    \/ \E m \in Msgs : ProcessChat(m) \/ Task(m)
    \/ \E ids \in SUBSET Msgs : AckPendingMessage(ids)
    \/ \E s \in Sessions : Disconnect(s) \/ \E pull \in BOOLEAN : Connect(s, pull)
    \/ RetryScan
    \/ \E t \in Threads : Dispatch(t)
    \/ TimePasses

Spec == Init /\ [][Next]_vars

\* The pool threads run the tasks they take, the retry thread scans again and
\* again, and time passes; clients and senders promise nothing.
FairSpec ==
    /\ Spec
    /\ \A m \in Msgs : WF_vars(Task(m))
    /\ \A t \in Threads : WF_vars(Dispatch(t))
    /\ WF_vars(RetryScan)
    /\ WF_vars(TimePasses)

-----------------------------------------------------------------------------
(* Properties.                                                             *)

Held(t) == th[t].todo \cup th[t].msgs \cup ({th[t].m} \ {None})

\* R puts the members of S in an order, each pair of them one way.
IsOrder(R, S) ==
    /\ R \subseteq S \X S
    /\ \A d, e \in S : <<d, e>> \in R <=> (d # e /\ <<e, d>> \notin R)
    /\ \A c, d, e \in S : <<c, d>> \in R /\ <<d, e>> \in R => <<c, e>> \in R

\* Every variable holds a value of its kind.  The readings of the clock that can
\* still be told apart are those of the members of the schedule, the messages
\* being stored and the threads about to reschedule one: no score is left behind
\* for a message that is gone, any two are in one order, and they come due in it.
TypeOK ==
    /\ payload \subseteq Msgs /\ scheduled \subseteq Msgs
    /\ IsOrder(earlier, Readings)
    /\ due \subseteq Readings
    /\ \A d, e \in Readings : <<d, e>> \in earlier /\ e \in due => d \in due
    /\ attempts \in [Msgs -> Nat \cup {None}]
    /\ known \in BOOLEAN
    /\ conn \in [Sessions -> {"new", "live", "closed"}]
    /\ online \in Sessions \cup {None}
    /\ chat \in [Msgs -> {"new", "task", "storing", "stored", "acked", "done", "dropped"}]
    /\ target \in [Msgs -> Sessions \cup {None}]
    /\ DOMAIN th = Threads
    /\ \A t \in Threads : Held(t) \subseteq Msgs /\ th[t].to \in Sessions \cup {None}
    /\ acked \subseteq Msgs /\ sent \subseteq Msgs /\ confirmed \subseteq sent

\* A message acknowledged to its sender stays in Redis, with its payload and in
\* the schedule, until the recipient's client acknowledges it, and no dispatch
\* running meanwhile brings the payload back after that.
AckedIsKept ==
    \A m \in acked :
        /\ m \in payload <=> m \notin confirmed
        /\ m \in payload => m \in scheduled

\* A message acknowledged to its sender is sent on, or its recipient goes offline.
PendingIsSent == \A m \in Msgs : m \in acked ~> (m \in sent \/ online = None)
=============================================================================
