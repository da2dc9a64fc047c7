----------------------------- MODULE ConnPools -----------------------------
(***************************************************************************)
(* RedisConnectionPool and DBConnectionPool, and the threads that take     *)
(* connections from them.  getConnection waits while the pool is empty;    *)
(* the pointer it returns gives the connection back at the end of its      *)
(* scope.  A thread is in no task, at the start of a scope, where it waits *)
(* in getConnection, or at the end of one, where it gives the connection   *)
(* back.  What is done with a connection in between is left out, except    *)
(* for the scopes it opens.  Users have names: with an empty one several   *)
(* of the functions return before they take a connection.                  *)
(***************************************************************************)
EXTENDS Integers, FiniteSets

CONSTANTS
    DbWorkers,     \* threads of m_dbThreadPool
    RedisWorkers,  \* threads of m_redisThreadPool
    RetryThreads,  \* m_retryThread, or none
    LogThreads,    \* m_chatLogFlushThread, or none
    RedisSizes, DbSizes  \* the numbers of connections the pools can be given

Borrowers == DbWorkers \cup RedisWorkers \cup RetryThreads \cup LogThreads
Pools == {"redis", "db"}

ASSUME ConnPoolsAssumption ==
    /\ IsFiniteSet(Borrowers)
    /\ DbWorkers \cap (RedisWorkers \cup RetryThreads \cup LogThreads) = {}
    /\ RedisWorkers \cap (RetryThreads \cup LogThreads) = {}
    /\ RetryThreads \cap LogThreads = {}
    /\ RedisSizes \subseteq Nat \ {0} /\ DbSizes \subseteq Nat \ {0}

VARIABLES
    size,  \* per pool: connections it was given when the server started
    free,  \* per pool: connections in m_connections
    held,  \* per thread and pool: connections the thread has
    at     \* per thread: where it is

connPoolVars == <<size, free, held, at>>

-----------------------------------------------------------------------------
(* The scopes, named after the functions they are in; "history" is in the  *)
(* task of processPacket, "reschedule" in dispatchDueMessagesForUser and   *)
(* "scan" in retryLoop.                                                    *)

DbScopes == {"checkLogin", "history", "userExists", "addFriend", "friendListFromDB",
             "flushChatLogs"}

RedisScopes == {"friendList", "invalidateUser", "invalidateTarget", "storePending",
                "ackPending", "fetchPending", "getAttempt", "setAttempt", "reschedule", "scan"}

PoolOf(s) == IF s \in DbScopes THEN "db" ELSE "redis"

NoTask == [pc |-> "none", scope |-> "none"]
Start(s) == [pc |-> "start", scope |-> s]
End(s) == [pc |-> "end", scope |-> s]

\* Where the tasks of a thread start: a login, a history or a new friend; a
\* message, an acknowledgement, an invalidation or a friend list; a scan; a batch
\* of the log.
FirstScopes(t) ==
    CASE t \in DbWorkers    -> {"checkLogin", "history", "userExists"}
      [] t \in RedisWorkers -> {"storePending", "ackPending", "invalidateUser", "friendList"}
      [] t \in RetryThreads -> {"scan"}
      [] t \in LogThreads   -> {"flushChatLogs"}

\* Mutation: the cached lists are invalidated inside addFriendToDB.
WithinInvalidating(s) ==
    CASE s = "friendList" -> {End(s), Start("friendListFromDB")}
      [] s = "addFriend"  -> {End(s), Start("invalidateUser")}
      [] s = "reschedule" -> {Start("setAttempt")}
      [] s = "scan"       -> {End(s), Start("fetchPending")}
      [] OTHER            -> {End(s)}

\* Where a thread gets to with the connection of a scope: to the end of it, or
\* to a scope inside it.  getFriendListJson keeps its connection when the list is
\* not cached, a dispatch while it counts the attempt, and retryLoop while it
\* dispatches to a user it found online.
Within(s) ==
    CASE s = "friendList" -> {End(s), Start("friendListFromDB")}
      [] s = "reschedule" -> {Start("setAttempt")}
      [] s = "scan"       -> {End(s), Start("fetchPending")}
      [] OTHER            -> {End(s)}

\* A dispatch has no more messages: the task of the login ends, the scan ends or
\* goes on with a further user.
DispatchOver(t) ==
    IF t \in DbWorkers THEN {NoTask} ELSE {End("scan"), Start("fetchPending")}

\* Where a thread gets to from the end of a scope.  The password may be wrong,
\* the friend no user, a message without an id or out of attempts.
After(t, s) ==
    CASE s = "checkLogin" -> {NoTask, Start("friendList")}
      [] s = "userExists" -> {NoTask, Start("addFriend")}
      [] s = "friendListFromDB" -> {End("friendList")}
      [] s = "friendList" -> {IF t \in DbWorkers THEN Start("fetchPending") ELSE NoTask}
      [] s = "invalidateUser" -> {Start("invalidateTarget")}
      [] s \in {"fetchPending", "reschedule"} -> DispatchOver(t) \cup {Start("getAttempt")}
      [] s = "getAttempt" ->
            DispatchOver(t) \cup {Start("getAttempt"), Start("reschedule")}
      [] s = "setAttempt" -> {End("reschedule")}
      [] OTHER -> {NoTask}

-----------------------------------------------------------------------------
Begin(t) ==
    /\ at[t] = NoTask
    /\ \E s \in FirstScopes(t) : at' = [at EXCEPT ![t] = Start(s)]
    /\ UNCHANGED <<size, free, held>>

\* getConnection, once the pool is not empty.
GetConnection(t) ==
    /\ at[t].pc = "start"
    /\ LET p == PoolOf(at[t].scope) IN
          /\ free[p] > 0
          /\ free' = [free EXCEPT ![p] = @ - 1]
          /\ held' = [held EXCEPT ![t][p] = @ + 1]
    /\ \E next \in Within(at[t].scope) : at' = [at EXCEPT ![t] = next]
    /\ UNCHANGED size

\* Mutation: the deleter does not give the connection back.
ReleaseNothing(t) ==
    /\ at[t].pc = "end"
    /\ held' = [held EXCEPT ![t][PoolOf(at[t].scope)] = @ - 1]
    /\ \E next \in After(t, at[t].scope) : at' = [at EXCEPT ![t] = next]
    /\ UNCHANGED <<size, free>>

\* The deleter of the pointer.
Release(t) ==
    /\ at[t].pc = "end"
    /\ LET p == PoolOf(at[t].scope) IN
          /\ free' = [free EXCEPT ![p] = @ + 1]
          /\ held' = [held EXCEPT ![t][p] = @ - 1]
    /\ \E next \in After(t, at[t].scope) : at' = [at EXCEPT ![t] = next]
    /\ UNCHANGED size

ConnInit ==
    /\ size \in [Pools -> RedisSizes \cup DbSizes]
    /\ size["redis"] \in RedisSizes /\ size["db"] \in DbSizes
    /\ free = size
    /\ held = [t \in Borrowers |-> [p \in Pools |-> 0]]
    /\ at = [t \in Borrowers |-> NoTask]

ConnNext == \E t \in Borrowers : Begin(t) \/ GetConnection(t) \/ Release(t)

ConnSpec == ConnInit /\ [][ConnNext]_connPoolVars

-----------------------------------------------------------------------------
(* Properties.                                                             *)

\* The connections of a pool that are with the threads, each as the thread and
\* a number.
Lent(p) == UNION {{t} \X (1..held[t][p]) : t \in Borrowers}

\* Every variable keeps its type; a pool has lent exactly what it does not hold,
\* and a thread outside its tasks has nothing.
ConnTypeOK ==
    /\ free \in [Pools -> Nat] /\ held \in [Borrowers -> [Pools -> Nat]]
    /\ \A p \in Pools : free[p] + Cardinality(Lent(p)) = size[p]
    /\ \A t \in Borrowers : at[t] = NoTask => held[t] = [p \in Pools |-> 0]

InTask == {t \in Borrowers : at[t] # NoTask}

CanGoOn(t) == at[t].pc = "end" \/ free[PoolOf(at[t].scope)] > 0

\* The threads all wait for each other, and none can ever go on, only if every
\* Redis connection is with a thread that waits for a further one: a database
\* worker that has one, or the retry thread that has two at most.  A Redis pool
\* with one connection more than these can hold between them never comes to
\* that, and MySQL connections are never part of it.
StandstillNeedsNesting ==
    InTask # {} /\ ~(\E t \in InTask : CanGoOn(t)) =>
        /\ free["redis"] = 0 /\ free["db"] = size["db"]
        /\ \A t \in InTask : PoolOf(at[t].scope) = "redis"
        /\ \A t \in DbWorkers : held[t]["redis"] <= 1
        /\ \A t \in RetryThreads : held[t]["redis"] <= 2
        /\ size["redis"] <= Cardinality(DbWorkers) + 2 * Cardinality(RetryThreads)
=============================================================================
