------------------------------ MODULE Friends ------------------------------
(***************************************************************************)
(* The table friends and the cached friend lists (chat:friends:<user>).    *)
(* A task that adds a friend makes two INSERTs without a transaction and,  *)
(* when they have changed something, queues another task that deletes the  *)
(* two cached lists.  A task that wants a list looks in the cache and, on  *)
(* a miss, reads the table and stores what it read for a limited time.     *)
(* Each statement and each Redis command is one step.                      *)
(*                                                                         *)
(* A request to add oneself, or without a login, changes nothing and is    *)
(* left out, and so are the replies for a busy server.  A user who does    *)
(* not exist and a lookup that fails end a request the same way.           *)
(***************************************************************************)
EXTENDS Integers, FiniteSets

CONSTANTS
    Users,
    Adds,       \* requests to add a friend
    Who, Whom,  \* per request: currentUser and targetFriend
    Readers,    \* tasks that come to call getFriendListJson, one call at a time
    MaxFaults   \* bound: statements, commands and enqueues that fail

ASSUME FriendsAssumption ==
    /\ Users # {}
    /\ Who \in [Adds -> Users] /\ Whom \in [Adds -> Users]
    /\ \A a \in Adds : Who[a] # Whom[a]
    /\ MaxFaults \in Nat

VARIABLES
    rows,   \* the table: pairs of user_name and friend_name
    cache,  \* per user: whether the key exists, its value, whether it will expire
    add,    \* per request: what it does next
    first,  \* per request: what its first INSERT did: "none", "failed", "old" or "new"
    reader, \* per reader: the locals of getFriendListJson
    faults, \* failures so far
    torn,   \* history: rows missing because their INSERT failed
    excuse  \* history: per user, why the cached list may be out of date: "failed",
            \* the SELECT failed; "lost", a DEL was not made; "late", the list was
            \* stored after the DEL that was meant for it

rowVars == <<rows, torn>>
friendsVars == <<rowVars, cache, add, first, reader, faults, excuse>>

Absent == [there |-> FALSE, list |-> {}, expires |-> FALSE]

Reading(pc, u, list, failed) ==
    [pc |-> pc, user |-> u, list |-> list, overtaken |-> FALSE, failed |-> failed]

Idle == Reading("idle", CHOOSE u \in Users : TRUE, {}, FALSE)

FriendList(u) == {f \in Users : <<u, f>> \in rows}

\* Whether a statement, a command or an enqueue works.
Works(ok) ==
    /\ ok \/ faults < MaxFaults
    /\ faults' = IF ok THEN faults ELSE faults + 1

-----------------------------------------------------------------------------
(* A request to add a friend.                                              *)

UserExistsInDB(a) ==
    /\ add[a] = "new"
    /\ add' = [add EXCEPT ![a] = "insert1"]
    /\ UNCHANGED <<rowVars, cache, first, reader, faults, excuse>>

\* The friend does not exist, or one of the statements cannot be prepared.
AddEnds(a) ==
    /\ add[a] \in {"new", "insert1"}
    /\ add' = [add EXCEPT ![a] = "done"]
    /\ UNCHANGED <<rowVars, cache, first, reader, faults, excuse>>

\* INSERT IGNORE of one row.  Lists of the user that were read before, and are
\* not stored yet, do not have the row.
ExecPair(u, f, ok) ==
    /\ rows' = IF ok THEN rows \cup {<<u, f>>} ELSE rows
    /\ torn' = IF ok THEN torn ELSE torn \cup {<<u, f>>}
    /\ reader' = [l \in Readers |->
                    IF ok /\ <<u, f>> \notin rows /\ reader[l].pc = "setex" /\ reader[l].user = u
                    THEN [reader[l] EXCEPT !.overtaken = TRUE] ELSE reader[l]]

\* What an INSERT of the row did.
Effect(u, f, ok) == IF ~ok THEN "failed" ELSE IF <<u, f>> \in rows THEN "old" ELSE "new"

Insert1(a) ==
    /\ add[a] = "insert1"
    /\ \E ok \in BOOLEAN :
          /\ Works(ok)
          /\ ExecPair(Who[a], Whom[a], ok)
          /\ first' = [first EXCEPT ![a] = Effect(Who[a], Whom[a], ok)]
    /\ add' = [add EXCEPT ![a] = "insert2"]
    /\ UNCHANGED <<cache, excuse>>

\* Mutation: one INSERT is enough.
AddedEither(one, two) == one = "new" \/ two = "new"

\* What addFriendToDB returns.
Added(one, two) == one # "failed" /\ two # "failed" /\ (one = "new" \/ two = "new")

\* The lists that a request gives up on: those of the users in U.
Excuse(U, why) == excuse' = [u \in Users |-> IF u \in U THEN excuse[u] \cup {why} ELSE excuse[u]]

Insert2(a) ==
    /\ add[a] = "insert2"
    /\ \E ok \in BOOLEAN : LET two == Effect(Whom[a], Who[a], ok) IN
          /\ Works(ok)
          /\ ExecPair(Whom[a], Who[a], ok)
          /\ IF Added(first[a], two)
             THEN add' = [add EXCEPT ![a] = "enqueue"] /\ UNCHANGED excuse
             ELSE /\ add' = [add EXCEPT ![a] = "done"]
                  /\ Excuse((IF first[a] = "new" THEN {Who[a]} ELSE {})
                               \cup (IF two = "new" THEN {Whom[a]} ELSE {}), "lost")
    /\ UNCHANGED <<cache, first>>

\* enqueueRedisTask, whose result is not looked at; the reply says success.
EnqueueInvalidation(a) ==
    /\ add[a] = "enqueue"
    /\ \E ok \in BOOLEAN :
          /\ Works(ok)
          /\ add' = [add EXCEPT ![a] = IF ok THEN "del1" ELSE "unqueued"]
          /\ Excuse(IF ok THEN {} ELSE {Who[a], Whom[a]}, "lost")
    /\ UNCHANGED <<rowVars, cache, first, reader>>

\* DEL of a user's list, or a command that fails.
InvalidateFriendListCache(u, ok) ==
    /\ Works(ok)
    /\ cache' = IF ok THEN [cache EXCEPT ![u] = Absent] ELSE cache
    /\ excuse' = [excuse EXCEPT ![u] = IF ok THEN {} ELSE excuse[u] \cup {"lost"}]

\* Mutation: only the list of the current user is deleted.
InvalidateOne(a) ==
    /\ add[a] = "del1"
    /\ add' = [add EXCEPT ![a] = "invalidated"]
    /\ \E ok \in BOOLEAN : InvalidateFriendListCache(Who[a], ok)
    /\ UNCHANGED <<rowVars, first, reader>>

\* The task that deletes the two lists, one after the other.
Invalidate(a) ==
    /\ \/ /\ add[a] = "del1"
          /\ add' = [add EXCEPT ![a] = "del2"]
          /\ \E ok \in BOOLEAN : InvalidateFriendListCache(Who[a], ok)
       \/ /\ add[a] = "del2"
          /\ add' = [add EXCEPT ![a] = "invalidated"]
          /\ \E ok \in BOOLEAN : InvalidateFriendListCache(Whom[a], ok)
    /\ UNCHANGED <<rowVars, first, reader>>

-----------------------------------------------------------------------------
(* getFriendListJson, for a login or a request.                            *)

\* GET: the cached list is the reply, or there is none, or the command fails.
GetCached(l, u) ==
    /\ reader[l].pc = "idle"
    /\ \E ok \in BOOLEAN :
          /\ Works(ok)
          /\ ~ok \/ ~cache[u].there
    /\ reader' = [reader EXCEPT ![l] = Reading("select", u, {}, FALSE)]
    /\ UNCHANGED <<rowVars, cache, add, first, excuse>>

SelectFriends(u) == {f \in Users : <<u, f>> \in rows}

\* getFriendListFromDB: an empty list when the statement fails.
GetFriendListFromDB(l) ==
    /\ reader[l].pc = "select"
    /\ \E ok \in BOOLEAN :
          /\ Works(ok)
          /\ reader' = [reader EXCEPT ![l] =
                LET list == IF ok THEN SelectFriends(reader[l].user) ELSE {}
                IN  Reading("setex", reader[l].user, list, ~ok)]
    /\ UNCHANGED <<rowVars, cache, add, first, excuse>>

\* A DEL of the user's list is still to come, or its request has not yet found
\* out whether it will be.
DelToCome(u) ==
    \E a \in Adds :
        \/ Who[a] = u /\ add[a] = "insert2" /\ first[a] = "new"
        \/ Who[a] = u /\ add[a] \in {"enqueue", "del1"}
        \/ Whom[a] = u /\ add[a] \in {"enqueue", "del1", "del2"}

Reasons(r) ==
    (IF r.failed THEN {"failed"} ELSE {})
       \cup (IF r.overtaken /\ ~DelToCome(r.user) THEN {"late"} ELSE {})

\* Mutation: SET instead of SETEX.
SetForever(list) == [there |-> TRUE, list |-> list, expires |-> FALSE]

SetEx(list) == [there |-> TRUE, list |-> list, expires |-> TRUE]

\* SETEX, or a command that fails or no connection to make it on; then the reply.
StoreList(l) ==
    /\ reader[l].pc = "setex"
    /\ \E ok \in BOOLEAN : LET u == reader[l].user IN
          /\ Works(ok)
          /\ cache' = IF ok THEN [cache EXCEPT ![u] = SetEx(reader[l].list)] ELSE cache
          /\ excuse' = IF ok THEN [excuse EXCEPT ![u] = Reasons(reader[l])] ELSE excuse
    /\ reader' = [reader EXCEPT ![l] = Idle]
    /\ UNCHANGED <<rowVars, add, first>>

\* The list's time is over.
Expire(u) ==
    /\ cache[u].there /\ cache[u].expires
    /\ cache' = [cache EXCEPT ![u] = Absent]
    /\ excuse' = [excuse EXCEPT ![u] = {}]
    /\ UNCHANGED <<rowVars, add, first, reader, faults>>

-----------------------------------------------------------------------------
FriendsInit ==
    /\ rows = {} /\ torn = {}
    /\ cache = [u \in Users |-> Absent] /\ excuse = [u \in Users |-> {}]
    /\ add = [a \in Adds |-> "new"] /\ first = [a \in Adds |-> "none"]
    /\ reader = [l \in Readers |-> Idle]
    /\ faults = 0

AddStep(a) ==
    \/ UserExistsInDB(a) \/ AddEnds(a) \/ Insert1(a) \/ Insert2(a)
    \/ EnqueueInvalidation(a) \/ Invalidate(a)

ReadStep(l) == GetFriendListFromDB(l) \/ StoreList(l)

FriendsNext ==
    \/ \E a \in Adds : AddStep(a)
    \/ \E l \in Readers : ReadStep(l) \/ \E u \in Users : GetCached(l, u)
    \/ \E u \in Users : Expire(u)

FriendsSpec == FriendsInit /\ [][FriendsNext]_friendsVars

\* The pool threads run the tasks they have taken, and time passes.
FriendsFair ==
    /\ FriendsSpec
    /\ \A a \in Adds : WF_friendsVars(AddStep(a))
    /\ \A l \in Readers : WF_friendsVars(ReadStep(l))
    /\ \A u \in Users : WF_friendsVars(Expire(u))

-----------------------------------------------------------------------------
(* Properties.                                                             *)

\* Every variable keeps its type, and no list, cached or about to be stored,
\* names anyone who is not a friend in the table.
FriendsTypeOK ==
    /\ rows \subseteq Users \X Users /\ torn \subseteq Users \X Users
    /\ cache \in [Users -> [there : BOOLEAN, list : SUBSET Users, expires : BOOLEAN]]
    /\ \A u \in Users : cache[u].list \subseteq FriendList(u)
    /\ add \in [Adds -> {"new", "insert1", "insert2", "enqueue", "unqueued", "del1", "del2",
                         "invalidated", "done"}]
    /\ first \in [Adds -> {"none", "failed", "old", "new"}]
    /\ reader \in [Readers -> [pc : {"idle", "select", "setex"}, user : Users,
                                list : SUBSET Users, overtaken : BOOLEAN, failed : BOOLEAN]]
    /\ \A l \in Readers : reader[l].list \subseteq FriendList(reader[l].user)
    /\ faults \in 0..MaxFaults
    /\ excuse \in [Users -> SUBSET {"failed", "lost", "late"}]

\* A cached list that differs from the table is about to be deleted, or there is
\* one of three reasons: the SELECT for it failed, the DEL for it was not made,
\* or the list was stored after the DEL it should have met.  No other
\* interleaving of additions and readers leaves an old list in the cache.
StaleHasReason ==
    \A u \in Users :
        cache[u].there /\ cache[u].list # FriendList(u) => DelToCome(u) \/ excuse[u] # {}

Succeeded(a) == add[a] \in {"enqueue", "unqueued", "del1", "del2", "invalidated"}

\* Friendship is mutual for every request that reported success, and a row whose
\* counterpart is missing belongs to a request between its two INSERTs or to an
\* INSERT that failed, although the two are not one transaction.
FriendsMutual ==
    /\ \A a \in Adds : Succeeded(a) => {<<Who[a], Whom[a]>>, <<Whom[a], Who[a]>>} \subseteq rows
    /\ \A u, f \in Users :
          <<u, f>> \in rows /\ <<f, u>> \notin rows =>
              \/ <<f, u>> \in torn
              \/ \E a \in Adds : Who[a] = u /\ Whom[a] = f /\ add[a] = "insert2"

\* When no more requests come and nothing fails any more, the cache comes to
\* agree with the table for good, whatever it was left with: old lists expire.
CacheSettles == <>[](\A u \in Users : cache[u].there => cache[u].list = FriendList(u))
=============================================================================
