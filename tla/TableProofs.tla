----------------------------- MODULE TableProofs ----------------------------
(***************************************************************************)
(* Proofs about what passes through the MySQL tables: about the chat log   *)
(* for any batch size, any limit of the queues and any error of the size   *)
(* read without the mutex; about the history read from it for any          *)
(* messages, page length and failures of the INSERT; about IdGenerator for *)
(* every epoch, field width and clock; and about Friends for any users,    *)
(* any requests, any number of readers and any number of failures.         *)
(***************************************************************************)
EXTENDS History, IdGenerator, Friends, TLAPS

-----------------------------------------------------------------------------
(* The friend lists.                                                       *)

\* What a request between its INSERTs knows of the first one.
FirstIsTold ==
    \A a \in Adds : add[a] = "insert2" =>
        /\ first[a] \in {"failed", "old", "new"}
        /\ first[a] = "failed" => <<Who[a], Whom[a]>> \in torn
        /\ first[a] # "failed" => <<Who[a], Whom[a]>> \in rows

\* A list about to be stored is that of the table, unless its SELECT failed or a
\* row was inserted since.
ReadIsFresh ==
    \A l \in Readers :
        reader[l].pc = "setex" /\ ~reader[l].failed /\ ~reader[l].overtaken =>
            reader[l].list = FriendList(reader[l].user)

\* The inductive invariant.
FriendsIInv == FriendsTypeOK /\ FirstIsTold /\ ReadIsFresh /\ StaleHasReason /\ FriendsMutual

\* The initial states satisfy the inductive invariant.
LEMMA InitFriendsIInv == FriendsInit => FriendsIInv
<1> SUFFICES ASSUME FriendsInit PROVE FriendsIInv
  OBVIOUS
<1> USE FriendsAssumption DEF FriendsInit
<1>1. (CHOOSE u \in Users : TRUE) \in Users
  OBVIOUS
<1>2. Idle \in [pc : {"idle", "select", "setex"}, user : Users,
                list : SUBSET Users, overtaken : BOOLEAN, failed : BOOLEAN]
      /\ Idle.pc = "idle" /\ Idle.list = {}
  BY <1>1 DEF Idle, Reading
<1>3. FriendsTypeOK
  BY <1>2 DEF FriendsTypeOK, Absent
<1>4. ReadIsFresh
  BY <1>2 DEF ReadIsFresh
<1>5. FirstIsTold /\ StaleHasReason /\ FriendsMutual
  BY DEF FirstIsTold, StaleHasReason, FriendsMutual, Absent, Succeeded
<1> QED
  BY <1>3, <1>4, <1>5 DEF FriendsIInv

\* What the INSERT of a row does to the parts of the invariant that are about the
\* rows and the readers alone.
LEMMA ExecPairKeeps ==
    ASSUME FriendsTypeOK, ReadIsFresh, NEW u \in Users, NEW f \in Users, NEW ok \in BOOLEAN,
           ExecPair(u, f, ok)
    PROVE  /\ rows \subseteq rows' /\ torn \subseteq torn'
           /\ rows' \subseteq Users \X Users /\ torn' \subseteq Users \X Users
           /\ reader' \in [Readers -> [pc : {"idle", "select", "setex"}, user : Users,
                                       list : SUBSET Users, overtaken : BOOLEAN,
                                       failed : BOOLEAN]]
           /\ \A l \in Readers : reader'[l].list \subseteq FriendList(reader[l].user)'
           /\ ReadIsFresh'
<1>a. rows' = rows \/ rows' = rows \cup {<<u, f>>}
  BY DEF ExecPair
<1>b. torn' = torn \/ torn' = torn \cup {<<u, f>>}
  BY DEF ExecPair
<1>c. (~ok \/ <<u, f>> \in rows) => rows' = rows
  BY DEF ExecPair
<1>d. \A v \in Users : v # u => FriendList(v)' = FriendList(v)
  BY <1>a DEF FriendList
<1>e. \A v \in Users : FriendList(v) \subseteq FriendList(v)'
  BY <1>a DEF FriendList
<1>f. rows \subseteq rows' /\ rows' \subseteq Users \X Users
  BY <1>a DEF FriendsTypeOK
<1>g. torn \subseteq torn' /\ torn' \subseteq Users \X Users
  BY <1>b DEF FriendsTypeOK
<1>1. /\ \A v \in Users : v # u => FriendList(v)' = FriendList(v)
      /\ \A v \in Users : FriendList(v) \subseteq FriendList(v)'
      /\ (~ok \/ <<u, f>> \in rows) => rows' = rows
  BY <1>c, <1>d, <1>e
<1>2. ASSUME NEW l \in Readers
      PROVE /\ reader'[l] \in [pc : {"idle", "select", "setex"}, user : Users,
                               list : SUBSET Users, overtaken : BOOLEAN, failed : BOOLEAN]
            /\ reader'[l].user = reader[l].user /\ reader'[l].list = reader[l].list
            /\ reader'[l].pc = reader[l].pc /\ reader'[l].failed = reader[l].failed
            /\ ~reader'[l].overtaken => ~reader[l].overtaken
            /\ ok /\ <<u, f>> \notin rows /\ reader[l].pc = "setex" /\ reader[l].user = u
                 => reader'[l].overtaken
  BY <1>2 DEF ExecPair, FriendsTypeOK
<1>3. reader' = [l \in Readers |-> reader'[l]]
  BY DEF ExecPair
<1>4. \A l \in Readers : reader'[l].list \subseteq FriendList(reader[l].user)'
  <2> TAKE l \in Readers
  <2>1. reader[l].list \subseteq FriendList(reader[l].user) /\ reader[l].user \in Users
    BY DEF FriendsTypeOK
  <2> QED
    BY <1>1, <1>2, <2>1 DEF FriendList
<1>5. ReadIsFresh'
  <2> SUFFICES ASSUME NEW l \in Readers, reader'[l].pc = "setex", ~reader'[l].failed,
                      ~reader'[l].overtaken
               PROVE  reader'[l].list = FriendList(reader[l].user)'
    BY DEF ReadIsFresh
  <2>1. reader[l].list = FriendList(reader[l].user)
    BY <1>2 DEF ReadIsFresh
  <2>2. CASE reader[l].user = u
    <3>1. ~ok \/ <<u, f>> \in rows
      BY <1>2, <2>2
    <3> QED
      BY <1>1, <1>2, <2>1, <3>1 DEF FriendList
  <2>3. CASE reader[l].user # u
    <3>1. reader[l].user \in Users
      BY DEF FriendsTypeOK
    <3> QED
      BY <1>1, <1>2, <2>1, <2>3, <3>1 DEF FriendList
  <2> QED
    BY <2>2, <2>3
<1> QED
  BY <1>f, <1>g, <1>2, <1>3, <1>4, <1>5

\* The count of failures keeps to its bound.
LEMMA WorksKeeps ==
    ASSUME NEW ok \in BOOLEAN, Works(ok), faults \in 0..MaxFaults PROVE faults' \in 0..MaxFaults
BY FriendsAssumption DEF Works

\* The first INSERT of a request keeps the invariant.
LEMMA Insert1IInv == ASSUME FriendsIInv, NEW a \in Adds, Insert1(a) PROVE FriendsIInv'
<1> DEFINE u == Who[a]
           f == Whom[a]
<1>1. u \in Users /\ f \in Users /\ u # f
  BY FriendsAssumption
<1>2. PICK ok \in BOOLEAN : /\ Works(ok) /\ ExecPair(u, f, ok)
                            /\ first' = [first EXCEPT ![a] = Effect(u, f, ok)]
  BY DEF Insert1
<1>3. /\ add[a] = "insert1" /\ add' = [add EXCEPT ![a] = "insert2"]
      /\ cache' = cache /\ excuse' = excuse
  BY DEF Insert1
<1>4. FriendsTypeOK /\ FirstIsTold /\ ReadIsFresh /\ StaleHasReason /\ FriendsMutual
  BY DEF FriendsIInv
<1>5. /\ rows \subseteq rows' /\ torn \subseteq torn'
      /\ rows' \subseteq Users \X Users /\ torn' \subseteq Users \X Users
      /\ reader' \in [Readers -> [pc : {"idle", "select", "setex"}, user : Users,
                                  list : SUBSET Users, overtaken : BOOLEAN, failed : BOOLEAN]]
      /\ \A l \in Readers : reader'[l].list \subseteq FriendList(reader[l].user)'
      /\ ReadIsFresh'
  BY <1>1, <1>2, <1>4, ExecPairKeeps
<1>6. /\ Effect(u, f, ok) \in {"failed", "old", "new"}
      /\ Effect(u, f, ok) = "failed" => <<u, f>> \in torn' /\ rows' = rows
      /\ Effect(u, f, ok) = "old" => <<u, f>> \in rows' /\ rows' = rows
      /\ Effect(u, f, ok) = "new" => <<u, f>> \in rows' /\ rows' = rows \cup {<<u, f>>}
  BY <1>2 DEF Effect, ExecPair
<1>7. first'[a] = Effect(u, f, ok) /\ add'[a] = "insert2"
      /\ \A b \in Adds : b # a => first'[b] = first[b] /\ add'[b] = add[b]
  BY <1>2, <1>3, <1>4 DEF FriendsTypeOK
<1> HIDE DEF u, f
<1>8. FriendsTypeOK'
  <2>1. faults' \in 0..MaxFaults
    BY <1>2, <1>4, WorksKeeps DEF FriendsTypeOK
  <2>2. \A v \in Users : cache'[v].list \subseteq FriendList(v)'
    BY <1>3, <1>4, <1>5 DEF FriendsTypeOK, FriendList
  <2>3. add' \in [Adds -> {"new", "insert1", "insert2", "enqueue", "unqueued", "del1", "del2",
                           "invalidated", "done"}]
        /\ first' \in [Adds -> {"none", "failed", "old", "new"}]
    BY <1>2, <1>3, <1>4, <1>6 DEF FriendsTypeOK
  <2> QED
    BY <1>3, <1>4, <1>5, <2>1, <2>2, <2>3 DEF FriendsTypeOK
<1>9. FirstIsTold'
  BY <1>4, <1>5, <1>6, <1>7 DEF FirstIsTold, u, f
<1>10. StaleHasReason'
  <2> SUFFICES ASSUME NEW v \in Users, cache[v].there, cache[v].list # FriendList(v)',
                      excuse[v] = {}
               PROVE  DelToCome(v)'
    BY <1>3 DEF StaleHasReason
  <2>1. CASE v = u /\ Effect(u, f, ok) = "new"
    BY <1>7, <2>1 DEF DelToCome, u
  <2>2. CASE v # u \/ Effect(u, f, ok) # "new"
    <3>1. FriendList(v)' = FriendList(v)
      BY <1>6, <2>2 DEF FriendList
    <3>2. DelToCome(v)
      BY <1>4, <3>1 DEF StaleHasReason
    <3> QED
      BY <1>3, <1>7, <3>2 DEF DelToCome
  <2> QED
    BY <2>1, <2>2
<1>11. FriendsMutual'
  <2>1. \A b \in Adds : Succeeded(b)' => Succeeded(b)
    BY <1>7 DEF Succeeded
  <2>2. ASSUME NEW v \in Users, NEW w \in Users, <<v, w>> \in rows', <<w, v>> \notin rows'
        PROVE  <<w, v>> \in torn' \/ \E b \in Adds : Who[b] = v /\ Whom[b] = w /\ add'[b] = "insert2"
    <3>1. CASE <<v, w>> \in rows
      <4>1. <<w, v>> \in torn \/ \E b \in Adds : Who[b] = v /\ Whom[b] = w /\ add[b] = "insert2"
        BY <1>4, <1>5, <2>2, <3>1 DEF FriendsMutual
      <4> QED
        BY <1>3, <1>5, <1>7, <4>1
    <3>2. CASE <<v, w>> \notin rows
      <4>1. v = u /\ w = f
        BY <1>6, <2>2, <3>2
      <4> QED
        BY <1>7, <4>1 DEF u, f
    <3> QED
      BY <3>1, <3>2
  <2> QED
    BY <1>4, <1>5, <2>1, <2>2 DEF FriendsMutual
<1> QED
  BY <1>5, <1>8, <1>9, <1>10, <1>11 DEF FriendsIInv

\* The second INSERT keeps it: what it leaves without a DEL has its reason.
LEMMA Insert2IInv == ASSUME FriendsIInv, NEW a \in Adds, Insert2(a) PROVE FriendsIInv'
<1> DEFINE u == Who[a]
           f == Whom[a]
           lost == (IF first[a] = "new" THEN {u} ELSE {})
           more(two) == IF two = "new" THEN {f} ELSE {}
<1>1. u \in Users /\ f \in Users /\ u # f
  BY FriendsAssumption
<1>2. PICK ok \in BOOLEAN :
         /\ Works(ok) /\ ExecPair(f, u, ok)
         /\ IF Added(first[a], Effect(f, u, ok))
            THEN add' = [add EXCEPT ![a] = "enqueue"] /\ excuse' = excuse
            ELSE /\ add' = [add EXCEPT ![a] = "done"]
                 /\ Excuse(lost \cup more(Effect(f, u, ok)), "lost")
  BY DEF Insert2
<1> DEFINE two == Effect(f, u, ok)
<1>3. add[a] = "insert2" /\ cache' = cache /\ first' = first
  BY DEF Insert2
<1>4. FriendsTypeOK /\ FirstIsTold /\ ReadIsFresh /\ StaleHasReason /\ FriendsMutual
  BY DEF FriendsIInv
<1>5. /\ rows \subseteq rows' /\ torn \subseteq torn'
      /\ rows' \subseteq Users \X Users /\ torn' \subseteq Users \X Users
      /\ reader' \in [Readers -> [pc : {"idle", "select", "setex"}, user : Users,
                                  list : SUBSET Users, overtaken : BOOLEAN, failed : BOOLEAN]]
      /\ \A l \in Readers : reader'[l].list \subseteq FriendList(reader[l].user)'
      /\ ReadIsFresh'
  BY <1>1, <1>2, <1>4, ExecPairKeeps
<1>6. /\ two \in {"failed", "old", "new"}
      /\ two = "failed" => <<f, u>> \in torn' /\ rows' = rows
      /\ two = "old" => <<f, u>> \in rows' /\ rows' = rows
      /\ two = "new" => <<f, u>> \in rows' /\ rows' = rows \cup {<<f, u>>}
  BY <1>2 DEF Effect, ExecPair
<1>7. /\ first[a] \in {"failed", "old", "new"}
      /\ first[a] = "failed" => <<u, f>> \in torn
      /\ first[a] # "failed" => <<u, f>> \in rows
  BY <1>3, <1>4 DEF FirstIsTold
<1>8. \/ /\ Added(first[a], two) /\ add' = [add EXCEPT ![a] = "enqueue"] /\ excuse' = excuse
      \/ /\ ~Added(first[a], two) /\ add' = [add EXCEPT ![a] = "done"]
         /\ Excuse(lost \cup more(two), "lost")
  BY <1>2
<1> HIDE DEF u, f, two
<1>9. /\ \A v \in Users : excuse[v] \subseteq excuse'[v]
      /\ excuse' \in [Users -> SUBSET {"failed", "lost", "late"}]
      /\ ~Added(first[a], two) => \A v \in lost \cup more(two) : excuse'[v] # {}
  <2>1. lost \cup more(two) \subseteq Users
    BY <1>1
  <2> DEFINE L == lost \cup more(two)
  <2> HIDE DEF L, lost, more
  <2>2. L \subseteq Users
    BY <2>1 DEF L
  <2>3. CASE Added(first[a], two)
    BY <1>4, <1>8, <2>3 DEF FriendsTypeOK
  <2>4. CASE ~Added(first[a], two)
    <3>1. excuse' = [v \in Users |-> IF v \in L THEN excuse[v] \cup {"lost"} ELSE excuse[v]]
      BY <1>8, <2>4 DEF Excuse, L
    <3>2. excuse \in [Users -> SUBSET {"failed", "lost", "late"}]
      BY <1>4 DEF FriendsTypeOK
    <3> QED
      BY <2>2, <3>1, <3>2 DEF L
  <2> QED
    BY <2>3, <2>4
<1>10. /\ add'[a] = IF Added(first[a], two) THEN "enqueue" ELSE "done"
       /\ \A b \in Adds : b # a => add'[b] = add[b]
       /\ add' \in [Adds -> {"new", "insert1", "insert2", "enqueue", "unqueued", "del1", "del2",
                             "invalidated", "done"}]
  BY <1>4, <1>8 DEF FriendsTypeOK
<1>11. FriendsTypeOK'
  <2>1. faults' \in 0..MaxFaults
    BY <1>2, <1>4, WorksKeeps DEF FriendsTypeOK
  <2>2. \A v \in Users : cache'[v].list \subseteq FriendList(v)'
    BY <1>3, <1>4, <1>5 DEF FriendsTypeOK, FriendList
  <2> QED
    BY <1>3, <1>4, <1>5, <1>9, <1>10, <2>1, <2>2 DEF FriendsTypeOK
<1>12. FirstIsTold'
  BY <1>3, <1>4, <1>5, <1>10 DEF FirstIsTold
<1>13. StaleHasReason'
  <2> SUFFICES ASSUME NEW v \in Users, cache[v].there, cache[v].list # FriendList(v)',
                      excuse'[v] = {}
               PROVE  DelToCome(v)'
    BY <1>3 DEF StaleHasReason
  <2>1. CASE Added(first[a], two) /\ v \in {u, f}
    BY <1>10, <2>1 DEF DelToCome, u, f
  <2>2. CASE ~Added(first[a], two) \/ v \notin {u, f}
    <3>1. ~(v = f /\ two = "new") /\ ~(v = u /\ first[a] = "new")
      BY <1>9, <2>2
    <3>2. FriendList(v)' = FriendList(v)
      BY <1>6, <3>1 DEF FriendList
    <3>3. DelToCome(v)
      BY <1>4, <1>9, <3>2 DEF StaleHasReason
    <3>4. PICK b \in Adds :
             \/ Who[b] = v /\ add[b] = "insert2" /\ first[b] = "new"
             \/ Who[b] = v /\ add[b] \in {"enqueue", "del1"}
             \/ Whom[b] = v /\ add[b] \in {"enqueue", "del1", "del2"}
      BY <3>3 DEF DelToCome
    <3>5. b # a
      BY <1>3, <3>1, <3>4 DEF u
    <3> QED
      BY <1>3, <1>10, <3>4, <3>5 DEF DelToCome
  <2> QED
    BY <2>1, <2>2
<1>14. FriendsMutual'
  <2>1. ASSUME NEW b \in Adds, Succeeded(b)'
        PROVE  {<<Who[b], Whom[b]>>, <<Whom[b], Who[b]>>} \subseteq rows'
    <3>1. CASE b = a
      <4>1. Added(first[a], two)
        BY <1>10, <2>1, <3>1 DEF Succeeded
      <4>2. <<u, f>> \in rows' /\ <<f, u>> \in rows'
        BY <1>5, <1>6, <1>7, <4>1 DEF Added
      <4> QED
        BY <3>1, <4>2 DEF u, f
    <3>2. CASE b # a
      BY <1>4, <1>5, <1>10, <2>1, <3>2 DEF Succeeded, FriendsMutual
    <3> QED
      BY <3>1, <3>2
  <2>2. ASSUME NEW v \in Users, NEW w \in Users, <<v, w>> \in rows', <<w, v>> \notin rows'
        PROVE  <<w, v>> \in torn' \/ \E b \in Adds : Who[b] = v /\ Whom[b] = w /\ add'[b] = "insert2"
    <3>1. CASE <<v, w>> \in rows
      <4>1. <<w, v>> \in torn \/ \E b \in Adds : Who[b] = v /\ Whom[b] = w /\ add[b] = "insert2"
        BY <1>4, <1>5, <2>2, <3>1 DEF FriendsMutual
      <4>2. CASE v = u /\ w = f
        BY <1>6, <2>2, <4>2
      <4>3. CASE ~(v = u /\ w = f)
        BY <1>5, <1>10, <4>1, <4>3 DEF u, f
      <4> QED
        BY <4>2, <4>3
    <3>2. CASE <<v, w>> \notin rows
      <4>1. v = f /\ w = u
        BY <1>6, <2>2, <3>2
      <4> QED
        BY <1>5, <1>7, <2>2, <4>1
    <3> QED
      BY <3>1, <3>2
  <2> QED
    BY <2>1, <2>2 DEF FriendsMutual
<1> QED
  BY <1>5, <1>11, <1>12, <1>13, <1>14 DEF FriendsIInv

\* The steps of a request that touch neither table nor cache keep it.
LEMMA QuietAddIInv ==
    ASSUME FriendsIInv, NEW a \in Adds, UserExistsInDB(a) \/ AddEnds(a) PROVE FriendsIInv'
<1>1. PICK to \in {"insert1", "done"} :
         /\ add[a] \in {"new", "insert1"} /\ add' = [add EXCEPT ![a] = to]
         /\ UNCHANGED <<rows, torn, cache, first, reader, faults, excuse>>
  BY DEF UserExistsInDB, AddEnds, rowVars
<1>2. add'[a] = to /\ \A b \in Adds : b # a => add'[b] = add[b]
  BY <1>1 DEF FriendsIInv, FriendsTypeOK
<1>3. FriendsTypeOK'
  BY <1>1 DEF FriendsIInv, FriendsTypeOK, FriendList
<1>4. FirstIsTold' /\ ReadIsFresh'
  BY <1>1, <1>2 DEF FriendsIInv, FirstIsTold, ReadIsFresh, FriendList
<1>5. StaleHasReason'
  <2>1. \A v \in Users : DelToCome(v) => DelToCome(v)'
    BY <1>1, <1>2 DEF DelToCome
  <2> QED
    BY <1>1, <2>1 DEF FriendsIInv, StaleHasReason, FriendList
<1>6. FriendsMutual'
  BY <1>1, <1>2 DEF FriendsIInv, FriendsMutual, Succeeded
<1> QED
  BY <1>3, <1>4, <1>5, <1>6 DEF FriendsIInv

\* The enqueue of the invalidation keeps it, refused or not.
LEMMA EnqueueFriendsIInv == ASSUME FriendsIInv, NEW a \in Adds, EnqueueInvalidation(a) PROVE FriendsIInv'
<1>1. PICK ok \in BOOLEAN :
         /\ Works(ok) /\ add' = [add EXCEPT ![a] = IF ok THEN "del1" ELSE "unqueued"]
         /\ Excuse(IF ok THEN {} ELSE {Who[a], Whom[a]}, "lost")
  BY DEF EnqueueInvalidation
<1>2. add[a] = "enqueue" /\ UNCHANGED <<rows, torn, cache, first, reader>>
  BY DEF EnqueueInvalidation, rowVars
<1>3. FriendsTypeOK
  BY DEF FriendsIInv
<1>4. /\ add'[a] = (IF ok THEN "del1" ELSE "unqueued")
      /\ \A b \in Adds : b # a => add'[b] = add[b]
      /\ add' \in [Adds -> {"new", "insert1", "insert2", "enqueue", "unqueued", "del1", "del2",
                            "invalidated", "done"}]
  BY <1>1, <1>3 DEF FriendsTypeOK
<1>5. /\ excuse' \in [Users -> SUBSET {"failed", "lost", "late"}]
      /\ \A v \in Users : excuse[v] \subseteq excuse'[v]
      /\ ~ok => excuse'[Who[a]] # {} /\ excuse'[Whom[a]] # {}
  <2> DEFINE L == IF ok THEN {} ELSE {Who[a], Whom[a]}
  <2>1. excuse' = [v \in Users |-> IF v \in L THEN excuse[v] \cup {"lost"} ELSE excuse[v]]
    BY <1>1 DEF Excuse
  <2>2. Who[a] \in Users /\ Whom[a] \in Users
    BY FriendsAssumption
  <2>3. ~ok => Who[a] \in L /\ Whom[a] \in L
    OBVIOUS
  <2> HIDE DEF L
  <2> QED
    BY <1>3, <2>1, <2>2, <2>3 DEF FriendsTypeOK
<1>6. FriendsTypeOK'
  <2>1. faults' \in 0..MaxFaults
    BY <1>1, <1>3, WorksKeeps DEF FriendsTypeOK
  <2> QED
    BY <1>2, <1>3, <1>4, <1>5, <2>1 DEF FriendsTypeOK, FriendList
<1>7. FirstIsTold' /\ ReadIsFresh'
  BY <1>2, <1>4 DEF FriendsIInv, FirstIsTold, ReadIsFresh, FriendList
<1>8. StaleHasReason'
  <2> SUFFICES ASSUME NEW v \in Users, cache[v].there, cache[v].list # FriendList(v),
                      excuse'[v] = {}
               PROVE  DelToCome(v)'
    BY <1>2 DEF StaleHasReason, FriendList
  <2>1. DelToCome(v)
    BY <1>5 DEF FriendsIInv, StaleHasReason
  <2> QED
    BY <1>2, <1>4, <1>5, <2>1 DEF DelToCome
<1>9. FriendsMutual'
  BY <1>2, <1>4 DEF FriendsIInv, FriendsMutual, Succeeded
<1> QED
  BY <1>6, <1>7, <1>8, <1>9 DEF FriendsIInv

\* A DEL keeps it, whether it is made or fails.
LEMMA InvalidateIInv == ASSUME FriendsIInv, NEW a \in Adds, Invalidate(a) PROVE FriendsIInv'
<1>1. PICK from \in {"del1", "del2"}, to \in {"del2", "invalidated"}, d \in Users,
           ok \in BOOLEAN :
         /\ \/ from = "del1" /\ to = "del2" /\ d = Who[a]
            \/ from = "del2" /\ to = "invalidated" /\ d = Whom[a]
         /\ add[a] = from /\ add' = [add EXCEPT ![a] = to]
         /\ InvalidateFriendListCache(d, ok)
  BY FriendsAssumption DEF Invalidate
<1>2. UNCHANGED <<rows, torn, first, reader>>
  BY DEF Invalidate, rowVars
<1>3. FriendsTypeOK
  BY DEF FriendsIInv
<1>4. /\ add'[a] = to /\ \A b \in Adds : b # a => add'[b] = add[b]
      /\ add' \in [Adds -> {"new", "insert1", "insert2", "enqueue", "unqueued", "del1", "del2",
                            "invalidated", "done"}]
  BY <1>1, <1>3 DEF FriendsTypeOK
<1>5. /\ excuse' \in [Users -> SUBSET {"failed", "lost", "late"}]
      /\ \A v \in Users : v # d => excuse'[v] = excuse[v] /\ cache'[v] = cache[v]
      /\ excuse'[d] # {} \/ cache'[d] = Absent
  <2>1. /\ cache' = IF ok THEN [cache EXCEPT ![d] = Absent] ELSE cache
        /\ excuse' = [excuse EXCEPT ![d] = IF ok THEN {} ELSE excuse[d] \cup {"lost"}]
    BY <1>1 DEF InvalidateFriendListCache
  <2> QED
    BY <1>3, <2>1 DEF FriendsTypeOK
<1>6. FriendsTypeOK'
  <2>1. faults' \in 0..MaxFaults
    BY <1>1, <1>3, WorksKeeps DEF FriendsTypeOK, InvalidateFriendListCache
  <2>2. cache' \in [Users -> [there : BOOLEAN, list : SUBSET Users, expires : BOOLEAN]]
        /\ \A v \in Users : cache'[v].list \subseteq FriendList(v)
    <3>1. cache' = [cache EXCEPT ![d] = Absent] \/ cache' = cache
      BY <1>1 DEF InvalidateFriendListCache
    <3>2. Absent \in [there : BOOLEAN, list : SUBSET Users, expires : BOOLEAN]
          /\ Absent.list = {}
      BY DEF Absent
    <3>3. \A v \in Users : cache'[v] = cache[v] \/ cache'[v] = Absent
      BY <1>3, <3>1 DEF FriendsTypeOK
    <3>4. cache' \in [Users -> [there : BOOLEAN, list : SUBSET Users, expires : BOOLEAN]]
      BY <1>3, <3>1, <3>2 DEF FriendsTypeOK
    <3> QED
      BY <1>3, <3>2, <3>3, <3>4 DEF FriendsTypeOK
  <2> QED
    BY <1>2, <1>3, <1>4, <1>5, <2>1, <2>2 DEF FriendsTypeOK, FriendList
<1>7. FirstIsTold' /\ ReadIsFresh'
  BY <1>1, <1>2, <1>4 DEF FriendsIInv, FirstIsTold, ReadIsFresh, FriendList
<1>8. StaleHasReason'
  <2> SUFFICES ASSUME NEW v \in Users, cache'[v].there, cache'[v].list # FriendList(v),
                      excuse'[v] = {}
               PROVE  DelToCome(v)'
    BY <1>2 DEF StaleHasReason, FriendList
  <2>1. v # d
    BY <1>5 DEF Absent
  <2>2. DelToCome(v)
    BY <1>5, <2>1 DEF FriendsIInv, StaleHasReason
  <2> QED
    BY <1>1, <1>2, <1>4, <2>1, <2>2 DEF DelToCome
<1>9. FriendsMutual'
  BY <1>1, <1>2, <1>4 DEF FriendsIInv, FriendsMutual, Succeeded
<1> QED
  BY <1>6, <1>7, <1>8, <1>9 DEF FriendsIInv

\* The steps of a reader keep it: a list stored late has its reason.
LEMMA ReaderIInv ==
    ASSUME FriendsIInv, NEW l \in Readers, ReadStep(l) \/ \E u \in Users : GetCached(l, u)
    PROVE  FriendsIInv'
<1> DEFINE Locals == [pc : {"idle", "select", "setex"}, user : Users,
                      list : SUBSET Users, overtaken : BOOLEAN, failed : BOOLEAN]
<1>1. FriendsTypeOK /\ reader \in [Readers -> Locals]
  BY DEF FriendsIInv, FriendsTypeOK
<1>2. ASSUME NEW r \in Locals, reader' = [reader EXCEPT ![l] = r],
             r.list \subseteq FriendList(r.user),
             r.pc = "setex" /\ ~r.failed /\ ~r.overtaken => r.list = FriendList(r.user),
             rows' = rows
      PROVE  /\ reader' \in [Readers -> Locals]
             /\ \A k \in Readers : reader'[k].list \subseteq FriendList(reader[k].user)'
             /\ ReadIsFresh'
  <2>1. reader' \in [Readers -> Locals] /\ \A k \in Readers : reader'[k] = reader[k] \/ reader'[k] = r
    BY <1>1, <1>2
  <2> HIDE DEF Locals
  <2>2. \A k \in Readers : reader'[k].list \subseteq FriendList(reader[k].user)'
    BY <1>1, <1>2, <2>1 DEF FriendsTypeOK, FriendList
  <2>3. ReadIsFresh'
    BY <1>2, <2>1 DEF FriendsIInv, ReadIsFresh, FriendList
  <2> QED
    BY <2>1, <2>2, <2>3
<1>3. ASSUME rows' = rows, torn' = torn, add' = add, first' = first
      PROVE  FirstIsTold' /\ FriendsMutual'
             /\ \A v \in Users : FriendList(v)' = FriendList(v) /\ (DelToCome(v)' <=> DelToCome(v))
  BY <1>3 DEF FriendsIInv, FirstIsTold, FriendsMutual, Succeeded, FriendList, DelToCome
<1>4. ASSUME NEW u \in Users, NEW list \in SUBSET Users, NEW failed \in BOOLEAN,
             NEW at \in {"idle", "select", "setex"}
      PROVE  Reading(at, u, list, failed) \in Locals
  BY DEF Reading
<1>5. ASSUME NEW u \in Users, GetCached(l, u) PROVE FriendsIInv'
  <2>1. /\ reader' = [reader EXCEPT ![l] = Reading("select", u, {}, FALSE)]
        /\ UNCHANGED <<rows, torn, cache, add, first, excuse>>
        /\ \E ok \in BOOLEAN : Works(ok)
    BY <1>5 DEF GetCached, rowVars
  <2>2. faults' \in 0..MaxFaults
    BY <1>1, <2>1, WorksKeeps DEF FriendsTypeOK
  <2>3. Reading("select", u, {}, FALSE) \in Locals
    BY <1>4
  <2>4. /\ reader' \in [Readers -> Locals] /\ ReadIsFresh'
        /\ \A k \in Readers : reader'[k].list \subseteq FriendList(reader[k].user)'
    BY <1>2, <2>1, <2>3 DEF Reading
  <2>5. FriendsTypeOK'
    BY <1>1, <2>1, <2>2, <2>4 DEF FriendsTypeOK, FriendList
  <2>6. StaleHasReason'
    BY <1>3, <2>1 DEF FriendsIInv, StaleHasReason
  <2> QED
    BY <1>3, <2>1, <2>4, <2>5, <2>6 DEF FriendsIInv
<1>6. ASSUME GetFriendListFromDB(l) PROVE FriendsIInv'
  <2> DEFINE u == reader[l].user
  <2>1. PICK ok \in BOOLEAN :
          /\ Works(ok)
          /\ reader' = [reader EXCEPT ![l] =
                Reading("setex", u, IF ok THEN SelectFriends(u) ELSE {}, ~ok)]
    BY <1>6 DEF GetFriendListFromDB
  <2>2. UNCHANGED <<rows, torn, cache, add, first, excuse>>
    BY <1>6 DEF GetFriendListFromDB, rowVars
  <2>3. faults' \in 0..MaxFaults
    BY <1>1, <2>1, WorksKeeps DEF FriendsTypeOK
  <2>4. u \in Users
    BY <1>1
  <2> DEFINE list == IF ok THEN SelectFriends(u) ELSE {}
             r == Reading("setex", u, list, ~ok)
  <2>5. list \subseteq FriendList(u) /\ list \in SUBSET Users /\ (ok => list = FriendList(u))
    BY DEF SelectFriends, FriendList
  <2> HIDE DEF list
  <2>6. r \in Locals
    BY <1>4, <2>4, <2>5
  <2>7. r.list = list /\ r.user = u /\ (~r.failed => ok)
    BY DEF Reading
  <2> HIDE DEF r, u, Locals
  <2>8. /\ reader' \in [Readers -> Locals] /\ ReadIsFresh'
        /\ \A k \in Readers : reader'[k].list \subseteq FriendList(reader[k].user)'
    BY <1>2, <2>1, <2>2, <2>5, <2>6, <2>7 DEF r, list
  <2>9. FriendsTypeOK'
    BY <1>1, <2>2, <2>3, <2>8 DEF FriendsTypeOK, FriendList, Locals
  <2>10. StaleHasReason'
    BY <1>3, <2>2 DEF FriendsIInv, StaleHasReason
  <2> QED
    BY <1>3, <2>2, <2>8, <2>9, <2>10 DEF FriendsIInv
<1>7. ASSUME StoreList(l) PROVE FriendsIInv'
  <2> DEFINE u == reader[l].user
             list == reader[l].list
  <2>1. PICK ok \in BOOLEAN :
          /\ Works(ok)
          /\ cache' = IF ok THEN [cache EXCEPT ![u] = SetEx(list)] ELSE cache
          /\ excuse' = IF ok THEN [excuse EXCEPT ![u] = Reasons(reader[l])] ELSE excuse
    BY <1>7 DEF StoreList
  <2>2. /\ reader[l].pc = "setex" /\ reader' = [reader EXCEPT ![l] = Idle]
        /\ UNCHANGED <<rows, torn, add, first>>
    BY <1>7 DEF StoreList, rowVars
  <2>3. faults' \in 0..MaxFaults
    BY <1>1, <2>1, WorksKeeps DEF FriendsTypeOK
  <2>4. Idle \in Locals /\ Idle.list = {} /\ Idle.pc = "idle"
    <3>1. (CHOOSE v \in Users : TRUE) \in Users
      BY FriendsAssumption
    <3> QED
      BY <3>1 DEF Idle, Reading
  <2>5. /\ reader' \in [Readers -> Locals] /\ ReadIsFresh'
        /\ \A k \in Readers : reader'[k].list \subseteq FriendList(reader[k].user)'
    BY <1>2, <2>2, <2>4
  <2>6. u \in Users /\ list \subseteq FriendList(u) /\ list \in SUBSET Users
    BY <1>1 DEF FriendsTypeOK
  <2>7. Reasons(reader[l]) \in SUBSET {"failed", "lost", "late"}
        /\ (list # FriendList(u) => DelToCome(u) \/ Reasons(reader[l]) # {})
    <3>1. list # FriendList(u) => reader[l].failed \/ reader[l].overtaken
      BY <2>2 DEF FriendsIInv, ReadIsFresh
    <3> QED
      BY <3>1 DEF Reasons
  <2>8. SetEx(list) \in [there : BOOLEAN, list : SUBSET Users, expires : BOOLEAN]
        /\ SetEx(list).list = list
    BY <2>6 DEF SetEx
  <2> HIDE DEF u, list, Locals
  <2>9. /\ cache' \in [Users -> [there : BOOLEAN, list : SUBSET Users, expires : BOOLEAN]]
        /\ excuse' \in [Users -> SUBSET {"failed", "lost", "late"}]
    <3>1. \/ cache' = cache /\ excuse' = excuse
          \/ /\ cache' = [cache EXCEPT ![u] = SetEx(list)]
             /\ excuse' = [excuse EXCEPT ![u] = Reasons(reader[l])]
      BY <2>1
    <3>2. /\ cache \in [Users -> [there : BOOLEAN, list : SUBSET Users, expires : BOOLEAN]]
          /\ excuse \in [Users -> SUBSET {"failed", "lost", "late"}]
      BY <1>1 DEF FriendsTypeOK
    <3>3. [cache EXCEPT ![u] = SetEx(list)]
             \in [Users -> [there : BOOLEAN, list : SUBSET Users, expires : BOOLEAN]]
      BY <2>8, <3>2
    <3>4. [excuse EXCEPT ![u] = Reasons(reader[l])]
             \in [Users -> SUBSET {"failed", "lost", "late"}]
      BY <2>7, <3>2
    <3> QED
      BY <3>1, <3>2, <3>3, <3>4, Zenon
  <2>10. \A v \in Users : \/ cache'[v] = cache[v] /\ excuse'[v] = excuse[v]
                          \/ v = u /\ cache'[v] = SetEx(list) /\ excuse'[v] = Reasons(reader[l])
    <3>1. \/ cache' = cache /\ excuse' = excuse
          \/ /\ cache' = [cache EXCEPT ![u] = SetEx(list)]
             /\ excuse' = [excuse EXCEPT ![u] = Reasons(reader[l])]
      BY <2>1
    <3> QED
      BY <1>1, <3>1 DEF FriendsTypeOK
  <2>11. FriendsTypeOK'
    <3>1. \A v \in Users : cache'[v].list \subseteq FriendList(v)
      BY <1>1, <2>6, <2>8, <2>10 DEF FriendsTypeOK
    <3> QED
      BY <1>1, <2>2, <2>3, <2>5, <2>9, <3>1 DEF FriendsTypeOK, FriendList, Locals
  <2>12. StaleHasReason'
    <3> SUFFICES ASSUME NEW v \in Users, cache'[v].there, cache'[v].list # FriendList(v),
                        excuse'[v] = {}
                 PROVE  DelToCome(v)
      BY <1>3, <2>2 DEF StaleHasReason
    <3>1. CASE cache'[v] = cache[v] /\ excuse'[v] = excuse[v]
      BY <3>1 DEF FriendsIInv, StaleHasReason
    <3>2. CASE v = u /\ cache'[v] = SetEx(list) /\ excuse'[v] = Reasons(reader[l])
      BY <2>7, <2>8, <3>2
    <3> QED
      BY <2>10, <3>1, <3>2
  <2> QED
    BY <1>3, <2>2, <2>5, <2>11, <2>12 DEF FriendsIInv
<1> QED
  BY <1>5, <1>6, <1>7 DEF ReadStep

\* The end of a list's time keeps it.
LEMMA ExpireIInv == ASSUME FriendsIInv, NEW u \in Users, Expire(u) PROVE FriendsIInv'
<1>1. /\ cache' = [cache EXCEPT ![u] = Absent] /\ excuse' = [excuse EXCEPT ![u] = {}]
      /\ UNCHANGED <<rows, torn, add, first, reader, faults>>
  BY DEF Expire, rowVars
<1>2. Absent \in [there : BOOLEAN, list : SUBSET Users, expires : BOOLEAN]
      /\ Absent.list = {} /\ ~Absent.there
  BY DEF Absent
<1>3. /\ cache' \in [Users -> [there : BOOLEAN, list : SUBSET Users, expires : BOOLEAN]]
      /\ excuse' \in [Users -> SUBSET {"failed", "lost", "late"}]
      /\ cache'[u] = Absent
      /\ \A v \in Users : v # u => cache'[v] = cache[v] /\ excuse'[v] = excuse[v]
  BY <1>1, <1>2 DEF FriendsIInv, FriendsTypeOK
<1>4. FriendsTypeOK'
  <2>1. \A v \in Users : cache'[v].list \subseteq FriendList(v)
    BY <1>2, <1>3 DEF FriendsIInv, FriendsTypeOK
  <2> QED
    BY <1>1, <1>3, <2>1 DEF FriendsIInv, FriendsTypeOK, FriendList
<1>5. FirstIsTold' /\ ReadIsFresh' /\ FriendsMutual'
  BY <1>1 DEF FriendsIInv, FirstIsTold, ReadIsFresh, FriendsMutual, Succeeded, FriendList
<1>6. StaleHasReason'
  BY SMTT(30), <1>1, <1>2, <1>3 DEF FriendsIInv, StaleHasReason, FriendList, DelToCome
<1> QED
  BY <1>4, <1>5, <1>6 DEF FriendsIInv

\* Every step keeps the inductive invariant.
LEMMA NextFriendsIInv == FriendsIInv /\ [FriendsNext]_friendsVars => FriendsIInv'
<1> SUFFICES ASSUME FriendsIInv, [FriendsNext]_friendsVars PROVE FriendsIInv'
  OBVIOUS
<1>1. ASSUME NEW a \in Adds, AddStep(a) PROVE FriendsIInv'
  BY <1>1, QuietAddIInv, Insert1IInv, Insert2IInv, EnqueueFriendsIInv, InvalidateIInv DEF AddStep
<1>2. CASE UNCHANGED friendsVars
  <2>1. UNCHANGED <<rows, torn, cache, add, first, reader, faults, excuse>>
    BY <1>2 DEF friendsVars, rowVars
  <2>2. FriendsTypeOK'
    BY <2>1 DEF FriendsIInv, FriendsTypeOK, FriendList
  <2>3. FirstIsTold' /\ FriendsMutual'
    BY <2>1 DEF FriendsIInv, FirstIsTold, FriendsMutual, Succeeded
  <2>4. ReadIsFresh' /\ StaleHasReason'
    BY <2>1 DEF FriendsIInv, ReadIsFresh, StaleHasReason, FriendList, DelToCome
  <2> QED
    BY <2>2, <2>3, <2>4 DEF FriendsIInv
<1> QED
  BY <1>1, <1>2, ReaderIInv, ExpireIInv DEF FriendsNext

\* The inductive invariant holds in every reachable state.
LEMMA FriendsInvariance == FriendsSpec => []FriendsIInv
BY InitFriendsIInv, NextFriendsIInv, PTL DEF FriendsSpec

\* Every variable keeps its type, and no cached list names a stranger, for any
\* users, requests, readers and failures.
THEOREM FriendsTypeCorrect == FriendsSpec => []FriendsTypeOK
<1>1. FriendsIInv => FriendsTypeOK
  BY DEF FriendsIInv
<1> QED
  BY <1>1, FriendsInvariance, PTL

\* An old list in the cache is about to be deleted or has one of the three
\* reasons, for any number of additions and readers.
THEOREM StaleAlwaysHasReason == FriendsSpec => []StaleHasReason
<1>1. FriendsIInv => StaleHasReason
  BY DEF FriendsIInv
<1> QED
  BY <1>1, FriendsInvariance, PTL

\* Reported friendships are mutual and one-sided rows are accounted for, in any
\* interleaving of any number of requests.
THEOREM FriendsAlwaysMutual == FriendsSpec => []FriendsMutual
<1>1. FriendsIInv => FriendsMutual
  BY DEF FriendsIInv
<1> QED
  BY <1>1, FriendsInvariance, PTL

-----------------------------------------------------------------------------
(* The log.                                                                *)

\* The thread comes back to its wait, or ends, with its queue and batch empty:
\* what makes the swap of the queues keep their order.
NothingInHand == pc \in {"wait", "gone"} => flush = <<>> /\ batch = <<>>

\* The inductive invariant.
IInv == TypeOK /\ InOrder /\ QueuesBounded /\ NothingInHand

\* Numbering one more entry.
LEMMA Numbered ==
    ASSUME NEW n \in Nat
    PROVE  Append([i \in 1..n |-> i], n + 1) = [i \in 1..(n + 1) |-> i]
OBVIOUS

\* Concatenation is associative.
LEMMA Assoc == \A a, b, c \in Seq(Nat) : a \o (b \o c) = (a \o b) \o c
<1> TAKE a, b, c \in Seq(Nat)
<1> QED
  BY SMTT(30)

\* Sequences are equal that have the same length and the same elements.
LEMMA SameElements ==
    \A s, t \in Seq(Nat) :
        Len(s) = Len(t) /\ (\A i \in 1..Len(s) : s[i] = t[i]) => s = t
OBVIOUS

\* What moving the first element of f to the end of b, which follows h, does.
Moves(h, b, f) ==
    /\ Append(b, Head(f)) \in Seq(Nat) /\ Tail(f) \in Seq(Nat)
    /\ Len(Tail(f)) = Len(f) - 1
    /\ (h \o Append(b, Head(f))) \o Tail(f) = (h \o b) \o f

\* The move changes neither the elements nor their order.
LEMMA MoveFront == \A h, b, f \in Seq(Nat) : f # <<>> => Moves(h, b, f)
<1> SUFFICES ASSUME NEW h \in Seq(Nat), NEW b \in Seq(Nat), NEW f \in Seq(Nat), f # <<>>
             PROVE  Moves(h, b, f)
  BY Zenon
<1> DEFINE x == Head(f)
           t == Tail(f)
<1>1. /\ x \in Nat /\ t \in Seq(Nat) /\ Len(t) = Len(f) - 1
      /\ \A i \in 1..Len(t) : t[i] = f[i + 1]
  OBVIOUS
<1>2. x = f[1] /\ Len(f) \in Nat \ {0}
  OBVIOUS
<1> HIDE DEF x, t
<1>3. <<x>> \in Seq(Nat) /\ Append(b, x) = b \o <<x>>
  BY <1>1
<1>4. f = <<x>> \o t
  <2>1. <<x>> \o t \in Seq(Nat) /\ Len(<<x>> \o t) = Len(f)
    BY <1>1, <1>2
  <2>2. \A i \in 1..Len(f) : f[i] = (<<x>> \o t)[i]
    BY <1>1, <1>2
  <2> QED
    BY <2>1, <2>2, SameElements
<1>5. h \o (b \o <<x>>) = (h \o b) \o <<x>>
  BY <1>3, Assoc, Zenon
<1>6. h \o b \in Seq(Nat)
  OBVIOUS
<1>7. ((h \o b) \o <<x>>) \o t = (h \o b) \o (<<x>> \o t)
  BY <1>1, <1>3, <1>6, Assoc, Zenon
<1>8. Append(b, x) \in Seq(Nat)
  BY <1>1
<1>9. (h \o Append(b, x)) \o t = (h \o b) \o f
  BY <1>3, <1>4, <1>5, <1>7
<1> QED
  BY <1>1, <1>8, <1>9 DEF x, t, Moves

\* The initial states satisfy the inductive invariant.
LEMMA InitIInv == Init => IInv
<1> SUFFICES ASSUME Init PROVE IInv
  OBVIOUS
<1>1. TypeOK /\ QueuesBounded /\ NothingInHand
  <2>1. draining \in BOOLEAN /\ stop \in BOOLEAN
    BY Zenon DEF Init
  <2>2. /\ active = <<>> /\ flush = <<>> /\ batch = <<>> /\ handed = <<>>
        /\ pc = "wait" /\ accepted = 0
    BY Zenon DEF Init
  <2>3. <<>> \in Seq(Nat) /\ Len(<<>>) = 0
    OBVIOUS
  <2>4. 0 <= BatchSize /\ 0 + 0 <= Limit + Torn /\ 0 \in Nat
    BY ChatLogAssumption
  <2>5. TypeOK
    BY <2>1, <2>2, <2>3, <2>4, Zenon DEF TypeOK
  <2> QED
    BY <2>2, <2>3, <2>4, <2>5, Zenon DEF QueuesBounded, NothingInHand
<1>2. ((handed \o batch) \o flush) \o active = <<>>
  BY DEF Init
<1>3. [i \in 1..accepted |-> i] = <<>>
  BY DEF Init
<1> QED
  BY <1>1, <1>2, <1>3 DEF IInv, InOrder

\* An accepted entry keeps it.
LEMMA EnqueueIInv == ASSUME IInv, EnqueueChatLog PROVE IInv'
<1> USE ChatLogAssumption
<1>1. /\ accepted' = accepted + 1 /\ active' = Append(active, accepted + 1)
      /\ UNCHANGED <<flush, batch, pc, draining, stop, handed>>
  BY DEF EnqueueChatLog
<1>2. /\ active \in Seq(Nat) /\ flush \in Seq(Nat) /\ batch \in Seq(Nat) /\ handed \in Seq(Nat)
      /\ accepted \in Nat
  BY DEF IInv, TypeOK
<1>3. TypeOK'
  BY <1>1, <1>2 DEF IInv, TypeOK
<1>4. InOrder'
  <2>1. ((handed \o batch) \o flush) \o Append(active, accepted + 1)
          = Append(((handed \o batch) \o flush) \o active, accepted + 1)
    BY SMTT(30), <1>2
  <2> QED
    BY <1>1, <1>2, <2>1, Numbered DEF IInv, InOrder
<1>5. QueuesBounded'
  <2>1. PICK n \in 0..(Len(flush) + Torn) : Sees(n) /\ Room(n)
    BY DEF EnqueueChatLog
  <2>2. Len(flush) <= n + Torn
    BY <1>2, <2>1 DEF Sees
  <2> QED
    BY <1>1, <1>2, <2>1, <2>2 DEF Room, QueuesBounded
<1> QED
  BY <1>1, <1>3, <1>4, <1>5 DEF IInv, NothingInHand

\* A swap of the queues, when there is nothing in hand, keeps it.
LEMMA SwapIInv ==
    ASSUME IInv, Swap, flush = <<>>, batch = <<>>,
           UNCHANGED <<batch, stop, accepted, handed>>,
           draining' \in BOOLEAN, pc' \in {"pop", "gone"},
           pc' = "gone" => flush' = <<>>
    PROVE  IInv'
<1>1. /\ active \in Seq(Nat) /\ flush \in Seq(Nat) /\ batch \in Seq(Nat) /\ handed \in Seq(Nat)
  BY DEF IInv, TypeOK
<1>2. \/ active' = flush /\ flush' = active
      \/ UNCHANGED <<active, flush>>
  BY DEF Swap
<1>3. TypeOK'
  BY <1>1, <1>2 DEF IInv, TypeOK
<1>4. InOrder'
  <2>1. ((handed \o batch) \o active) \o flush = ((handed \o batch) \o flush) \o active
    BY <1>1
  <2> QED
    BY <1>2, <2>1 DEF IInv, InOrder
<1>5. QueuesBounded'
  BY <1>1, <1>2 DEF IInv, QueuesBounded
<1> QED
  BY <1>3, <1>4, <1>5 DEF IInv, NothingInHand

\* Taking an entry into the batch keeps it.
LEMMA PopFrontIInv == ASSUME IInv, PopFront PROVE IInv'
<1> USE ChatLogAssumption
<1>1. /\ pc = "pop" /\ flush # <<>> /\ ~(Len(batch) >= BatchSize)
      /\ batch' = Append(batch, Head(flush)) /\ flush' = Tail(flush)
      /\ UNCHANGED <<active, pc, draining, stop, accepted, handed>>
  BY DEF PopFront, BatchFull
<1>2. /\ active \in Seq(Nat) /\ flush \in Seq(Nat) /\ batch \in Seq(Nat) /\ handed \in Seq(Nat)
  BY DEF IInv, TypeOK
<1>3. /\ batch' \in Seq(Nat) /\ flush' \in Seq(Nat) /\ Len(flush') = Len(flush) - 1
      /\ ((handed \o batch') \o flush') \o active = ((handed \o batch) \o flush) \o active
  <2>1. flush # <<>>
    BY <1>1
  <2>2. /\ Append(batch, Head(flush)) \in Seq(Nat) /\ Tail(flush) \in Seq(Nat)
        /\ Len(Tail(flush)) = Len(flush) - 1
        /\ (handed \o Append(batch, Head(flush))) \o Tail(flush) = (handed \o batch) \o flush
    <3>1. Moves(handed, batch, flush)
      BY <1>2, <2>1, MoveFront, Zenon
    <3> QED
      BY <3>1, Zenon DEF Moves
  <2> QED
    BY <1>1, <2>2, Zenon
<1>4. Len(batch') = Len(batch) + 1
  BY <1>1, <1>2
<1>5. TypeOK'
  BY <1>1, <1>2, <1>3, <1>4 DEF IInv, TypeOK
<1>6. InOrder'
  BY <1>1, <1>3 DEF IInv, InOrder
<1>7. QueuesBounded'
  BY <1>1, <1>2, <1>3 DEF IInv, QueuesBounded
<1> QED
  BY <1>1, <1>5, <1>6, <1>7 DEF IInv, NothingInHand

\* Handing the batch over keeps it.
LEMMA FlushIInv == ASSUME IInv, FlushChatLogsBatch PROVE IInv'
<1>1. /\ handed' = handed \o batch /\ batch' = <<>>
      /\ pc' = (IF flush = <<>> THEN "wait" ELSE "pop")
      /\ UNCHANGED <<active, flush, draining, stop, accepted>>
  BY DEF FlushChatLogsBatch
<1>2. /\ active \in Seq(Nat) /\ flush \in Seq(Nat) /\ batch \in Seq(Nat) /\ handed \in Seq(Nat)
  BY DEF IInv, TypeOK
<1>3. TypeOK'
  BY <1>1, <1>2, ChatLogAssumption DEF IInv, TypeOK
<1>4. (handed \o batch) \o <<>> = handed \o batch
  BY <1>2
<1>5. InOrder'
  BY <1>1, <1>4 DEF IInv, InOrder
<1> QED
  BY <1>1, <1>3, <1>5 DEF IInv, NothingInHand, QueuesBounded

\* Every step keeps the inductive invariant.
LEMMA NextIInv == IInv /\ [Next]_vars => IInv'
<1> SUFFICES ASSUME IInv, [Next]_vars PROVE IInv'
  OBVIOUS
<1>1. CASE Collect
  <2>1. flush = <<>> /\ batch = <<>>
    BY <1>1 DEF Collect, IInv, NothingInHand
  <2>2. CASE UNCHANGED <<active, flush, pc>>
    BY <1>1, <2>2 DEF Collect, IInv, TypeOK, InOrder, QueuesBounded, NothingInHand
  <2>3. CASE Swap /\ pc' = "pop" /\ UNCHANGED draining
    <3>1. draining' \in BOOLEAN
      BY <2>3 DEF IInv, TypeOK
    <3> QED
      BY <1>1, <2>1, <2>3, <3>1, SwapIInv DEF Collect
  <2> QED
    BY <1>1, <2>2, <2>3 DEF Collect
<1>2. CASE Drain
  <2>1. flush = <<>> /\ batch = <<>>
    BY <1>2 DEF Drain, IInv, NothingInHand
  <2>2. draining' \in BOOLEAN
    BY <1>2 DEF Drain, IInv, TypeOK
  <2> QED
    BY <1>2, <2>1, <2>2, SwapIInv DEF Drain
<1>3. CASE BatchReady
  <2>1. batch = <<>> => flush = <<>>
    BY <1>3, ChatLogAssumption DEF BatchReady, BatchFull
  <2> QED
    BY <1>3, <2>1 DEF BatchReady, IInv, TypeOK, InOrder, QueuesBounded, NothingInHand
<1>4. CASE Stop
  BY <1>4 DEF Stop, IInv, TypeOK, InOrder, QueuesBounded, NothingInHand
<1>5. CASE UNCHANGED vars
  BY <1>5 DEF vars, IInv, TypeOK, InOrder, QueuesBounded, NothingInHand
<1> QED
  BY <1>1, <1>2, <1>3, <1>4, <1>5, EnqueueIInv, PopFrontIInv, FlushIInv DEF Next, FlushThread

\* Every variable of the log keeps its type, and no INSERT has more rows than
\* kChatLogBatchSize.
THEOREM LogTypeCorrect == Spec => []TypeOK
<1>1. IInv => TypeOK
  BY DEF IInv
<1> QED
  BY <1>1, InitIInv, NextIInv, PTL DEF Spec

\* Every accepted entry is handed to flushChatLogsBatch once and in order, or is
\* still queued, for any batch size and limit.
THEOREM AlwaysInOrder == Spec => []InOrder
<1>1. IInv => InOrder
  BY DEF IInv
<1> QED
  BY <1>1, InitIInv, NextIInv, PTL DEF Spec

\* The two queues keep to kChatLogQueueLimit, up to the error of the unlocked
\* size, for any limit and any error.
THEOREM QueuesAlwaysBounded == Spec => []QueuesBounded
<1>1. IInv => QueuesBounded
  BY DEF IInv
<1> QED
  BY <1>1, InitIInv, NextIInv, PTL DEF Spec

\* chatLogFlushLoop ends only when everything accepted so far is handed over.
THEOREM AlwaysEndsWithNothingLeft == Spec => EndsWithNothingLeft
<1>1. IInv /\ [Next]_vars => [pc' = "gone" => pc = "gone" \/ Len(handed) = accepted]_vars
  <2> SUFFICES ASSUME IInv, Next, pc' = "gone", pc # "gone"
               PROVE  Len(handed) = accepted
    BY DEF vars
  <2>1. Drain
    BY DEF Next, FlushThread, EnqueueChatLog, Collect, Drain, PopFront, BatchReady,
           FlushChatLogsBatch, Stop
  <2>2. flush = <<>> /\ batch = <<>> /\ active = <<>>
    BY <2>1 DEF Drain, Swap, IInv, NothingInHand
  <2>3. handed \in Seq(Nat) /\ accepted \in Nat
    BY DEF IInv, TypeOK
  <2>4. handed = [i \in 1..accepted |-> i]
    BY <2>2, <2>3 DEF IInv, InOrder
  <2> QED
    BY <2>3, <2>4
<1> QED
  BY <1>1, InitIInv, NextIInv, PTL DEF Spec, EndsWithNothingLeft

-----------------------------------------------------------------------------
(* The rows of the table and the pages of a client.                        *)

\* Every row is of an entry handed over, has the session of its message, and a
\* time not in the future.
RowsHanded ==
    \A r \in table :
        /\ r.entry \in 1 .. Len(handed)
        /\ r.session = BuildSessionId(Chats[r.entry].sender, Chats[r.entry].target)
        /\ r.at \in 1 .. now

\* The client's cursor is a time at which a page ended.
CursorIsCut ==
    /\ now \in Nat \ {0} /\ cursor \in 0 .. now
    /\ cursor > 0 => cursor \in cuts

\* The inductive invariant.
HInv == IInv /\ RowsHanded /\ CursorIsCut /\ RowsInOrder /\ MissedSharesSecond

\* The elements of two sequences joined.
Joined(a, b) ==
    /\ a \o b \in Seq(Nat) /\ Len(a \o b) = Len(a) + Len(b)
    /\ \A i \in 1 .. Len(a) : (a \o b)[i] = a[i]
    /\ \A i \in 1 .. Len(b) : (a \o b)[Len(a) + i] = b[i]

\* Concatenation joins them.
LEMMA ConcatJoins == \A a, b \in Seq(Nat) : Joined(a, b)
<1> SUFFICES ASSUME NEW a \in Seq(Nat), NEW b \in Seq(Nat) PROVE Joined(a, b)
  BY Zenon
<1> QED
  BY DEF Joined

\* The entries handed over are the first ones, and the batch goes on where they
\* end.
LEMMA BatchFollows ==
    ASSUME IInv
    PROVE  /\ \A i \in 1 .. Len(batch) : batch[i] = Len(handed) + i
           /\ \A i \in 1 .. Len(handed) : handed[i] = i
           /\ Len(handed) + Len(batch) <= accepted
<1>1. /\ active \in Seq(Nat) /\ flush \in Seq(Nat) /\ batch \in Seq(Nat) /\ handed \in Seq(Nat)
      /\ accepted \in Nat
  BY DEF IInv, TypeOK
<1> DEFINE hb == handed \o batch
           hbf == hb \o flush
           all == hbf \o active
<1>2. Joined(handed, batch) /\ hb \in Seq(Nat)
  BY <1>1, ConcatJoins, Zenon DEF Joined
<1>3. Joined(hb, flush) /\ hbf \in Seq(Nat)
  BY <1>1, <1>2, ConcatJoins, Zenon DEF Joined
<1>4. Joined(hbf, active) /\ all \in Seq(Nat)
  BY <1>1, <1>3, ConcatJoins, Zenon DEF Joined
<1>5. all = [i \in 1 .. accepted |-> i]
  BY DEF IInv, InOrder
<1>6. /\ Len(hb) = Len(handed) + Len(batch)
      /\ \A i \in 1 .. Len(batch) : hb[Len(handed) + i] = batch[i]
      /\ \A i \in 1 .. Len(handed) : hb[i] = handed[i]
  BY <1>2, Zenon DEF Joined
<1>7. Len(hbf) = Len(hb) + Len(flush) /\ \A i \in 1 .. Len(hb) : hbf[i] = hb[i]
  BY <1>3, Zenon DEF Joined
<1>8. Len(all) = Len(hbf) + Len(active) /\ \A i \in 1 .. Len(hbf) : all[i] = hbf[i]
  BY <1>4, Zenon DEF Joined
<1> HIDE DEF hb, hbf, all
<1>9. Len(all) = accepted /\ \A i \in 1 .. accepted : all[i] = i
  BY <1>1, <1>4, <1>5
<1>10. Len(handed) \in Nat /\ Len(batch) \in Nat /\ Len(flush) \in Nat /\ Len(active) \in Nat
  BY <1>1
<1>11. \A k \in 1 .. Len(hb) : k \in 1 .. Len(hbf) /\ k \in 1 .. accepted
  BY <1>6, <1>7, <1>8, <1>9, <1>10
<1>12. \A k \in 1 .. Len(hb) : hb[k] = k
  BY <1>7, <1>8, <1>9, <1>11, Zenon
<1>13. ASSUME NEW i \in 1 .. Len(batch) PROVE batch[i] = Len(handed) + i
  <2>1. Len(handed) + i \in 1 .. Len(hb)
    BY <1>6, <1>10
  <2>2. hb[Len(handed) + i] = batch[i]
    BY <1>6, Zenon
  <2>3. hb[Len(handed) + i] = Len(handed) + i
    BY <1>12, <2>1, Zenon
  <2> QED
    BY <2>2, <2>3
<1>14. ASSUME NEW i \in 1 .. Len(handed) PROVE handed[i] = i
  <2>1. i \in 1 .. Len(hb)
    BY <1>6, <1>10
  <2>2. hb[i] = handed[i]
    BY <1>6, Zenon
  <2>3. hb[i] = i
    BY <1>12, <2>1, Zenon
  <2> QED
    BY <2>2, <2>3
<1>15. Len(handed) + Len(batch) <= accepted
  BY <1>6, <1>7, <1>8, <1>9, <1>10
<1> QED
  BY <1>13, <1>14, <1>15

\* The session of a chat does not depend on who of the two sent the message.
LEMMA SessionOfChat ==
    ASSUME NEW a, NEW b, {a, b} = {Reader, Peer}
    PROVE  BuildSessionId(a, b) = BuildSessionId(Reader, Peer)
<1>1. (a = Reader /\ b = Peer) \/ (a = Peer /\ b = Reader)
  OBVIOUS
<1>2. Reader \in Nat \ {0} /\ Peer \in Nat \ {0}
  BY HistoryAssumption DEF Account
<1> QED
  BY <1>1, <1>2 DEF BuildSessionId

\* An INSERT, done or failed, keeps the invariant.
LEMMA InsertHInv == ASSUME HInv, InsertBatch PROVE HInv'
<1>1. IInv'
  BY FlushIInv DEF HInv, InsertBatch
<1>2. /\ handed' = handed \o batch
      /\ table' \in {table, table \cup {Row(batch[i]) : i \in DOMAIN batch}}
      /\ UNCHANGED <<now, cursor, shown, cuts>>
  BY DEF InsertBatch, FlushChatLogsBatch, clientVars
<1>3. handed \in Seq(Nat) /\ batch \in Seq(Nat)
  BY DEF HInv, IInv, TypeOK
<1>4. Len(handed') = Len(handed) + Len(batch) /\ Len(handed) \in Nat /\ Len(batch) \in Nat
      /\ DOMAIN batch = 1 .. Len(batch)
  BY <1>2, <1>3
<1>5. now \in Nat \ {0} /\ cursor \in 0 .. now /\ (cursor > 0 => cursor \in cuts)
  BY DEF HInv, CursorIsCut
<1>6. ASSUME NEW r \in table', r \notin table
      PROVE  /\ r.entry \in Len(handed) + 1 .. Len(handed')
             /\ r.session = BuildSessionId(Chats[r.entry].sender, Chats[r.entry].target)
             /\ r.at = now
  <2>1. PICK i \in DOMAIN batch : r = Row(batch[i])
    BY <1>2, <1>6
  <2>2. batch[i] = Len(handed) + i
    BY <1>4, BatchFollows DEF HInv
  <2>3. r.entry = batch[i] /\ r.at = now
        /\ r.session = BuildSessionId(Chats[batch[i]].sender, Chats[batch[i]].target)
    BY <2>1 DEF Row
  <2>4. batch[i] \in Len(handed) + 1 .. Len(handed')
    BY <2>2, <1>4
  <2> QED
    BY <2>3, <2>4
<1>7. ASSUME NEW r \in table
      PROVE  /\ r.entry \in 1 .. Len(handed)
             /\ r.session = BuildSessionId(Chats[r.entry].sender, Chats[r.entry].target)
             /\ r.at \in 1 .. now
  BY DEF HInv, RowsHanded
<1>8. RowsHanded'
  <2> SUFFICES ASSUME NEW r \in table'
               PROVE  /\ r.entry \in 1 .. Len(handed')
                      /\ r.session = BuildSessionId(Chats[r.entry].sender, Chats[r.entry].target)
                      /\ r.at \in 1 .. now
    BY <1>2 DEF RowsHanded
  <2>1. CASE r \in table
    BY <2>1, <1>4, <1>7
  <2>2. CASE r \notin table
    BY <2>2, <1>4, <1>5, <1>6
  <2> QED
    BY <2>1, <2>2
<1>9. CursorIsCut'
  BY <1>2 DEF HInv, CursorIsCut
<1>10. RowsInOrder'
  <2> SUFFICES ASSUME NEW r \in table', NEW q \in table', r.entry < q.entry
               PROVE  r.at <= q.at
    BY DEF RowsInOrder
  <2>1. CASE r \in table /\ q \in table
    BY <2>1 DEF HInv, RowsInOrder
  <2>2. CASE r \in table /\ q \notin table
    BY <2>2, <1>5, <1>6, <1>7
  <2>3. CASE r \notin table /\ q \in table
    BY <2>3, <1>4, <1>6, <1>7
  <2>4. CASE r \notin table /\ q \notin table
    BY <2>4, <1>5, <1>6
  <2> QED
    BY <2>1, <2>2, <2>3, <2>4
<1>11. MissedSharesSecond'
  <2> SUFFICES ASSUME NEW r \in table', Between(r), r.at <= cursor, r.entry \notin shown
               PROVE  r.at \in cuts
    BY <1>2 DEF MissedSharesSecond, Between
  <2>1. CASE r \in table
    BY <2>1 DEF HInv, MissedSharesSecond
  <2>2. CASE r \notin table
    <3>1. r.at = cursor /\ cursor > 0
      BY <2>2, <1>5, <1>6
    <3> QED
      BY <3>1, <1>5
  <2> QED
    BY <2>1, <2>2
<1> QED
  BY <1>1, <1>8, <1>9, <1>10, <1>11 DEF HInv

\* A reply keeps the invariant: what a page leaves out lies at its end.
LEMMA SyncHInv == ASSUME HInv, SyncHistory PROVE HInv'
<1>1. PICK page \in Select : \E got \in Fetch(page) :
         /\ got # {}
         /\ shown' = shown \cup {r.entry : r \in got}
         /\ cursor' \in {r.at : r \in got}
         /\ \A r \in got : r.at <= cursor'
  BY DEF SyncHistory
<1>2. PICK got \in Fetch(page) :
         /\ got # {}
         /\ shown' = shown \cup {r.entry : r \in got}
         /\ cursor' \in {r.at : r \in got}
         /\ \A r \in got : r.at <= cursor'
  BY <1>1
<1>3. cuts' = cuts \cup {cursor'} /\ UNCHANGED <<vars, table, now>>
  BY DEF SyncHistory, tableVars
<1>4. IInv'
  BY <1>3, NextIInv DEF HInv
<1>5. page \subseteq Matching /\ got \subseteq page
      /\ \A r \in page, q \in Matching \ page : r.at <= q.at
  BY DEF Select, Fetch
<1>6. PICK last \in got : cursor' = last.at
  BY <1>2
<1>7. last \in table /\ last.at \in 1 .. now /\ now \in Nat /\ cursor \in 0 .. now
  BY <1>5 DEF Matching, HInv, RowsHanded, CursorIsCut
<1>8. RowsHanded' /\ RowsInOrder'
  BY <1>3 DEF HInv, RowsHanded, RowsInOrder, vars
<1>9. CursorIsCut'
  BY <1>3, <1>6, <1>7 DEF HInv, CursorIsCut
<1>10. MissedSharesSecond'
  <2> SUFFICES ASSUME NEW r \in table, Between(r), r.at <= cursor', r.entry \notin shown'
               PROVE  r.at \in cuts'
    BY <1>3 DEF MissedSharesSecond, Between
  <2>1. r.at \in 1 .. now
    BY DEF HInv, RowsHanded
  <2>2. CASE r.at <= cursor
    <3>1. r.entry \notin shown
      BY <1>2
    <3> QED
      BY <2>2, <3>1, <1>3 DEF HInv, MissedSharesSecond
  <2>3. CASE r.at > cursor /\ r.at # cursor'
    <3>1. r.session = BuildSessionId(Reader, Peer)
      BY SessionOfChat DEF HInv, RowsHanded, Between
    <3>2. r \in Matching
      BY <2>3, <3>1 DEF Matching, After
    <3>3. r.at < last.at
      BY <2>1, <2>3, <1>6, <1>7
    <3>4. r \in page
      <4>1. r \notin page => last.at <= r.at
        BY <3>2, <1>5
      <4> QED
        BY <4>1, <3>3, <2>1, <1>7
    <3>5. r \notin got
      BY <1>2
    <3>6. PICK w \in page : \A q \in page : (q.at < w.at => q \in got) /\ (q.at > w.at => q \notin got)
      BY <3>4, <3>5 DEF Fetch
    <3>7. w.at \in 1 .. now
      BY <1>5 DEF Matching, HInv, RowsHanded
    <3>8. ~(last.at > w.at) /\ ~(r.at < w.at)
      BY <3>4, <3>5, <3>6, <1>5
    <3> QED
      BY <3>3, <3>7, <3>8, <2>1, <1>7
  <2> QED
    BY <2>1, <2>2, <2>3, <1>3, <1>6, <1>7
<1> QED
  BY <1>4, <1>8, <1>9, <1>10 DEF HInv

\* Every step of the log, the clock and the client keeps it.
LEMMA NextHInv == HInv /\ [HistoryNext]_historyVars => HInv'
<1> SUFFICES ASSUME HInv, [HistoryNext]_historyVars PROVE HInv'
  OBVIOUS
<1>1. CASE UNCHANGED <<table, now, cursor, shown, cuts, handed>> /\ [Next]_vars
  BY <1>1, NextIInv
     DEF HInv, RowsHanded, CursorIsCut, RowsInOrder, MissedSharesSecond, Between
<1>2. CASE (Collect \/ Drain \/ PopFront \/ BatchReady \/ EnqueueChatLog \/ Stop)
           /\ UNCHANGED <<tableVars, clientVars>>
  <2>1. UNCHANGED <<table, now, cursor, shown, cuts, handed>> /\ [Next]_vars
    BY <1>2 DEF Next, FlushThread, Collect, Drain, PopFront, BatchReady, EnqueueChatLog, Stop,
                tableVars, clientVars
  <2> QED
    BY <2>1, <1>1
<1>3. CASE Tick
  <2>1. now' = now + 1 /\ UNCHANGED <<vars, table, cursor, shown, cuts>> /\ handed' = handed
    BY <1>3 DEF Tick, clientVars, vars
  <2>2. now \in Nat \ {0} /\ cursor \in 0 .. now
    BY DEF HInv, CursorIsCut
  <2>3. IInv'
    BY <2>1, NextIInv DEF HInv
  <2>4. RowsHanded' /\ CursorIsCut'
    BY <2>1, <2>2 DEF HInv, RowsHanded, CursorIsCut
  <2>5. RowsInOrder' /\ MissedSharesSecond'
    BY <2>1 DEF HInv, RowsInOrder, MissedSharesSecond, Between
  <2> QED
    BY <2>3, <2>4, <2>5 DEF HInv
<1>4. CASE UNCHANGED historyVars
  BY <1>1, <1>4 DEF historyVars, tableVars, clientVars, vars
<1> QED
  BY <1>2, <1>3, <1>4, InsertHInv, SyncHInv DEF HistoryNext, LogThread

\* Every reachable state of the log and its reader satisfies it.
LEMMA HistoryInvariance == HistorySpec => []HInv
<1>1. HistoryInit => HInv
  BY InitIInv
     DEF HistoryInit, HInv, RowsHanded, CursorIsCut, RowsInOrder, MissedSharesSecond
<1> QED
  BY <1>1, NextHInv, PTL DEF HistorySpec

\* The times in the table follow the order in which enqueueChatLog accepted the
\* messages, for any messages and whichever INSERTs fail.
THEOREM RowsAlwaysInOrder == HistorySpec => []RowsInOrder
<1>1. HInv => RowsInOrder
  BY DEF HInv
<1> QED
  BY <1>1, HistoryInvariance, PTL

\* A client that pages by timestamp misses only rows of a second at which a page
\* ended, for any page length and wherever long rows cut a page short.
THEOREM MissedAlwaysSharesSecond == HistorySpec => []MissedSharesSecond
<1>1. HInv => MissedSharesSecond
  BY DEF HInv
<1> QED
  BY <1>1, HistoryInvariance, PTL

\* What the table and the client hold, beyond that: rows of accepted messages,
\* one to a message, and rows of the chat that fit the buffer.
ReadOK ==
    /\ table \subseteq [entry : Nat, session : Seq(Account), at : Nat]
    /\ \A r, s \in table : r.entry = s.entry => r = s
    /\ accepted <= MaxEntries /\ now <= MaxTime
    /\ cuts \subseteq 1 .. cursor
    /\ \A e \in shown : \E r \in table :
          r.entry = e /\ Between(r) /\ r.at <= cursor /\ ~Chats[e].wide

\* An accepted entry is a message, and its session is of accounts.
LEMMA SessionTyped ==
    ASSUME NEW e \in 1 .. MaxEntries
    PROVE  /\ Chats[e].sender \in Account /\ Chats[e].target \in Nat
           /\ BuildSessionId(Chats[e].sender, Chats[e].target) \in Seq(Account)
<1>1. Chats[e] \in [sender : Account, target : Nat, wide : BOOLEAN]
  BY HistoryAssumption
<1>2. Chats[e].sender \in Account /\ Chats[e].target \in Nat
  BY <1>1
<1>3. ASSUME NEW a \in Account, NEW b \in Nat PROVE BuildSessionId(a, b) \in Seq(Account)
  <2>1. CASE b = 0
    BY <2>1 DEF BuildSessionId
  <2>2. CASE b # 0
    <3>1. a # 0 /\ b \in Account
      BY <2>2 DEF Account
    <3>2. <<a, b>> \in Seq(Account) /\ <<b, a>> \in Seq(Account)
      BY <3>1
    <3> QED
      BY <2>2, <3>1, <3>2 DEF BuildSessionId
  <2> QED
    BY <2>1, <2>2
<1> QED
  BY <1>2, <1>3

\* Only the messages between the two have the session that a request asks for.
LEMMA ChatOfSession ==
    ASSUME NEW a \in Account, NEW b \in Nat, BuildSessionId(a, b) = BuildSessionId(Reader, Peer)
    PROVE  {a, b} = {Reader, Peer}
<1>1. Reader \in Nat \ {0} /\ Peer \in Nat \ {0} /\ a \in Nat \ {0}
  BY HistoryAssumption DEF Account
<1>2. BuildSessionId(Reader, Peer) =
        IF Reader > Peer THEN <<Peer, Reader>> ELSE <<Reader, Peer>>
  BY <1>1 DEF BuildSessionId
<1>3. b # 0
  BY <1>1, <1>2 DEF BuildSessionId
<1>4. BuildSessionId(a, b) = IF a > b THEN <<b, a>> ELSE <<a, b>>
  BY <1>1, <1>3 DEF BuildSessionId
<1>5. (a = Reader /\ b = Peer) \/ (a = Peer /\ b = Reader)
  BY <1>1, <1>2, <1>4
<1> QED
  BY <1>5

\* An INSERT keeps it: its entries come after those of the table.
LEMMA InsertReadOK == ASSUME HInv, ReadOK, InsertBatch PROVE ReadOK'
<1>1. /\ table' \in {table, table \cup {Row(batch[i]) : i \in DOMAIN batch}}
      /\ UNCHANGED <<now, cursor, shown, cuts, accepted>>
  BY DEF InsertBatch, FlushChatLogsBatch, clientVars
<1>2. /\ handed \in Seq(Nat) /\ batch \in Seq(Nat) /\ accepted \in Nat
      /\ Len(handed) \in Nat /\ Len(batch) \in Nat /\ DOMAIN batch = 1 .. Len(batch)
      /\ now \in Nat
  BY DEF HInv, IInv, TypeOK, CursorIsCut
<1>3. ASSUME NEW i \in DOMAIN batch
      PROVE  /\ batch[i] = Len(handed) + i /\ batch[i] \in 1 .. MaxEntries
             /\ Row(batch[i]) \in [entry : Nat, session : Seq(Account), at : Nat]
             /\ Row(batch[i]).entry = batch[i]
  <2>1. batch[i] = Len(handed) + i /\ batch[i] <= accepted
    BY <1>2, BatchFollows DEF HInv
  <2>2. batch[i] \in 1 .. MaxEntries
    BY <1>2, <2>1, ChatLogAssumption DEF ReadOK
  <2>3. BuildSessionId(Chats[batch[i]].sender, Chats[batch[i]].target) \in Seq(Account)
    BY <2>2, SessionTyped
  <2>4. batch[i] \in Nat /\ now \in Nat
    BY <1>2, <2>2
  <2>5. Row(batch[i]) \in [entry : Nat, session : Seq(Account), at : Nat]
    BY <2>3, <2>4 DEF Row
  <2>6. Row(batch[i]).entry = batch[i]
    BY DEF Row
  <2> QED
    BY <2>1, <2>2, <2>5, <2>6
<1>4. table' \subseteq [entry : Nat, session : Seq(Account), at : Nat]
  BY <1>1, <1>3 DEF ReadOK
<1>5. ASSUME NEW r \in table', NEW s \in table', r.entry = s.entry PROVE r = s
  <2>1. \A q \in table : q.entry <= Len(handed) /\ q.entry \in Nat
    BY <1>2 DEF HInv, RowsHanded
  <2>2. \A q \in table' : q \in table \/ \E i \in DOMAIN batch : q = Row(batch[i])
    BY <1>1
  <2>3. \A i \in DOMAIN batch : Row(batch[i]).entry > Len(handed)
    BY <1>2, <1>3
  <2>4. CASE r \in table /\ s \in table
    BY <1>5, <2>4 DEF ReadOK
  <2>5. CASE r \notin table /\ s \notin table
    <3>1. PICK i \in DOMAIN batch : r = Row(batch[i])
      BY <2>2, <2>5
    <3>2. PICK j \in DOMAIN batch : s = Row(batch[j])
      BY <2>2, <2>5
    <3>3. batch[i] = batch[j]
      BY <1>3, <1>5, <3>1, <3>2
    <3> QED
      BY <3>1, <3>2, <3>3
  <2>6. r \in table <=> s \in table
    BY <1>2, <1>5, <2>1, <2>2, <2>3
  <2> QED
    BY <2>4, <2>5, <2>6
<1>6. \A e \in shown' : \E r \in table' :
        r.entry = e /\ Between(r) /\ r.at <= cursor' /\ ~Chats[e].wide
  BY <1>1 DEF ReadOK
<1> QED
  BY <1>1, <1>4, <1>5, <1>6 DEF ReadOK, Between

\* A reply keeps it: its rows are of the chat, fit the buffer, and are later
\* than what the client has.
LEMMA SyncReadOK == ASSUME HInv, ReadOK, SyncHistory PROVE ReadOK'
<1>1. PICK page \in Select : \E got \in Fetch(page) :
         /\ got # {}
         /\ shown' = shown \cup {r.entry : r \in got}
         /\ cursor' \in {r.at : r \in got}
         /\ \A r \in got : r.at <= cursor'
  BY DEF SyncHistory
<1>2. PICK got \in Fetch(page) :
         /\ got # {}
         /\ shown' = shown \cup {r.entry : r \in got}
         /\ cursor' \in {r.at : r \in got}
         /\ \A r \in got : r.at <= cursor'
  BY <1>1
<1>3. cuts' = cuts \cup {cursor'} /\ UNCHANGED <<table, now, accepted>>
  BY DEF SyncHistory, tableVars, vars
<1>4. \A r \in got : /\ r \in table /\ ~Chats[r.entry].wide /\ r.at > cursor
                     /\ r.session = BuildSessionId(Reader, Peer)
  BY DEF Select, Fetch, Matching, After
<1>5. PICK last \in got : cursor' = last.at
  BY <1>2
<1>6. cursor \in Nat /\ now \in Nat /\ cursor' \in Nat /\ cursor' > cursor
  BY <1>4, <1>5 DEF HInv, CursorIsCut, RowsHanded
<1>7. ASSUME NEW r \in got PROVE Between(r)
  <2>1. /\ r.entry \in 1 .. Len(handed)
        /\ BuildSessionId(Chats[r.entry].sender, Chats[r.entry].target) =
           BuildSessionId(Reader, Peer)
    BY <1>4 DEF HInv, RowsHanded
  <2>2. Len(handed) \in Nat /\ Len(batch) \in Nat /\ accepted \in Nat
    BY DEF HInv, IInv, TypeOK
  <2>3. Len(handed) + Len(batch) <= accepted
    BY BatchFollows DEF HInv
  <2>4. r.entry \in 1 .. MaxEntries
    BY <2>1, <2>2, <2>3, ChatLogAssumption DEF ReadOK
  <2>5. Chats[r.entry].sender \in Account /\ Chats[r.entry].target \in Nat
    BY <2>4, SessionTyped
  <2> QED
    BY <2>1, <2>5, ChatOfSession DEF Between
<1>8. ASSUME NEW e \in shown'
      PROVE  \E r \in table : r.entry = e /\ Between(r) /\ r.at <= cursor' /\ ~Chats[e].wide
  <2>1. CASE e \in shown
    <3>1. PICK r \in table : r.entry = e /\ Between(r) /\ r.at <= cursor /\ ~Chats[e].wide
      BY <2>1 DEF ReadOK
    <3>2. r.at <= cursor'
      BY <1>6, <3>1 DEF ReadOK
    <3> QED
      BY <3>1, <3>2
  <2>2. CASE e \notin shown
    <3>1. PICK r \in got : r.entry = e
      BY <1>2, <2>2
    <3> QED
      BY <1>2, <1>4, <1>7, <3>1
  <2> QED
    BY <2>1, <2>2
<1>9. cuts' \subseteq 1 .. cursor'
  BY <1>3, <1>6 DEF ReadOK
<1> QED
  BY <1>3, <1>8, <1>9 DEF ReadOK, Between

\* Every step keeps it.
LEMMA NextReadOK == HInv /\ ReadOK /\ [HistoryNext]_historyVars => ReadOK'
<1> SUFFICES ASSUME HInv, ReadOK, [HistoryNext]_historyVars PROVE ReadOK'
  OBVIOUS
<1>1. ASSUME UNCHANGED <<table, cursor, shown, cuts>>, accepted' <= MaxEntries, now' <= MaxTime
      PROVE  ReadOK'
  BY <1>1 DEF ReadOK, Between
<1>2. CASE (Collect \/ Drain \/ PopFront \/ BatchReady \/ EnqueueChatLog \/ Stop)
           /\ UNCHANGED <<tableVars, clientVars>>
  <2>1. accepted' <= MaxEntries
    <3>1. CASE EnqueueChatLog
      BY <3>1, ChatLogAssumption DEF EnqueueChatLog, HInv, IInv, TypeOK
    <3> QED
      BY <1>2, <3>1 DEF ReadOK, Collect, Drain, PopFront, BatchReady, Stop
  <2> QED
    BY <1>1, <1>2, <2>1 DEF ReadOK, tableVars, clientVars
<1>3. CASE Tick
  <2>1. now' <= MaxTime /\ UNCHANGED <<accepted, table, cursor, shown, cuts>>
    BY <1>3, HistoryAssumption DEF Tick, clientVars, vars, HInv, CursorIsCut
  <2> QED
    BY <1>1, <2>1 DEF ReadOK
<1>4. CASE UNCHANGED historyVars
  BY <1>1, <1>4 DEF historyVars, tableVars, clientVars, vars, ReadOK
<1> QED
  BY <1>2, <1>3, <1>4, InsertReadOK, SyncReadOK DEF HistoryNext, LogThread

\* The table has one row at most for a message, and the client is sent only rows
\* of its own chat, none of them later than its cursor or too long for the
\* buffer, for any messages, page length and failures of the INSERT.
THEOREM HistoryTypeCorrect == HistorySpec => []HistoryTypeOK
<1>1. HistoryInit => ReadOK
  BY ChatLogAssumption, HistoryAssumption DEF HistoryInit, Init, ReadOK
<1>2. HInv /\ ReadOK => HistoryTypeOK
  <2> SUFFICES ASSUME HInv, ReadOK PROVE HistoryTypeOK
    OBVIOUS
  <2>1. handed \in Seq(Nat) /\ DOMAIN handed = 1 .. Len(handed)
    BY DEF HInv, IInv, TypeOK
  <2>2. \A i \in 1 .. Len(handed) : handed[i] = i
    BY BatchFollows DEF HInv
  <2>3. \A e \in 1 .. Len(handed) : e \in {handed[i] : i \in DOMAIN handed}
    BY <2>1, <2>2
  <2>4. ASSUME NEW r \in table
        PROVE  r \in [entry : {handed[i] : i \in DOMAIN handed}, session : Seq(Account),
                      at : 1 .. now]
    <3>1. r.entry \in {handed[i] : i \in DOMAIN handed} /\ r.at \in 1 .. now
      BY <2>3 DEF HInv, RowsHanded
    <3>2. r \in [entry : Nat, session : Seq(Account), at : Nat]
      BY DEF ReadOK
    <3> QED
      BY <3>1, <3>2
  <2>5. now \in 1 .. MaxTime /\ cursor \in 0 .. now
    BY HistoryAssumption DEF HInv, CursorIsCut, ReadOK
  <2> QED
    BY <2>4, <2>5 DEF HistoryTypeOK, ReadOK
<1> QED
  BY <1>1, <1>2, NextReadOK, HistoryInvariance, PTL DEF HistorySpec

-----------------------------------------------------------------------------
(* The ids.                                                                *)

\* Every variable of the generator keeps its type.
THEOREM IdTypeCorrect == IdSpec => []IdTypeOK
<1>1. IdInit => IdTypeOK
  BY IdGeneratorAssumption DEF IdInit, IdTypeOK
<1>2. IdTypeOK /\ [IdNext]_idVars => IdTypeOK'
  <2> SUFFICES ASSUME IdTypeOK, [IdNext]_idVars PROVE IdTypeOK'
    OBVIOUS
  <2> USE IdGeneratorAssumption DEF IdTypeOK
  <2>1. ASSUME NEW ts \in Nat, NEW seq \in 0 .. SequenceSpan - 1
        PROVE MakeId(ts, seq) \in Nat
    BY DEF MakeId
  <2>2. ASSUME NEW clock \in Clock, NextId(clock) PROVE IdTypeOK'
    <3>1. Timestamp(clock) \in Nat
      BY DEF Timestamp
    <3>2. Following(sequence) \in 0 .. SequenceSpan - 1
      BY DEF Following
    <3> QED
      BY SMTT(30), <2>1, <2>2, <3>1, <3>2 DEF NextId, Return
  <2>3. ASSUME NEW clock \in Clock, WaitNextMs(clock) PROVE IdTypeOK'
    BY <2>1, <2>3 DEF WaitNextMs, Return
  <2>4. CASE UNCHANGED idVars
    BY <2>4 DEF idVars
  <2> QED
    BY <2>2, <2>3, <2>4 DEF IdNext
<1> QED
  BY <1>1, <1>2, PTL DEF IdSpec

\* An id of a later millisecond after the epoch is larger, whatever the
\* sequence numbers: the low fields never carry into the timestamp.
LEMMA LaterIdIsLarger ==
    ASSUME NEW t1 \in Nat, NEW t2 \in Nat, t1 < t2, Epoch < t2,
           NEW s1 \in 0 .. SequenceSpan - 1, NEW s2 \in 0 .. SequenceSpan - 1
    PROVE  MakeId(t1, s1) < MakeId(t2, s2)
<1> USE IdGeneratorAssumption
<1> DEFINE d1 == IF t1 > Epoch THEN t1 - Epoch ELSE 0
           d2 == IF t2 > Epoch THEN t2 - Epoch ELSE 0
           h1 == d1 * WorkerSpan + WorkerId
           h2 == d2 * WorkerSpan + WorkerId
<1>1. d1 \in Nat /\ d2 \in Nat /\ d1 + 1 <= d2
  OBVIOUS
<1>2. ASSUME NEW a \in Nat, NEW b \in Nat, NEW c \in Nat \ {0}, a + 1 <= b
      PROVE a * c + c <= b * c
  <2> DEFINE k == b - a - 1
  <2>1. k \in Nat /\ b = a + 1 + k
    BY <1>2
  <2> HIDE DEF k
  <2>2. b * c = a * c + c + k * c
    BY <2>1
  <2>3. k * c \in Nat /\ a * c \in Nat
    BY <2>1
  <2> QED
    BY <2>2, <2>3
<1>3. d1 * WorkerSpan + WorkerSpan <= d2 * WorkerSpan
  <2> HIDE DEF d1, d2
  <2> QED BY <1>1, <1>2
<1>4. h1 \in Nat /\ h2 \in Nat /\ h1 + 1 <= h2
  <2>1. d1 * WorkerSpan \in Nat /\ d2 * WorkerSpan \in Nat
    <3> HIDE DEF d1, d2
    <3> QED BY <1>1
  <2> HIDE DEF d1, d2
  <2> QED BY <2>1, <1>3
<1>5. h1 * SequenceSpan + SequenceSpan <= h2 * SequenceSpan
  <2> HIDE DEF h1, h2
  <2> QED BY <1>4, <1>2
<1>6. h1 * SequenceSpan \in Nat /\ h2 * SequenceSpan \in Nat
  <2> HIDE DEF h1, h2
  <2> QED BY <1>4
<1>7. MakeId(t1, s1) = h1 * SequenceSpan + s1 /\ MakeId(t2, s2) = h2 * SequenceSpan + s2
  BY DEF MakeId
<1> QED
  <2> HIDE DEF h1, h2
  <2> QED BY <1>5, <1>6, <1>7

\* The last id returned is at most the one made from the last timestamp and
\* the sequence number used with it, the largest there is during a wait.
LastIdBounded ==
    lastId <= MakeId(lastTs, IF phase = "waiting" THEN SequenceSpan - 1 ELSE sequence)

\* What one step does, given the bound: keep it, and return a larger id if the
\* timestamp is past the epoch.
LEMMA StepIncreases ==
    ASSUME IdTypeOK, IdTypeOK', LastIdBounded, [IdNext]_idVars
    PROVE  /\ LastIdBounded'
           /\ idVars' # idVars => (lastTs' > Epoch /\ phase' = "idle" => lastId' > lastId)
<1> USE IdGeneratorAssumption
<1>1. ASSUME NEW ts \in Nat, NEW seq \in 0 .. SequenceSpan - 1
      PROVE MakeId(ts, seq) \in Nat
  BY DEF MakeId
<1>2. ASSUME NEW clock \in Clock, NextId(clock)
      PROVE LastIdBounded' /\ (lastTs' > Epoch /\ phase' = "idle" => lastId' > lastId)
  <2> DEFINE ts == Timestamp(clock)
  <2>1. phase = "idle" /\ ts \in Nat /\ ts >= lastTs
    BY <1>2 DEF NextId, Timestamp, IdTypeOK
  <2>2. CASE ts = lastTs /\ Following(sequence) = 0
    <3>1. phase' = "waiting" /\ lastTs' = lastTs /\ lastId' = lastId
      BY <1>2, <2>2 DEF NextId
    <3>2. sequence = SequenceSpan - 1
      BY <2>2 DEF Following, IdTypeOK
    <3> QED
      BY <2>1, <3>1, <3>2 DEF LastIdBounded, MakeId
  <2>3. CASE ts = lastTs /\ Following(sequence) # 0
    <3>1. Following(sequence) = sequence + 1
      BY <2>3 DEF Following, IdTypeOK
    <3>2. phase' = "idle" /\ lastTs' = lastTs /\ sequence' = sequence + 1
          /\ lastId' = MakeId(lastTs, sequence + 1)
      BY <1>2, <2>1, <2>3, <3>1 DEF NextId, Return
    <3>3. MakeId(lastTs, sequence + 1) = MakeId(lastTs, sequence) + 1
      <4>1. ASSUME NEW x \in Int PROVE x + (sequence + 1) = (x + sequence) + 1
        BY DEF IdTypeOK
      <4>2. (((IF lastTs > Epoch THEN lastTs - Epoch ELSE 0) * WorkerSpan + WorkerId)
               * SequenceSpan) \in Int
        BY DEF IdTypeOK
      <4> QED BY <4>1, <4>2 DEF MakeId
    <3>4. MakeId(lastTs, sequence) \in Nat
      BY <1>1 DEF IdTypeOK
    <3>5. lastId' > lastId
      BY <2>1, <3>2, <3>3, <3>4 DEF LastIdBounded, IdTypeOK
    <3>6. lastId' <= MakeId(lastTs', sequence')
      BY <3>2, <3>3, <3>4
    <3> QED
      BY <3>2, <3>5, <3>6 DEF LastIdBounded, MakeId
  <2>4. CASE ts # lastTs
    <3>1. phase' = "idle" /\ lastTs' = ts /\ sequence' = 0 /\ lastId' = MakeId(ts, 0)
      BY <1>2, <2>1, <2>4 DEF NextId, Return
    <3>2. MakeId(ts, 0) \in Nat /\ MakeId(lastTs, sequence) \in Nat
      BY <1>1, <2>1 DEF IdTypeOK
    <3>3. lastId' <= MakeId(lastTs', sequence')
      BY <3>1, <3>2
    <3>4. ts > Epoch => MakeId(lastTs, sequence) < MakeId(ts, 0)
      BY <2>1, <2>4, LaterIdIsLarger DEF IdTypeOK
    <3>5. lastTs' > Epoch => lastId' > lastId
      BY <2>1, <3>1, <3>2, <3>4 DEF LastIdBounded, IdTypeOK
    <3> QED
      BY <3>1, <3>3, <3>5 DEF LastIdBounded, MakeId
  <2> QED
    BY <2>2, <2>3, <2>4
<1>3. ASSUME NEW clock \in Clock, WaitNextMs(clock)
      PROVE LastIdBounded' /\ (lastTs' > Epoch /\ phase' = "idle" => lastId' > lastId)
  <2>1. phase = "waiting" /\ phase' = "idle" /\ lastTs' = clock /\ sequence' = sequence
        /\ lastId' = MakeId(clock, sequence) /\ lastTs < clock /\ clock \in Nat
    BY <1>3 DEF WaitNextMs, Return
  <2>2. MakeId(clock, sequence) \in Nat /\ MakeId(lastTs, SequenceSpan - 1) \in Nat
    BY <1>1, <2>1 DEF IdTypeOK
  <2>3. clock > Epoch => MakeId(lastTs, SequenceSpan - 1) < MakeId(clock, sequence)
    BY <2>1, LaterIdIsLarger DEF IdTypeOK
  <2>4. lastTs' > Epoch => lastId' > lastId
    BY <2>1, <2>2, <2>3 DEF LastIdBounded, IdTypeOK
  <2>5. lastId' <= MakeId(lastTs', sequence')
    BY <2>1, <2>2
  <2> QED
    BY <2>1, <2>4, <2>5 DEF LastIdBounded, MakeId
<1>4. CASE UNCHANGED idVars
  BY <1>4 DEF idVars, LastIdBounded, MakeId
<1> QED
  BY <1>2, <1>3, <1>4 DEF IdNext

\* From the epoch on the generator returns strictly increasing ids, for every
\* clock, worker number and field width.
THEOREM IdsAlwaysIncrease == IdSpec => IdsIncrease
<1>1. IdInit => LastIdBounded
  BY IdGeneratorAssumption DEF IdInit, LastIdBounded, MakeId
<1>2. IdTypeOK /\ IdTypeOK' /\ LastIdBounded /\ [IdNext]_idVars => LastIdBounded'
  BY StepIncreases
<1>3. IdTypeOK /\ IdTypeOK' /\ LastIdBounded /\ [IdNext]_idVars
      => [lastTs' > Epoch /\ phase' = "idle" => lastId' > lastId]_idVars
  BY StepIncreases
<1> QED
  BY <1>1, <1>2, <1>3, IdTypeCorrect, PTL DEF IdSpec, IdsIncrease
=============================================================================
