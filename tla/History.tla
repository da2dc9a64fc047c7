------------------------------ MODULE History ------------------------------
(***************************************************************************)
(* The log of chat messages as the table all_messages_log, and a client    *)
(* that reads the messages of one user with one peer from it, page by      *)
(* page: processPacket for a history request, a SELECT of the rows of the  *)
(* session that were created after the last timestamp the client has.      *)
(*                                                                         *)
(* MySQL sets created_at when a row is inserted, and one INSERT gives its  *)
(* rows the same time.  An account is a number that orders it among the    *)
(* others, 0 the empty name; the digest of a session is the pair it is     *)
(* made from.  A row is the number of its entry, its session and its time. *)
(***************************************************************************)
EXTENDS ChatLog, FiniteSets

CONSTANTS
    Chats,         \* the messages, in the order in which they are accepted: sender,
                   \* target, and whether the content is longer than c_buf
    Reader, Peer,  \* the user who asks, and about whom
    MaxRows,       \* kHistoryMaxRows
    MaxTime        \* bound: values of the clock of MySQL

Account == Nat \ {0}

ASSUME HistoryAssumption ==
    /\ Chats \in [1..MaxEntries -> [sender : Account, target : Nat, wide : BOOLEAN]]
    /\ Reader \in Account /\ Peer \in Account
    /\ MaxRows \in Nat \ {0} /\ MaxTime \in Nat \ {0}

VARIABLES
    table,   \* the rows of all_messages_log
    now,     \* the clock of MySQL
    cursor,  \* the client: the last timestamp it has, 0 before the first
    shown,   \* the client: the entries it was sent
    cuts     \* history: the timestamps at which a page ended

tableVars == <<table, now>>
clientVars == <<cursor, shown, cuts>>
historyVars == <<vars, tableVars, clientVars>>

\* Mutation: the two names are not put in order.
SessionAsGiven(sender, target) ==
    IF sender = 0 \/ target = 0 THEN <<>> ELSE <<sender, target>>

BuildSessionId(sender, target) ==
    IF sender = 0 \/ target = 0 THEN <<>>
    ELSE IF sender > target THEN <<target, sender>> ELSE <<sender, target>>

Row(e) == [entry |-> e, session |-> BuildSessionId(Chats[e].sender, Chats[e].target),
           at |-> now]

\* flushChatLogsBatch: the rows are inserted together, or the statement fails.
InsertBatch ==
    /\ FlushChatLogsBatch
    /\ table' \in {table, table \cup {Row(batch[i]) : i \in DOMAIN batch}}
    /\ UNCHANGED <<now, clientVars>>

Tick ==
    /\ now < MaxTime
    /\ now' = now + 1
    /\ UNCHANGED <<vars, table, clientVars>>

-----------------------------------------------------------------------------
(* A history request.                                                      *)

\* Mutation: the rows of the client's last second are selected again.
AfterOrAt(row, time) == row.at >= time

After(row, time) == row.at > time

Matching ==
    {row \in table : row.session = BuildSessionId(Reader, Peer) /\ After(row, cursor)}

\* What ORDER BY created_at LIMIT may give: of the rows of one time, any.
Select ==
    {page \in SUBSET Matching :
        /\ Cardinality(page) <= MaxRows
        /\ page # Matching => Cardinality(page) = MaxRows
        /\ \A r \in page, s \in Matching \ page : r.at <= s.at}

\* Mutation: the loop does not look at what mysql_stmt_fetch returns.
FetchAll(page) == {page}

\* The loop over mysql_stmt_fetch, which ends at the first row whose content
\* does not fit c_buf: the fetch reports a truncation.
Fetch(page) ==
    {got \in SUBSET {r \in page : ~Chats[r.entry].wide} :
        \/ got = page
        \/ \E w \in page :
              /\ Chats[w.entry].wide
              /\ \A r \in page : (r.at < w.at => r \in got) /\ (r.at > w.at => r \notin got)}

\* The reply reaches the client, which goes on from its last row.  No reply, or
\* the empty one when the queue of the database tasks is full, leaves it where
\* it was.
SyncHistory ==
    /\ \E page \in Select : \E got \in Fetch(page) :
          /\ got # {}
          /\ shown' = shown \cup {r.entry : r \in got}
          /\ cursor' \in {r.at : r \in got}
          /\ \A r \in got : r.at <= cursor'
    /\ cuts' = cuts \cup {cursor'}
    /\ UNCHANGED <<vars, tableVars>>

-----------------------------------------------------------------------------
HistoryInit ==
    /\ Init
    /\ table = {} /\ now = 1
    /\ cursor = 0 /\ shown = {} /\ cuts = {}

\* The flush thread, whose last step on a batch is the INSERT.
LogThread ==
    \/ InsertBatch
    \/ (Collect \/ Drain \/ PopFront \/ BatchReady) /\ UNCHANGED <<tableVars, clientVars>>

HistoryNext ==
    \/ LogThread
    \/ (EnqueueChatLog \/ Stop) /\ UNCHANGED <<tableVars, clientVars>>
    \/ Tick \/ SyncHistory

HistorySpec == HistoryInit /\ [][HistoryNext]_historyVars

\* The flush thread is scheduled, and the client asks again and again.
HistoryFair ==
    /\ HistorySpec
    /\ WF_historyVars(LogThread)
    /\ WF_historyVars(SyncHistory)

-----------------------------------------------------------------------------
(* Properties.                                                             *)

\* A row of the chat between the two, whoever sent it.
Between(row) == {Chats[row.entry].sender, Chats[row.entry].target} = {Reader, Peer}

\* The table holds entries handed to flushChatLogsBatch, each once, and the
\* client has rows of the table that are of its chat, up to its cursor and
\* nothing too long.
HistoryTypeOK ==
    /\ table \subseteq [entry : {handed[i] : i \in DOMAIN handed}, session : Seq(Account),
                        at : 1..now]
    /\ \A r, s \in table : r.entry = s.entry => r = s
    /\ now \in 1..MaxTime /\ cursor \in 0..now /\ cuts \subseteq 1..cursor
    /\ \A e \in shown : \E r \in table :
          r.entry = e /\ Between(r) /\ r.at <= cursor /\ ~Chats[e].wide

\* The times of the rows are in the order in which enqueueChatLog accepted the
\* entries: two queues, batches and failing statements do not change it.
RowsInOrder == \A r, s \in table : r.entry < s.entry => r.at <= s.at

\* Paging by timestamp skips a row of the chat only if the row has the very time
\* at which some page ended: a tie cut by the LIMIT or by a long row, or a row
\* inserted later in the same second.
MissedSharesSecond ==
    \A r \in table :
        Between(r) /\ r.at <= cursor /\ r.entry \notin shown => r.at \in cuts

\* A client that keeps asking gets every row of the chat, unless it has the time
\* at which a page ended or a row too long for the buffer stands in its way.
HistoryIsRead ==
    <>[](\A r \in table : Between(r) =>
            \/ r.entry \in shown \/ r.at \in cuts
            \/ \E w \in table : Between(w) /\ Chats[w.entry].wide /\ w.at <= r.at /\ w.at > cursor)
=============================================================================
