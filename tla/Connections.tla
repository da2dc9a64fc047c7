---------------------------- MODULE Connections ----------------------------
(***************************************************************************)
(* The life of connections: handleAccept, the map from descriptors to      *)
(* contexts (m_clientShards), the map from users to contexts               *)
(* (m_onlineUserShards), the events a SubReactor handles for a context it  *)
(* has looked up, and handleDisconnect, which takes a descriptor number    *)
(* and runs without a lock between its steps.  The kernel gives the number *)
(* of a closed descriptor to the next connection it accepts.               *)
(***************************************************************************)
EXTENDS Naturals

CONSTANTS
    Conns,      \* connections, each with the context made for it
    Fds,        \* descriptor numbers
    Users,      \* account names
    Reactors,   \* SubReactor threads
    Workers,    \* threads that run tasks holding a context
    EventSets,  \* the sets of events epoll_wait reports for a descriptor
    None

ASSUME ConnectionsAssumption ==
    /\ Fds \subseteq Nat
    /\ EventSets \subseteq SUBSET {"IN", "OUT", "HUP"}
    /\ None \notin Conns \cup Users \cup Fds \cup Reactors

VARIABLES
    owner,      \* kernel: the connection a descriptor denotes
    watched,    \* kernel: connections added to the epoll set of their reactor
    fdOf,       \* ctx->fd
    home,       \* the reactor chosen by handleAccept
    clients,    \* m_clientShards
    online,     \* m_onlineUserShards, holding weak pointers
    account,    \* ctx->accountID
    accepting,  \* the connection handleAccept has not mapped yet
    th,         \* per thread: control state, context held, events left, context found
    session,    \* history: the connection each user was last bound to, and all the
                \* connections the user was ever bound to
    strays,     \* history: a "write" or a "close" for one connection reached another
    strain      \* history: whether a backlog was above its limit ("overflow") and
                \* whether events came together ("several")

mapVars == <<clients, online, account, session>>
kernelVars == <<owner, watched>>
histVars == <<strays, strain>>
vars == <<mapVars, kernelVars, histVars, fdOf, home, accepting, th>>

Threads == Reactors \cup Workers
Idle == [pc |-> "idle", c |-> None, todo |-> {}, found |-> None]

-----------------------------------------------------------------------------
(* handleAccept.                                                           *)

\* accept4 returns the lowest free descriptor number.
Accept(c, r) ==
    /\ accepting = None /\ fdOf[c] = None
    /\ \E fd \in Fds :
          /\ owner[fd] = None
          /\ \A f \in Fds : owner[f] = None => fd <= f
          /\ owner' = [owner EXCEPT ![fd] = c]
          /\ fdOf' = [fdOf EXCEPT ![c] = fd]
    /\ home' = [home EXCEPT ![c] = r]
    /\ accepting' = c
    /\ UNCHANGED <<mapVars, watched, histVars, th>>

\* addClientCtx, then SubReactor::addFd.
Register ==
    /\ accepting # None
    /\ clients' = [clients EXCEPT ![fdOf[accepting]] = accepting]
    /\ watched' = watched \cup {accepting}
    /\ accepting' = None
    /\ UNCHANGED <<online, account, session, owner, histVars, fdOf, home, th>>

-----------------------------------------------------------------------------
(* SubReactor::run: one descriptor's events, on the context looked up.     *)

Event(r, c, ev) ==
    /\ th[r] = Idle
    /\ c \in watched /\ home[c] = r /\ owner[fdOf[c]] = c
    /\ clients[fdOf[c]] # None
    /\ th' = [th EXCEPT ![r] = [pc |-> "events", c |-> clients[fdOf[c]],
                                todo |-> ev, found |-> None]]
    /\ strain' = IF \E e \in ev : ev = {e} THEN strain ELSE strain \cup {"several"}
    /\ UNCHANGED <<mapVars, kernelVars, strays, fdOf, home, accepting>>

\* Mutation: an event that led to a disconnect is looked at again.
HandledAgain(r, e, next) == [th[r] EXCEPT !.pc = next]

Handled(r, e, next) == [th[r] EXCEPT !.pc = next, !.todo = @ \ {e}]

\* handleRead: goes on to the next event, or disconnects at end of file, on an
\* error (a closed descriptor is one) or on a packet with a bad length.
Read(r) ==
    /\ th[r].pc = "events" /\ "IN" \in th[r].todo
    /\ \E next \in {"events", "disconnect"} :
          /\ owner[fdOf[th[r].c]] = None => next = "disconnect"
          /\ th' = [th EXCEPT ![r] = Handled(r, "IN", next)]
    /\ UNCHANGED <<mapVars, kernelVars, histVars, fdOf, home, accepting>>

\* handleWrite: send(ctx->fd) reaches whatever socket has that number.
Write(r) ==
    LET c == th[r].c
        d == owner[fdOf[c]] IN
    /\ th[r].pc = "events" /\ "OUT" \in th[r].todo /\ "IN" \notin th[r].todo
    /\ \/ UNCHANGED strays
       \/ d \notin {c, None} /\ strays' = strays \cup {"write"}
    /\ \E next \in {"events", "disconnect"} :
          /\ d = None => next = "disconnect"
          /\ th' = [th EXCEPT ![r] = Handled(r, "OUT", next)]
    /\ UNCHANGED <<mapVars, kernelVars, strain, fdOf, home, accepting>>

Hangup(r) ==
    /\ th[r].pc = "events" /\ th[r].todo = {"HUP"}
    /\ th' = [th EXCEPT ![r] = Handled(r, "HUP", "disconnect")]
    /\ UNCHANGED <<mapVars, kernelVars, histVars, fdOf, home, accepting>>

EventsDone(r) ==
    /\ th[r].pc = "events" /\ th[r].todo = {}
    /\ th' = [th EXCEPT ![r] = Idle]
    /\ UNCHANGED <<mapVars, kernelVars, histVars, fdOf, home, accepting>>

-----------------------------------------------------------------------------
(* handleDisconnect(ctx->fd), called by a thread that holds a context.     *)

After(t) == IF t \in Reactors THEN [th[t] EXCEPT !.pc = "events", !.found = None]
                              ELSE Idle

\* getClientCtxByFd: the context that has the number now.
Lookup(t) ==
    /\ th[t].pc = "disconnect"
    /\ LET found == clients[fdOf[th[t].c]] IN
          th' = [th EXCEPT ![t] = IF found = None THEN After(t)
                                  ELSE [th[t] EXCEPT !.pc = "offline", !.found = found]]
    /\ UNCHANGED <<mapVars, kernelVars, histVars, fdOf, home, accepting>>

\* What a read of ctx->accountID can give.  The read takes no lock: while a
\* task assigns the string it may also yield one that is no user's.
AccountRead(c) ==
    {account[c]} \cup {None : w \in {v \in Workers : th[v].pc = "bind" /\ th[v].c = c}}

\* removeOnlineUser(ctx->accountID), when the context is bound.
GoOffline(t) ==
    /\ th[t].pc = "offline"
    /\ \E u \in AccountRead(th[t].found) :
          online' = IF u = None THEN online ELSE [online EXCEPT ![u] = None]
    /\ th' = [th EXCEPT ![t].pc = "unmap"]
    /\ UNCHANGED <<clients, account, session, kernelVars, histVars, fdOf, home,
                   accepting>>

\* removeClientCtx(fd).
Unmap(t) ==
    /\ th[t].pc = "unmap"
    /\ clients' = [clients EXCEPT ![fdOf[th[t].c]] = None]
    /\ th' = [th EXCEPT ![t].pc = "close"]
    /\ UNCHANGED <<online, account, session, kernelVars, histVars, fdOf, home,
                   accepting>>

\* Mutation: the close may be repeated.
CloseRepeated(t) ==
    /\ th[t].pc = "close"
    /\ LET fd == fdOf[th[t].c] IN
          /\ owner' = [owner EXCEPT ![fd] = None]
          /\ watched' = watched \ {owner[fd]}
          /\ strays' = IF owner[fd] \in {th[t].c, None} THEN strays
                       ELSE strays \cup {"close"}
    /\ th' \in {th, [th EXCEPT ![t] = After(t)]}
    /\ UNCHANGED <<mapVars, strain, fdOf, home, accepting>>

\* EPOLL_CTL_DEL, shutdown and close of the number.
Close(t) ==
    /\ th[t].pc = "close"
    /\ LET fd == fdOf[th[t].c] IN
          /\ owner' = [owner EXCEPT ![fd] = None]
          /\ watched' = watched \ {owner[fd]}
          /\ strays' = IF owner[fd] \in {th[t].c, None} THEN strays
                       ELSE strays \cup {"close"}
    /\ th' = [th EXCEPT ![t] = After(t)]
    /\ UNCHANGED <<mapVars, strain, fdOf, home, accepting>>

-----------------------------------------------------------------------------
(* Tasks of the thread pools, which hold the context of a request.         *)

TakeTask(w, c) ==
    /\ th[w] = Idle
    /\ fdOf[c] # None /\ clients[fdOf[c]] = c
    /\ th' = [th EXCEPT ![w] = [@ EXCEPT !.pc = "task", !.c = c]]
    /\ UNCHANGED <<mapVars, kernelVars, histVars, fdOf, home, accepting>>

\* Bind and login: setOnlineUser(user, ctx) and then ctx->accountID = user.
\* isCurrentSessionValid compares ctx->fd with itself and stops neither.
SetOnlineUser(w, u) ==
    /\ th[w].pc = "task"
    /\ online' = [online EXCEPT ![u] = th[w].c]
    /\ session' = [session EXCEPT ![u] = [last |-> th[w].c, all |-> @.all \cup {th[w].c}]]
    /\ th' = [th EXCEPT ![w] = [@ EXCEPT !.pc = "bind", !.found = u]]
    /\ UNCHANGED <<clients, account, kernelVars, histVars, fdOf, home, accepting>>

SetAccount(w) ==
    /\ th[w].pc = "bind"
    /\ account' = [account EXCEPT ![th[w].c] = th[w].found]
    /\ th' = [th EXCEPT ![w] = Idle]
    /\ UNCHANGED <<clients, online, session, kernelVars, histVars, fdOf, home,
                   accepting>>

\* sendPacket finds the backlog of the context above its limit.
SendOverflows(w) ==
    /\ th[w].pc = "task"
    /\ th' = [th EXCEPT ![w].pc = "disconnect"]
    /\ strain' = strain \cup {"overflow"}
    /\ UNCHANGED <<mapVars, kernelVars, strays, fdOf, home, accepting>>

TaskEnds(w) ==
    /\ th[w].pc = "task"
    /\ th' = [th EXCEPT ![w] = Idle]
    /\ UNCHANGED <<mapVars, kernelVars, histVars, fdOf, home, accepting>>

-----------------------------------------------------------------------------
Init ==
    /\ owner = [f \in Fds |-> None] /\ watched = {}
    /\ fdOf = [c \in Conns |-> None] /\ home = [c \in Conns |-> None]
    /\ clients = [f \in Fds |-> None]
    /\ online = [u \in Users |-> None] /\ session = [u \in Users |-> [last |-> None, all |-> {}]]
    /\ account = [c \in Conns |-> None]
    /\ accepting = None
    /\ th = [t \in Threads |-> Idle]
    /\ strays = {} /\ strain = {}

\* Mutation: the number is closed before it leaves the map.
CloseBeforeUnmap(t) ==
    \/ Lookup(t) \/ GoOffline(t)
    \/ /\ th[t].pc = "unmap"
       /\ owner' = [owner EXCEPT ![fdOf[th[t].c]] = None]
       /\ th' = [th EXCEPT ![t].pc = "close"]
       /\ UNCHANGED <<mapVars, watched, histVars, fdOf, home, accepting>>
    \/ /\ th[t].pc = "close"
       /\ clients' = [clients EXCEPT ![fdOf[th[t].c]] = None]
       /\ th' = [th EXCEPT ![t] = After(t)]
       /\ UNCHANGED <<online, account, session, kernelVars, histVars, fdOf, home,
                      accepting>>

HandleDisconnect(t) == Lookup(t) \/ GoOffline(t) \/ Unmap(t) \/ Close(t)

Next ==
    \/ Register \/ \E c \in Conns, r \in Reactors : Accept(c, r)
    \/ \E r \in Reactors, c \in Conns, ev \in EventSets : Event(r, c, ev)
    \/ \E r \in Reactors : Read(r) \/ Write(r) \/ Hangup(r) \/ EventsDone(r)
    \/ \E t \in Threads : HandleDisconnect(t)
    \/ \E w \in Workers, c \in Conns : TakeTask(w, c)
    \/ \E w \in Workers, u \in Users : SetOnlineUser(w, u)
    \/ \E w \in Workers : SetAccount(w) \/ SendOverflows(w) \/ TaskEnds(w)

Spec == Init /\ [][Next]_vars

-----------------------------------------------------------------------------
(* Properties.                                                             *)

ThreadState ==
    [pc : {"idle", "events", "task", "bind", "disconnect", "offline", "unmap", "close"},
     c : Conns \cup {None},
     todo : SUBSET {"IN", "OUT", "HUP"},
     found : Conns \cup Users \cup {None}]

\* What is remembered of the connections a user was bound to.
Sessions == [last : Conns \cup {None}, all : SUBSET Conns]

\* Every variable keeps its type, and a thread holds a context exactly while it
\* is at work on one.
TypeOK ==
    /\ owner \in [Fds -> Conns \cup {None}] /\ watched \subseteq Conns
    /\ fdOf \in [Conns -> Fds \cup {None}] /\ home \in [Conns -> Reactors \cup {None}]
    /\ clients \in [Fds -> Conns \cup {None}]
    /\ online \in [Users -> Conns \cup {None}]
    /\ session \in [Users -> Sessions]
    /\ account \in [Conns -> Users \cup {None}]
    /\ accepting \in Conns \cup {None}
    /\ th \in [Threads -> ThreadState]
    /\ \A t \in Threads : th[t].pc = "idle" <=> th[t].c = None
    /\ strays \subseteq {"write", "close"}
    /\ strain \subseteq {"overflow", "several"}

\* handleDisconnect closes the connection it was called for, never another one
\* that was given the same descriptor number, as long as no send backlog was
\* above its limit and events came one at a time.
ClosesItsOwn == strain = {} => "close" \notin strays

\* Likewise handleWrite writes the buffers of a context to the socket of that
\* context: each connection has send buffers of its own.
WritesItsOwn == strain = {} => "write" \notin strays

\* An open socket is in m_clientShards, unless handleAccept is about to put it
\* there or a thread is disconnecting its number: none is forgotten open.
OpenIsMapped ==
    \A fd \in Fds :
        owner[fd] # None =>
            \/ clients[fd] = owner[fd]
            \/ accepting = owner[fd]
            \/ \E t \in Threads : th[t].pc = "close" /\ fdOf[th[t].c] = fd

Quiet == \A t \in Threads : th[t] = Idle

\* Mutation: the user map keeps contexts alive.
HeldByUserMap(c) == TRUE

\* Mutation: the client map has weak pointers, too.
HeldByThreads(c) == \E t \in Threads : c \in {th[t].c, th[t].found}

\* A context lives while the client map or a thread has a shared pointer to it.
Alive(c) == clients[fdOf[c]] = c \/ \E t \in Threads : c \in {th[t].c, th[t].found}

\* getOnlineCtx: the weak pointer yields the context while it lives.
GetOnlineCtx(u) ==
    IF online[u] # None /\ Alive(online[u]) THEN online[u] ELSE None

\* Once no thread is at work, a user found online has an open connection, even
\* when a task bound the user to a context that was already disconnected; again
\* without an overflow or events that come together.
OnlineIsOpen ==
    (Quiet /\ strain = {}) => \A u \in Users : LET c == GetOnlineCtx(u) IN
                c # None => owner[fdOf[c]] = c

\* Once no thread is at work, a user whose last bind or login was on a
\* connection that is still open is found online on it, unless an earlier
\* connection was bound to the same user: handleDisconnect of that one takes the
\* user out of the map whichever connection the map has.
BoundIsReachable ==
    Quiet => \A u \in Users : LET c == session[u].last IN
                (c # None /\ owner[fdOf[c]] = c) =>
                    GetOnlineCtx(u) = c \/ session[u].all # {c}
=============================================================================
