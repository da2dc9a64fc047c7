------------------------- MODULE ConnectionsProofs -------------------------
(* Proofs about Connections, for every number of connections, descriptors,  *)
(* users and threads, every combination of events, with and without send    *)
(* backlogs above the limit.                                                *)
EXTENDS Connections, TLAPS

\* A context that a map, a thread or handleAccept refers to has a descriptor,
\* and the connection a descriptor denotes is one that was given that number.
Numbered ==
    /\ \A t \in Threads : th[t].c # None => fdOf[th[t].c] \in Fds
    /\ \A fd \in Fds : owner[fd] # None => fdOf[owner[fd]] = fd
    /\ \A fd \in Fds : clients[fd] # None => fdOf[clients[fd]] \in Fds
    /\ accepting # None =>
          fdOf[accepting] \in Fds /\ owner[fdOf[accepting]] \in {accepting, None}
    /\ watched \subseteq {c \in Conns : fdOf[c] \in Fds}

\* What the last field of a thread's state holds.
FoundTyped ==
    \A t \in Threads : /\ th[t].pc = "bind" => th[t].found \in Users
                       /\ th[t].pc = "offline" => th[t].found \in Conns

IInv == TypeOK /\ Numbered /\ FoundTyped /\ OpenIsMapped

\* The initial state has no socket open, no context and no thread at work.
LEMMA InitIInv == Init => IInv
  BY ConnectionsAssumption
  DEF Init, IInv, TypeOK, Numbered, FoundTyped, OpenIsMapped, Idle, Threads, ThreadState, Sessions

\* accept4 gives a free number to a connection that has none.
LEMMA AcceptIInv ==
    ASSUME IInv, NEW c \in Conns, NEW r \in Reactors, Accept(c, r)
    PROVE  IInv'
<1> USE ConnectionsAssumption DEF IInv, mapVars, histVars
<1>1. PICK fd \in Fds : /\ owner[fd] = None
                        /\ owner' = [owner EXCEPT ![fd] = c]
                        /\ fdOf' = [fdOf EXCEPT ![c] = fd]
  BY DEF Accept
<1>2. accepting = None /\ fdOf[c] = None /\ accepting' = c
      /\ home' = [home EXCEPT ![c] = r]
      /\ UNCHANGED <<clients, online, account, session, watched, strays, strain, th>>
  BY DEF Accept
<1>3. TypeOK'
  BY <1>1, <1>2 DEF TypeOK
<1>4. Numbered'
  BY <1>1, <1>2 DEF TypeOK, Numbered
<1>5. FoundTyped'
  BY <1>2 DEF FoundTyped
<1>6. OpenIsMapped'
  BY <1>1, <1>2 DEF TypeOK, Numbered, OpenIsMapped
<1> QED
  BY <1>3, <1>4, <1>5, <1>6

\* addClientCtx maps the connection accept4 returned, if it is still open.
LEMMA RegisterIInv == ASSUME IInv, Register PROVE IInv'
<1> USE ConnectionsAssumption DEF IInv, histVars, Register
<1>1. TypeOK'
  BY DEF TypeOK, Numbered
<1>2. Numbered'
  BY DEF TypeOK, Numbered
<1>3. FoundTyped'
  BY DEF FoundTyped
<1>4. OpenIsMapped'
  BY DEF TypeOK, Numbered, OpenIsMapped
<1> QED
  BY <1>1, <1>2, <1>3, <1>4

\* A step of one thread that is not at its close, and that leaves the client
\* map, the descriptors and handleAccept alone, preserves the invariant as far
\* as its own new state is well formed.
LEMMA ThreadStep ==
    ASSUME IInv, NEW t \in Threads, NEW s \in ThreadState,
           th' = [th EXCEPT ![t] = s],
           th[t].pc # "close",
           s.pc = "idle" <=> s.c = None,
           s.c # None => fdOf[s.c] \in Fds,
           s.pc = "bind" => s.found \in Users,
           s.pc = "offline" => s.found \in Conns,
           UNCHANGED <<owner, watched, clients, fdOf, accepting>>
    PROVE  /\ th' \in [Threads -> ThreadState]
           /\ \A u \in Threads : th'[u].pc = "idle" <=> th'[u].c = None
           /\ Numbered' /\ FoundTyped' /\ OpenIsMapped'
<1>0. th \in [Threads -> ThreadState]
  BY DEF IInv, TypeOK
<1>1. \A u \in Threads : th'[u] = IF u = t THEN s ELSE th[u]
  BY <1>0
<1>2. th' \in [Threads -> ThreadState]
  <2> HIDE DEF ThreadState
  <2> QED BY <1>0
<1>3. \A u \in Threads : th'[u].pc = "idle" <=> th'[u].c = None
  <2> TAKE u \in Threads
  <2>1. CASE u = t
    BY <1>1, <2>1
  <2>2. CASE u # t
    BY <1>1, <2>2 DEF IInv, TypeOK
  <2> QED BY <2>1, <2>2
<1>4. Numbered'
  BY <1>1 DEF IInv, Numbered
<1>5. FoundTyped'
  BY <1>1 DEF IInv, FoundTyped
<1>6. OpenIsMapped'
  BY <1>1 DEF IInv, OpenIsMapped
<1> QED
  BY <1>2, <1>3, <1>4, <1>5, <1>6

\* The steps of a SubReactor before and between its calls of handleDisconnect
\* change its own state, and the record of what was written, only.
LEMMA ReactorIInv ==
    ASSUME IInv, NEW r \in Reactors,
           \/ \E c \in Conns, ev \in EventSets : Event(r, c, ev)
           \/ Read(r) \/ Write(r) \/ Hangup(r) \/ EventsDone(r)
    PROVE  IInv'
<1> USE ConnectionsAssumption DEF mapVars, kernelVars, histVars
<1>0. r \in Threads /\ th[r] \in ThreadState
  BY DEF Threads, IInv, TypeOK
<1>1. ASSUME NEW c \in Conns, NEW ev \in EventSets, Event(r, c, ev) PROVE IInv'
  <2> DEFINE s == [pc |-> "events", c |-> clients[fdOf[c]], todo |-> ev, found |-> None]
  <2>1. fdOf[c] \in Fds /\ s.c \in Conns /\ fdOf[s.c] \in Fds /\ th[r].pc = "idle"
    <3>1. c \in watched /\ th[r] = Idle /\ clients[fdOf[c]] # None
      BY <1>1 DEF Event
    <3>2. fdOf[c] \in Fds /\ th[r].pc = "idle"
      BY <3>1 DEF IInv, Numbered, Idle
    <3>3. clients[fdOf[c]] \in Conns /\ fdOf[clients[fdOf[c]]] \in Fds
      BY ZenonT(60), <3>1, <3>2 DEF IInv, TypeOK, Numbered
    <3> QED BY <3>2, <3>3
  <2>2. s \in ThreadState
    BY <2>1 DEF ThreadState
  <2>3. th' = [th EXCEPT ![r] = s]
    BY <1>1 DEF Event
  <2>4. /\ UNCHANGED <<mapVars, kernelVars, strays, fdOf, home, accepting>>
        /\ strain' \subseteq {"overflow", "several"}
    BY <1>1 DEF Event, IInv, TypeOK
  <2>5. s.pc = "events" /\ s.c # None
    BY <2>1
  <2> HIDE DEF s
  <2> QED
    BY <1>0, <2>1, <2>2, <2>3, <2>4, <2>5, ThreadStep DEF IInv, TypeOK
<1>2. ASSUME Read(r) PROVE IInv'
  <2>1. PICK next \in {"events", "disconnect"} :
           th' = [th EXCEPT ![r] = Handled(r, "IN", next)]
    BY <1>2 DEF Read
  <2> DEFINE s == Handled(r, "IN", next)
  <2>2. s \in ThreadState /\ s.pc = next /\ s.c = th[r].c
    BY <1>0 DEF ThreadState, Handled
  <2>3. th[r].pc = "events" /\ UNCHANGED <<mapVars, kernelVars, histVars, fdOf, home, accepting>>
    BY <1>2 DEF Read
  <2>4. th' = [th EXCEPT ![r] = s]
    BY <2>1
  <2>5. s.c # None /\ fdOf[s.c] \in Fds
    <3>1. th[r].c # None
      BY <1>0, <2>3 DEF IInv, TypeOK
    <3> HIDE DEF s
    <3> QED BY <1>0, <2>2, <3>1 DEF IInv, Numbered
  <2> HIDE DEF s
  <2> QED
    BY <1>0, <2>2, <2>3, <2>4, <2>5, ThreadStep DEF IInv, TypeOK
<1>3. ASSUME Write(r) PROVE IInv'
  <2>1. PICK next \in {"events", "disconnect"} :
           th' = [th EXCEPT ![r] = Handled(r, "OUT", next)]
    BY <1>3 DEF Write
  <2> DEFINE s == Handled(r, "OUT", next)
  <2>2. s \in ThreadState /\ s.pc = next /\ s.c = th[r].c
    BY <1>0 DEF ThreadState, Handled
  <2>3. th[r].pc = "events" /\ UNCHANGED <<mapVars, kernelVars, strain, fdOf, home, accepting>>
    BY <1>3 DEF Write
  <2>4. th' = [th EXCEPT ![r] = s]
    BY <2>1
  <2>5. s.c # None /\ fdOf[s.c] \in Fds /\ th[r].c \in Conns
    <3>1. th[r].c # None
      BY <1>0, <2>3 DEF IInv, TypeOK
    <3>2. th[r].c \in Conns
      BY <1>0, <3>1 DEF ThreadState
    <3> HIDE DEF s
    <3> QED BY <1>0, <2>2, <3>1, <3>2 DEF IInv, Numbered
  <2>6. strays' \subseteq {"write", "close"}
    <3>1. strays' = strays \/ strays' = strays \cup {"write"}
      BY <1>3 DEF Write
    <3>2. strays \subseteq {"write", "close"}
      BY DEF IInv, TypeOK
    <3> QED
      BY <3>1, <3>2
  <2> HIDE DEF s
  <2> QED
    BY <1>0, <2>2, <2>3, <2>4, <2>5, <2>6, ThreadStep DEF IInv, TypeOK
<1>4. ASSUME Hangup(r) PROVE IInv'
  <2> DEFINE s == Handled(r, "HUP", "disconnect")
  <2>1. s \in ThreadState /\ s.pc = "disconnect" /\ s.c = th[r].c
    BY <1>0 DEF ThreadState, Handled
  <2>2. /\ th[r].pc = "events" /\ th' = [th EXCEPT ![r] = s]
        /\ UNCHANGED <<mapVars, kernelVars, histVars, fdOf, home, accepting>>
    BY <1>4 DEF Hangup
  <2>3. s.c # None /\ fdOf[s.c] \in Fds
    BY <1>0, <2>1, <2>2 DEF IInv, TypeOK, Numbered
  <2> HIDE DEF s
  <2> QED
    BY <1>0, <2>1, <2>2, <2>3, ThreadStep DEF IInv, TypeOK
<1>5. ASSUME EventsDone(r) PROVE IInv'
  <2>1. Idle \in ThreadState /\ Idle.pc = "idle" /\ Idle.c = None
    BY DEF Idle, ThreadState
  <2>2. /\ th[r].pc = "events" /\ th' = [th EXCEPT ![r] = Idle]
        /\ UNCHANGED <<mapVars, kernelVars, histVars, fdOf, home, accepting>>
    BY <1>5 DEF EventsDone
  <2> QED
    BY <1>0, <2>1, <2>2, ThreadStep DEF IInv, TypeOK
<1> QED
  BY <1>1, <1>2, <1>3, <1>4, <1>5

\* A thread that is at work holds a context that has a descriptor, and the
\* state it returns to after handleDisconnect is well formed.
LEMMA AtWork ==
    ASSUME IInv, NEW t \in Threads, th[t].pc # "idle"
    PROVE  /\ th[t] \in ThreadState /\ th[t].c \in Conns /\ fdOf[th[t].c] \in Fds
           /\ th[t].c # None
           /\ After(t) \in ThreadState /\ After(t).pc \in {"idle", "events"}
           /\ After(t).pc = "idle" <=> After(t).c = None
           /\ After(t).c # None => fdOf[After(t).c] \in Fds
<1>1. th[t] \in ThreadState /\ th[t].c # None
  BY DEF IInv, TypeOK
<1>2. th[t].c \in Conns
  BY <1>1 DEF ThreadState
<1>3. fdOf[th[t].c] \in Fds
  BY <1>1 DEF IInv, Numbered
<1>4. CASE t \in Reactors
  BY <1>1, <1>2, <1>3, <1>4 DEF After, ThreadState
<1>5. CASE t \notin Reactors
  BY <1>1, <1>2, <1>3, <1>5 DEF After, ThreadState, Idle
<1> QED
  BY <1>1, <1>2, <1>3, <1>4, <1>5

\* removeClientCtx leaves the number to a thread that is about to close it, and
\* the close leaves no socket behind it: whichever connection has the number.
LEMMA DisconnectIInv ==
    ASSUME IInv, NEW t \in Threads, HandleDisconnect(t)
    PROVE  IInv'
<1> USE ConnectionsAssumption DEF mapVars, kernelVars, histVars
<1>1. ASSUME Lookup(t) PROVE IInv'
  <2> DEFINE found == clients[fdOf[th[t].c]]
             s == IF found = None THEN After(t)
                  ELSE [th[t] EXCEPT !.pc = "offline", !.found = found]
  <2>1. /\ th[t].pc = "disconnect"
        /\ th' = [th EXCEPT ![t] = s]
        /\ UNCHANGED <<mapVars, kernelVars, histVars, fdOf, home, accepting>>
    BY <1>1 DEF Lookup
  <2>2. found \in Conns \cup {None}
    BY <2>1, AtWork DEF IInv, TypeOK
  <2>3. /\ s \in ThreadState
        /\ s.pc = "idle" <=> s.c = None
        /\ s.c # None => fdOf[s.c] \in Fds
        /\ s.pc # "bind" /\ (s.pc = "offline" => s.found \in Conns)
    <3> HIDE DEF found
    <3>1. CASE found = None
      BY <2>1, <3>1, AtWork
    <3>2. CASE found # None
      <4> DEFINE r == [th[t] EXCEPT !.pc = "offline", !.found = found]
      <4>1. th[t] \in ThreadState /\ th[t].c # None /\ fdOf[th[t].c] \in Fds
        BY <2>1, AtWork
      <4>2. r \in ThreadState /\ r.pc = "offline" /\ r.c = th[t].c /\ r.found = found
        BY <2>2, <4>1 DEF ThreadState
      <4>3. s = r
        BY <3>2
      <4> HIDE DEF s, r
      <4> QED BY <2>2, <3>2, <4>1, <4>2, <4>3
    <3> QED BY <3>1, <3>2
  <2> HIDE DEF s
  <2> QED
    BY <2>1, <2>3, ThreadStep DEF IInv, TypeOK
<1>2. ASSUME GoOffline(t) PROVE IInv'
  <2> DEFINE s == [th[t] EXCEPT !.pc = "unmap"]
  <2>1. /\ th[t].pc = "offline"
        /\ th' = [th EXCEPT ![t] = s]
        /\ UNCHANGED <<clients, account, session, kernelVars, histVars, fdOf, home, accepting>>
    BY <1>2 DEF GoOffline
  <2>2. s \in ThreadState /\ s.pc = "unmap" /\ s.c # None /\ fdOf[s.c] \in Fds
    BY <2>1, AtWork DEF ThreadState
  <2>3. online' \in [Users -> Conns \cup {None}]
    BY ZenonT(60), <1>2 DEF GoOffline, IInv, TypeOK
  <2> HIDE DEF s
  <2> QED
    BY <2>1, <2>2, <2>3, ThreadStep DEF IInv, TypeOK
<1>3. ASSUME Unmap(t) PROVE IInv'
  <2> DEFINE fd == fdOf[th[t].c]
             s == [th[t] EXCEPT !.pc = "close"]
  <2>1. /\ th[t].pc = "unmap" /\ th' = [th EXCEPT ![t] = s]
        /\ clients' = [clients EXCEPT ![fd] = None]
        /\ UNCHANGED <<online, account, session, kernelVars, histVars, fdOf, home, accepting>>
    BY <1>3 DEF Unmap
  <2>2. /\ s \in ThreadState /\ s.pc = "close" /\ s.c = th[t].c /\ s.c # None
        /\ fd \in Fds
    BY <2>1, AtWork DEF ThreadState
  <2>3. th \in [Threads -> ThreadState]
    BY DEF IInv, TypeOK
  <2> HIDE DEF s
  <2>4. \A u \in Threads : th'[u] = IF u = t THEN s ELSE th[u]
    BY <2>1, <2>3
  <2>5. TypeOK'
    <3>1. th' \in [Threads -> ThreadState]
      BY <2>1, <2>2, <2>3
    <3>2. \A u \in Threads : th'[u].pc = "idle" <=> th'[u].c = None
      BY <2>2, <2>4 DEF IInv, TypeOK
    <3> QED BY <2>1, <3>1, <3>2 DEF IInv, TypeOK
  <2>6. Numbered'
    BY <2>1, <2>2, <2>4 DEF IInv, TypeOK, Numbered
  <2>7. FoundTyped'
    BY <2>2, <2>4 DEF IInv, FoundTyped
  <2>8. OpenIsMapped'
    BY <2>1, <2>2, <2>4 DEF IInv, TypeOK, OpenIsMapped
  <2> QED
    BY <2>5, <2>6, <2>7, <2>8 DEF IInv
<1>4. ASSUME Close(t) PROVE IInv'
  <2> DEFINE fd == fdOf[th[t].c]
             s == After(t)
  <2>1. /\ th[t].pc = "close" /\ th' = [th EXCEPT ![t] = s]
        /\ owner' = [owner EXCEPT ![fd] = None]
        /\ watched' = watched \ {owner[fd]}
        /\ strays' = IF owner[fd] \in {th[t].c, None} THEN strays
                     ELSE strays \cup {"close"}
        /\ UNCHANGED <<mapVars, strain, fdOf, home, accepting>>
    BY <1>4 DEF Close
  <2>2. /\ s \in ThreadState /\ s.pc \in {"idle", "events"}
        /\ s.pc = "idle" <=> s.c = None
        /\ s.c # None => fdOf[s.c] \in Fds
        /\ fd \in Fds /\ th[t].c \in Conns
    BY <2>1, AtWork
  <2>3. th \in [Threads -> ThreadState]
    BY DEF IInv, TypeOK
  <2> HIDE DEF s
  <2>4. \A u \in Threads : th'[u] = IF u = t THEN s ELSE th[u]
    BY <2>1, <2>3
  <2>5. TypeOK'
    <3>1. th' \in [Threads -> ThreadState]
      BY <2>1, <2>2, <2>3
    <3>2. \A u \in Threads : th'[u].pc = "idle" <=> th'[u].c = None
      <4> TAKE u \in Threads
      <4>1. CASE u = t
        BY <2>2, <2>4, <4>1
      <4>2. CASE u # t
        BY <2>4, <4>2 DEF IInv, TypeOK
      <4> QED BY <4>1, <4>2
    <3>3. strays' \subseteq {"write", "close"}
      BY <2>1 DEF IInv, TypeOK
    <3> QED BY <2>1, <3>1, <3>2, <3>3 DEF IInv, TypeOK
  <2>6. Numbered'
    BY <2>1, <2>2, <2>4 DEF IInv, TypeOK, Numbered
  <2>7. FoundTyped'
    BY <2>2, <2>4 DEF IInv, FoundTyped
  <2>8. OpenIsMapped'
    BY <2>1, <2>2, <2>4 DEF IInv, TypeOK, OpenIsMapped
  <2> QED
    BY <2>5, <2>6, <2>7, <2>8 DEF IInv
<1> QED
  BY <1>1, <1>2, <1>3, <1>4 DEF HandleDisconnect

\* The tasks of the workers bind users and may call handleDisconnect; they
\* touch neither the client map nor a descriptor.
LEMMA WorkerIInv ==
    ASSUME IInv, NEW w \in Workers,
           \/ \E c \in Conns : TakeTask(w, c)
           \/ \E u \in Users : SetOnlineUser(w, u)
           \/ SetAccount(w) \/ SendOverflows(w) \/ TaskEnds(w)
    PROVE  IInv'
<1> USE ConnectionsAssumption DEF mapVars, kernelVars, histVars
<1>0. w \in Threads /\ th[w] \in ThreadState
  BY DEF Threads, IInv, TypeOK
<1>1. ASSUME NEW c \in Conns, TakeTask(w, c) PROVE IInv'
  <2> DEFINE s == [th[w] EXCEPT !.pc = "task", !.c = c]
  <2>1. /\ th[w] = Idle /\ th' = [th EXCEPT ![w] = s] /\ fdOf[c] # None
        /\ UNCHANGED <<mapVars, kernelVars, histVars, fdOf, home, accepting>>
    BY <1>1 DEF TakeTask
  <2>2. th[w].pc = "idle" /\ fdOf[c] \in Fds
    BY <2>1 DEF Idle, IInv, TypeOK
  <2>3. s \in ThreadState /\ s.pc = "task" /\ s.c = c
    BY <1>0 DEF ThreadState
  <2> HIDE DEF s
  <2> QED
    BY ZenonT(30), <1>0, <2>1, <2>2, <2>3, ThreadStep DEF IInv, TypeOK
<1>2. ASSUME NEW u \in Users, SetOnlineUser(w, u) PROVE IInv'
  <2> DEFINE s == [th[w] EXCEPT !.pc = "bind", !.found = u]
  <2>1. /\ th[w].pc = "task" /\ th' = [th EXCEPT ![w] = s]
        /\ online' = [online EXCEPT ![u] = th[w].c]
        /\ session' = [session EXCEPT ![u] = [last |-> th[w].c,
                                             all |-> session[u].all \cup {th[w].c}]]
        /\ UNCHANGED <<clients, account, kernelVars, histVars, fdOf, home, accepting>>
    BY <1>2 DEF SetOnlineUser
  <2>2. s \in ThreadState /\ s.pc = "bind" /\ s.c # None /\ fdOf[s.c] \in Fds /\ s.found = u
    BY <1>0, <2>1, AtWork DEF ThreadState
  <2>3. th[w].c \in Conns
    BY <1>0, <2>1, AtWork
  <2>4. session' \in [Users -> Sessions]
    <3>1. session \in [Users -> Sessions]
      BY DEF IInv, TypeOK
    <3>2. [last |-> th[w].c, all |-> session[u].all \cup {th[w].c}] \in Sessions
      BY <2>3, <3>1 DEF Sessions
    <3> QED
      BY <2>1, <3>1, <3>2
  <2> HIDE DEF s
  <2> QED
    BY <1>0, <2>1, <2>2, <2>3, <2>4, ThreadStep DEF IInv, TypeOK
<1> DEFINE Stopped == Idle \in ThreadState /\ Idle.pc = "idle" /\ Idle.c = None
<1>3. Stopped
  BY DEF Idle, ThreadState
<1>4. ASSUME SetAccount(w) PROVE IInv'
  <2>1. /\ th[w].pc = "bind" /\ th' = [th EXCEPT ![w] = Idle]
        /\ account' = [account EXCEPT ![th[w].c] = th[w].found]
        /\ UNCHANGED <<clients, online, session, kernelVars, histVars, fdOf, home, accepting>>
    BY <1>4 DEF SetAccount
  <2>2. th[w].found \in Users
    BY <1>0, <2>1 DEF IInv, FoundTyped
  <2> QED
    BY <1>0, <1>3, <2>1, <2>2, ThreadStep DEF IInv, TypeOK
<1>5. ASSUME SendOverflows(w) PROVE IInv'
  <2> DEFINE s == [th[w] EXCEPT !.pc = "disconnect"]
  <2>1. /\ th[w].pc = "task" /\ th' = [th EXCEPT ![w] = s]
        /\ strain' \subseteq {"overflow", "several"}
        /\ UNCHANGED <<mapVars, kernelVars, strays, fdOf, home, accepting>>
    BY <1>5 DEF SendOverflows, IInv, TypeOK
  <2>2. s \in ThreadState /\ s.pc = "disconnect" /\ s.c # None /\ fdOf[s.c] \in Fds
    BY <1>0, <2>1, AtWork DEF ThreadState
  <2> HIDE DEF s
  <2> QED
    BY <1>0, <2>1, <2>2, ThreadStep DEF IInv, TypeOK
<1>6. ASSUME TaskEnds(w) PROVE IInv'
  <2>1. /\ th[w].pc = "task" /\ th' = [th EXCEPT ![w] = Idle]
        /\ UNCHANGED <<mapVars, kernelVars, histVars, fdOf, home, accepting>>
    BY <1>6 DEF TaskEnds
  <2> QED
    BY <1>0, <1>3, <2>1, ThreadStep DEF IInv, TypeOK
<1> QED
  BY <1>1, <1>2, <1>4, <1>5, <1>6

\* IInv holds in every reachable state.
LEMMA Invariance == Spec => []IInv
<1>1. IInv /\ [Next]_vars => IInv'
  <2> SUFFICES ASSUME IInv, [Next]_vars PROVE IInv'
    OBVIOUS
  <2>1. CASE UNCHANGED vars
    BY <2>1 DEF vars, mapVars, kernelVars, histVars, IInv, TypeOK, Numbered,
                FoundTyped, OpenIsMapped
  <2>2. CASE Next
    BY <2>2, AcceptIInv, RegisterIInv, ReactorIInv, DisconnectIInv, WorkerIInv
    DEF Next
  <2> QED
    BY <2>1, <2>2
<1> QED
  BY InitIInv, <1>1, PTL DEF Spec

\* Every variable of the connection registry keeps its type.
THEOREM TypeCorrect == Spec => []TypeOK
  BY Invariance, PTL DEF IInv

\* No socket is left open and forgotten: however accepts, events, backlog
\* overflows and calls of handleDisconnect interleave, an open socket is in
\* the client map, about to be put there, or about to be closed.
THEOREM NoSocketForgotten == Spec => []OpenIsMapped
  BY Invariance, PTL DEF IInv

-----------------------------------------------------------------------------
(* What can refer to a context: not before handleAccept has registered it.  *)

Known(c) == fdOf[c] \in Fds /\ accepting # c

\* The maps, the threads and the kernel's epoll sets refer only to registered
\* contexts, and the client map has each under its own number.
Registered ==
    /\ \A fd \in Fds : clients[fd] # None =>
          Known(clients[fd]) /\ fdOf[clients[fd]] = fd
    /\ \A t \in Threads : th[t].c # None => Known(th[t].c)
    /\ \A u \in Users : /\ \A c \in session[u].all : Known(c)
                        /\ online[u] # None => Known(online[u])
    /\ \A c \in watched : Known(c)

\* The thread that takes a step, and the others.
LEMMA OneThread ==
    ASSUME IInv, NEW t \in Threads, NEW s, th' = [th EXCEPT ![t] = s]
    PROVE  /\ th'[t] = s
           /\ \A u \in Threads : u # t => th'[u] = th[u]
<1>1. th \in [Threads -> ThreadState]
  BY DEF IInv, TypeOK
<1> QED
  BY <1>1

\* A step that forgets contexts, or goes on with registered ones, keeps it.
LEMMA RegisteredStep ==
    ASSUME IInv, Registered, UNCHANGED <<fdOf, accepting>>, watched' \subseteq watched,
           \A fd \in Fds : clients'[fd] \in {clients[fd], None},
           NEW t \in Threads, NEW s, th' = [th EXCEPT ![t] = s],
           s.c \in {th[t].c, None} \/ Known(s.c),
           \A u \in Users : /\ \A c \in session'[u].all : c \in session[u].all \/ Known(c)
                            /\ online'[u] \in {online[u], None} \/ Known(online'[u])
    PROVE  Registered'
<1>1. \A c : Known(c)' <=> Known(c)
  BY DEF Known
<1>2. \A u \in Threads : th'[u].c # None => Known(th'[u].c)
  <2> TAKE u \in Threads
  <2>1. CASE u = t
    BY <2>1, OneThread DEF Registered
  <2>2. CASE u # t
    BY <2>2, OneThread DEF Registered
  <2> QED
    BY <2>1, <2>2
<1>3. \A fd \in Fds : clients'[fd] # None => Known(clients'[fd]) /\ fdOf'[clients'[fd]] = fd
  BY DEF Registered
<1>4. \A u \in Users : /\ \A c \in session'[u].all : Known(c)
                       /\ online'[u] # None => Known(online'[u])
  BY DEF Registered
<1>5. \A c \in watched' : Known(c)
  BY DEF Registered
<1> QED
  BY <1>2, <1>3, <1>4, <1>5 DEF Registered, Known

\* handleAccept gives a number to a context nothing refers to, and registers it.
LEMMA AcceptRegistered ==
    ASSUME IInv, Registered,
           Register \/ \E c \in Conns, r \in Reactors : Accept(c, r)
    PROVE  Registered'
<1> USE ConnectionsAssumption
<1>1. ASSUME NEW c \in Conns, NEW r \in Reactors, Accept(c, r) PROVE Registered'
  <2>1. PICK fd \in Fds : fdOf' = [fdOf EXCEPT ![c] = fd]
    BY <1>1 DEF Accept
  <2>2. /\ fdOf[c] = None /\ accepting' = c
        /\ UNCHANGED <<clients, online, session, watched, th>>
    BY <1>1 DEF Accept, mapVars
  <2>3. ASSUME NEW d \in Conns, Known(d) PROVE d # c /\ fdOf'[d] = fdOf[d] /\ Known(d)'
    BY <2>1, <2>2, <2>3 DEF Known, IInv, TypeOK
  <2>4. /\ \A f \in Fds : clients[f] \in Conns \cup {None}
        /\ \A t \in Threads : th[t].c \in Conns \cup {None}
        /\ \A u \in Users : session[u].all \subseteq Conns /\ online[u] \in Conns \cup {None}
        /\ watched \subseteq Conns
    BY DEF IInv, TypeOK, ThreadState, Sessions
  <2> QED
    BY <2>2, <2>3, <2>4 DEF Registered
<1>2. ASSUME Register PROVE Registered'
  <2>1. /\ accepting # None /\ accepting' = None /\ watched' = watched \cup {accepting}
        /\ clients' = [clients EXCEPT ![fdOf[accepting]] = accepting]
        /\ UNCHANGED <<fdOf, online, session, th>>
    BY <1>2 DEF Register
  <2>2. accepting \in Conns /\ fdOf[accepting] \in Fds /\ clients \in [Fds -> Conns \cup {None}]
    BY <2>1 DEF IInv, TypeOK, Numbered
  <2>3. \A d \in Conns : fdOf[d] \in Fds => Known(d)'
    BY <2>1 DEF Known
  <2>4. \A fd \in Fds : clients'[fd] # None =>
            Known(clients[fd])' /\ fdOf'[clients'[fd]] = fd
    <3> SUFFICES ASSUME NEW fd \in Fds, clients'[fd] # None
                 PROVE  Known(clients[fd])' /\ fdOf'[clients'[fd]] = fd
      OBVIOUS
    <3>1. CASE fd = fdOf[accepting]
      BY <2>1, <2>2, <2>3, <3>1 DEF Known
    <3>2. CASE fd # fdOf[accepting]
      <4>1. clients'[fd] = clients[fd] /\ clients[fd] \in Conns
        BY <2>1, <2>2, <3>2
      <4> QED
        BY <2>1, <2>3, <4>1 DEF Registered, Known
    <3> QED
      BY <3>1, <3>2
  <2>5. /\ \A t \in Threads : th[t].c \in Conns \cup {None}
        /\ \A u \in Users : session[u].all \subseteq Conns /\ online[u] \in Conns \cup {None}
        /\ watched \subseteq Conns
    BY DEF IInv, TypeOK, ThreadState, Sessions
  <2> QED
    BY <2>1, <2>2, <2>3, <2>4, <2>5 DEF Registered, Known
<1> QED
  BY <1>1, <1>2

\* What a step of a SubReactor, or of a thread in handleDisconnect, does to its
\* own state: it keeps its context or takes one from the client map.
LEMMA ThreadRegistered ==
    ASSUME IInv, Registered, NEW t \in Threads,
           \/ t \in Reactors /\ \E c \in Conns, ev \in EventSets : Event(t, c, ev)
           \/ t \in Reactors /\ (Read(t) \/ Write(t) \/ Hangup(t) \/ EventsDone(t))
           \/ HandleDisconnect(t)
    PROVE  Registered'
<1> USE ConnectionsAssumption DEF mapVars, kernelVars
<1>0. th[t] \in ThreadState /\ Idle.c = None /\ After(t).c \in {th[t].c, None}
  BY DEF IInv, TypeOK, Idle, After, ThreadState
<1>1. ASSUME NEW c \in Conns, NEW ev \in EventSets, Event(t, c, ev) PROVE Registered'
  <2> DEFINE s == [pc |-> "events", c |-> clients[fdOf[c]], todo |-> ev, found |-> None]
  <2>1. /\ c \in watched /\ clients[fdOf[c]] # None /\ th' = [th EXCEPT ![t] = s]
        /\ UNCHANGED <<clients, online, session, watched, fdOf, accepting>>
    BY <1>1 DEF Event
  <2>2. Known(s.c)
    BY <2>1 DEF IInv, Numbered, Registered
  <2> HIDE DEF s
  <2> QED
    BY <2>1, <2>2, RegisteredStep
<1>2. ASSUME NEW s, th' = [th EXCEPT ![t] = s], s.c \in {th[t].c, None},
             UNCHANGED <<clients, session, fdOf, accepting>>, watched' \subseteq watched,
             \A u \in Users : online'[u] \in {online[u], None}
      PROVE  Registered'
  BY <1>2, RegisteredStep
<1>3. CASE Read(t) \/ Write(t) \/ Hangup(t) \/ EventsDone(t)
  <2>1. UNCHANGED <<clients, session, fdOf, accepting, online, watched>>
    BY <1>3 DEF Read, Write, Hangup, EventsDone
  <2>2. \E s : th' = [th EXCEPT ![t] = s] /\ s.c \in {th[t].c, None}
    <3>1. \A e, next : Handled(t, e, next).c = th[t].c
      BY <1>0 DEF Handled, ThreadState
    <3>2. CASE Read(t) \/ Write(t)
      <4>1. \E e, next : th' = [th EXCEPT ![t] = Handled(t, e, next)]
        BY <3>2, Zenon DEF Read, Write
      <4> QED
        BY <3>1, <4>1
    <3>4. CASE Hangup(t) \/ EventsDone(t)
      BY <1>0, <3>1, <3>4 DEF Hangup, EventsDone
    <3> QED
      BY <1>3, <3>2, <3>4
  <2> QED
    BY <1>2, <2>1, <2>2
<1>4. CASE Lookup(t)
  <2> DEFINE found == clients[fdOf[th[t].c]]
             s == IF found = None THEN After(t)
                  ELSE [th[t] EXCEPT !.pc = "offline", !.found = found]
  <2>1. th' = [th EXCEPT ![t] = s]
        /\ UNCHANGED <<clients, session, fdOf, accepting, online, watched>>
    BY <1>4 DEF Lookup
  <2>2. s.c \in {th[t].c, None}
    BY <1>0 DEF ThreadState
  <2> HIDE DEF s
  <2> QED
    BY <1>2, <2>1, <2>2
<1>5. CASE GoOffline(t)
  <2> DEFINE s == [th[t] EXCEPT !.pc = "unmap"]
  <2>1. th' = [th EXCEPT ![t] = s]
        /\ UNCHANGED <<clients, session, fdOf, accepting, watched>>
    BY <1>5 DEF GoOffline
  <2>2. s.c = th[t].c
    BY <1>0 DEF ThreadState
  <2>3. online \in [Users -> Conns \cup {None}]
    BY DEF IInv, TypeOK
  <2>4. \A u \in Users : online'[u] \in {online[u], None}
    BY <1>5, <2>3 DEF GoOffline
  <2> HIDE DEF s
  <2> QED
    BY <1>2, <2>1, <2>2, <2>4
<1>6. CASE Unmap(t)
  <2> DEFINE s == [th[t] EXCEPT !.pc = "close"]
  <2>1. /\ th' = [th EXCEPT ![t] = s] /\ clients' = [clients EXCEPT ![fdOf[th[t].c]] = None]
        /\ UNCHANGED <<session, fdOf, accepting, online, watched>>
    BY <1>6 DEF Unmap
  <2>2. s.c = th[t].c
    BY <1>0 DEF ThreadState
  <2>3. clients \in [Fds -> Conns \cup {None}]
    BY DEF IInv, TypeOK
  <2>4. \A fd \in Fds : clients'[fd] \in {clients[fd], None}
    BY <2>1, <2>3
  <2> HIDE DEF s
  <2> QED
    BY <2>1, <2>2, <2>4, RegisteredStep
<1>7. CASE Close(t)
  <2>1. /\ th' = [th EXCEPT ![t] = After(t)] /\ watched' \subseteq watched
        /\ UNCHANGED <<clients, session, fdOf, accepting, online>>
    BY <1>7 DEF Close
  <2> QED
    BY <1>0, <1>2, <2>1
<1> QED
  BY <1>1, <1>3, <1>4, <1>5, <1>6, <1>7 DEF HandleDisconnect

\* A task holds the context of a registered connection.
LEMMA WorkerRegistered ==
    ASSUME IInv, Registered, NEW w \in Workers,
           \/ \E c \in Conns : TakeTask(w, c)
           \/ \E u \in Users : SetOnlineUser(w, u)
           \/ SetAccount(w) \/ SendOverflows(w) \/ TaskEnds(w)
    PROVE  Registered'
<1> USE ConnectionsAssumption DEF mapVars, kernelVars
<1>0. w \in Threads /\ th[w] \in ThreadState /\ Idle.c = None
  BY DEF IInv, TypeOK, Idle, Threads
<1>1. ASSUME NEW c \in Conns, TakeTask(w, c) PROVE Registered'
  <2> DEFINE s == [th[w] EXCEPT !.pc = "task", !.c = c]
  <2>1. /\ th' = [th EXCEPT ![w] = s] /\ fdOf[c] # None /\ clients[fdOf[c]] = c
        /\ UNCHANGED <<clients, online, session, watched, fdOf, accepting>>
    BY <1>1 DEF TakeTask
  <2>2. s.c = c
    BY <1>0 DEF ThreadState
  <2>3. Known(c)
    BY <2>1 DEF IInv, TypeOK, Registered
  <2> HIDE DEF s
  <2> QED
    BY <1>0, <2>1, <2>2, <2>3, RegisteredStep
<1>2. ASSUME NEW u \in Users, SetOnlineUser(w, u) PROVE Registered'
  <2> DEFINE s == [th[w] EXCEPT !.pc = "bind", !.found = u]
  <2>1. /\ th[w].pc = "task" /\ th' = [th EXCEPT ![w] = s]
        /\ online' = [online EXCEPT ![u] = th[w].c]
        /\ session' = [session EXCEPT ![u] = [last |-> th[w].c,
                                             all |-> session[u].all \cup {th[w].c}]]
        /\ UNCHANGED <<clients, watched, fdOf, accepting>>
    BY <1>2 DEF SetOnlineUser
  <2>2. s.c = th[w].c /\ Known(th[w].c)
    BY <1>0, <2>1, AtWork DEF ThreadState, Registered
  <2>3. online \in [Users -> Conns \cup {None}] /\ session \in [Users -> Sessions]
    BY DEF IInv, TypeOK
  <2> HIDE DEF s
  <2>4. \A v \in Users : /\ \A c \in session'[v].all : c \in session[v].all \/ Known(c)
                         /\ online'[v] \in {online[v], None} \/ Known(online'[v])
    <3> TAKE v \in Users
    <3>1. CASE v = u
      <4>1. session'[v].all = session[u].all \cup {th[w].c} /\ online'[v] = th[w].c
        BY <2>1, <2>3, <3>1
      <4> QED
        BY <2>2, <3>1, <4>1
    <3>2. CASE v # u
      <4>1. session'[v] = session[v] /\ online'[v] = online[v]
        BY <2>1, <2>3, <3>2
      <4> QED
        BY <4>1
    <3> QED
      BY <3>1, <3>2
  <2> QED
    BY <1>0, <2>1, <2>2, <2>4, RegisteredStep
<1>3. CASE SetAccount(w) \/ TaskEnds(w)
  <2>1. /\ th' = [th EXCEPT ![w] = Idle]
        /\ UNCHANGED <<clients, online, session, watched, fdOf, accepting>>
    BY <1>3 DEF SetAccount, TaskEnds
  <2> QED
    BY <1>0, <2>1, RegisteredStep
<1>4. CASE SendOverflows(w)
  <2> DEFINE s == [th[w] EXCEPT !.pc = "disconnect"]
  <2>1. /\ th' = [th EXCEPT ![w] = s]
        /\ UNCHANGED <<clients, online, session, watched, fdOf, accepting>>
    BY <1>4 DEF SendOverflows
  <2>2. s.c = th[w].c
    BY <1>0 DEF ThreadState
  <2> HIDE DEF s
  <2> QED
    BY <1>0, <2>1, <2>2, RegisteredStep
<1> QED
  BY <1>1, <1>2, <1>3, <1>4

\* Every reachable state refers to registered contexts only.
LEMMA RegisteredInvariance == Spec => []Registered
<1>1. Init => Registered
  BY DEF Init, Registered, Idle, Threads
<1>2. IInv /\ Registered /\ [Next]_vars => Registered'
  <2> SUFFICES ASSUME IInv, Registered, [Next]_vars PROVE Registered'
    OBVIOUS
  <2>1. CASE UNCHANGED vars
    BY <2>1 DEF vars, mapVars, kernelVars, Registered, Known
  <2>2. CASE Next
    <3>1. Reactors \subseteq Threads
      BY DEF Threads
    <3> QED
      BY <2>2, <3>1, AcceptRegistered, ThreadRegistered, WorkerRegistered DEF Next
  <2> QED
    BY <2>1, <2>2
<1> QED
  BY <1>1, <1>2, Invariance, PTL DEF Spec

-----------------------------------------------------------------------------
(* Events one at a time and no overflow: a number stays with its connection *)
(* from the event to the close.                                             *)

\* The thread still has to do something to the descriptor of its context.
Engaged(s) == s.todo # {} \/ s.pc \in {"disconnect", "offline", "unmap", "close"}

\* Then it is the reactor of the connection, which is open, in the map until the
\* thread takes it out, and has no second event left once it disconnects.
Proper(t, s) ==
    Engaged(s) =>
        /\ t \in Reactors /\ home[s.c] = t /\ s.c \in watched /\ owner[fdOf[s.c]] = s.c
        /\ clients[fdOf[s.c]] = IF s.pc = "close" THEN None ELSE s.c
        /\ IF s.pc = "events" THEN \E e \in s.todo : s.todo = {e} ELSE s.todo = {}

Orderly ==
    strain = {} =>
        /\ strays = {}
        /\ \A fd \in Fds : clients[fd] \in {None, owner[fd]}
        /\ accepting # None => owner[fdOf[accepting]] = accepting
        /\ \A t \in Threads : Proper(t, th[t])

\* A step that only takes a thread from one proper state to another keeps it.
LEMMA OrderlyStep ==
    ASSUME IInv, Orderly, UNCHANGED <<clients, owner, watched, fdOf, home, accepting>>,
           NEW t \in Threads, NEW s, th' = [th EXCEPT ![t] = s],
           strain' = {} => strain = {} /\ strays' = {} /\ Proper(t, s)
    PROVE  Orderly'
<1> SUFFICES ASSUME strain' = {}
             PROVE  /\ strays' = {}
                    /\ \A fd \in Fds : clients'[fd] \in {None, owner'[fd]}
                    /\ accepting' # None => owner'[fdOf'[accepting']] = accepting'
                    /\ \A u \in Threads : Proper(u, th[u])'
  BY DEF Orderly
<1>1. \A u \in Threads : Proper(u, th'[u])
  BY OneThread DEF Orderly
<1>2. \A u \in Threads : Proper(u, th[u])'
  BY <1>1 DEF Proper
<1> QED
  BY <1>2 DEF Orderly

\* Two threads at work on the descriptor of one connection are one thread.
LEMMA OneAtWork ==
    ASSUME IInv, Orderly, strain = {}, NEW t \in Threads, NEW u \in Threads,
           Engaged(th[t]), Engaged(th[u]), fdOf[th[t].c] = fdOf[th[u].c]
    PROVE  t = u
<1>1. Proper(t, th[t]) /\ Proper(u, th[u])
  BY DEF Orderly
<1>2. /\ home[th[t].c] = t /\ owner[fdOf[th[t].c]] = th[t].c
      /\ home[th[u].c] = u /\ owner[fdOf[th[u].c]] = th[u].c
  BY <1>1 DEF Proper
<1> QED BY <1>2

\* handleAccept keeps it: a free number is in no map, and a context that is not
\* registered yet is not disconnected.
LEMMA AcceptOrderly ==
    ASSUME IInv, Registered, Orderly,
           Register \/ \E c \in Conns, r \in Reactors : Accept(c, r)
    PROVE  Orderly'
<1> USE ConnectionsAssumption
<1> SUFFICES ASSUME strain' = {}
             PROVE  /\ strays' = {}
                    /\ \A fd \in Fds : clients'[fd] \in {None, owner'[fd]}
                    /\ accepting' # None => owner'[fdOf'[accepting']] = accepting'
                    /\ \A u \in Threads : Proper(u, th[u])'
  BY DEF Orderly
<1>1. ASSUME NEW c \in Conns, NEW r \in Reactors, Accept(c, r)
      PROVE  /\ strays' = {}
             /\ \A fd \in Fds : clients'[fd] \in {None, owner'[fd]}
             /\ accepting' # None => owner'[fdOf'[accepting']] = accepting'
             /\ \A u \in Threads : Proper(u, th[u])'
  <2>1. PICK fd \in Fds : /\ owner[fd] = None
                          /\ owner' = [owner EXCEPT ![fd] = c]
                          /\ fdOf' = [fdOf EXCEPT ![c] = fd]
    BY <1>1 DEF Accept
  <2>2. /\ fdOf[c] = None /\ accepting' = c /\ home' = [home EXCEPT ![c] = r]
        /\ UNCHANGED <<clients, watched, strays, strain, th>>
    BY <1>1 DEF Accept, mapVars, histVars
  <2>3. /\ owner \in [Fds -> Conns \cup {None}] /\ fdOf \in [Conns -> Fds \cup {None}]
        /\ home \in [Conns -> Reactors \cup {None}] /\ None \notin Fds /\ None \notin Conns
    BY DEF IInv, TypeOK
  <2>4. strays = {} /\ \A f \in Fds : clients[f] \in {None, owner[f]}
    BY <2>2 DEF Orderly
  <2>5. \A f \in Fds : clients'[f] \in {None, owner'[f]}
    BY <2>1, <2>2, <2>3, <2>4
  <2>6. owner'[fdOf'[c]] = c
    BY <2>1, <2>3
  <2>7. ASSUME NEW u \in Threads PROVE Proper(u, th[u])'
    <3> SUFFICES ASSUME Engaged(th[u]) PROVE Proper(u, th[u])'
      BY <2>2 DEF Proper, Engaged
    <3> DEFINE d == th[u].c
    <3>1. Proper(u, th[u])
      BY <2>2 DEF Orderly
    <3>2. d \in watched /\ owner[fdOf[d]] = d /\ home[d] = u
      BY <3>1 DEF Proper
    <3>3. d \in Conns /\ fdOf[d] \in Fds
      BY <3>2 DEF IInv, TypeOK, Numbered
    <3>4. d # c /\ fdOf[d] # fd
      BY <2>1, <2>2, <2>3, <3>2, <3>3
    <3>5. fdOf'[d] = fdOf[d] /\ home'[d] = home[d] /\ owner'[fdOf[d]] = owner[fdOf[d]]
      BY <2>1, <2>2, <2>3, <3>3, <3>4
    <3> QED
      BY <2>2, <3>1, <3>5 DEF Proper
  <2> QED
    BY <2>2, <2>4, <2>5, <2>6, <2>7
<1>2. ASSUME Register
      PROVE  /\ strays' = {}
             /\ \A fd \in Fds : clients'[fd] \in {None, owner'[fd]}
             /\ accepting' # None => owner'[fdOf'[accepting']] = accepting'
             /\ \A u \in Threads : Proper(u, th[u])'
  <2>1. /\ accepting # None /\ accepting' = None /\ watched' = watched \cup {accepting}
        /\ clients' = [clients EXCEPT ![fdOf[accepting]] = accepting]
        /\ UNCHANGED <<fdOf, owner, home, strays, strain, th>>
    BY <1>2 DEF Register, histVars
  <2>2. /\ strays = {} /\ \A f \in Fds : clients[f] \in {None, owner[f]}
        /\ owner[fdOf[accepting]] = accepting
    BY <2>1 DEF Orderly
  <2>3. clients \in [Fds -> Conns \cup {None}] /\ fdOf[accepting] \in Fds
    BY <2>1 DEF IInv, TypeOK, Numbered
  <2>4. \A f \in Fds : clients'[f] \in {None, owner'[f]}
    BY <2>1, <2>2, <2>3
  <2>5. ASSUME NEW u \in Threads PROVE Proper(u, th[u])'
    <3> SUFFICES ASSUME Engaged(th[u]) PROVE Proper(u, th[u])'
      BY <2>1 DEF Proper, Engaged
    <3> DEFINE d == th[u].c
    <3>1. Proper(u, th[u])
      BY <2>1 DEF Orderly
    <3>2. d \in watched /\ owner[fdOf[d]] = d
      BY <3>1 DEF Proper
    <3>3. d # accepting /\ fdOf[d] \in Fds
      BY <3>2 DEF Registered, Known
    <3>4. fdOf[d] # fdOf[accepting]
      BY <2>2, <3>2, <3>3
    <3>5. clients'[fdOf[d]] = clients[fdOf[d]]
      BY <2>1, <2>3, <3>3, <3>4
    <3> QED
      BY <2>1, <3>1, <3>5 DEF Proper
  <2> QED
    BY <2>1, <2>2, <2>4, <2>5
<1> QED
  BY <1>1, <1>2

\* A reactor takes the context of an open connection of its own, and writes to
\* no other socket.
LEMMA ReactorOrderly ==
    ASSUME IInv, Orderly, NEW r \in Reactors,
           \/ \E c \in Conns, ev \in EventSets : Event(r, c, ev)
           \/ Read(r) \/ Write(r) \/ Hangup(r) \/ EventsDone(r)
    PROVE  Orderly'
<1> USE ConnectionsAssumption DEF mapVars, kernelVars, histVars
<1>0. r \in Threads /\ th[r] \in ThreadState
  BY DEF Threads, IInv, TypeOK
<1>1. ASSUME NEW c \in Conns, NEW ev \in EventSets, Event(r, c, ev) PROVE Orderly'
  <2> DEFINE s == [pc |-> "events", c |-> clients[fdOf[c]], todo |-> ev, found |-> None]
  <2>1. /\ c \in watched /\ home[c] = r /\ owner[fdOf[c]] = c /\ clients[fdOf[c]] # None
        /\ th' = [th EXCEPT ![r] = s]
        /\ UNCHANGED <<clients, owner, watched, fdOf, home, accepting, strays>>
        /\ strain' = IF \E e \in ev : ev = {e} THEN strain ELSE strain \cup {"several"}
    BY <1>1 DEF Event
  <2>2. fdOf[c] \in Fds
    BY <2>1 DEF IInv, Numbered
  <2>3. ASSUME strain' = {} PROVE strain = {} /\ strays' = {} /\ Proper(r, s)
    <3>1. strain = {} /\ \E e \in ev : ev = {e}
      BY <2>1, <2>3
    <3>2. clients[fdOf[c]] = c /\ strays' = {}
      BY <2>1, <2>2, <3>1 DEF Orderly
    <3> QED
      BY <2>1, <3>1, <3>2 DEF Proper
  <2> HIDE DEF s
  <2> QED
    BY <1>0, <2>1, <2>3, OrderlyStep
<1>2. ASSUME NEW e \in {"IN", "OUT", "HUP"}, e \in th[r].todo, th[r].pc = "events",
             NEW next \in {"events", "disconnect"},
             th' = [th EXCEPT ![r] = Handled(r, e, next)],
             UNCHANGED <<clients, owner, watched, fdOf, home, accepting, strain>>,
             strays' = strays \/ owner[fdOf[th[r].c]] # th[r].c
      PROVE  Orderly'
  <2> DEFINE s == Handled(r, e, next)
  <2>1. s.pc = next /\ s.c = th[r].c /\ s.todo = th[r].todo \ {e}
    BY <1>0 DEF Handled, ThreadState
  <2>2. ASSUME strain' = {} PROVE strain = {} /\ strays' = {} /\ Proper(r, s)
    <3>1. strain = {} /\ Proper(r, th[r]) /\ strays = {} /\ Engaged(th[r])
      BY <1>0, <1>2, <2>2 DEF Orderly, Engaged
    <3>2. /\ home[s.c] = r /\ s.c \in watched /\ owner[fdOf[s.c]] = s.c
          /\ clients[fdOf[s.c]] = s.c /\ \E f \in th[r].todo : th[r].todo = {f}
      BY <1>2, <2>1, <3>1 DEF Proper
    <3>3. s.todo = {}
      BY <1>2, <2>1, <3>2
    <3>4. s.pc # "close"
      BY <2>1
    <3>5. strays' = {}
      BY <1>2, <2>1, <3>1, <3>2
    <3> HIDE DEF s
    <3>6. Proper(r, s)
      <4>1. CASE s.pc = "events"
        BY <3>3, <4>1 DEF Proper, Engaged
      <4>2. CASE s.pc # "events"
        BY <3>2, <3>3, <3>4, <4>2 DEF Proper
      <4> QED
        BY <4>1, <4>2
    <3> QED
      BY <3>1, <3>5, <3>6
  <2> HIDE DEF s
  <2>3. th' = [th EXCEPT ![r] = s]
    BY <1>2 DEF s
  <2> QED
    BY <1>0, <1>2, <2>2, <2>3, OrderlyStep
<1>3. CASE Read(r)
  <2>1. PICK next \in {"events", "disconnect"} : th' = [th EXCEPT ![r] = Handled(r, "IN", next)]
    BY <1>3 DEF Read
  <2>2. /\ "IN" \in th[r].todo /\ th[r].pc = "events"
        /\ UNCHANGED <<clients, owner, watched, fdOf, home, accepting, strain, strays>>
    BY <1>3 DEF Read
  <2> QED
    BY <1>2, <2>1, <2>2
<1>4. CASE Write(r)
  <2>1. PICK next \in {"events", "disconnect"} : th' = [th EXCEPT ![r] = Handled(r, "OUT", next)]
    BY <1>4 DEF Write
  <2>2. /\ "OUT" \in th[r].todo /\ th[r].pc = "events"
        /\ UNCHANGED <<clients, owner, watched, fdOf, home, accepting, strain>>
        /\ strays' = strays \/ owner[fdOf[th[r].c]] # th[r].c
    BY <1>4 DEF Write
  <2> QED
    BY <1>2, <2>1, <2>2
<1>5. CASE Hangup(r)
  <2>1. /\ "HUP" \in th[r].todo /\ th[r].pc = "events"
        /\ th' = [th EXCEPT ![r] = Handled(r, "HUP", "disconnect")]
        /\ UNCHANGED <<clients, owner, watched, fdOf, home, accepting, strain, strays>>
    BY <1>5 DEF Hangup
  <2> QED
    BY <1>2, <2>1
<1>6. CASE EventsDone(r)
  <2>1. /\ th' = [th EXCEPT ![r] = Idle]
        /\ UNCHANGED <<clients, owner, watched, fdOf, home, accepting, strain, strays>>
    BY <1>6 DEF EventsDone
  <2>2. Proper(r, Idle)
    BY DEF Proper, Engaged, Idle
  <2>3. strain' = {} => strain = {} /\ strays' = {}
    BY <2>1 DEF Orderly
  <2> QED
    BY <1>0, <2>1, <2>2, <2>3, OrderlyStep
<1> QED
  BY <1>1, <1>3, <1>4, <1>5, <1>6

\* A task leaves the descriptors alone unless a backlog overflows.
LEMMA WorkerOrderly ==
    ASSUME IInv, Orderly, NEW w \in Workers,
           \/ \E c \in Conns : TakeTask(w, c)
           \/ \E u \in Users : SetOnlineUser(w, u)
           \/ SetAccount(w) \/ SendOverflows(w) \/ TaskEnds(w)
    PROVE  Orderly'
<1> USE ConnectionsAssumption DEF mapVars, kernelVars, histVars
<1>0. w \in Threads /\ th[w] \in ThreadState
  BY DEF Threads, IInv, TypeOK
<1>1. ASSUME NEW s, th' = [th EXCEPT ![w] = s], ~Engaged(s) \/ strain' # {},
             UNCHANGED <<clients, owner, watched, fdOf, home, accepting, strays>>,
             strain \subseteq strain'
      PROVE  Orderly'
  <2>1. strain' = {} => strain = {} /\ strays' = {} /\ Proper(w, s)
    BY <1>1 DEF Orderly, Proper
  <2> QED
    BY <1>0, <1>1, <2>1, OrderlyStep
<1>2. ASSUME NEW c \in Conns, TakeTask(w, c) PROVE Orderly'
  <2> DEFINE s == [th[w] EXCEPT !.pc = "task", !.c = c]
  <2>1. /\ th[w] = Idle /\ th' = [th EXCEPT ![w] = s]
        /\ UNCHANGED <<clients, owner, watched, fdOf, home, accepting, strays, strain>>
    BY <1>2 DEF TakeTask
  <2>2. ~Engaged(s)
    BY <2>1 DEF Engaged, Idle
  <2> HIDE DEF s
  <2> QED
    BY <1>1, <2>1, <2>2
<1>3. ASSUME NEW u \in Users, SetOnlineUser(w, u) PROVE Orderly'
  <2> DEFINE s == [th[w] EXCEPT !.pc = "bind", !.found = u]
  <2>1. /\ th[w].pc = "task" /\ th' = [th EXCEPT ![w] = s]
        /\ UNCHANGED <<clients, owner, watched, fdOf, home, accepting, strays, strain>>
    BY <1>3 DEF SetOnlineUser
  <2>2. strain = {} => ~Engaged(th[w])
    BY <1>0, <2>1 DEF Orderly, Proper, Engaged
  <2>3. strain = {} => ~Engaged(s)
    BY <1>0, <2>1, <2>2 DEF Engaged, ThreadState
  <2> HIDE DEF s
  <2> QED
    BY <1>1, <2>1, <2>3
<1>4. CASE SetAccount(w) \/ TaskEnds(w)
  <2>1. /\ th' = [th EXCEPT ![w] = Idle]
        /\ UNCHANGED <<clients, owner, watched, fdOf, home, accepting, strays, strain>>
    BY <1>4 DEF SetAccount, TaskEnds
  <2>2. ~Engaged(Idle)
    BY DEF Engaged, Idle
  <2> QED
    BY <1>1, <2>1, <2>2
<1>5. CASE SendOverflows(w)
  <2>1. /\ th' = [th EXCEPT ![w] = [th[w] EXCEPT !.pc = "disconnect"]]
        /\ UNCHANGED <<clients, owner, watched, fdOf, home, accepting, strays>>
        /\ strain' = strain \cup {"overflow"}
    BY <1>5 DEF SendOverflows
  <2> QED
    BY <1>1, <2>1
<1> QED
  BY <1>2, <1>3, <1>4, <1>5

\* handleDisconnect finds the context it was called for, and takes the number of
\* that connection, which nobody else is closing, out of the map and closes it.
LEMMA DisconnectOrderly ==
    ASSUME IInv, Registered, Orderly, NEW t \in Threads, HandleDisconnect(t)
    PROVE  Orderly'
<1> USE ConnectionsAssumption DEF mapVars, kernelVars, histVars
<1>0. th[t] \in ThreadState /\ th[t].pc \in {"disconnect", "offline", "unmap", "close"}
  BY DEF IInv, TypeOK, HandleDisconnect, Lookup, GoOffline, Unmap, Close
<1> DEFINE c == th[t].c
           fd == fdOf[c]
<1>1. c \in Conns /\ fd \in Fds
  BY <1>0, AtWork
<1>2. ASSUME strain = {}
      PROVE  /\ strays = {} /\ Proper(t, th[t]) /\ Engaged(th[t])
             /\ t \in Reactors /\ home[c] = t /\ c \in watched /\ owner[fd] = c
             /\ clients[fd] = (IF th[t].pc = "close" THEN None ELSE c) /\ th[t].todo = {}
  <2>1. strays = {} /\ Proper(t, th[t]) /\ Engaged(th[t])
    BY <1>0, <1>2 DEF Orderly, Engaged
  <2> QED
    BY <1>0, <2>1 DEF Proper
<1>3. CASE Lookup(t)
  <2> DEFINE s == IF clients[fd] = None THEN After(t)
                  ELSE [th[t] EXCEPT !.pc = "offline", !.found = clients[fd]]
  <2>1. /\ th[t].pc = "disconnect" /\ th' = [th EXCEPT ![t] = s]
        /\ UNCHANGED <<clients, owner, watched, fdOf, home, accepting, strays, strain>>
    BY <1>3 DEF Lookup
  <2>2. ASSUME strain = {} PROVE Proper(t, s)
    <3>1. clients[fd] = c /\ c # None
      BY <1>1, <1>2, <2>1, <2>2
    <3>2. s.pc = "offline" /\ s.c = c /\ s.todo = th[t].todo
      BY <1>0, <3>1 DEF ThreadState
    <3> HIDE DEF s
    <3> QED
      BY <1>2, <2>1, <2>2, <3>2 DEF Proper
  <2> HIDE DEF s
  <2> QED
    BY <1>2, <2>1, <2>2, OrderlyStep
<1>4. CASE GoOffline(t)
  <2> DEFINE s == [th[t] EXCEPT !.pc = "unmap"]
  <2>1. /\ th[t].pc = "offline" /\ th' = [th EXCEPT ![t] = s]
        /\ UNCHANGED <<clients, owner, watched, fdOf, home, accepting, strays, strain>>
    BY <1>4 DEF GoOffline
  <2>2. s.pc = "unmap" /\ s.c = c /\ s.todo = th[t].todo
    BY <1>0 DEF ThreadState
  <2> HIDE DEF s
  <2>3. strain = {} => Proper(t, s)
    BY <1>2, <2>1, <2>2 DEF Proper
  <2> QED
    BY <1>2, <2>1, <2>3, OrderlyStep
<1>5. ASSUME Unmap(t), strain' = {}
      PROVE  /\ strays' = {}
             /\ \A f \in Fds : clients'[f] \in {None, owner'[f]}
             /\ accepting' # None => owner'[fdOf'[accepting']] = accepting'
             /\ \A u \in Threads : Proper(u, th[u])'
  <2> DEFINE s == [th[t] EXCEPT !.pc = "close"]
  <2>1. /\ th[t].pc = "unmap" /\ th' = [th EXCEPT ![t] = s]
        /\ clients' = [clients EXCEPT ![fd] = None]
        /\ UNCHANGED <<owner, watched, fdOf, home, accepting, strays, strain>>
    BY <1>5 DEF Unmap
  <2>2. s.pc = "close" /\ s.c = c /\ s.todo = th[t].todo
    BY <1>0 DEF ThreadState
  <2> HIDE DEF s
  <2>3. strain = {} /\ clients \in [Fds -> Conns \cup {None}]
    BY <1>5, <2>1 DEF IInv, TypeOK
  <2>4. ASSUME NEW u \in Threads PROVE Proper(u, th[u])'
    <3>1. CASE u = t
      <4>1. th'[u] = s /\ clients'[fd] = None
        BY ZenonT(30), <1>1, <2>1, <2>3, <3>1, OneThread
      <4>2. /\ t \in Reactors /\ home[c] = t /\ c \in watched /\ owner[fd] = c
            /\ th[t].todo = {}
        BY <1>2, <2>3
      <4>3. th'[u].pc = "close" /\ th'[u].c = c /\ th'[u].todo = {}
        BY <2>2, <4>1, <4>2
      <4> QED
        BY <2>1, <3>1, <4>1, <4>2, <4>3 DEF Proper
    <3>2. CASE u # t
      <4>1. th'[u] = th[u] /\ Proper(u, th[u])
        <5>1. th'[u] = th[u]
          <6>1. th \in [Threads -> ThreadState] /\ th' = [th EXCEPT ![t] = s]
            BY <2>1 DEF IInv, TypeOK
          <6> QED BY <3>2, <6>1
        <5>2. Proper(u, th[u])
          BY <2>3 DEF Orderly
        <5> QED BY <5>1, <5>2
      <4>2. ASSUME Engaged(th[u]) PROVE fdOf[th[u].c] \in Fds /\ fdOf[th[u].c] # fd
        <5>1. th[u].c \in watched
          BY <4>1, <4>2 DEF Proper
        <5> QED
          BY <1>2, <2>3, <3>2, <4>2, <5>1, OneAtWork DEF IInv, Numbered
      <4>3. Engaged(th[u]) => clients'[fdOf[th[u].c]] = clients[fdOf[th[u].c]]
        BY <2>1, <2>3, <4>2
      <4>4. ASSUME Engaged(th[u])
            PROVE  /\ u \in Reactors /\ home'[th[u].c] = u /\ th[u].c \in watched'
                   /\ owner'[fdOf'[th[u].c]] = th[u].c
                   /\ clients'[fdOf'[th[u].c]] = IF th[u].pc = "close" THEN None ELSE th[u].c
                   /\ IF th[u].pc = "events" THEN \E e \in th[u].todo : th[u].todo = {e}
                                             ELSE th[u].todo = {}
        <5>1. UNCHANGED <<owner, watched, fdOf, home>>
          BY <2>1
        <5> QED BY <4>1, <4>3, <4>4, <5>1, Zenon DEF Proper
      <4> QED
        BY <4>1, <4>4 DEF Proper, Engaged
    <3> QED
      BY <3>1, <3>2
  <2>5. \A f \in Fds : clients'[f] \in {None, owner'[f]}
    BY <2>1, <2>3 DEF Orderly
  <2> QED
    BY <2>1, <2>3, <2>4, <2>5 DEF Orderly
<1>6. ASSUME Close(t), strain' = {}
      PROVE  /\ strays' = {}
             /\ \A f \in Fds : clients'[f] \in {None, owner'[f]}
             /\ accepting' # None => owner'[fdOf'[accepting']] = accepting'
             /\ \A u \in Threads : Proper(u, th[u])'
  <2>1. /\ th[t].pc = "close" /\ th' = [th EXCEPT ![t] = After(t)]
        /\ owner' = [owner EXCEPT ![fd] = None] /\ watched' = watched \ {owner[fd]}
        /\ strays' = IF owner[fd] \in {c, None} THEN strays ELSE strays \cup {"close"}
        /\ UNCHANGED <<clients, fdOf, home, accepting, strain>>
    BY <1>6 DEF Close
  <2>2. /\ strain = {} /\ owner \in [Fds -> Conns \cup {None}]
        /\ clients[fd] = None /\ owner[fd] = c /\ t \in Reactors /\ th[t].todo = {}
        /\ strays = {} /\ Engaged(th[t]) /\ c \in watched
    BY <1>2, <1>6, <2>1 DEF IInv, TypeOK
  <2>3. After(t).pc = "events" /\ After(t).todo = {}
    BY <1>0, <2>2 DEF After, ThreadState
  <2>4. ASSUME NEW u \in Threads PROVE Proper(u, th[u])'
    <3>1. CASE u = t
      <4>1. th'[u].pc = "events" /\ th'[u].todo = {}
        BY <2>1, <2>3, <3>1, OneThread
      <4> QED
        BY <4>1 DEF Proper, Engaged
    <3>2. CASE u # t
      <4>1. th'[u] = th[u] /\ Proper(u, th[u])
        <5>1. th'[u] = th[u]
          <6>1. th \in [Threads -> ThreadState] /\ th' = [th EXCEPT ![t] = After(t)]
            BY <2>1 DEF IInv, TypeOK
          <6> QED BY <3>2, <6>1
        <5>2. Proper(u, th[u])
          BY <2>2 DEF Orderly
        <5> QED BY <5>1, <5>2
      <4>2. ASSUME Engaged(th[u])
            PROVE  fdOf[th[u].c] \in Fds /\ fdOf[th[u].c] # fd /\ th[u].c \in watched'
        <5>1. th[u].c \in watched
          BY <4>1, <4>2 DEF Proper
        <5>2. fdOf[th[u].c] \in Fds /\ fdOf[th[u].c] # fd
          BY <2>2, <3>2, <4>2, <5>1, OneAtWork DEF IInv, Numbered
        <5> QED
          BY <2>1, <2>2, <5>1, <5>2
      <4>3. Engaged(th[u]) => owner'[fdOf[th[u].c]] = owner[fdOf[th[u].c]]
        BY <2>1, <2>2, <4>2
      <4> QED
        BY <2>1, <4>1, <4>2, <4>3 DEF Proper, Engaged
    <3> QED
      BY <3>1, <3>2
  <2>5. \A f \in Fds : clients'[f] \in {None, owner'[f]}
    BY <2>1, <2>2 DEF Orderly
  <2>6. ASSUME accepting # None PROVE owner'[fdOf[accepting]] = accepting
    <3>1. owner[fdOf[accepting]] = accepting /\ fdOf[accepting] \in Fds
      BY <2>2, <2>6 DEF Orderly, IInv, Numbered
    <3>2. c # accepting
      BY <2>2 DEF Registered, Known
    <3> QED
      BY <2>1, <2>2, <3>1, <3>2
  <2> QED
    BY <2>1, <2>2, <2>4, <2>5, <2>6
<1> QED
  BY <1>3, <1>4, <1>5, <1>6 DEF HandleDisconnect, Orderly

\* Every reachable state is orderly.
LEMMA OrderlyInvariance == Spec => []Orderly
<1>1. Init => Orderly
  BY DEF Init, Orderly, Proper, Engaged, Idle, Threads
<1>2. IInv /\ Registered /\ Orderly /\ [Next]_vars => Orderly'
  <2> SUFFICES ASSUME IInv, Registered, Orderly, [Next]_vars PROVE Orderly'
    OBVIOUS
  <2>1. CASE UNCHANGED vars
    BY <2>1 DEF vars, mapVars, kernelVars, histVars, Orderly, Proper, Engaged
  <2>2. CASE Next
    BY <2>2, AcceptOrderly, ReactorOrderly, DisconnectOrderly, WorkerOrderly DEF Next
  <2> QED
    BY <2>1, <2>2
<1> QED
  BY <1>1, <1>2, Invariance, RegisteredInvariance, PTL DEF Spec

\* handleDisconnect closes the connection it was called for although it goes by
\* the number, for any numbers of connections, descriptors, users and threads,
\* as long as no backlog overflows and events come one at a time.
THEOREM AlwaysClosesItsOwn == Spec => []ClosesItsOwn
<1>1. Orderly => ClosesItsOwn
  BY DEF Orderly, ClosesItsOwn
<1> QED
  BY <1>1, OrderlyInvariance, PTL

\* handleWrite writes to the socket of the context whose buffers it sends, under
\* the same conditions.
THEOREM AlwaysWritesItsOwn == Spec => []WritesItsOwn
<1>1. Orderly => WritesItsOwn
  BY DEF Orderly, WritesItsOwn
<1> QED
  BY <1>1, OrderlyInvariance, PTL

\* Once no thread is at work, a user whom getOnlineCtx finds has an open
\* connection, also when a task bound the user to a context after its
\* disconnect: the weak pointer of the user map no longer yields it.
THEOREM AlwaysOnlineIsOpen == Spec => []OnlineIsOpen
<1>1. IInv /\ Registered /\ Orderly => OnlineIsOpen
  <2> SUFFICES ASSUME IInv, Registered, Orderly, Quiet, strain = {}, NEW u \in Users,
                      GetOnlineCtx(u) # None
               PROVE  owner[fdOf[GetOnlineCtx(u)]] = GetOnlineCtx(u)
    BY DEF OnlineIsOpen
  <2> DEFINE c == online[u]
  <2>1. GetOnlineCtx(u) = c /\ c # None /\ Alive(c)
    BY DEF GetOnlineCtx
  <2>2. fdOf[c] \in Fds
    BY <2>1 DEF Registered, Known
  <2>3. clients[fdOf[c]] = c
    BY <2>1 DEF Alive, Quiet, Idle
  <2> QED
    BY <2>1, <2>2, <2>3 DEF Orderly
<1> QED
  BY <1>1, Invariance, RegisteredInvariance, OrderlyInvariance, PTL

-----------------------------------------------------------------------------
(* Users and their connections, with overflows and any events.              *)

Closing(s) == s.pc \in {"offline", "unmap", "close"}

\* The connection is closed, or a thread is on its way to close its number.
Doomed(c) ==
    \/ owner[fdOf[c]] # c
    \/ \E t \in Threads : Closing(th[t]) /\ fdOf[th[t].c] = fdOf[c]

\* A context has the account of a user that was bound to it; a thread takes a
\* user offline on its way to close the number of the context it found; and a
\* user bound to one connection only is found there or the connection is lost.
Bound ==
    /\ \A c \in Conns : account[c] # None => c \in session[account[c]].all
    /\ \A t \in Threads :
          /\ th[t].pc = "bind" => th[t].c \in session[th[t].found].all
          /\ th[t].pc = "offline" => fdOf[th[t].found] = fdOf[th[t].c]
    /\ \A u \in Users : \A c \in Conns :
          session[u].last = c /\ session[u].all = {c} => online[u] = c \/ Doomed(c)

\* A connection that is lost stays so in a step that closes no descriptor.
LEMMA DoomedStep ==
    ASSUME IInv, UNCHANGED <<owner, fdOf>>, NEW t \in Threads, NEW s,
           th' = [th EXCEPT ![t] = s],
           Closing(th[t]) => Closing(s) /\ s.c = th[t].c,
           NEW c \in Conns, Doomed(c) \/ (Closing(s) /\ fdOf[s.c] = fdOf[c])
    PROVE  Doomed(c)'
<1>1. CASE owner[fdOf[c]] # c
  BY <1>1 DEF Doomed
<1>2. CASE Closing(s) /\ fdOf[s.c] = fdOf[c]
  <2>1. Closing(th'[t]) /\ fdOf'[th'[t].c] = fdOf'[c]
    BY <1>2, OneThread
  <2> QED
    BY <2>1 DEF Doomed, Closing
<1>3. ASSUME NEW u \in Threads, u # t, Closing(th[u]), fdOf[th[u].c] = fdOf[c]
      PROVE  Doomed(c)'
  <2>1. Closing(th'[u]) /\ fdOf'[th'[u].c] = fdOf'[c]
    BY <1>3, OneThread
  <2> QED
    BY <2>1 DEF Doomed, Closing
<1> QED
  BY <1>1, <1>2, <1>3 DEF Doomed

\* A step of one thread that closes no descriptor keeps it, as far as the new
\* state of the thread is as it says, users keep their sessions, and one that
\* goes offline or is bound anew has the connection that it says.
LEMMA BoundStep ==
    ASSUME IInv, Bound, UNCHANGED <<owner, fdOf>>, NEW t \in Threads, NEW s,
           th' = [th EXCEPT ![t] = s],
           Closing(th[t]) => Closing(s) /\ s.c = th[t].c,
           s.pc = "bind" => s.c \in session'[s.found].all,
           s.pc = "offline" => fdOf[s.found] = fdOf[s.c],
           \A c \in Conns : account'[c] # None => c \in session'[account'[c]].all,
           \A u \in Users : session[u].all \subseteq session'[u].all,
           \A u \in Users :
              \/ session'[u] = session[u] /\ online'[u] = online[u]
              \/ session'[u].last = online'[u]
              \/ /\ session'[u] = session[u]
                 /\ \A c \in Conns : session[u].all = {c} => Closing(s) /\ fdOf[s.c] = fdOf[c]
    PROVE  Bound'
<1>1. ASSUME NEW v \in Threads
      PROVE  /\ th'[v].pc = "bind" => th'[v].c \in session'[th'[v].found].all
             /\ th'[v].pc = "offline" => fdOf'[th'[v].found] = fdOf'[th'[v].c]
  <2>1. CASE v = t
    BY <2>1, OneThread
  <2>2. CASE v # t
    <3>1. th'[v] = th[v]
      BY <2>2, OneThread
    <3>2. th[v].pc = "bind" => th[v].found \in Users
      BY DEF IInv, FoundTyped
    <3> QED
      BY <3>1, <3>2 DEF Bound
  <2> QED
    BY <2>1, <2>2
<1>2. ASSUME NEW u \in Users, NEW c \in Conns, session'[u].last = c, session'[u].all = {c}
      PROVE  online'[u] = c \/ Doomed(c)'
  <2>1. CASE session'[u] = session[u] /\ online'[u] = online[u]
    BY <1>2, <2>1, DoomedStep DEF Bound
  <2>2. CASE session'[u].last = online'[u]
    BY <1>2, <2>2
  <2>3. CASE Closing(s) /\ fdOf[s.c] = fdOf[c]
    BY <2>3, DoomedStep
  <2> QED
    BY <1>2, <2>1, <2>2, <2>3
<1> QED
  BY <1>1, <1>2 DEF Bound

\* handleAccept touches no connection that a user was bound to.
LEMMA AcceptBound ==
    ASSUME IInv, Registered, Bound,
           Register \/ \E c \in Conns, r \in Reactors : Accept(c, r)
    PROVE  Bound'
<1> USE ConnectionsAssumption DEF mapVars
<1>1. ASSUME NEW c \in Conns, NEW r \in Reactors, Accept(c, r) PROVE Bound'
  <2>1. PICK fd \in Fds : /\ owner[fd] = None
                          /\ owner' = [owner EXCEPT ![fd] = c]
                          /\ fdOf' = [fdOf EXCEPT ![c] = fd]
    BY <1>1 DEF Accept
  <2>2. fdOf[c] = None /\ UNCHANGED <<online, account, session, th>>
    BY <1>1 DEF Accept
  <2>3. owner \in [Fds -> Conns \cup {None}] /\ fdOf \in [Conns -> Fds \cup {None}]
    BY DEF IInv, TypeOK
  <2>4. ASSUME NEW d \in Conns, fdOf[d] \in Fds PROVE d # c /\ fdOf'[d] = fdOf[d]
    BY <2>1, <2>2, <2>3, <2>4
  <2>5. ASSUME NEW t \in Threads, th[t].c # None PROVE fdOf'[th[t].c] = fdOf[th[t].c]
    <3>1. th[t].c \in Conns /\ fdOf[th[t].c] \in Fds
      BY <2>5 DEF IInv, TypeOK, ThreadState, Numbered
    <3> QED
      BY <2>4, <3>1
  <2>6. ASSUME NEW t \in Threads, th[t].pc = "offline"
        PROVE  fdOf'[th[t].found] = fdOf'[th[t].c]
    <3>1. th[t].found \in Conns /\ fdOf[th[t].found] = fdOf[th[t].c] /\ fdOf[th[t].c] \in Fds
      BY <2>6, AtWork DEF IInv, FoundTyped, Bound
    <3>2. th[t].c # None
      BY <2>6, AtWork
    <3> QED
      BY <2>4, <2>5, <3>1, <3>2
  <2>7. ASSUME NEW d \in Conns, fdOf[d] \in Fds, Doomed(d) PROVE Doomed(d)'
    <3>1. CASE owner[fdOf[d]] # d
      <4>1. owner'[fdOf'[d]] # d
        BY <2>1, <2>3, <2>4, <2>7, <3>1
      <4> QED
        BY <4>1 DEF Doomed
    <3>2. ASSUME NEW t \in Threads, Closing(th[t]), fdOf[th[t].c] = fdOf[d] PROVE Doomed(d)'
      <4>1. th[t].c # None
        BY <3>2, AtWork DEF Closing
      <4>2. Closing(th'[t]) /\ fdOf'[th'[t].c] = fdOf'[d]
        BY <2>2, <2>4, <2>5, <2>7, <3>2, <4>1
      <4> QED
        BY <4>2 DEF Doomed, Closing
    <3> QED
      BY <2>7, <3>1, <3>2 DEF Doomed
  <2>8. ASSUME NEW u \in Users, NEW d \in Conns, session[u].last = d, session[u].all = {d}
        PROVE  online[u] = d \/ Doomed(d)'
    <3>1. fdOf[d] \in Fds
      BY <2>8 DEF Registered, Known
    <3> QED
      BY <2>7, <2>8, <3>1 DEF Bound
  <2> QED
    BY <2>2, <2>6, <2>8 DEF Bound
<1>2. ASSUME Register PROVE Bound'
  <2>1. UNCHANGED <<online, account, session, owner, fdOf, th>>
    BY <1>2 DEF Register
  <2>2. \A d : Doomed(d) => Doomed(d)'
    BY <2>1 DEF Doomed, Closing
  <2> QED BY <2>1, <2>2 DEF Bound
<1> QED
  BY <1>1, <1>2

\* The events of a SubReactor leave the users alone.
LEMMA ReactorBound ==
    ASSUME IInv, Bound, NEW r \in Reactors,
           \/ \E c \in Conns, ev \in EventSets : Event(r, c, ev)
           \/ Read(r) \/ Write(r) \/ Hangup(r) \/ EventsDone(r)
    PROVE  Bound'
<1> USE ConnectionsAssumption DEF mapVars, kernelVars
<1>0. r \in Threads /\ th[r] \in ThreadState
  BY DEF IInv, TypeOK, Threads
<1>1. UNCHANGED <<owner, fdOf, account, session, online>>
  BY DEF Event, Read, Write, Hangup, EventsDone
<1>2. th[r].pc \in {"idle", "events"}
  <2>1. \A c, ev : Event(r, c, ev) => th[r] = Idle
    BY DEF Event
  <2>2. Read(r) \/ Write(r) \/ Hangup(r) \/ EventsDone(r) => th[r].pc = "events"
    BY DEF Read, Write, Hangup, EventsDone
  <2>3. Idle.pc = "idle"
    BY DEF Idle
  <2> QED
    BY <2>1, <2>2, <2>3
<1>3. \E s : th' = [th EXCEPT ![r] = s] /\ s.pc \in {"idle", "events", "disconnect"}
  <2>1. \A e : \A next \in {"events", "disconnect"} :
            Handled(r, e, next).pc \in {"events", "disconnect"}
    BY <1>0 DEF Handled, ThreadState
  <2>2. Idle.pc = "idle"
    BY DEF Idle
  <2>3. ASSUME NEW c \in Conns, NEW ev \in EventSets, Event(r, c, ev)
        PROVE  \E s : th' = [th EXCEPT ![r] = s] /\ s.pc \in {"idle", "events", "disconnect"}
    <3> DEFINE s == [pc |-> "events", c |-> clients[fdOf[c]], todo |-> ev, found |-> None]
    <3>1. th' = [th EXCEPT ![r] = s] /\ s.pc = "events"
      BY <2>3 DEF Event
    <3> HIDE DEF s
    <3> QED
      BY <3>1
  <2>4. CASE Read(r) \/ Write(r) \/ Hangup(r) \/ EventsDone(r)
    <3>1. CASE Read(r) \/ Write(r)
      <4>1. \E e : \E next \in {"events", "disconnect"} :
                th' = [th EXCEPT ![r] = Handled(r, e, next)]
        BY <3>1, Zenon DEF Read, Write
      <4> QED
        BY <2>1, <4>1
    <3>2. CASE Hangup(r)
      <4>1. th' = [th EXCEPT ![r] = Handled(r, "HUP", "disconnect")]
        BY <3>2 DEF Hangup
      <4> QED BY <2>1, <4>1
    <3>3. CASE EventsDone(r)
      <4>1. th' = [th EXCEPT ![r] = Idle]
        BY <3>3 DEF EventsDone
      <4> QED BY <2>2, <4>1
    <3> QED
      BY <2>4, <3>1, <3>2, <3>3
  <2> QED
    BY <2>3, <2>4
<1> QED
  BY <1>0, <1>1, <1>2, <1>3, BoundStep DEF Bound, Closing

\* A task enters a user into the map and into the history at once, and gives the
\* context the account afterwards.
LEMMA WorkerBound ==
    ASSUME IInv, Bound, NEW w \in Workers,
           \/ \E c \in Conns : TakeTask(w, c)
           \/ \E u \in Users : SetOnlineUser(w, u)
           \/ SetAccount(w) \/ SendOverflows(w) \/ TaskEnds(w)
    PROVE  Bound'
<1> USE ConnectionsAssumption DEF mapVars, kernelVars
<1>0. w \in Threads /\ th[w] \in ThreadState
  BY DEF IInv, TypeOK, Threads
<1>1. ASSUME NEW s, th' = [th EXCEPT ![w] = s], th[w].pc \in {"idle", "task"},
             s.pc \in {"idle", "task", "disconnect"},
             UNCHANGED <<owner, fdOf, account, session, online>>
      PROVE  Bound'
  BY <1>0, <1>1, BoundStep DEF Bound, Closing
<1>4. ASSUME NEW c \in Conns, TakeTask(w, c) PROVE Bound'
  <2> DEFINE s == [th[w] EXCEPT !.pc = "task", !.c = c]
  <2>1. /\ th[w] = Idle /\ th' = [th EXCEPT ![w] = s]
        /\ UNCHANGED <<owner, fdOf, account, session, online>>
    BY <1>4 DEF TakeTask
  <2>2. s.pc = "task" /\ th[w].pc = "idle"
    BY <1>0, <2>1 DEF ThreadState, Idle
  <2> HIDE DEF s
  <2> QED
    BY <1>1, <2>1, <2>2
<1>5. CASE SendOverflows(w)
  <2> DEFINE s == [th[w] EXCEPT !.pc = "disconnect"]
  <2>1. /\ th[w].pc = "task" /\ th' = [th EXCEPT ![w] = s]
        /\ UNCHANGED <<owner, fdOf, account, session, online>>
    BY <1>5 DEF SendOverflows
  <2>2. s.pc = "disconnect"
    BY <1>0 DEF ThreadState
  <2> HIDE DEF s
  <2> QED
    BY <1>1, <2>1, <2>2
<1>6. CASE TaskEnds(w)
  <2>1. /\ th[w].pc = "task" /\ th' = [th EXCEPT ![w] = Idle] /\ Idle.pc = "idle"
        /\ UNCHANGED <<owner, fdOf, account, session, online>>
    BY <1>6 DEF TaskEnds, Idle
  <2> QED
    BY <1>1, <2>1
<1>2. ASSUME NEW u \in Users, SetOnlineUser(w, u) PROVE Bound'
  <2> DEFINE s == [th[w] EXCEPT !.pc = "bind", !.found = u]
  <2>1. /\ th[w].pc = "task" /\ th' = [th EXCEPT ![w] = s]
        /\ online' = [online EXCEPT ![u] = th[w].c]
        /\ session' = [session EXCEPT ![u] = [last |-> th[w].c,
                                             all |-> session[u].all \cup {th[w].c}]]
        /\ UNCHANGED <<account, owner, fdOf>>
    BY <1>2 DEF SetOnlineUser
  <2>2. s.pc = "bind" /\ s.c = th[w].c /\ s.found = u
    BY <1>0 DEF ThreadState
  <2>3. online \in [Users -> Conns \cup {None}] /\ session \in [Users -> Sessions]
    BY DEF IInv, TypeOK
  <2> HIDE DEF s
  <2>4. /\ session'[u].last = th[w].c /\ session'[u].all = session[u].all \cup {th[w].c}
        /\ online'[u] = th[w].c
    BY <2>1, <2>3
  <2>5. \A v \in Users : v # u => session'[v] = session[v] /\ online'[v] = online[v]
    BY <2>1, <2>3
  <2>6. \A v \in Users : session[v].all \subseteq session'[v].all
    BY <2>4, <2>5
  <2>7. \A c \in Conns : account'[c] # None => c \in session'[account'[c]].all
    <3>1. account \in [Conns -> Users \cup {None}]
      BY DEF IInv, TypeOK
    <3> QED
      BY <2>1, <2>6, <3>1 DEF Bound
  <2>8. \A v \in Users : \/ session'[v] = session[v] /\ online'[v] = online[v]
                         \/ session'[v].last = online'[v]
    BY <2>4, <2>5
  <2> QED
    BY <1>0, <2>1, <2>2, <2>4, <2>6, <2>7, <2>8, BoundStep DEF Closing
<1>3. CASE SetAccount(w)
  <2>1. /\ th[w].pc = "bind" /\ th' = [th EXCEPT ![w] = Idle]
        /\ account' = [account EXCEPT ![th[w].c] = th[w].found]
        /\ UNCHANGED <<owner, fdOf, session, online>>
    BY <1>3 DEF SetAccount
  <2>2. account \in [Conns -> Users \cup {None}] /\ Idle.pc = "idle"
    BY DEF IInv, TypeOK, Idle
  <2>3. \A c \in Conns : account'[c] # None => c \in session'[account'[c]].all
    <3> TAKE c \in Conns
    <3>1. CASE c = th[w].c
      BY <1>0, <2>1, <2>2, <3>1 DEF Bound
    <3>2. CASE c # th[w].c
      BY <2>1, <2>2, <3>2 DEF Bound
    <3> QED
      BY <3>1, <3>2
  <2> QED
    BY <1>0, <2>1, <2>2, <2>3, BoundStep DEF Closing
<1> QED
  BY <1>2, <1>3, <1>4, <1>5, <1>6

\* handleDisconnect takes a user offline through the context it found, on its
\* way to close that context's number: a user with no other connection is lost
\* with it.
LEMMA DisconnectBound ==
    ASSUME IInv, Registered, Bound, NEW t \in Threads, HandleDisconnect(t)
    PROVE  Bound'
<1> USE ConnectionsAssumption DEF mapVars, kernelVars
<1>0. /\ th[t] \in ThreadState /\ th[t].c \in Conns /\ fdOf[th[t].c] \in Fds
      /\ After(t).pc \in {"idle", "events"}
  BY AtWork DEF HandleDisconnect, Lookup, GoOffline, Unmap, Close, IInv, TypeOK,
     After, Idle, ThreadState
<1>1. CASE Lookup(t)
  <2> DEFINE found == clients[fdOf[th[t].c]]
             s == IF found = None THEN After(t)
                  ELSE [th[t] EXCEPT !.pc = "offline", !.found = found]
  <2>1. /\ th[t].pc = "disconnect" /\ th' = [th EXCEPT ![t] = s]
        /\ UNCHANGED <<owner, fdOf, account, session, online>>
    BY <1>1 DEF Lookup
  <2>2. s.pc # "bind" /\ (s.pc = "offline" => fdOf[s.found] = fdOf[s.c])
    <3>1. CASE found = None
      BY <1>0, <3>1
    <3>2. CASE found # None
      <4>1. s.pc = "offline" /\ s.found = found /\ s.c = th[t].c
        BY <1>0, <3>2 DEF ThreadState
      <4>2. fdOf[found] = fdOf[th[t].c]
        BY <1>0, <3>2 DEF Registered
      <4> QED
        BY <4>1, <4>2
    <3> QED
      BY <3>1, <3>2
  <2> HIDE DEF s
  <2> QED
    BY <2>1, <2>2, BoundStep DEF Bound, Closing
<1>2. CASE GoOffline(t)
  <2> DEFINE s == [th[t] EXCEPT !.pc = "unmap"]
  <2>1. /\ th[t].pc = "offline" /\ th' = [th EXCEPT ![t] = s]
        /\ UNCHANGED <<owner, fdOf, account, session>>
    BY <1>2 DEF GoOffline
  <2>2. s.pc = "unmap" /\ s.c = th[t].c
    BY <1>0 DEF ThreadState
  <2>3. /\ online \in [Users -> Conns \cup {None}] /\ session \in [Users -> Sessions]
        /\ account \in [Conns -> Users \cup {None}]
    BY DEF IInv, TypeOK
  <2>4. th[t].found \in Conns /\ fdOf[th[t].found] = fdOf[th[t].c]
    BY <2>1 DEF IInv, FoundTyped, Bound
  <2>5. ASSUME NEW u \in Users, online'[u] # online[u]
        PROVE  \A c \in Conns : session[u].all = {c} => Closing(s) /\ fdOf[s.c] = fdOf[c]
    <3>1. u = account[th[t].found]
      BY <1>2, <2>3, <2>5 DEF GoOffline, AccountRead
    <3>2. th[t].found \in session[u].all
      BY <2>4, <3>1 DEF Bound
    <3> QED
      BY <2>2, <2>4, <3>2 DEF Closing
  <2> HIDE DEF s
  <2>6. \A u \in Users :
           \/ session'[u] = session[u] /\ online'[u] = online[u]
           \/ session'[u].last = online'[u]
           \/ /\ session'[u] = session[u]
              /\ \A c \in Conns : session[u].all = {c} => Closing(s) /\ fdOf[s.c] = fdOf[c]
    BY <2>1, <2>5
  <2>7. \A c \in Conns : account'[c] # None => c \in session'[account'[c]].all
    BY <2>1 DEF Bound
  <2>8. Closing(s)
    BY <2>2 DEF Closing
  <2>9. \A u \in Users : session[u].all \subseteq session'[u].all
    BY <2>1
  <2>10. /\ Closing(th[t]) => Closing(s) /\ s.c = th[t].c
         /\ s.pc # "bind" /\ s.pc # "offline"
    BY <2>2, <2>8
  <2>11. th' = [th EXCEPT ![t] = s] /\ UNCHANGED <<owner, fdOf>>
    BY <2>1
  <2> QED
    BY <2>6, <2>7, <2>9, <2>10, <2>11, BoundStep
<1>3. CASE Unmap(t)
  <2> DEFINE s == [th[t] EXCEPT !.pc = "close"]
  <2>1. /\ th[t].pc = "unmap" /\ th' = [th EXCEPT ![t] = s]
        /\ UNCHANGED <<owner, fdOf, account, session, online>>
    BY <1>3 DEF Unmap
  <2>2. s.pc = "close" /\ s.c = th[t].c
    BY <1>0 DEF ThreadState
  <2> HIDE DEF s
  <2> QED
    BY <2>1, <2>2, BoundStep DEF Bound, Closing
<1>4. CASE Close(t)
  <2>1. /\ th' = [th EXCEPT ![t] = After(t)]
        /\ owner' = [owner EXCEPT ![fdOf[th[t].c]] = None]
        /\ UNCHANGED <<fdOf, account, session, online>>
    BY <1>4 DEF Close
  <2>2. owner \in [Fds -> Conns \cup {None}] /\ fdOf \in [Conns -> Fds \cup {None}]
    BY DEF IInv, TypeOK
  <2>3. \A v \in Threads : v # t => th'[v] = th[v]
    BY <2>1, OneThread
  <2>4. th'[t].pc \in {"idle", "events"}
    BY <1>0, <2>1, OneThread
  <2>5. ASSUME NEW c \in Conns, fdOf[c] \in Fds, Doomed(c) PROVE Doomed(c)'
    <3>1. CASE owner[fdOf[c]] # c \/ fdOf[c] = fdOf[th[t].c]
      <4>1. owner'[fdOf'[c]] # c
        BY <2>1, <2>2, <2>5, <3>1
      <4> QED
        BY <4>1 DEF Doomed
    <3>2. ASSUME NEW v \in Threads, v # t, Closing(th[v]), fdOf[th[v].c] = fdOf[c]
          PROVE  Doomed(c)'
      <4>1. Closing(th'[v]) /\ fdOf'[th'[v].c] = fdOf'[c]
        BY <2>1, <2>3, <3>2
      <4> QED
        BY <4>1 DEF Doomed, Closing
    <3> QED
      BY <2>5, <3>1, <3>2 DEF Doomed
  <2>6. \A v \in Threads :
          /\ th'[v].pc = "bind" => th'[v].c \in session[th'[v].found].all
          /\ th'[v].pc = "offline" => fdOf[th'[v].found] = fdOf[th'[v].c]
    BY <2>3, <2>4 DEF Bound
  <2>7. ASSUME NEW u \in Users, NEW c \in Conns, session[u].last = c, session[u].all = {c}
        PROVE  online[u] = c \/ Doomed(c)'
    <3>1. fdOf[c] \in Fds
      BY <2>7 DEF Registered, Known
    <3> QED
      BY <2>5, <2>7, <3>1 DEF Bound
  <2> QED
    BY <2>1, <2>6, <2>7 DEF Bound
<1> QED
  BY <1>1, <1>2, <1>3, <1>4 DEF HandleDisconnect

\* Every reachable state has its users as Bound says.
LEMMA BoundInvariance == Spec => []Bound
<1>1. Init => Bound
  <2> SUFFICES ASSUME Init PROVE Bound
    OBVIOUS
  <2>1. \A u \in Users : session[u].all = {}
    BY DEF Init
  <2>2. \A t \in Threads : th[t].pc = "idle"
    BY DEF Init, Idle
  <2> QED
    BY <2>1, <2>2 DEF Init, Bound
<1>2. IInv /\ Registered /\ Bound /\ [Next]_vars => Bound'
  <2> SUFFICES ASSUME IInv, Registered, Bound, [Next]_vars PROVE Bound'
    OBVIOUS
  <2>1. CASE UNCHANGED vars
    BY <2>1 DEF vars, mapVars, kernelVars, Bound, Doomed, Closing
  <2>2. CASE Next
    BY <2>2, AcceptBound, ReactorBound, DisconnectBound, WorkerBound DEF Next
  <2> QED
    BY <2>1, <2>2
<1> QED
  BY <1>1, <1>2, Invariance, RegisteredInvariance, PTL DEF Spec

\* However tasks, events and disconnects interleave, with overflows and reused
\* numbers: once no thread is at work, a user whose only connection is still
\* open is found online on it.
THEOREM AlwaysBoundIsReachable == Spec => []BoundIsReachable
<1> USE ConnectionsAssumption
<1>1. IInv /\ Registered /\ Bound => BoundIsReachable
  <2> SUFFICES ASSUME IInv, Registered, Bound, Quiet, NEW u \in Users,
                      session[u].last # None,
                      owner[fdOf[session[u].last]] = session[u].last,
                      session[u].all = {session[u].last}
               PROVE  GetOnlineCtx(u) = session[u].last
    BY DEF BoundIsReachable
  <2> DEFINE c == session[u].last
  <2>1. c \in Conns
    BY DEF IInv, TypeOK, Sessions
  <2>2. fdOf[c] \in Fds /\ accepting # c
    BY DEF Registered, Known
  <2>3. \A t \in Threads : th[t].pc = "idle"
    BY DEF Quiet, Idle
  <2>4. online[u] = c
    BY <2>1, <2>3 DEF Bound, Doomed, Closing
  <2>5. clients[fdOf[c]] = c
    BY <2>1, <2>2, <2>3 DEF IInv, OpenIsMapped
  <2> QED
    BY <2>1, <2>4, <2>5 DEF GetOnlineCtx, Alive
<1> QED
  BY <1>1, Invariance, RegisteredInvariance, BoundInvariance, PTL
=============================================================================
