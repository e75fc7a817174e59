---------------------------- MODULE ServerProofs ----------------------------
(***************************************************************************)
(* What the servers that browsers and native clients talk to guarantee,    *)
(* for every number of pages, slots, connections, sessions and clients:    *)
(* the web server (WebServer), the WebRTC connections (WebRtcClients) and  *)
(* the native stream server's table (NativeStream).                        *)
(***************************************************************************)
EXTENDS WebRtcClients, WebServer, NativeStream, TLAPS, FiniteSetTheorems, SequenceTheorems,
        WellFoundedInduction

----------------------------------------------------------------------------
(* The web server: its ring of sessions, its threads and its sockets. *)

\* Where the ring holds the i-th entry's login, in the order of the logins.
LoginAt(i) ==
    Len(issued) + 1 + i - sessionNext - (IF i < sessionNext THEN 0 ELSE sessionCount)

\* The ring of sessions is the last logins, turned by sessionNext.
RingIsTheEnd ==
    /\ Len(issued) < MaxSessions => sessionCount = Len(issued) /\ sessionNext = 0
    /\ Len(issued) >= MaxSessions => sessionCount = MaxSessions
    /\ \A i \in 0 .. sessionCount - 1 : sessions[i] = issued[LoginAt(i)]

\* What a start and a stop know of the listener's thread at each place.
ListenerIsKnown ==
    /\ window = "create" => acceptor = "none" /\ listening /\ running
    /\ window = "idle" => (running <=> acceptor # "none") /\ (running <=> listening)
    /\ window = "wait" => running /\ (listening <=> acceptor # "none")
    /\ window # "wait" /\ running => ~stopRequested

WebInv == WebTypeOK /\ RingIsTheEnd /\ SocketsHaveOneOwner /\ ListenerIsKnown

LEMMA RingTurns ==
    ASSUME NEW m \in Nat \ {0}, NEW next \in 0 .. m - 1
    PROVE  (next + 1) % m = IF next + 1 = m THEN 0 ELSE next + 1
OBVIOUS

\* A session that is still valid is one of the last to have been opened.
LEMMA NewestFromRing == WebTypeOK /\ RingIsTheEnd => PlayersAreTheNewest
<1> SUFFICES ASSUME WebTypeOK, RingIsTheEnd PROVE PlayersAreTheNewest
    OBVIOUS
<1> DEFINE n == Len(issued)
<1>1. n \in Nat /\ MaxSessions \in Nat \ {0}
  BY WebAssumption DEF WebTypeOK
<1>2. sessionCount \in Nat /\ sessionNext \in Nat /\ sessionNext < MaxSessions
  BY <1>1 DEF WebTypeOK
<1>3. /\ n < MaxSessions => sessionCount = n /\ sessionNext = 0
      /\ n >= MaxSessions => sessionCount = MaxSessions
  BY DEF RingIsTheEnd
<1>4. \A i \in 0 .. sessionCount - 1 : LoginAt(i) \in {k \in 1 .. n : k > n - MaxSessions}
  BY <1>1, <1>2, <1>3 DEF LoginAt
<1>5. \A k \in 1 .. n : k > n - MaxSessions => \E i \in 0 .. sessionCount - 1 : LoginAt(i) = k
  <2> SUFFICES ASSUME NEW k \in 1 .. n, k > n - MaxSessions
               PROVE  \E i \in 0 .. sessionCount - 1 : LoginAt(i) = k
      OBVIOUS
  <2> DEFINE old == k - 1 - n + sessionNext
  <2>1. CASE old >= 0
    <3>1. old \in 0 .. sessionCount - 1 /\ old < sessionNext
      BY <1>1, <1>2, <1>3, <2>1
    <3>2. LoginAt(old) = k
      BY <1>1, <1>2, <3>1 DEF LoginAt
    <3> QED BY <3>1, <3>2
  <2>2. CASE old < 0
    <3>1. old + sessionCount \in 0 .. sessionCount - 1 /\ ~(old + sessionCount < sessionNext)
      BY <1>1, <1>2, <1>3, <2>2
    <3>2. LoginAt(old + sessionCount) = k
      BY <1>1, <1>2, <3>1 DEF LoginAt
    <3> QED BY <3>1, <3>2
  <2> QED BY <1>1, <1>2, <2>1, <2>2
<1> HIDE DEF n
<1>6. \A i \in 0 .. sessionCount - 1 : sessions[i] = issued[LoginAt(i)]
  BY DEF RingIsTheEnd
<1> QED BY <1>4, <1>5, <1>6 DEF PlayersAreTheNewest, n

LEMMA WebStarts == WebInit => WebInv
<1> SUFFICES ASSUME WebInit PROVE WebInv
    OBVIOUS
<1> USE WebAssumption DEF WebInit
<1>1. WebTypeOK
  <2>1. Closed \in ClientThreads
    BY DEF Closed, ClientThreads, Transports
  <2>2. <<>> \in Seq(Nat) /\ MaxSessions \in Nat \ {0} /\ MaxFails \in Nat \ {0}
    OBVIOUS
  <2>3. sessions \in [0 .. MaxSessions - 1 -> Nat] /\ sessionNext \in 0 .. MaxSessions - 1
        /\ sessionCount \in 0 .. MaxSessions /\ fails \in 0 .. MaxFails - 1
    BY <2>2
  <2>4. worker \in [Conns -> ClientThreads] /\ fd \in [Conns -> {"none", "thread", "native"}]
    BY <2>1
  <2> QED BY <2>2, <2>3, <2>4 DEF WebTypeOK, Transports
<1>2. RingIsTheEnd
  BY DEF RingIsTheEnd, LoginAt
<1>3. SocketsHaveOneOwner /\ ListenerIsKnown
  BY DEF SocketsHaveOneOwner, ListenerIsKnown, Closed
<1> QED BY <1>1, <1>2, <1>3 DEF WebInv

LEMMA ClientsKeepTheRing ==
    ASSUME NEW c \in Conns, ClientThread(c) \/ NativeDrops(c), ~SessionAdd(c)
    PROVE  UNCHANGED <<sessions, sessionCount, sessionNext, issued>>
BY DEF ClientThread, NativeDrops, authVars, Headers, Page, HandleOffer, Order, LoginChecks, Login, LoginFails,
       LoginSucceeds,
       AskTransport, Settle, Choose, Shared, Upgrade, Close

LEMMA RingKept == WebInv /\ [WebNext]_webVars => RingIsTheEnd'
<1> SUFFICES ASSUME WebInv, [WebNext]_webVars PROVE RingIsTheEnd'
    OBVIOUS
<1>1. CASE UNCHANGED <<sessions, sessionCount, sessionNext, issued>>
  BY <1>1 DEF WebInv, RingIsTheEnd, LoginAt
<1>2. ASSUME NEW c \in Conns, SessionAdd(c) PROVE RingIsTheEnd'
  <2> DEFINE token == worker[c].token
             entry == IF sessionCount < MaxSessions THEN sessionCount ELSE sessionNext
  <2>1. token \in Nat /\ issued \in Seq(Nat) /\ MaxSessions \in Nat \ {0}
        /\ sessionCount \in Nat /\ sessionNext \in 0 .. MaxSessions - 1
        /\ sessions \in [0 .. MaxSessions - 1 -> Nat]
    BY WebAssumption DEF WebInv, WebTypeOK, ClientThreads
  <2>2. issued' = Append(issued, token) /\ sessions' = [sessions EXCEPT ![entry] = token]
    BY <1>2 DEF SessionAdd
  <2>3. Len(issued') = Len(issued) + 1 /\ issued'[Len(issued) + 1] = token
        /\ \A k \in 1 .. Len(issued) : issued'[k] = issued[k]
    BY <2>1, <2>2
  <2>4. /\ Len(issued) < MaxSessions => sessionCount = Len(issued) /\ sessionNext = 0
        /\ Len(issued) >= MaxSessions => sessionCount = MaxSessions
        /\ \A i \in 0 .. sessionCount - 1 : sessions[i] = issued[LoginAt(i)]
    BY DEF WebInv, RingIsTheEnd
  <2>5. Len(issued) \in Nat
    BY <2>1
  <2>8. entry = IF sessionCount < MaxSessions THEN sessionCount ELSE sessionNext
    OBVIOUS
  <2> HIDE DEF token, entry
  <2>6. CASE sessionCount < MaxSessions
    <3>1. sessionCount' = sessionCount + 1 /\ sessionNext' = 0 /\ entry = sessionCount
          /\ sessionCount = Len(issued) /\ sessionNext = 0
      BY <1>2, <2>1, <2>4, <2>5, <2>6, <2>8 DEF SessionAdd
    <3>0. sessions' = [sessions EXCEPT ![sessionCount] = token] /\ sessionCount \in 0 .. MaxSessions - 1
      BY <2>1, <2>2, <2>6, <3>1
    <3>2. ASSUME NEW i \in 0 .. sessionCount - 1 PROVE LoginAt(i) = i + 1
      <4>1. ~(i < sessionNext) /\ i \in Int
        BY <2>1, <3>1
      <4> QED BY <2>1, <2>5, <3>1, <4>1 DEF LoginAt
    <3>3. ASSUME NEW i \in 0 .. sessionCount PROVE LoginAt(i)' = i + 1
      <4>1. ~(i < sessionNext') /\ i \in Int
        BY <2>1, <3>1
      <4> QED BY <2>1, <2>3, <2>5, <3>1, <4>1 DEF LoginAt
    <3>4. ASSUME NEW i \in 0 .. sessionCount PROVE sessions'[i] = issued'[i + 1]
      <4>1. CASE i = sessionCount
        BY <2>1, <2>3, <3>0, <3>1, <4>1
      <4>2. CASE i # sessionCount
        <5>1. i \in 0 .. sessionCount - 1 /\ sessions'[i] = sessions[i] /\ i + 1 \in 1 .. Len(issued)
          BY <2>1, <2>5, <3>0, <3>1, <4>2
        <5> QED BY <2>3, <2>4, <3>2, <5>1
      <4> QED BY <4>1, <4>2
    <3>5. \A i \in 0 .. sessionCount' - 1 : sessions'[i] = issued'[LoginAt(i)']
      BY <2>1, <3>1, <3>3, <3>4
    <3> QED BY <2>1, <2>3, <2>5, <2>6, <3>1, <3>5 DEF RingIsTheEnd
  <2>7. CASE ~(sessionCount < MaxSessions)
    <3>1. sessionCount' = sessionCount /\ entry = sessionNext /\ sessionCount = MaxSessions
          /\ Len(issued) >= MaxSessions
      BY <1>2, <2>1, <2>4, <2>5, <2>7, <2>8 DEF SessionAdd
    <3>2. sessionNext' = IF sessionNext + 1 = MaxSessions THEN 0 ELSE sessionNext + 1
      BY <1>2, <2>1, <2>7, RingTurns DEF SessionAdd
    <3>3. ASSUME NEW i \in 0 .. MaxSessions - 1
          PROVE  /\ i = sessionNext => LoginAt(i)' = Len(issued) + 1
                 /\ i # sessionNext => LoginAt(i)' = LoginAt(i) /\ LoginAt(i) \in 1 .. Len(issued)
      <4>0. LoginAt(i)' = Len(issued) + 2 + i - sessionNext' - (IF i < sessionNext' THEN 0 ELSE sessionCount)
        BY <2>3, <2>5, <3>1 DEF LoginAt
      <4>1. LoginAt(i) = Len(issued) + 1 + i - sessionNext - (IF i < sessionNext THEN 0 ELSE sessionCount)
        BY DEF LoginAt
      <4>2. i \in Int /\ i >= 0 /\ i < MaxSessions /\ sessionNext \in Int /\ sessionNext' \in Int
            /\ sessionNext >= 0 /\ sessionNext < MaxSessions
            /\ MaxSessions \in Int /\ Len(issued) \in Int /\ sessionCount = MaxSessions
            /\ (sessionNext' = 0 \/ sessionNext' = sessionNext + 1) /\ Len(issued) >= MaxSessions
        BY <2>1, <2>5, <3>1, <3>2
      <4>3. CASE i = sessionNext
        <5>1. LoginAt(i)' = Len(issued) + 1
          BY <3>2, <4>0, <4>2, <4>3
        <5> QED BY <4>3, <5>1
      <4>4. CASE i # sessionNext
        <5>1. LoginAt(i)' = LoginAt(i)
          <6>1. CASE sessionNext + 1 = MaxSessions
            <7>1. i < sessionNext /\ ~(i < sessionNext') /\ sessionNext' = 0
              BY <3>2, <4>2, <4>4, <6>1
            <7> QED BY <4>0, <4>1, <4>2, <6>1, <7>1
          <6>2. CASE sessionNext + 1 # MaxSessions
            <7>1. (i < sessionNext <=> i < sessionNext') /\ sessionNext' = sessionNext + 1
              BY <3>2, <4>2, <4>4, <6>2
            <7>2. (IF i < sessionNext' THEN 0 ELSE sessionCount) = (IF i < sessionNext THEN 0 ELSE sessionCount)
              BY <7>1
            <7> QED BY <4>0, <4>1, <4>2, <7>1, <7>2
          <6> QED BY <6>1, <6>2
        <5>2. LoginAt(i) \in 1 .. Len(issued)
          <6>1. CASE i < sessionNext
            BY <4>1, <4>2, <6>1
          <6>2. CASE ~(i < sessionNext)
            BY <4>1, <4>2, <4>4, <6>2
          <6> QED BY <6>1, <6>2
        <5> QED BY <4>4, <5>1, <5>2
      <4> QED BY <4>3, <4>4
    <3>4. ASSUME NEW i \in 0 .. MaxSessions - 1 PROVE sessions'[i] = issued'[LoginAt(i)']
      <4>1. CASE i = sessionNext
        BY <2>1, <2>2, <2>3, <3>1, <3>3, <4>1
      <4>2. CASE i # sessionNext
        <5>1. sessions'[i] = sessions[i]
          BY <2>1, <2>2, <3>1, <4>2
        <5> QED BY <2>3, <2>4, <3>1, <3>3, <4>2, <5>1
      <4> QED BY <4>1, <4>2
    <3> QED BY <2>1, <2>3, <2>5, <3>1, <3>4 DEF RingIsTheEnd
  <2> QED BY <2>6, <2>7
<1>3. CASE ServerStarts \/ Create \/ ServerStops \/ Stopped \/ Listener
  BY <1>1, <1>3 DEF ServerStarts, Create, ServerStops, Stopped, Listener, AcceptCheck,
         AcceptNothing, AcceptOne, authVars
<1>4. CASE LockoutEnds \/ SetPassword
  BY <1>1, <1>4 DEF LockoutEnds, SetPassword, authVars
<1>5. CASE UNCHANGED webVars
  BY <1>1, <1>5 DEF webVars, authVars
<1> QED BY <1>1, <1>2, <1>3, <1>4, <1>5, ClientsKeepTheRing DEF WebNext

LEMMA ListenerKept == WebInv /\ [WebNext]_webVars => ListenerIsKnown'
<1> SUFFICES ASSUME WebInv, [WebNext]_webVars PROVE ListenerIsKnown'
    OBVIOUS
<1> USE DEF WebInv, WebTypeOK, ListenerIsKnown
<1>1. CASE ServerStarts
  BY <1>1 DEF ServerStarts
<1>2. CASE Create
  BY <1>2 DEF Create
<1>3. CASE ServerStops
  BY <1>3 DEF ServerStops
<1>4. CASE Stopped
  BY <1>4 DEF Stopped
<1>5. CASE AcceptCheck
  BY <1>5 DEF AcceptCheck
<1>6. CASE AcceptNothing
  BY <1>6 DEF AcceptNothing
<1>7. ASSUME NEW c \in Conns, AcceptOne(c) PROVE ListenerIsKnown'
  BY <1>7 DEF AcceptOne
<1>8. CASE UNCHANGED listenVars
  BY <1>8 DEF listenVars
<1>9. ASSUME NEW c \in Conns, ClientThread(c) \/ NativeDrops(c) PROVE UNCHANGED listenVars
  BY <1>9 DEF ClientThread, NativeDrops, Elsewhere, Headers, Page, HandleOffer, Order, LoginChecks, Login,
         LoginFails,
       LoginSucceeds, SessionAdd, AskTransport, Settle, Choose, Shared, Upgrade, Close
<1>10. LockoutEnds \/ SetPassword \/ UNCHANGED webVars => UNCHANGED listenVars
  BY DEF LockoutEnds, SetPassword, Elsewhere, webVars
<1> QED BY <1>1, <1>2, <1>3, <1>4, <1>5, <1>6, <1>7, <1>8, <1>9, <1>10 DEF WebNext, Listener

\* What most steps of a connection's thread do: it goes on, the sockets stay.
Moves(c) ==
    /\ worker[c].at # "none" /\ UNCHANGED <<fd, adopted>>
    /\ \E thread \in ClientThreads : worker' = [worker EXCEPT ![c] = thread]

LEMMA GotoMoves ==
    ASSUME WebTypeOK, NEW c \in Conns, worker[c].at # "none", UNCHANGED <<fd, adopted>>,
           NEW place_ \in {"none", "headers", "route", "end", "password", "wrong", "right", "session",
                           "settle", "settled"}, Goto(c, place_)
    PROVE  Moves(c)
<1> DEFINE thread == [worker[c] EXCEPT !.at = place_]
<1>1. thread \in ClientThreads
  BY DEF WebTypeOK, ClientThreads
<1>2. worker' = [worker EXCEPT ![c] = thread]
  BY DEF Goto
<1> QED BY <1>1, <1>2 DEF Moves

LEMMA MovesKeep ==
    ASSUME WebTypeOK, SocketsHaveOneOwner, NEW c \in Conns, Moves(c)
    PROVE  /\ worker' \in [Conns -> ClientThreads] /\ fd' = fd /\ adopted' = adopted
           /\ SocketsHaveOneOwner'
<1>1. PICK thread \in ClientThreads : worker' = [worker EXCEPT ![c] = thread]
  BY DEF Moves
<1>2. worker' \in [Conns -> ClientThreads] /\ \A d \in Conns : d # c => worker'[d] = worker[d]
  BY <1>1 DEF WebTypeOK
<1>3. fd' = fd /\ adopted' = adopted /\ fd[c] = "thread" /\ c \notin adopted
  BY DEF Moves, SocketsHaveOneOwner
<1> QED BY <1>2, <1>3 DEF SocketsHaveOneOwner

LEMMA MostStepsMove ==
    ASSUME WebTypeOK, NEW c \in Conns, ClientThread(c), ~Upgrade(c), ~Close(c)
    PROVE  Moves(c)
<1>1. CASE Headers(c)
  <2>1. PICK kind \in Kinds, token \in 0 .. made, right \in BOOLEAN, want \in Transports :
            worker' = [worker EXCEPT ![c] = [at |-> "route", kind |-> kind, token |-> token,
                                             right |-> right, want |-> want]]
    BY <1>1 DEF Headers
  <2>2. token \in Nat
    BY DEF WebTypeOK
  <2>3. [at |-> "route", kind |-> kind, token |-> token, right |-> right, want |-> want] \in ClientThreads
    BY <2>2 DEF ClientThreads
  <2> QED BY <1>1, <2>1, <2>3 DEF Headers, Moves
<1>2. CASE Page(c)
  BY <1>2, GotoMoves DEF Page, Is
<1>3. CASE HandleOffer(c) \/ Order(c)
  BY <1>3, GotoMoves DEF HandleOffer, Order, Is
<1>4. CASE LoginChecks(c)
  BY <1>4, GotoMoves DEF LoginChecks, Is
<1>5. CASE Login(c)
  BY <1>5, GotoMoves DEF Login
<1>6. CASE LoginFails(c)
  BY <1>6, GotoMoves DEF LoginFails
<1>7. CASE LoginSucceeds(c)
  <2> DEFINE thread == [worker[c] EXCEPT !.token = made + 1, !.at = "session"]
  <2>0. worker[c] \in ClientThreads /\ made + 1 \in Nat
    BY DEF WebTypeOK
  <2>1. thread \in ClientThreads
    BY <2>0 DEF ClientThreads
  <2>2. worker' = [worker EXCEPT ![c] = thread]
    BY <1>7 DEF LoginSucceeds
  <2> QED BY <1>7, <2>1, <2>2 DEF LoginSucceeds, Moves
<1>8. CASE SessionAdd(c)
  BY <1>8, GotoMoves DEF SessionAdd
<1>9. CASE AskTransport(c)
  BY <1>9, GotoMoves DEF AskTransport, Is
<1>10. CASE Settle(c)
  BY <1>10, GotoMoves DEF Settle
<1>11. CASE Choose(c)
  BY <1>11, GotoMoves DEF Choose
<1>12. CASE Shared(c)
  BY <1>12, GotoMoves DEF Shared
<1> QED BY <1>1, <1>2, <1>3, <1>4, <1>5, <1>6, <1>7, <1>8, <1>9, <1>10, <1>11,
       <1>12 DEF ClientThread

LEMMA SocketsKept ==
    ASSUME WebTypeOK, SocketsHaveOneOwner, [WebNext]_webVars
    PROVE  /\ worker' \in [Conns -> ClientThreads] /\ fd' \in [Conns -> {"none", "thread", "native"}]
           /\ adopted' \subseteq Conns /\ SocketsHaveOneOwner'
<1> DEFINE Goal == /\ worker' \in [Conns -> ClientThreads] /\ fd' \in [Conns -> {"none", "thread", "native"}]
                   /\ adopted' \subseteq Conns /\ SocketsHaveOneOwner'
<1>0. worker \in [Conns -> ClientThreads] /\ fd \in [Conns -> {"none", "thread", "native"}] /\ adopted \subseteq Conns
      /\ Closed \in ClientThreads /\ Closed.at = "none"
  BY DEF WebTypeOK, Closed, ClientThreads, Transports
<1>1. CASE UNCHANGED <<worker, fd, adopted>>
  BY <1>0, <1>1 DEF SocketsHaveOneOwner
<1>2. ASSUME NEW c \in Conns, ClientThread(c), ~Upgrade(c), ~Close(c) PROVE Goal
  BY <1>0, <1>2, MostStepsMove, MovesKeep
<1>3. ASSUME NEW c \in Conns, Upgrade(c) PROVE Goal
  <2>1. CASE Goto(c, "end") /\ UNCHANGED <<fd, adopted>>
    BY <1>0, <1>3, <2>1, GotoMoves, MovesKeep DEF Upgrade
  <2>2. CASE /\ adopted' = adopted \cup {c} /\ fd' = [fd EXCEPT ![c] = "native"]
             /\ worker' = [worker EXCEPT ![c] = Closed]
    BY <1>0, <2>2 DEF SocketsHaveOneOwner
  <2> QED BY <1>3, <2>1, <2>2 DEF Upgrade
<1>4. ASSUME NEW c \in Conns, Close(c) PROVE Goal
  <2>1. c \notin adopted /\ adopted' = adopted /\ fd' = [fd EXCEPT ![c] = "none"]
        /\ worker' = [worker EXCEPT ![c] = Closed]
    BY <1>4 DEF Close, SocketsHaveOneOwner
  <2> QED BY <1>0, <2>1 DEF SocketsHaveOneOwner
<1>5. ASSUME NEW c \in Conns, NativeDrops(c) PROVE Goal
  <2>1. worker[c].at = "none" /\ worker' = worker /\ adopted' = adopted \ {c} /\ fd' = [fd EXCEPT ![c] = "none"]
    BY <1>5 DEF NativeDrops, SocketsHaveOneOwner
  <2> QED BY <1>0, <2>1 DEF SocketsHaveOneOwner
<1>6. ASSUME NEW c \in Conns, AcceptOne(c) PROVE Goal
  <2>1. CASE fd' = [fd EXCEPT ![c] = "thread"] /\ worker' = [worker EXCEPT ![c].at = "headers"]
    <3>1. fd[c] = "none" /\ c \notin adopted /\ adopted' = adopted
      BY <1>6 DEF AcceptOne, SocketsHaveOneOwner
    <3>2. [worker[c] EXCEPT !.at = "headers"] \in ClientThreads
      BY <1>0 DEF ClientThreads
    <3>3. worker' = [worker EXCEPT ![c] = [worker[c] EXCEPT !.at = "headers"]]
      BY <2>1
    <3> QED BY <1>0, <2>1, <3>1, <3>2, <3>3 DEF SocketsHaveOneOwner
  <2> QED BY <1>1, <1>6, <2>1 DEF AcceptOne
<1>7. CASE ServerStarts \/ Create \/ ServerStops \/ Stopped \/ AcceptCheck \/ AcceptNothing
  BY <1>1, <1>7 DEF ServerStarts, Create, ServerStops, Stopped, AcceptCheck, AcceptNothing
<1>8. CASE LockoutEnds \/ SetPassword \/ UNCHANGED webVars
  BY <1>1, <1>8 DEF LockoutEnds, SetPassword, webVars
<1> QED BY <1>1, <1>2, <1>3, <1>4, <1>5, <1>6, <1>7, <1>8 DEF WebNext, Listener

SessionTypes ==
    /\ sessions \in [0 .. MaxSessions - 1 -> Nat] /\ issued \in Seq(Nat)
    /\ sessionCount \in 0 .. MaxSessions /\ sessionNext \in 0 .. MaxSessions - 1
LoginTypes ==
    /\ made \in Nat /\ requests \in 0 .. MaxRequests
    /\ fails \in 0 .. MaxFails - 1 /\ locked \in BOOLEAN /\ password \in BOOLEAN
ListenTypes ==
    /\ listening \in BOOLEAN /\ stopRequested \in BOOLEAN /\ running \in BOOLEAN
    /\ acceptor \in {"none", "check", "poll"} /\ window \in {"idle", "create", "wait"}
TransportTypes ==
    /\ transport \in Transports \cup {"unread"} /\ envTransport \in Transports
    /\ chosen \in Transports \cup {"none"}
OtherTypes == SessionTypes /\ LoginTypes /\ ListenTypes /\ TransportTypes

\* Every step of the web server keeps the types of its variables.
LEMMA WebTypesKept == WebTypeOK /\ SocketsHaveOneOwner /\ [WebNext]_webVars => WebTypeOK'
<1> SUFFICES ASSUME WebTypeOK, SocketsHaveOneOwner, [WebNext]_webVars PROVE WebTypeOK'
    OBVIOUS
<1>1. /\ worker' \in [Conns -> ClientThreads] /\ fd' \in [Conns -> {"none", "thread", "native"}]
      /\ adopted' \subseteq Conns
  BY SocketsKept
<1>2. SessionTypes /\ LoginTypes /\ ListenTypes /\ TransportTypes /\ worker \in [Conns -> ClientThreads]
  BY DEF WebTypeOK, SessionTypes, LoginTypes, ListenTypes, TransportTypes
<1> USE WebAssumption DEF SessionTypes, LoginTypes, ListenTypes, TransportTypes
<1>3. ASSUME UNCHANGED <<sessions, sessionCount, sessionNext, issued, transport, envTransport, chosen>>
      PROVE  OtherTypes'
  <2>1. SessionTypes' /\ TransportTypes'
    BY <1>2, <1>3
  <2>2. LoginTypes' /\ ListenTypes'
    <3>1. CASE ServerStarts
      BY <1>2, <3>1 DEF ServerStarts, Request, authVars
    <3>2. CASE Create
      BY <1>2, <3>2 DEF Create, authVars
    <3>3. CASE ServerStops
      BY <1>2, <3>3 DEF ServerStops, Request, authVars
    <3>4. CASE Stopped
      BY <1>2, <3>4 DEF Stopped, authVars
    <3>5. CASE AcceptCheck \/ AcceptNothing
      BY <1>2, <3>5 DEF AcceptCheck, AcceptNothing, authVars
    <3>6. ASSUME NEW c \in Conns, AcceptOne(c) PROVE LoginTypes' /\ ListenTypes'
      BY <1>2, <3>6 DEF AcceptOne, Request, authVars
    <3>7. CASE LockoutEnds
      BY <1>2, <3>7 DEF LockoutEnds, Elsewhere, listenVars
    <3>8. CASE SetPassword
      BY <1>2, <3>8 DEF SetPassword, Request, authVars, listenVars
    <3>9. ASSUME NEW c \in Conns, LoginFails(c) PROVE LoginTypes' /\ ListenTypes'
      BY <1>2, <3>9 DEF LoginFails, Elsewhere, listenVars
    <3>10. ASSUME NEW c \in Conns, LoginSucceeds(c) PROVE LoginTypes' /\ ListenTypes'
      <4>1. made' = made + 1 /\ fails' = 0 /\ locked' = FALSE /\ UNCHANGED <<requests, password, listenVars>>
        BY <3>10 DEF LoginSucceeds
      <4>2. made + 1 \in Nat /\ 0 \in 0 .. MaxFails - 1
        BY <1>2
      <4>3. ListenTypes'
        BY <1>2, <4>1 DEF listenVars
      <4> QED BY <1>2, <4>1, <4>2, <4>3
    <3>11. CASE UNCHANGED <<made, requests, fails, locked, password, listenVars>>
      BY <1>2, <3>11 DEF listenVars
    <3>12. ASSUME NEW c \in Conns, ClientThread(c) \/ NativeDrops(c), ~LoginFails(c), ~LoginSucceeds(c)
           PROVE  LoginTypes' /\ ListenTypes'
      BY <3>11, <3>12 DEF ClientThread, NativeDrops, authVars, Elsewhere, Headers, Page, HandleOffer, Order,
             LoginChecks, Login,
         SessionAdd, AskTransport, Settle, Choose, Shared, Upgrade, Close
    <3>13. CASE UNCHANGED webVars
      BY <3>11, <3>13 DEF webVars, authVars
    <3> HIDE DEF SessionTypes, LoginTypes, ListenTypes, TransportTypes
    <3>14. CASE Listener
      BY <3>5, <3>6, <3>14 DEF Listener
    <3>15. ASSUME NEW c \in Conns, ClientThread(c) \/ NativeDrops(c) PROVE LoginTypes' /\ ListenTypes'
      BY <3>9, <3>10, <3>12, <3>15
    <3> QED BY <3>1, <3>2, <3>3, <3>4, <3>7, <3>8, <3>13, <3>14, <3>15 DEF WebNext
  <2> QED BY <2>1, <2>2 DEF OtherTypes
<1>4. ASSUME NEW c \in Conns, SessionAdd(c) PROVE OtherTypes'
  <2>1. UNCHANGED <<made, requests, fails, locked, password, listenVars, transport, envTransport,
                    chosen>>
    BY <1>4 DEF SessionAdd, Elsewhere, transportVars
  <2>2. LoginTypes' /\ ListenTypes' /\ TransportTypes'
    BY <1>2, <2>1 DEF listenVars
  <2>3. worker[c].token \in Nat
    BY <1>2 DEF ClientThreads
  <2>4. issued' \in Seq(Nat)
    BY <1>2, <1>4, <2>3 DEF SessionAdd
  <2>5. sessions' \in [0 .. MaxSessions - 1 -> Nat]
    BY <1>2, <1>4, <2>3 DEF SessionAdd
  <2>6. sessionCount' \in 0 .. MaxSessions /\ sessionNext' \in 0 .. MaxSessions - 1
    BY <1>2, <1>4, RingTurns DEF SessionAdd
  <2> QED BY <2>2, <2>4, <2>5, <2>6 DEF OtherTypes
<1>5. ASSUME NEW c \in Conns, Settle(c) \/ Choose(c) PROVE OtherTypes'
  <2>1. UNCHANGED <<sessions, sessionCount, sessionNext, issued, made, requests, fails, locked,
                    password, listenVars, envTransport>>
    BY <1>5 DEF Settle, Choose, Elsewhere, authVars
  <2>2. LoginTypes' /\ ListenTypes' /\ SessionTypes'
    BY <1>2, <2>1 DEF listenVars
  <2>3. worker[c].want \in Transports
    BY <1>2 DEF ClientThreads
  <2>4. TransportTypes'
    BY <1>2, <1>5, <2>1, <2>3 DEF Settle, Choose
  <2> QED BY <2>2, <2>4 DEF OtherTypes
<1>6. ASSUME NEW c \in Conns, ClientThread(c) \/ NativeDrops(c), ~SessionAdd(c), ~Settle(c), ~Choose(c)
      PROVE  OtherTypes'
  <2>1. UNCHANGED <<transport, envTransport, chosen, sessions, sessionCount, sessionNext, issued>>
    BY <1>6 DEF ClientThread, NativeDrops, Elsewhere, transportVars, authVars, Headers, Page,
           HandleOffer, Order, LoginChecks, Login,
       LoginFails, LoginSucceeds, AskTransport, Shared, Upgrade, Close
  <2> QED BY <1>3, <2>1
<1>7. ASSUME \/ ServerStarts \/ Create \/ ServerStops \/ Stopped \/ Listener \/ LockoutEnds \/ SetPassword
             \/ UNCHANGED webVars
      PROVE  OtherTypes'
  BY <1>3, <1>7 DEF ServerStarts, Create, ServerStops, Stopped, Listener, AcceptCheck,
         AcceptNothing, AcceptOne,
     LockoutEnds, SetPassword, webVars, transportVars, authVars, Elsewhere
<1> HIDE DEF SessionTypes, LoginTypes, ListenTypes, TransportTypes
<1>8. OtherTypes'
  <2>1. ASSUME NEW c \in Conns, ClientThread(c) \/ NativeDrops(c) PROVE OtherTypes'
    BY <1>4, <1>5, <1>6, <2>1
  <2> QED BY <1>7, <2>1 DEF WebNext
<1> QED BY <1>1, <1>8 DEF WebTypeOK, OtherTypes, SessionTypes, LoginTypes, ListenTypes,
       TransportTypes

\* Whatever the number of connections and of sessions, nobody has what is
\* somebody else's.
THEOREM ServerOwnsWhatItHas == WebSpec => [](WebTypeOK /\ ServerIsExclusive)
<1>1. WebInv /\ [WebNext]_webVars => WebInv'
  BY RingKept, ListenerKept, SocketsKept, WebTypesKept DEF WebInv
<1>2. WebInv => WebTypeOK /\ ServerIsExclusive
  BY NewestFromRing DEF WebInv, ServerIsExclusive, StartsAlone, ListenerIsKnown
<1> QED BY <1>1, <1>2, WebStarts, PTL DEF WebSpec

----------------------------------------------------------------------------
(* The browsers' slots, their webrtcbins and the branches on the tees. *)

SlotRecord == [page : Pages \cup {NoPage}, bin : Pages \cup {NoPage}, ringing : BOOLEAN,
               since : {"never", "noted", "long"}, quiet : BOOLEAN]
OfferPlaces == {"away", "take", "retake", "look", "tear", "destroy", "make", "negotiate", "answer",
                "there", "bye", "gone", "refused", "stuck"}
Requests == {"none", "asked", "done", "abandoned", "freed"}
LoopPlaces == {"idle", "destroy", "look", "ring"}

SlotTypes == slot \in [RtcSlots -> SlotRecord] /\ idles \in Seq(RtcSlots)
OfferTypes == /\ offer \in [Pages -> OfferPlaces] /\ at \in [Pages -> RtcSlots]
              /\ reclaimed \in [Pages -> BOOLEAN]
RequestTypes == request \in [Pages -> Requests] /\ calls \subseteq Pages
PageTypes == /\ conn \in [Pages -> {"new", "connected", "disconnected", "failed", "closed", "ended"}]
             /\ notice \in [Pages -> {"none", "due", "ring"}] /\ here \subseteq Pages
PipeTypes == /\ piped \subseteq Pages /\ linked \subseteq Pages /\ lost \subseteq Pages
             /\ doomed \in [Threads -> Pages \cup {NoPage}]
LoopTypes == loop \in LoopPlaces \X RtcSlots

\* The type invariant, in the parts the steps disturb.
LEMMA RtcTypesMean ==
    RtcTypeOK <=> SlotTypes /\ OfferTypes /\ RequestTypes /\ PageTypes /\ PipeTypes /\ LoopTypes
BY DEF RtcTypeOK, SlotTypes, OfferTypes, RequestTypes, PageTypes, PipeTypes, LoopTypes, SlotRecord,
       OfferPlaces, Requests, LoopPlaces

LEMMA RtcTypesMeant ==
    SlotTypes' /\ OfferTypes' /\ RequestTypes' /\ PageTypes' /\ PipeTypes' /\ LoopTypes' => RtcTypeOK'
BY DEF RtcTypeOK, SlotTypes, OfferTypes, RequestTypes, PageTypes, PipeTypes, LoopTypes, SlotRecord,
       OfferPlaces, Requests, LoopPlaces

LEMMA NextSlotIsOne ==
    /\ RtcSlots \subseteq Nat /\ 0 \in RtcSlots
    /\ \A i \in RtcSlots : (i + 1) % MaxRtc \in RtcSlots /\ (i + 1 < MaxRtc => i + 1 \in RtcSlots)
BY RtcAssumption DEF RtcSlots

\* A page's webrtcbin is in one slot or in the hands of one teardown.
OnePlace ==
    /\ \A i, j \in RtcSlots : slot[i].bin # NoPage /\ slot[i].bin = slot[j].bin => i = j
    /\ \A t, u \in Threads : doomed[t] # NoPage /\ doomed[t] = doomed[u] => t = u
    /\ \A i \in RtcSlots, t \in Threads : slot[i].bin # NoPage => slot[i].bin # doomed[t]

\* Before it is made, a page's webrtcbin is nowhere, and nobody was asked for it
\* until the slot is taken.
Before == {"away", "take", "retake", "look", "tear", "destroy"}
Unmade ==
    \A p \in Pages : offer[p] \in Before \cup {"make"} =>
        (\A i \in RtcSlots : slot[i].bin # p) /\ (\A t \in Threads : doomed[t] # p)
Unasked == \A p \in Pages : offer[p] \in Before => request[p] = "none"

\* Who has elements to destroy is about to do so.
DoomedSoon == /\ doomed[Main] # NoPage => loop[1] = "destroy"
              /\ \A p \in Pages : doomed[p] # NoPage => offer[p] = "destroy"

Owners == OnePlace /\ Unmade /\ BranchesAreOwned
RtcInv == RtcTypeOK /\ Owners /\ Unasked /\ RequestsOutliveTheirUsers /\ DoomedSoon

LEMMA RtcStarts == RtcInit => RtcInv
<1> SUFFICES ASSUME RtcInit PROVE RtcInv
    OBVIOUS
<1>1. /\ slot = [i \in RtcSlots |-> FreeSlot] /\ offer = [p \in Pages |-> "away"]
      /\ at = [p \in Pages |-> 0] /\ reclaimed = [p \in Pages |-> FALSE]
      /\ request = [p \in Pages |-> "none"] /\ calls = {}
      /\ conn = [p \in Pages |-> "new"] /\ notice = [p \in Pages |-> "none"] /\ here = Pages
      /\ piped = {} /\ linked = {} /\ lost = {}
      /\ doomed = [t \in Threads |-> NoPage] /\ idles = <<>> /\ loop = <<"idle", 0>>
  BY DEF RtcInit
<1>2. SlotTypes
  <2>1. FreeSlot \in SlotRecord
    BY DEF FreeSlot, SlotRecord
  <2> QED BY <1>1, <2>1 DEF SlotTypes
<1>3. OfferTypes /\ RequestTypes
  BY <1>1, NextSlotIsOne DEF OfferTypes, RequestTypes, OfferPlaces, Requests
<1>4. PageTypes /\ PipeTypes
  BY <1>1 DEF PageTypes, PipeTypes
<1>5. LoopTypes
  BY <1>1, NextSlotIsOne DEF LoopTypes, LoopPlaces
<1>6. /\ \A i \in RtcSlots : slot[i].bin = NoPage
      /\ \A t \in Threads : doomed[t] = NoPage
  BY <1>1 DEF FreeSlot
<1>7. Owners
  BY <1>1, <1>6, RtcAssumption DEF Owners, OnePlace, Unmade, BranchesAreOwned
<1>8. Unasked /\ RequestsOutliveTheirUsers
  BY <1>1 DEF Unasked, RequestsOutliveTheirUsers
<1>9. DoomedSoon
  BY <1>6 DEF DoomedSoon, Threads
<1> QED BY <1>2, <1>3, <1>4, <1>5, <1>7, <1>8, <1>9, RtcTypesMean DEF RtcInv

\* The pieces the handlers are made of.
LEMMA SlotOf ==
    ASSUME RtcTypeOK, NEW i \in RtcSlots
    PROVE  /\ slot[i] \in SlotRecord /\ slot[i].page \in Pages \cup {NoPage}
           /\ slot[i].bin \in Pages \cup {NoPage}
           /\ (slot[i].page # NoPage) = InUseRtc(i)
BY RtcTypesMean DEF SlotTypes, SlotRecord, InUseRtc

LEMMA ToKeeps ==
    ASSUME RtcTypeOK, NEW p \in Pages, NEW spot \in OfferPlaces, To(p, spot)
    PROVE  /\ offer' \in [Pages -> OfferPlaces] /\ offer'[p] = spot
           /\ \A q \in Pages : q # p => offer'[q] = offer[q]
BY RtcTypesMean DEF To, OfferTypes

LEMMA ScheduleKeeps ==
    ASSUME RtcTypeOK, NEW i \in RtcSlots, Schedule(i)
    PROVE  SlotTypes' /\ \A j \in RtcSlots : slot'[j].bin = slot[j].bin
<1>1. SlotTypes
  BY RtcTypesMean
<1>2. CASE slot' = [slot EXCEPT ![i].ringing = TRUE] /\ idles' = Append(idles, i)
  <2>1. slot' \in [RtcSlots -> SlotRecord] /\ \A j \in RtcSlots : slot'[j].bin = slot[j].bin
    BY <1>1, <1>2 DEF SlotTypes, SlotRecord
  <2>2. idles' \in Seq(RtcSlots)
    BY <1>1, <1>2 DEF SlotTypes
  <2> QED BY <2>1, <2>2 DEF SlotTypes
<1>3. CASE UNCHANGED slotVars
  BY <1>1, <1>3 DEF SlotTypes, slotVars
<1> QED BY <1>2, <1>3 DEF Schedule

LEMMA DetachKeeps ==
    ASSUME RtcTypeOK, NEW t \in Threads, NEW i \in RtcSlots, Detach(t, i)
    PROVE  /\ slot' \in [RtcSlots -> SlotRecord] /\ doomed' \in [Threads -> Pages \cup {NoPage}]
           /\ \A j \in RtcSlots : slot'[j].bin = IF j = i /\ InUseRtc(i) THEN NoPage ELSE slot[j].bin
           /\ \A u \in Threads : doomed'[u] = IF u # t THEN doomed[u]
                                              ELSE IF InUseRtc(i) THEN slot[i].bin ELSE NoPage
<1>1. slot \in [RtcSlots -> SlotRecord] /\ doomed \in [Threads -> Pages \cup {NoPage}]
  BY RtcTypesMean DEF SlotTypes, PipeTypes
<1>2. doomed' = [doomed EXCEPT ![t] = IF InUseRtc(i) THEN slot[i].bin ELSE NoPage]
  BY DEF Detach
<1>3. slot[i].bin \in Pages \cup {NoPage}
  BY SlotOf
<1>4. doomed' \in [Threads -> Pages \cup {NoPage}]
  BY <1>1, <1>2, <1>3
<1>5. CASE InUseRtc(i)
  <2>1. slot' = [slot EXCEPT ![i] = FreeSlot] /\ FreeSlot \in SlotRecord /\ FreeSlot.bin = NoPage
    BY <1>5 DEF Detach, FreeSlot, SlotRecord
  <2> QED BY <1>1, <1>2, <1>4, <1>5, <2>1
<1>6. CASE ~InUseRtc(i)
  <2>1. slot' = [slot EXCEPT ![i] = [@ EXCEPT !.ringing = FALSE]]
    BY <1>6 DEF Detach
  <2>2. [slot[i] EXCEPT !.ringing = FALSE] \in SlotRecord
        /\ [slot[i] EXCEPT !.ringing = FALSE].bin = slot[i].bin
    BY SlotOf DEF SlotRecord
  <2> QED BY <1>1, <1>2, <1>4, <1>6, <2>1, <2>2
<1> QED BY <1>5, <1>6

LEMMA DestroyKeeps ==
    ASSUME RtcTypeOK, NEW t \in Threads, Destroy(t)
    PROVE  /\ PageTypes' /\ PipeTypes' /\ lost' = lost /\ linked' = linked \ {doomed[t]}
           /\ \A u \in Threads : doomed'[u] = IF u = t THEN NoPage ELSE doomed[u]
<1>1. PageTypes /\ PipeTypes
  BY RtcTypesMean
<1>2. /\ here' = here /\ lost' = lost /\ piped' = piped \ {doomed[t]} /\ linked' = linked \ {doomed[t]}
      /\ doomed' = [doomed EXCEPT ![t] = NoPage]
  BY DEF Destroy
<1>3. PipeTypes'
  BY <1>1, <1>2 DEF PipeTypes
<1>4. doomed[t] \in Pages \cup {NoPage}
  BY <1>1 DEF PipeTypes
<1>5. CASE UNCHANGED <<conn, notice>>
  BY <1>1, <1>2, <1>3, <1>5 DEF PageTypes, PipeTypes
<1>6. CASE /\ doomed[t] # NoPage /\ conn' = [conn EXCEPT ![doomed[t]] = "ended"]
           /\ notice' = [notice EXCEPT ![doomed[t]] = "none"]
  BY <1>1, <1>2, <1>3, <1>4, <1>6 DEF PageTypes, PipeTypes
<1> QED BY <1>5, <1>6 DEF Destroy

LEMMA NextLookKeeps ==
    ASSUME RtcTypeOK, NEW p \in Pages, NEW done \in BOOLEAN, NextLook(p, done)
    PROVE  /\ at' \in [Pages -> RtcSlots] /\ offer' \in [Pages -> OfferPlaces]
           /\ offer'[p] \in {"look", "retake", "refused"}
           /\ \A q \in Pages : q # p => offer'[q] = offer[q]
<1>1. at \in [Pages -> RtcSlots]
  BY RtcTypesMean DEF OfferTypes
<1>2. at' \in [Pages -> RtcSlots]
  BY <1>1, NextSlotIsOne DEF NextLook
<1>3. PICK spot \in {"look", "retake", "refused"} : To(p, spot)
  BY DEF NextLook
<1>4. spot \in OfferPlaces
  BY DEF OfferPlaces
<1> QED BY <1>2, <1>3, <1>4, ToKeeps

LEMMA ReleaseKeeps ==
    ASSUME RtcTypeOK, NEW p \in Pages, NEW leaks \in BOOLEAN, Release(p, leaks),
           leaks => Bin(p) # NoPage
    PROVE  /\ slot' \in [RtcSlots -> SlotRecord] /\ lost' \subseteq Pages /\ lost \subseteq lost'
           /\ (leaks => Bin(p) \in lost')
           /\ \A i \in RtcSlots : slot'[i].bin = slot[i].bin
           /\ offer' \in [Pages -> OfferPlaces] /\ offer'[p] = "refused"
           /\ \A q \in Pages : q # p => offer'[q] = offer[q]
<1>1. at[p] \in RtcSlots /\ slot \in [RtcSlots -> SlotRecord] /\ lost \subseteq Pages
  BY RtcTypesMean DEF OfferTypes, SlotTypes, PipeTypes
<1>2. slot' = [slot EXCEPT ![at[p]].page = NoPage, ![at[p]].ringing = FALSE]
  BY DEF Release
<1>3. slot' \in [RtcSlots -> SlotRecord] /\ \A i \in RtcSlots : slot'[i].bin = slot[i].bin
  BY <1>1, <1>2 DEF SlotRecord
<1>4. Bin(p) \in Pages \cup {NoPage}
  BY <1>1, SlotOf DEF Bin
<1>5. lost' = (IF leaks THEN lost \cup {Bin(p)} ELSE lost)
  BY DEF Release
<1>6. To(p, "refused") /\ "refused" \in OfferPlaces
  BY DEF Release, OfferPlaces
<1> QED BY <1>1, <1>3, <1>4, <1>5, <1>6, ToKeeps

LEMMA StayKeeps ==
    ASSUME RtcTypeOK, Owners,
           \A i \in RtcSlots : \/ slot'[i].bin = slot[i].bin
                               \/ slot'[i].bin = NoPage /\ slot[i].bin \in lost' \cup {NoPage},
           doomed' = doomed,
           \A b \in linked' \ lost' : b \in linked \ lost \/ \E i \in RtcSlots : slot[i].bin = b,
           linked' \subseteq Pages,
           \A p \in Pages : offer'[p] \in Before \cup {"make"} => offer[p] \in Before \cup {"make"}
    PROVE  Owners'
<1>1. OnePlace'
  BY DEF Owners, OnePlace
<1>2. Unmade'
  <2> SUFFICES ASSUME NEW p \in Pages, offer'[p] \in Before \cup {"make"}
               PROVE  (\A i \in RtcSlots : slot'[i].bin # p) /\ (\A t \in Threads : doomed'[t] # p)
    BY DEF Unmade, Before
  <2>1. (\A i \in RtcSlots : slot[i].bin # p) /\ (\A t \in Threads : doomed[t] # p)
    BY DEF Owners, Unmade
  <2>2. p # NoPage
    BY RtcAssumption
  <2> QED BY <2>1, <2>2
<1>3. BranchesAreOwned'
  <2> SUFFICES ASSUME NEW b \in linked' \ lost'
               PROVE  (\E i \in RtcSlots : slot'[i].bin = b) \/ (\E t \in Threads : doomed'[t] = b)
    BY DEF BranchesAreOwned
  <2>1. b \in Pages /\ b # NoPage
    BY RtcAssumption
  <2>2. (\E i \in RtcSlots : slot[i].bin = b) \/ (\E t \in Threads : doomed[t] = b)
    BY DEF Owners, BranchesAreOwned
  <2> QED BY <2>1, <2>2
<1> QED BY <1>1, <1>2, <1>3 DEF Owners

LEMMA AsksKeep ==
    ASSUME Unasked, RequestsOutliveTheirUsers, UNCHANGED requestVars,
           \A p \in Pages : /\ offer'[p] \in Before => offer[p] \in Before
                            /\ offer'[p] = "make" => offer[p] \in Before \cup {"make"}
    PROVE  Unasked' /\ RequestsOutliveTheirUsers'
<1>1. request' = request /\ calls' = calls
  BY DEF requestVars
<1>2. Unasked'
  BY <1>1 DEF Unasked, Before
<1>3. RequestsOutliveTheirUsers'
  <2>1. \A p \in Pages : offer'[p] = "make" => request[p] \in {"none", "asked", "done"}
    BY DEF Unasked, RequestsOutliveTheirUsers
  <2> QED BY <1>1, <2>1 DEF RequestsOutliveTheirUsers
<1> QED BY <1>2, <1>3

LEMMA DoomKeeps ==
    ASSUME DoomedSoon, doomed' = doomed, loop[1] = "destroy" => loop'[1] = "destroy",
           \A p \in Pages : offer[p] = "destroy" => offer'[p] = "destroy"
    PROVE  DoomedSoon'
BY DEF DoomedSoon

\* Nothing changes but the occupants' times, or what the connections say.
LEMMA QuietKeeps ==
    ASSUME RtcInv, SlotTypes', PageTypes', \A i \in RtcSlots : slot'[i].bin = slot[i].bin,
           UNCHANGED <<offerVars, pipeVars, loop>>
    PROVE  RtcInv'
<1>1. /\ RtcTypeOK /\ Owners /\ Unasked /\ RequestsOutliveTheirUsers /\ DoomedSoon
      /\ OfferTypes /\ RequestTypes /\ PipeTypes /\ LoopTypes
  BY RtcTypesMean DEF RtcInv
<1>2. /\ offer' = offer /\ at' = at /\ reclaimed' = reclaimed /\ request' = request /\ calls' = calls
      /\ piped' = piped /\ linked' = linked /\ lost' = lost /\ doomed' = doomed /\ loop' = loop
  BY DEF offerVars, requestVars, pipeVars
<1>3. OfferTypes' /\ RequestTypes' /\ PipeTypes' /\ LoopTypes'
  BY <1>1, <1>2 DEF OfferTypes, RequestTypes, PipeTypes, LoopTypes
<1>4. RtcTypeOK'
  BY <1>3, RtcTypesMeant
<1>5. Owners'
  <2>1. linked' \subseteq Pages
    BY <1>3 DEF PipeTypes
  <2> QED BY <1>1, <1>2, <2>1, StayKeeps
<1>6. Unasked' /\ RequestsOutliveTheirUsers'
  BY <1>1, <1>2, AsksKeep DEF requestVars
<1>7. DoomedSoon'
  BY <1>1, <1>2, DoomKeeps
<1> QED BY <1>4, <1>5, <1>6, <1>7 DEF RtcInv

\* Only the offer moves: what the slots hold, and who is asked, stays.
LEMMA MoveKeeps ==
    ASSUME RtcInv, OfferTypes', PageTypes', UNCHANGED <<slotVars, requestVars, pipeVars, loop>>,
           \A p \in Pages : /\ offer'[p] \in Before => offer[p] \in Before
                            /\ offer'[p] = "make" => offer[p] \in Before \cup {"make"}
                            /\ offer[p] = "destroy" => offer'[p] = "destroy"
    PROVE  RtcInv'
<1>1. /\ RtcTypeOK /\ Owners /\ Unasked /\ RequestsOutliveTheirUsers /\ DoomedSoon
      /\ SlotTypes /\ RequestTypes /\ PipeTypes /\ LoopTypes
  BY RtcTypesMean DEF RtcInv
<1>2. /\ slot' = slot /\ idles' = idles /\ request' = request /\ calls' = calls
      /\ piped' = piped /\ linked' = linked /\ lost' = lost /\ doomed' = doomed /\ loop' = loop
  BY DEF slotVars, requestVars, pipeVars
<1>3. SlotTypes' /\ RequestTypes' /\ PipeTypes' /\ LoopTypes'
  BY <1>1, <1>2 DEF SlotTypes, RequestTypes, PipeTypes, LoopTypes
<1>4. RtcTypeOK'
  BY <1>3, RtcTypesMeant
<1>5. Owners'
  <2>1. linked' \subseteq Pages
    BY <1>3 DEF PipeTypes
  <2>2. \A p \in Pages : offer'[p] \in Before \cup {"make"} => offer[p] \in Before \cup {"make"}
    OBVIOUS
  <2> QED BY <1>1, <1>2, <2>1, <2>2, StayKeeps
<1>6. Unasked' /\ RequestsOutliveTheirUsers'
  BY <1>1, AsksKeep
<1>7. DoomedSoon'
  BY <1>1, <1>2, DoomKeeps
<1> QED BY <1>4, <1>5, <1>6, <1>7 DEF RtcInv

\* The page's own steps, and time's.
LEMMA PageSteps ==
    ASSUME RtcInv, NEW p \in Pages,
           Connection(p) \/ Notice(p) \/ NoticeRings(p) \/ Leave(p) \/ Seen(p)
    PROVE  RtcInv'
<1>1. RtcTypeOK /\ SlotTypes /\ OfferTypes /\ PageTypes
  BY RtcTypesMean DEF RtcInv
<1>2. at[p] \in RtcSlots
  BY <1>1 DEF OfferTypes
<1>3. CASE Connection(p)
  <2>1. UNCHANGED <<slotVars, offerVars, here, pipeVars, loop>>
    BY <1>3 DEF Connection
  <2>2. slot' = slot /\ idles' = idles /\ here' = here
    BY <2>1 DEF slotVars
  <2>3. PICK s \in {"connected", "disconnected", "failed", "closed"} : conn' = [conn EXCEPT ![p] = s]
    BY <1>3 DEF Connection
  <2>4. notice' = [notice EXCEPT ![p] = "due"]
    BY <1>3 DEF Connection
  <2>5. PageTypes' /\ SlotTypes'
    BY <1>1, <2>2, <2>3, <2>4 DEF PageTypes, SlotTypes
  <2> QED BY <2>1, <2>2, <2>5, QuietKeeps
<1>4. CASE Notice(p)
  <2>1. UNCHANGED <<idles, offerVars, conn, here, pipeVars, loop>>
    BY <1>4 DEF Notice
  <2>2. PICK s \in {"never", "noted", "long"} : slot' = [slot EXCEPT ![at[p]].since = s]
    <3>1. slot[at[p]].since \in {"never", "noted", "long"}
      BY <1>1, <1>2 DEF SlotTypes, SlotRecord
    <3> QED BY <1>4, <3>1 DEF Notice
  <2>3. slot' \in [RtcSlots -> SlotRecord] /\ \A i \in RtcSlots : slot'[i].bin = slot[i].bin
    BY <1>1, <1>2, <2>2 DEF SlotTypes, SlotRecord
  <2>4. PICK n \in {"none", "ring"} : notice' = [notice EXCEPT ![p] = n]
    BY <1>4 DEF Notice
  <2>5. PageTypes' /\ SlotTypes'
    BY <1>1, <2>1, <2>3, <2>4 DEF PageTypes, SlotTypes
  <2> QED BY <2>1, <2>3, <2>5, QuietKeeps
<1>5. CASE NoticeRings(p)
  <2>1. UNCHANGED <<offerVars, conn, here, pipeVars, loop>> /\ notice' = [notice EXCEPT ![p] = "none"]
    BY <1>5 DEF NoticeRings
  <2>2. SlotTypes' /\ \A j \in RtcSlots : slot'[j].bin = slot[j].bin
    BY <1>1, <1>2, <1>5, ScheduleKeeps DEF NoticeRings
  <2>3. PageTypes'
    BY <1>1, <2>1 DEF PageTypes
  <2> QED BY <2>1, <2>2, <2>3, QuietKeeps
<1>6. CASE Leave(p)
  <2>1. UNCHANGED <<slotVars, offerVars, conn, notice, pipeVars, loop>> /\ here' = here \ {p}
    BY <1>6 DEF Leave
  <2>2. slot' = slot /\ idles' = idles
    BY <2>1 DEF slotVars
  <2>3. PageTypes' /\ SlotTypes'
    BY <1>1, <2>1, <2>2 DEF PageTypes, SlotTypes
  <2> QED BY <2>1, <2>2, <2>3, QuietKeeps
<1>7. CASE Seen(p)
  <2>1. UNCHANGED <<idles, offerVars, pageVars, pipeVars, loop>>
    BY <1>7 DEF Seen
  <2>2. PICK i \in RtcSlots : slot' = [slot EXCEPT ![i].quiet = FALSE]
    BY <1>7 DEF Seen
  <2>3. slot' \in [RtcSlots -> SlotRecord] /\ \A j \in RtcSlots : slot'[j].bin = slot[j].bin
    BY <1>1, <2>2 DEF SlotTypes, SlotRecord
  <2>4. PageTypes' /\ SlotTypes'
    BY <1>1, <2>1, <2>3 DEF PageTypes, SlotTypes, pageVars
  <2> QED BY <2>1, <2>3, <2>4, QuietKeeps
<1> QED BY <1>3, <1>4, <1>5, <1>6, <1>7

LEMMA TimeSteps ==
    ASSUME RtcInv, NEW i \in RtcSlots, Silence(i) \/ Grace(i)
    PROVE  RtcInv'
<1>1. RtcTypeOK /\ SlotTypes /\ PageTypes
  BY RtcTypesMean DEF RtcInv
<1>2. UNCHANGED <<idles, offerVars, pageVars, pipeVars, loop>>
  BY DEF Silence, Grace
<1>3. slot' = [slot EXCEPT ![i].quiet = TRUE] \/ slot' = [slot EXCEPT ![i].since = "long"]
  BY DEF Silence, Grace
<1>4. slot' \in [RtcSlots -> SlotRecord] /\ \A j \in RtcSlots : slot'[j].bin = slot[j].bin
  <2>1. slot \in [RtcSlots -> SlotRecord]
    BY <1>1 DEF SlotTypes
  <2>2. CASE slot' = [slot EXCEPT ![i].quiet = TRUE]
    BY <2>1, <2>2 DEF SlotRecord
  <2>3. CASE slot' = [slot EXCEPT ![i].since = "long"]
    BY <2>1, <2>3 DEF SlotRecord
  <2> QED BY <1>3, <2>2, <2>3
<1>5. PageTypes' /\ SlotTypes'
  BY <1>1, <1>2, <1>4 DEF PageTypes, SlotTypes, pageVars
<1> QED BY <1>2, <1>4, <1>5, QuietKeeps

\* The steps that only move an offer on.
LEMMA MovingSteps ==
    ASSUME RtcInv, NEW p \in Pages, Offer(p) \/ Look(p) \/ Stuck(p) \/ Bye(p)
    PROVE  RtcInv'
<1>1. RtcTypeOK /\ OfferTypes /\ PageTypes
  BY RtcTypesMean DEF RtcInv
<1>2. CASE Offer(p)
  <2>1. /\ UNCHANGED <<slotVars, at, reclaimed, requestVars, pageVars, pipeVars, loop>>
        /\ offer[p] = "away" /\ To(p, "take")
    BY <1>2 DEF Offer
  <2>2. /\ offer' \in [Pages -> OfferPlaces] /\ offer'[p] = "take"
        /\ \A q \in Pages : q # p => offer'[q] = offer[q]
    BY <1>1, <2>1, ToKeeps DEF OfferPlaces
  <2>3. OfferTypes' /\ PageTypes'
    BY <1>1, <2>1, <2>2 DEF OfferTypes, PageTypes, pageVars
  <2> QED BY <2>1, <2>2, <2>3, MoveKeeps DEF Before
<1>3. CASE Look(p)
  <2>1. /\ UNCHANGED <<slotVars, reclaimed, requestVars, pageVars, pipeVars, loop>> /\ offer[p] = "look"
        /\ (To(p, "tear") /\ UNCHANGED at) \/ NextLook(p, reclaimed[p])
    BY <1>3 DEF Look
  <2>2. /\ at' \in [Pages -> RtcSlots] /\ offer' \in [Pages -> OfferPlaces]
        /\ offer'[p] \in {"tear", "look", "retake", "refused"}
        /\ \A q \in Pages : q # p => offer'[q] = offer[q]
    <3>1. CASE To(p, "tear") /\ UNCHANGED at
      <4>1. "tear" \in OfferPlaces
        BY DEF OfferPlaces
      <4> QED BY <1>1, <3>1, <4>1, ToKeeps DEF OfferTypes
    <3>2. CASE NextLook(p, reclaimed[p])
      <4>1. reclaimed[p] \in BOOLEAN
        BY <1>1 DEF OfferTypes
      <4> QED BY <1>1, <3>2, <4>1, NextLookKeeps
    <3> QED BY <2>1, <3>1, <3>2
  <2>3. OfferTypes' /\ PageTypes'
    BY <1>1, <2>1, <2>2 DEF OfferTypes, PageTypes, pageVars
  <2> QED BY <2>1, <2>2, <2>3, MoveKeeps DEF Before
<1>4. CASE Stuck(p)
  <2>1. /\ UNCHANGED <<slotVars, at, reclaimed, requestVars, pageVars, pipeVars, loop>>
        /\ offer[p] \in {"negotiate", "answer"} /\ To(p, "stuck")
    BY <1>4 DEF Stuck
  <2>2. /\ offer' \in [Pages -> OfferPlaces] /\ offer'[p] = "stuck"
        /\ \A q \in Pages : q # p => offer'[q] = offer[q]
    BY <1>1, <2>1, ToKeeps DEF OfferPlaces
  <2>3. OfferTypes' /\ PageTypes'
    BY <1>1, <2>1, <2>2 DEF OfferTypes, PageTypes, pageVars
  <2> QED BY <2>1, <2>2, <2>3, MoveKeeps DEF Before
<1>5. CASE Bye(p)
  <2>1. /\ UNCHANGED <<slotVars, reclaimed, requestVars, conn, notice, pipeVars, loop>>
        /\ offer[p] = "there" /\ To(p, "bye") /\ here' = here \ {p}
        /\ \E i \in RtcSlots : at' = [at EXCEPT ![p] = i]
    BY <1>5 DEF Bye
  <2>2. /\ offer' \in [Pages -> OfferPlaces] /\ offer'[p] = "bye"
        /\ \A q \in Pages : q # p => offer'[q] = offer[q]
    BY <1>1, <2>1, ToKeeps DEF OfferPlaces
  <2>3. OfferTypes'
    BY <1>1, <2>1, <2>2 DEF OfferTypes
  <2>4. PageTypes'
    BY RtcTypesMean, <1>1, <2>1 DEF PageTypes
  <2> QED BY <2>1, <2>2, <2>3, <2>4, MoveKeeps DEF Before
<1> QED BY <1>2, <1>3, <1>4, <1>5

LEMMA ByeRingsKeeps ==
    ASSUME RtcInv, NEW p \in Pages, ByeRings(p)
    PROVE  RtcInv'
<1>1. /\ RtcTypeOK /\ Owners /\ Unasked /\ RequestsOutliveTheirUsers /\ DoomedSoon
      /\ OfferTypes /\ RequestTypes /\ PageTypes /\ PipeTypes /\ LoopTypes
  BY RtcTypesMean DEF RtcInv
<1>2. /\ offer[p] = "bye" /\ To(p, "gone") /\ Schedule(at[p])
      /\ UNCHANGED <<at, reclaimed, requestVars, pageVars, pipeVars, loop>>
  BY DEF ByeRings
<1>3. /\ offer' \in [Pages -> OfferPlaces] /\ offer'[p] = "gone"
      /\ \A q \in Pages : q # p => offer'[q] = offer[q]
  BY <1>1, <1>2, ToKeeps DEF OfferPlaces
<1>4. SlotTypes' /\ \A j \in RtcSlots : slot'[j].bin = slot[j].bin
  BY <1>1, <1>2, ScheduleKeeps DEF OfferTypes
<1>5. /\ request' = request /\ calls' = calls /\ conn' = conn /\ notice' = notice /\ here' = here
      /\ piped' = piped /\ linked' = linked /\ lost' = lost /\ doomed' = doomed
  BY <1>2 DEF requestVars, pageVars, pipeVars
<1>6. OfferTypes' /\ RequestTypes' /\ PageTypes' /\ PipeTypes' /\ LoopTypes'
  BY <1>1, <1>2, <1>3, <1>5 DEF OfferTypes, RequestTypes, PageTypes, PipeTypes, LoopTypes
<1>7. RtcTypeOK'
  BY <1>4, <1>6, RtcTypesMeant
<1>8. \A q \in Pages : offer'[q] \in Before \cup {"make"} => offer[q] \in Before \cup {"make"}
  BY <1>3 DEF Before
<1>9. Owners'
  <2>1. linked' \subseteq Pages
    BY <1>6 DEF PipeTypes
  <2> QED BY <1>1, <1>4, <1>5, <1>8, <2>1, StayKeeps
<1>10. Unasked' /\ RequestsOutliveTheirUsers'
  BY <1>1, <1>2, <1>3, AsksKeep DEF Before
<1>11. DoomedSoon'
  BY <1>1, <1>2, <1>3, <1>5, DoomKeeps
<1> QED BY <1>7, <1>9, <1>10, <1>11 DEF RtcInv

LEMMA TakeKeeps ==
    ASSUME RtcInv, NEW p \in Pages, Take(p)
    PROVE  RtcInv'
<1>1. /\ RtcTypeOK /\ Owners /\ Unasked /\ RequestsOutliveTheirUsers /\ DoomedSoon
      /\ SlotTypes /\ OfferTypes /\ RequestTypes /\ PageTypes /\ PipeTypes /\ LoopTypes
  BY RtcTypesMean DEF RtcInv
<1>2. /\ offer[p] \in {"take", "retake"}
      /\ UNCHANGED <<idles, reclaimed, requestVars, pageVars, piped, linked, doomed, loop>>
  BY DEF Take
<1>3. /\ request' = request /\ calls' = calls /\ conn' = conn /\ notice' = notice /\ here' = here
  BY <1>2 DEF requestVars, pageVars
<1>4. /\ slot' \in [RtcSlots -> SlotRecord] /\ lost' \subseteq Pages /\ lost \subseteq lost'
      /\ at' \in [Pages -> RtcSlots]
      /\ \A i \in RtcSlots : \/ slot'[i].bin = slot[i].bin
                             \/ slot'[i].bin = NoPage /\ slot[i].bin \in lost' \cup {NoPage}
      /\ \E spot \in {"make", "look", "refused"} : To(p, spot)
  <2>1. CASE \E i \in RtcSlots : /\ slot' = [slot EXCEPT ![i] = [FreeSlot EXCEPT !.page = p]]
                                 /\ lost' = lost \cup ({slot[i].bin} \ {NoPage})
                                 /\ at' = [at EXCEPT ![p] = i] /\ To(p, "make")
    <3>1. PICK i \in RtcSlots : /\ slot' = [slot EXCEPT ![i] = [FreeSlot EXCEPT !.page = p]]
                                /\ lost' = lost \cup ({slot[i].bin} \ {NoPage})
                                /\ at' = [at EXCEPT ![p] = i] /\ To(p, "make")
      BY <2>1
    <3>2. [FreeSlot EXCEPT !.page = p] \in SlotRecord /\ [FreeSlot EXCEPT !.page = p].bin = NoPage
      BY DEF FreeSlot, SlotRecord
    <3>3. slot[i].bin \in Pages \cup {NoPage}
      BY <1>1, SlotOf
    <3>4. slot' \in [RtcSlots -> SlotRecord] /\ at' \in [Pages -> RtcSlots]
      BY <1>1, <3>1, <3>2 DEF SlotTypes, OfferTypes
    <3>5. lost' \subseteq Pages /\ lost \subseteq lost' /\ slot[i].bin \in lost' \cup {NoPage}
      BY <1>1, <3>1, <3>3 DEF PipeTypes
    <3>6. \A j \in RtcSlots : slot'[j].bin = IF j = i THEN NoPage ELSE slot[j].bin
      BY <1>1, <3>1, <3>2 DEF SlotTypes
    <3> QED BY <3>1, <3>4, <3>5, <3>6
  <2>2. CASE /\ \E spot \in {"look", "refused"} : To(p, spot)
             /\ at' = [at EXCEPT ![p] = 0] /\ UNCHANGED <<slot, lost>>
    <3>1. at' \in [Pages -> RtcSlots]
      BY <1>1, <2>2, NextSlotIsOne DEF OfferTypes
    <3> QED BY <1>1, <2>2, <3>1 DEF SlotTypes, PipeTypes
  <2> QED BY <2>1, <2>2 DEF Take
<1>5. /\ offer' \in [Pages -> OfferPlaces] /\ offer'[p] \in {"make", "look", "refused"}
      /\ \A q \in Pages : q # p => offer'[q] = offer[q]
  BY <1>1, <1>4, ToKeeps DEF OfferPlaces
<1>6. /\ SlotTypes' /\ OfferTypes' /\ RequestTypes' /\ PageTypes' /\ PipeTypes' /\ LoopTypes'
  BY <1>1, <1>2, <1>3, <1>4, <1>5
     DEF SlotTypes, OfferTypes, RequestTypes, PageTypes, PipeTypes, LoopTypes
<1>7. RtcTypeOK'
  BY <1>6, RtcTypesMeant
<1>8. Owners'
  <2>1. \A q \in Pages : offer'[q] \in Before \cup {"make"} => offer[q] \in Before \cup {"make"}
    BY <1>2, <1>5 DEF Before
  <2>2. \A b \in linked' \ lost' : b \in linked \ lost \/ \E i \in RtcSlots : slot[i].bin = b
    BY <1>2, <1>4
  <2>3. linked' \subseteq Pages
    BY <1>6 DEF PipeTypes
  <2> QED BY <1>1, <1>2, <1>4, <2>1, <2>2, <2>3, StayKeeps
<1>9. Unasked' /\ RequestsOutliveTheirUsers'
  BY <1>1, <1>2, <1>5, AsksKeep DEF Before
<1>10. DoomedSoon'
  BY <1>1, <1>2, <1>5, DoomKeeps
<1> QED BY <1>7, <1>8, <1>9, <1>10 DEF RtcInv

\* What a slot held is in the teardown's hands.
LEMMA DetachOwners ==
    ASSUME RtcTypeOK, Owners, NEW t \in Threads, NEW i \in RtcSlots, Detach(t, i),
           doomed[t] = NoPage, UNCHANGED <<linked, lost>>,
           \A p \in Pages : offer'[p] \in Before \cup {"make"} => offer[p] \in Before \cup {"make"}
    PROVE  Owners'
<1>1. /\ \A j \in RtcSlots : slot'[j].bin = IF j = i /\ InUseRtc(i) THEN NoPage ELSE slot[j].bin
      /\ \A u \in Threads : doomed'[u] = IF u # t THEN doomed[u]
                                         ELSE IF InUseRtc(i) THEN slot[i].bin ELSE NoPage
  BY DetachKeeps
<1>2. OnePlace /\ Unmade /\ BranchesAreOwned
  BY DEF Owners
<1>3. CASE InUseRtc(i)
  <2>1. /\ \A j \in RtcSlots : slot'[j].bin = IF j = i THEN NoPage ELSE slot[j].bin
        /\ \A u \in Threads : doomed'[u] = IF u # t THEN doomed[u] ELSE slot[i].bin
    BY <1>1, <1>3
  <2>2. OnePlace'
    BY <1>2, <2>1 DEF OnePlace
  <2>3. Unmade'
    <3> SUFFICES ASSUME NEW p \in Pages, offer'[p] \in Before \cup {"make"}
                 PROVE  (\A j \in RtcSlots : slot'[j].bin # p) /\ (\A u \in Threads : doomed'[u] # p)
      BY DEF Unmade, Before
    <3>1. (\A j \in RtcSlots : slot[j].bin # p) /\ (\A u \in Threads : doomed[u] # p) /\ p # NoPage
      BY <1>2, RtcAssumption DEF Unmade
    <3> QED BY <2>1, <3>1
  <2>4. BranchesAreOwned'
    <3> SUFFICES ASSUME NEW b \in linked \ lost
                 PROVE  (\E j \in RtcSlots : slot'[j].bin = b) \/ (\E u \in Threads : doomed'[u] = b)
      BY DEF BranchesAreOwned
    <3>1. b # NoPage
      BY RtcTypesMean, RtcAssumption DEF PipeTypes
    <3>2. (\E j \in RtcSlots : slot[j].bin = b) \/ (\E u \in Threads : doomed[u] = b)
      BY <1>2 DEF BranchesAreOwned
    <3> QED BY <2>1, <3>1, <3>2
  <2> QED BY <2>2, <2>3, <2>4 DEF Owners
<1>4. CASE ~InUseRtc(i)
  <2>1. /\ \A j \in RtcSlots : slot'[j].bin = slot[j].bin
        /\ \A u \in Threads : doomed'[u] = doomed[u]
    BY <1>1, <1>4
  <2>2. OnePlace' /\ Unmade' /\ BranchesAreOwned'
    BY <1>2, <2>1 DEF OnePlace, Unmade, BranchesAreOwned
  <2> QED BY <2>2 DEF Owners
<1> QED BY <1>3, <1>4

\* What a teardown had in its hands is gone, its branch with it.
LEMMA DestroyOwners ==
    ASSUME RtcTypeOK, Owners, NEW t \in Threads, Destroy(t), UNCHANGED slot,
           \A p \in Pages : offer'[p] \in Before \cup {"make"} => offer[p] \in Before \cup {"make"}
    PROVE  Owners'
<1>1. /\ lost' = lost /\ linked' = linked \ {doomed[t]}
      /\ \A u \in Threads : doomed'[u] = IF u = t THEN NoPage ELSE doomed[u]
  BY DestroyKeeps
<1>2. OnePlace /\ Unmade /\ BranchesAreOwned
  BY DEF Owners
<1>3. OnePlace'
  BY <1>1, <1>2 DEF OnePlace
<1>4. Unmade'
  <2> SUFFICES ASSUME NEW p \in Pages, offer'[p] \in Before \cup {"make"}
               PROVE  (\A j \in RtcSlots : slot'[j].bin # p) /\ (\A u \in Threads : doomed'[u] # p)
    BY DEF Unmade, Before
  <2>1. (\A j \in RtcSlots : slot[j].bin # p) /\ (\A u \in Threads : doomed[u] # p) /\ p # NoPage
    BY <1>2, RtcAssumption DEF Unmade
  <2> QED BY <1>1, <2>1
<1>5. BranchesAreOwned'
  BY <1>1, <1>2 DEF BranchesAreOwned
<1> QED BY <1>3, <1>4, <1>5 DEF Owners

LEMMA TearKeeps ==
    ASSUME RtcInv, NEW p \in Pages, Tear(p)
    PROVE  RtcInv'
<1>1. /\ RtcTypeOK /\ Owners /\ Unasked /\ RequestsOutliveTheirUsers /\ DoomedSoon
      /\ SlotTypes /\ OfferTypes /\ RequestTypes /\ PageTypes /\ PipeTypes /\ LoopTypes
  BY RtcTypesMean DEF RtcInv
<1>2. /\ offer[p] = "tear" /\ Detach(p, at[p]) /\ To(p, "destroy")
      /\ reclaimed' = [reclaimed EXCEPT ![p] = TRUE]
      /\ UNCHANGED <<idles, at, requestVars, pageVars, piped, linked, lost, loop>>
  BY DEF Tear
<1>3. /\ request' = request /\ calls' = calls /\ conn' = conn /\ notice' = notice /\ here' = here
  BY <1>2 DEF requestVars, pageVars
<1>4. p \in Threads /\ p # Main /\ at[p] \in RtcSlots
  BY <1>1, RtcAssumption DEF OfferTypes, Threads, Main
<1>5. /\ slot' \in [RtcSlots -> SlotRecord] /\ doomed' \in [Threads -> Pages \cup {NoPage}]
      /\ \A u \in Threads : u # p => doomed'[u] = doomed[u]
  BY <1>1, <1>2, <1>4, DetachKeeps
<1>6. /\ offer' \in [Pages -> OfferPlaces] /\ offer'[p] = "destroy"
      /\ \A q \in Pages : q # p => offer'[q] = offer[q]
  BY <1>1, <1>2, ToKeeps DEF OfferPlaces
<1>7. SlotTypes' /\ OfferTypes' /\ RequestTypes' /\ PageTypes' /\ PipeTypes' /\ LoopTypes'
  BY <1>1, <1>2, <1>3, <1>5, <1>6
     DEF SlotTypes, OfferTypes, RequestTypes, PageTypes, PipeTypes, LoopTypes
<1>8. RtcTypeOK'
  BY <1>7, RtcTypesMeant
<1>9. Owners'
  <2>1. doomed[p] = NoPage
    BY <1>1, <1>2 DEF DoomedSoon
  <2>2. \A q \in Pages : offer'[q] \in Before \cup {"make"} => offer[q] \in Before \cup {"make"}
    BY <1>2, <1>6 DEF Before
  <2> QED BY <1>1, <1>2, <1>4, <2>1, <2>2, DetachOwners
<1>10. Unasked' /\ RequestsOutliveTheirUsers'
  BY <1>1, <1>2, <1>6, AsksKeep DEF Before
<1>11. DoomedSoon'
  <2>1. \A q \in Pages : q \in Threads
    BY DEF Threads
  <2>2. Main \in Threads
    BY DEF Threads
  <2> QED BY <1>1, <1>2, <1>4, <1>5, <1>6, <2>1, <2>2 DEF DoomedSoon
<1> QED BY <1>8, <1>9, <1>10, <1>11 DEF RtcInv

LEMMA ReclaimedKeeps ==
    ASSUME RtcInv, NEW p \in Pages, Reclaimed(p)
    PROVE  RtcInv'
<1>1. /\ RtcTypeOK /\ Owners /\ Unasked /\ RequestsOutliveTheirUsers /\ DoomedSoon
      /\ SlotTypes /\ OfferTypes /\ RequestTypes /\ PageTypes /\ PipeTypes /\ LoopTypes
  BY RtcTypesMean DEF RtcInv
<1>2. /\ offer[p] = "destroy" /\ Destroy(p) /\ NextLook(p, TRUE)
      /\ UNCHANGED <<slotVars, reclaimed, requestVars, loop>>
  BY DEF Reclaimed
<1>3. slot' = slot /\ idles' = idles /\ request' = request /\ calls' = calls
  BY <1>2 DEF requestVars, slotVars
<1>4. p \in Threads /\ p # Main
  BY RtcAssumption DEF Threads, Main
<1>5. /\ PageTypes' /\ PipeTypes'
      /\ \A u \in Threads : doomed'[u] = IF u = p THEN NoPage ELSE doomed[u]
  BY <1>1, <1>2, <1>4, DestroyKeeps
<1>6. /\ at' \in [Pages -> RtcSlots] /\ offer' \in [Pages -> OfferPlaces]
      /\ offer'[p] \in {"look", "retake", "refused"}
      /\ \A q \in Pages : q # p => offer'[q] = offer[q]
  BY <1>1, <1>2, NextLookKeeps
<1>7. SlotTypes' /\ OfferTypes' /\ RequestTypes' /\ LoopTypes'
  BY <1>1, <1>2, <1>3, <1>6 DEF SlotTypes, OfferTypes, RequestTypes, LoopTypes
<1>8. RtcTypeOK'
  BY <1>5, <1>7, RtcTypesMeant
<1>9. Owners'
  <2>1. \A q \in Pages : offer'[q] \in Before \cup {"make"} => offer[q] \in Before \cup {"make"}
    BY <1>2, <1>6 DEF Before
  <2> QED BY <1>1, <1>2, <1>3, <1>4, <2>1, DestroyOwners
<1>10. Unasked' /\ RequestsOutliveTheirUsers'
  BY <1>1, <1>2, <1>6, AsksKeep DEF Before
<1>11. DoomedSoon'
  <2>1. \A q \in Pages : q \in Threads
    BY DEF Threads
  <2>2. Main \in Threads
    BY DEF Threads
  <2> QED BY <1>1, <1>2, <1>4, <1>5, <1>6, <2>1, <2>2 DEF DoomedSoon
<1> QED BY <1>8, <1>9, <1>10, <1>11 DEF RtcInv

LEMMA TearIdleKeeps == ASSUME RtcInv, TearIdle PROVE RtcInv'
<1>1. /\ RtcTypeOK /\ Owners /\ Unasked /\ RequestsOutliveTheirUsers /\ DoomedSoon
      /\ SlotTypes /\ OfferTypes /\ RequestTypes /\ PageTypes /\ PipeTypes /\ LoopTypes
  BY RtcTypesMean DEF RtcInv
<1>2. /\ loop[1] = "idle" /\ idles # <<>> /\ Detach(Main, Head(idles)) /\ idles' = Tail(idles)
      /\ loop' = <<"destroy", 0>> /\ UNCHANGED <<offerVars, pageVars, piped, linked, lost>>
  BY DEF TearIdle, Idling, At
<1>3. /\ offer' = offer /\ at' = at /\ reclaimed' = reclaimed /\ request' = request /\ calls' = calls
      /\ conn' = conn /\ notice' = notice /\ here' = here
  BY <1>2 DEF offerVars, requestVars, pageVars
<1>4. Main \in Threads /\ Main \notin Pages
  BY RtcAssumption DEF Threads, Main
<1>5. Head(idles) \in RtcSlots /\ idles' \in Seq(RtcSlots)
  BY <1>1, <1>2 DEF SlotTypes
<1>6. /\ slot' \in [RtcSlots -> SlotRecord] /\ doomed' \in [Threads -> Pages \cup {NoPage}]
      /\ \A u \in Threads : u # Main => doomed'[u] = doomed[u]
  BY <1>1, <1>2, <1>4, <1>5, DetachKeeps
<1>7. SlotTypes' /\ OfferTypes' /\ RequestTypes' /\ PageTypes' /\ PipeTypes' /\ LoopTypes'
  BY <1>1, <1>2, <1>3, <1>5, <1>6, NextSlotIsOne
     DEF SlotTypes, OfferTypes, RequestTypes, PageTypes, PipeTypes, LoopTypes, LoopPlaces
<1>8. RtcTypeOK'
  BY <1>7, RtcTypesMeant
<1>9. Owners'
  <2>1. doomed[Main] = NoPage
    BY <1>1, <1>2 DEF DoomedSoon
  <2> QED BY <1>1, <1>2, <1>3, <1>4, <1>5, <2>1, DetachOwners
<1>10. Unasked' /\ RequestsOutliveTheirUsers'
  BY <1>1, <1>3, AsksKeep DEF requestVars
<1>11. DoomedSoon'
  <2>1. \A q \in Pages : q \in Threads
    BY DEF Threads
  <2> QED BY <1>1, <1>2, <1>3, <1>4, <1>6, <2>1 DEF DoomedSoon
<1> QED BY <1>8, <1>9, <1>10, <1>11 DEF RtcInv

LEMMA DestroyIdleKeeps == ASSUME RtcInv, DestroyIdle PROVE RtcInv'
<1>1. /\ RtcTypeOK /\ Owners /\ Unasked /\ RequestsOutliveTheirUsers /\ DoomedSoon
      /\ SlotTypes /\ OfferTypes /\ RequestTypes /\ PageTypes /\ PipeTypes /\ LoopTypes
  BY RtcTypesMean DEF RtcInv
<1>2. Destroy(Main) /\ loop' = <<"idle", 0>> /\ UNCHANGED <<slotVars, offerVars>>
  BY DEF DestroyIdle, At
<1>3. /\ slot' = slot /\ idles' = idles /\ offer' = offer /\ at' = at /\ reclaimed' = reclaimed
      /\ request' = request /\ calls' = calls
  BY <1>2 DEF slotVars, offerVars, requestVars
<1>4. Main \in Threads /\ Main \notin Pages
  BY RtcAssumption DEF Threads, Main
<1>5. /\ PageTypes' /\ PipeTypes'
      /\ \A u \in Threads : doomed'[u] = IF u = Main THEN NoPage ELSE doomed[u]
  BY <1>1, <1>2, <1>4, DestroyKeeps
<1>6. SlotTypes' /\ OfferTypes' /\ RequestTypes' /\ LoopTypes'
  BY <1>1, <1>2, <1>3, NextSlotIsOne DEF SlotTypes, OfferTypes, RequestTypes, LoopTypes, LoopPlaces
<1>7. RtcTypeOK'
  BY <1>5, <1>6, RtcTypesMeant
<1>8. Owners'
  BY <1>1, <1>2, <1>3, <1>4, DestroyOwners
<1>9. Unasked' /\ RequestsOutliveTheirUsers'
  BY <1>1, <1>3, AsksKeep DEF requestVars
<1>10. DoomedSoon'
  <2>1. \A q \in Pages : q \in Threads
    BY DEF Threads
  <2> QED BY <1>1, <1>2, <1>3, <1>4, <1>5, <2>1 DEF DoomedSoon
<1> QED BY <1>7, <1>8, <1>9, <1>10 DEF RtcInv

LEMMA AskKeeps ==
    ASSUME RtcInv, NEW p \in Pages, Ask(p) \/ MakeOne(p)
    PROVE  RtcInv'
<1>1. /\ RtcTypeOK /\ Owners /\ Unasked /\ RequestsOutliveTheirUsers /\ DoomedSoon
      /\ SlotTypes /\ OfferTypes /\ RequestTypes /\ PageTypes /\ PipeTypes /\ LoopTypes
  BY RtcTypesMean DEF RtcInv
<1>2. UNCHANGED <<slotVars, offer, at, reclaimed, pageVars, pipeVars, loop>>
  BY DEF Ask, MakeOne
<1>3. /\ slot' = slot /\ idles' = idles /\ offer' = offer /\ at' = at /\ reclaimed' = reclaimed
      /\ conn' = conn /\ notice' = notice /\ here' = here
      /\ piped' = piped /\ linked' = linked /\ lost' = lost /\ doomed' = doomed /\ loop' = loop
  BY <1>2 DEF slotVars, pageVars, pipeVars
<1>4. SlotTypes' /\ OfferTypes' /\ PageTypes' /\ PipeTypes' /\ LoopTypes'
  BY <1>1, <1>3 DEF SlotTypes, OfferTypes, PageTypes, PipeTypes, LoopTypes
<1>5. Owners'
  <2>1. linked' \subseteq Pages
    BY <1>4 DEF PipeTypes
  <2> QED BY <1>1, <1>3, <2>1, StayKeeps
<1>6. DoomedSoon'
  BY <1>1, <1>3, DoomKeeps
<1>7. RequestTypes' /\ Unasked' /\ RequestsOutliveTheirUsers'
  <2>1. CASE Ask(p)
    <3>1. /\ offer[p] = "make" /\ request' = [request EXCEPT ![p] = "asked"] /\ calls' = calls \cup {p}
      BY <2>1 DEF Ask
    <3>2. RequestTypes'
      BY <1>1, <3>1 DEF RequestTypes, Requests
    <3>3. request'[p] = "asked" /\ \A q \in Pages : q # p => request'[q] = request[q]
      BY <1>1, <3>1 DEF RequestTypes
    <3>4. Unasked'
      BY <1>1, <1>3, <3>1, <3>3 DEF Unasked, Before
    <3>5. RequestsOutliveTheirUsers'
      <4>1. calls \subseteq Pages
        BY <1>1 DEF RequestTypes
      <4> QED BY <1>1, <1>3, <3>1, <3>3, <4>1 DEF RequestsOutliveTheirUsers
    <3> QED BY <3>2, <3>4, <3>5
  <2>2. CASE MakeOne(p)
    <3>1. /\ p \in calls /\ calls' = calls \ {p}
          /\ request' = [request EXCEPT ![p] = IF @ = "asked" THEN "done" ELSE "freed"]
      BY <2>2 DEF MakeOne
    <3>2. RequestTypes'
      BY <1>1, <3>1 DEF RequestTypes, Requests
    <3>3. /\ request'[p] = IF request[p] = "asked" THEN "done" ELSE "freed"
          /\ \A q \in Pages : q # p => request'[q] = request[q]
      BY <1>1, <3>1 DEF RequestTypes
    <3>4. request[p] \in {"asked", "abandoned"}
      BY <1>1, <3>1 DEF RequestsOutliveTheirUsers
    <3>5. Unasked'
      BY <1>1, <1>3, <3>3, <3>4 DEF Unasked
    <3>6. RequestsOutliveTheirUsers'
      <4>1. calls \subseteq Pages
        BY <1>1 DEF RequestTypes
      <4> QED BY <1>1, <1>3, <3>1, <3>3, <3>4, <4>1 DEF RequestsOutliveTheirUsers
    <3> QED BY <3>2, <3>5, <3>6
  <2> QED BY <2>1, <2>2
<1>8. RtcTypeOK'
  BY <1>4, <1>7, RtcTypesMeant
<1> QED BY <1>5, <1>6, <1>7, <1>8 DEF RtcInv

LEMMA MadeKeeps ==
    ASSUME RtcInv, NEW p \in Pages, Made(p)
    PROVE  RtcInv'
<1>1. /\ RtcTypeOK /\ Owners /\ Unasked /\ RequestsOutliveTheirUsers /\ DoomedSoon
      /\ SlotTypes /\ OfferTypes /\ RequestTypes /\ PageTypes /\ PipeTypes /\ LoopTypes
  BY RtcTypesMean DEF RtcInv
<1>2. /\ offer[p] = "make"
      /\ \/ request[p] = "done" /\ request' = [request EXCEPT ![p] = "freed"]
         \/ request[p] = "asked" /\ request' = [request EXCEPT ![p] = "abandoned"]
      /\ UNCHANGED <<idles, at, reclaimed, calls, pageVars, linked, doomed, loop>>
  BY DEF Made, GiveUp
<1>3. conn' = conn /\ notice' = notice /\ here' = here
  BY <1>2 DEF pageVars
<1>4. at[p] \in RtcSlots /\ Bin(p) \in Pages \cup {NoPage} /\ Bin(p) = slot[at[p]].bin
  BY <1>1, SlotOf DEF OfferTypes, Bin
<1>5. /\ RequestTypes' /\ \A q \in Pages : q # p => request'[q] = request[q]
      /\ p \in calls => request'[p] \in {"asked", "abandoned"}
  BY <1>1, <1>2 DEF RequestTypes, Requests, RequestsOutliveTheirUsers
<1>6. /\ slot' \in [RtcSlots -> SlotRecord] /\ piped' \subseteq Pages /\ lost' \subseteq Pages
      /\ offer' \in [Pages -> OfferPlaces] /\ offer'[p] \in {"negotiate", "refused"}
      /\ \A q \in Pages : q # p => offer'[q] = offer[q]
      /\ Owners'
  <2>1. CASE /\ slot' = [slot EXCEPT ![at[p]].bin = p]
             /\ piped' = piped \cup {p} /\ To(p, "negotiate")
             /\ lost' = lost \cup ({Bin(p)} \ {NoPage})
    <3>1. /\ slot' \in [RtcSlots -> SlotRecord]
          /\ \A i \in RtcSlots : slot'[i].bin = IF i = at[p] THEN p ELSE slot[i].bin
      BY <1>1, <1>4, <2>1 DEF SlotTypes, SlotRecord
    <3>2. /\ offer' \in [Pages -> OfferPlaces] /\ offer'[p] = "negotiate"
          /\ \A q \in Pages : q # p => offer'[q] = offer[q]
      BY <1>1, <2>1, ToKeeps DEF OfferPlaces
    <3>3. piped' \subseteq Pages /\ lost' \subseteq Pages
      BY <1>1, <1>4, <2>1 DEF PipeTypes
    <3>4. (\A i \in RtcSlots : slot[i].bin # p) /\ (\A t \in Threads : doomed[t] # p)
      BY <1>1, <1>2 DEF Owners, Unmade
    <3>5. OnePlace'
      BY <1>1, <1>2, <3>1, <3>4 DEF Owners, OnePlace
    <3>6. Unmade'
      <4> SUFFICES ASSUME NEW q \in Pages, offer'[q] \in Before \cup {"make"}
                   PROVE  (\A i \in RtcSlots : slot'[i].bin # q) /\ (\A t \in Threads : doomed'[t] # q)
        BY DEF Unmade, Before
      <4>1. q # p /\ offer[q] \in Before \cup {"make"}
        BY <3>2 DEF Before
      <4>2. (\A i \in RtcSlots : slot[i].bin # q) /\ (\A t \in Threads : doomed[t] # q)
        BY <1>1, <4>1 DEF Owners, Unmade
      <4> QED BY <1>2, <3>1, <4>1, <4>2
    <3>7. BranchesAreOwned'
      <4> SUFFICES ASSUME NEW b \in linked' \ lost'
                   PROVE  (\E i \in RtcSlots : slot'[i].bin = b) \/ (\E t \in Threads : doomed'[t] = b)
        BY DEF BranchesAreOwned
      <4>1. b \in linked \ lost /\ b # NoPage /\ b # slot[at[p]].bin
        BY <1>1, <1>2, <1>4, <2>1, RtcAssumption DEF PipeTypes
      <4>2. (\E i \in RtcSlots : slot[i].bin = b) \/ (\E t \in Threads : doomed[t] = b)
        BY <1>1, <4>1 DEF Owners, BranchesAreOwned
      <4> QED BY <1>2, <3>1, <4>1, <4>2
    <3> QED BY <3>1, <3>2, <3>3, <3>5, <3>6, <3>7 DEF Owners
  <2>2. CASE Release(p, FALSE) /\ UNCHANGED piped
    <3>1. /\ slot' \in [RtcSlots -> SlotRecord] /\ lost' \subseteq Pages /\ lost \subseteq lost'
          /\ \A i \in RtcSlots : slot'[i].bin = slot[i].bin
          /\ offer' \in [Pages -> OfferPlaces] /\ offer'[p] = "refused"
          /\ \A q \in Pages : q # p => offer'[q] = offer[q]
      BY <1>1, <2>2, ReleaseKeeps
    <3>2. linked' \subseteq Pages /\ piped' \subseteq Pages
      BY <1>1, <1>2, <2>2 DEF PipeTypes
    <3>3. \A q \in Pages : offer'[q] \in Before \cup {"make"} => offer[q] \in Before \cup {"make"}
      BY <3>1 DEF Before
    <3>4. Owners'
      BY <1>1, <1>2, <3>1, <3>2, <3>3, StayKeeps
    <3> QED BY <3>1, <3>2, <3>4
  <2> QED BY <2>1, <2>2 DEF Made
<1>7. SlotTypes' /\ OfferTypes' /\ PageTypes' /\ PipeTypes' /\ LoopTypes'
  BY <1>1, <1>2, <1>3, <1>6 DEF SlotTypes, OfferTypes, PageTypes, PipeTypes, LoopTypes
<1>8. RtcTypeOK'
  BY <1>5, <1>7, RtcTypesMeant
<1>9. Unasked'
  BY <1>1, <1>5, <1>6 DEF Unasked, Before
<1>10. RequestsOutliveTheirUsers'
  <2>1. calls \subseteq Pages
    BY <1>1 DEF RequestTypes
  <2> QED BY <1>1, <1>2, <1>5, <1>6, <2>1 DEF RequestsOutliveTheirUsers
<1>11. DoomedSoon'
  BY <1>1, <1>2, <1>6, DoomKeeps
<1> QED BY <1>6, <1>8, <1>9, <1>10, <1>11 DEF RtcInv

LEMMA NegotiateKeeps ==
    ASSUME RtcInv, NEW p \in Pages, Negotiate(p) \/ Answer(p)
    PROVE  RtcInv'
<1>1. /\ RtcTypeOK /\ Owners /\ Unasked /\ RequestsOutliveTheirUsers /\ DoomedSoon
      /\ SlotTypes /\ OfferTypes /\ RequestTypes /\ PageTypes /\ PipeTypes /\ LoopTypes
  BY RtcTypesMean DEF RtcInv
<1>2. /\ offer[p] \in {"negotiate", "answer"} /\ Bin(p) # NoPage
      /\ UNCHANGED <<idles, at, reclaimed, requestVars, notice, here, doomed, loop>>
  BY DEF Negotiate, Answer, pageVars
<1>3. request' = request /\ calls' = calls
  BY <1>2 DEF requestVars
<1>4. at[p] \in RtcSlots /\ Bin(p) \in Pages /\ Bin(p) = slot[at[p]].bin
  BY <1>1, <1>2, SlotOf DEF OfferTypes, Bin
<1>5. /\ slot' \in [RtcSlots -> SlotRecord] /\ \A i \in RtcSlots : slot'[i].bin = slot[i].bin
      /\ lost' \subseteq Pages /\ lost \subseteq lost'
      /\ offer' \in [Pages -> OfferPlaces] /\ offer'[p] \in {"answer", "there", "refused"}
      /\ \A q \in Pages : q # p => offer'[q] = offer[q]
  <2>1. \/ \E spot \in {"answer", "there"} : To(p, spot) /\ UNCHANGED <<slot, lost>>
        \/ Release(p, TRUE)
    BY DEF Negotiate, Answer
  <2>2. CASE \E spot \in {"answer", "there"} : To(p, spot) /\ UNCHANGED <<slot, lost>>
    <3>1. PICK spot \in {"answer", "there"} : To(p, spot) /\ UNCHANGED <<slot, lost>>
      BY <2>2
    <3>2. spot \in OfferPlaces
      BY DEF OfferPlaces
    <3> QED BY <1>1, <3>1, <3>2, ToKeeps DEF SlotTypes, PipeTypes
  <2>3. CASE Release(p, TRUE)
    BY <1>1, <1>2, <2>3, ReleaseKeeps
  <2> QED BY <2>1, <2>2, <2>3
<1>6. /\ linked' \subseteq linked \cup {Bin(p)} /\ piped' \subseteq piped
      /\ conn' \in [Pages -> {"new", "connected", "disconnected", "failed", "closed", "ended"}]
  <2>1. linked' \subseteq linked \cup {Bin(p)} /\ piped' \subseteq piped
    BY DEF Negotiate, Answer
  <2>2. conn' = conn \/ conn' = [conn EXCEPT ![Bin(p)] = "ended"]
    BY DEF Negotiate, Answer, pageVars
  <2> QED BY <1>1, <1>4, <2>1, <2>2 DEF PageTypes
<1>7. /\ SlotTypes' /\ OfferTypes' /\ RequestTypes' /\ LoopTypes'
  BY <1>1, <1>2, <1>3, <1>5 DEF SlotTypes, OfferTypes, RequestTypes, LoopTypes
<1>8. PageTypes' /\ PipeTypes'
  BY <1>1, <1>2, <1>4, <1>5, <1>6 DEF PageTypes, PipeTypes
<1>9. RtcTypeOK'
  BY <1>7, <1>8, RtcTypesMeant
<1>10. Owners'
  <2>1. \A q \in Pages : offer'[q] \in Before \cup {"make"} => offer[q] \in Before \cup {"make"}
    BY <1>5 DEF Before
  <2>2. \A b \in linked' \ lost' : b \in linked \ lost \/ \E i \in RtcSlots : slot[i].bin = b
    BY <1>4, <1>5, <1>6
  <2>3. linked' \subseteq Pages
    BY <1>8 DEF PipeTypes
  <2> QED BY <1>1, <1>2, <1>5, <2>1, <2>2, <2>3, StayKeeps
<1>11. Unasked' /\ RequestsOutliveTheirUsers'
  BY <1>1, <1>2, <1>5, AsksKeep DEF Before
<1>12. DoomedSoon'
  BY <1>1, <1>2, <1>5, DoomKeeps
<1> QED BY <1>9, <1>10, <1>11, <1>12 DEF RtcInv

LEMMA SweepKeeps ==
    ASSUME RtcInv, Sweep \/ SweepGoesOn \/ SweepRings
    PROVE  RtcInv'
<1>1. /\ RtcTypeOK /\ Owners /\ Unasked /\ RequestsOutliveTheirUsers /\ DoomedSoon
      /\ SlotTypes /\ OfferTypes /\ RequestTypes /\ PageTypes /\ PipeTypes /\ LoopTypes
  BY RtcTypesMean DEF RtcInv
<1>2. UNCHANGED <<offerVars, pageVars, pipeVars>> /\ loop[1] \in {"idle", "look", "ring"}
  BY DEF Sweep, SweepGoesOn, SweepRings, SweepLook, Idling
<1>3. /\ offer' = offer /\ at' = at /\ reclaimed' = reclaimed /\ request' = request /\ calls' = calls
      /\ conn' = conn /\ notice' = notice /\ here' = here
      /\ piped' = piped /\ linked' = linked /\ lost' = lost /\ doomed' = doomed
  BY <1>2 DEF offerVars, requestVars, pageVars, pipeVars
<1>4. LoopTypes'
  <2>1. loop[2] \in RtcSlots
    BY <1>1 DEF LoopTypes
  <2>2. \A i \in RtcSlots : SweepNext(i) => LoopTypes'
    BY NextSlotIsOne DEF SweepNext, At, LoopTypes, LoopPlaces
  <2>3. \A i \in RtcSlots : SweepLook(i) => LoopTypes'
    BY <2>2 DEF SweepLook, At, LoopTypes, LoopPlaces
  <2> QED BY <2>1, <2>2, <2>3, NextSlotIsOne DEF Sweep, SweepGoesOn, SweepRings
<1>5. SlotTypes' /\ \A j \in RtcSlots : slot'[j].bin = slot[j].bin
  <2>1. loop[2] \in RtcSlots
    BY <1>1 DEF LoopTypes
  <2>2. CASE Schedule(loop[2])
    BY <1>1, <2>1, <2>2, ScheduleKeeps
  <2>3. CASE UNCHANGED slotVars
    BY <1>1, <2>3 DEF SlotTypes, slotVars
  <2> QED BY <2>2, <2>3 DEF Sweep, SweepGoesOn, SweepRings, SweepLook
<1>6. OfferTypes' /\ RequestTypes' /\ PageTypes' /\ PipeTypes'
  BY <1>1, <1>3 DEF OfferTypes, RequestTypes, PageTypes, PipeTypes
<1>7. RtcTypeOK'
  BY <1>4, <1>5, <1>6, RtcTypesMeant
<1>8. Owners'
  <2>1. linked' \subseteq Pages
    BY <1>6 DEF PipeTypes
  <2> QED BY <1>1, <1>3, <1>5, <2>1, StayKeeps
<1>9. Unasked' /\ RequestsOutliveTheirUsers'
  BY <1>1, <1>3, AsksKeep DEF requestVars
<1>10. DoomedSoon'
  BY <1>1, <1>2, <1>3, DoomKeeps
<1> QED BY <1>7, <1>8, <1>9, <1>10 DEF RtcInv

LEMMA RtcStays == RtcInv /\ UNCHANGED rtcVars => RtcInv'
<1> SUFFICES ASSUME RtcInv, UNCHANGED rtcVars PROVE RtcInv'
    OBVIOUS
<1>1. slot' = slot /\ idles' = idles /\ UNCHANGED <<offerVars, pageVars, pipeVars, loop>>
  BY DEF rtcVars, slotVars
<1>2. SlotTypes' /\ PageTypes'
  BY <1>1, RtcTypesMean DEF RtcInv, SlotTypes, PageTypes, pageVars
<1> QED BY <1>1, <1>2, QuietKeeps

\* Every step of the pages, their offers' threads and the loop keeps the
\* invariant.
LEMMA RtcInvariant == RtcInv /\ [RtcNext]_rtcVars => RtcInv'
<1> SUFFICES ASSUME RtcInv, RtcNext PROVE RtcInv'
    BY RtcStays
<1>1. ASSUME NEW p \in Pages,
             \/ Offer(p) \/ OfferThread(p) \/ Connection(p) \/ Notice(p) \/ NoticeRings(p)
             \/ Leave(p) \/ Seen(p) \/ Bye(p) \/ ByeRings(p)
      PROVE  RtcInv'
  <2>1. CASE Offer(p) \/ Look(p) \/ Stuck(p) \/ Bye(p)
    BY <2>1, MovingSteps
  <2>2. CASE Connection(p) \/ Notice(p) \/ NoticeRings(p) \/ Leave(p) \/ Seen(p)
    BY <2>2, PageSteps
  <2>3. CASE ByeRings(p)
    BY <2>3, ByeRingsKeeps
  <2>4. CASE Take(p)
    BY <2>4, TakeKeeps
  <2>5. CASE Tear(p)
    BY <2>5, TearKeeps
  <2>6. CASE Reclaimed(p)
    BY <2>6, ReclaimedKeeps
  <2>7. CASE Ask(p)
    BY <2>7, AskKeeps
  <2>8. CASE Made(p)
    BY <2>8, MadeKeeps
  <2>9. CASE Negotiate(p) \/ Answer(p)
    BY <2>9, NegotiateKeeps
  <2> QED BY <1>1, <2>1, <2>2, <2>3, <2>4, <2>5, <2>6, <2>7, <2>8, <2>9 DEF OfferThread
<1>2. ASSUME NEW i \in RtcSlots, Silence(i) \/ Grace(i) PROVE RtcInv'
  BY <1>2, TimeSteps
<1>3. ASSUME LoopThread \/ Sweep PROVE RtcInv'
  <2>1. ASSUME NEW p \in Pages, MakeOne(p) PROVE RtcInv'
    BY <2>1, AskKeeps
  <2>2. CASE TearIdle
    BY <2>2, TearIdleKeeps
  <2>3. CASE DestroyIdle
    BY <2>3, DestroyIdleKeeps
  <2>4. CASE Sweep \/ SweepGoesOn \/ SweepRings
    BY <2>4, SweepKeeps
  <2> QED BY <1>3, <2>1, <2>2, <2>3, <2>4 DEF LoopThread
<1> QED BY <1>1, <1>2, <1>3 DEF RtcNext

LEMMA RtcInvIsEnough == RtcInv => RtcTypeOK /\ SlotsAreOwned
<1> SUFFICES ASSUME RtcInv PROVE RtcTypeOK /\ SlotsAreOwned
    OBVIOUS
<1>1. RtcTypeOK /\ OnePlace /\ BranchesAreOwned /\ RequestsOutliveTheirUsers
  BY DEF RtcInv, Owners
<1>2. TornDownOnce
  BY <1>1 DEF OnePlace, TornDownOnce
<1> QED BY <1>1, <1>2 DEF SlotsAreOwned

\* However many pages offer, leave and are torn down, and however the sweep,
\* the notifications and the offers' own threads interleave: no two teardowns
\* have one page's elements, a branch on the tees has an owner unless it was
\* lost, and a request outlives its users.
THEOREM SlotsAreTheirOwners == RtcSpec => [](RtcTypeOK /\ SlotsAreOwned)
<1>1. RtcInit => RtcInv
  BY RtcStarts
<1>2. RtcInv /\ [RtcNext]_rtcVars => RtcInv'
  BY RtcInvariant
<1> QED BY <1>1, <1>2, RtcInvIsEnough, PTL DEF RtcSpec

----------------------------------------------------------------------------
(* The native stream server's table, what it counts, and the frames it sends. *)

\* A set of slots that is not empty has a lowest one: the order of the natural
\* numbers is well founded.
LEMMA LeastSlot ==
    ASSUME NEW S, S \subseteq Slots, S # {}
    PROVE  Lowest(S) \in S /\ \A j \in S : Lowest(S) <= j
<1>1. S \subseteq Nat
  BY NativeAssumption DEF Slots
<1> DEFINE R == OpToRel(<, Nat)
<1>2. IsWellFoundedOn(R, Nat)
  BY NatLessThanWellFounded
<1>3. \E i \in S : \A j \in S : ~ (<<j, i>> \in R)
  <2> HIDE DEF R
  <2> QED BY <1>1, <1>2, WFMin
<1>4. PICK i \in S : \A j \in S : ~ (<<j, i>> \in R)
  BY <1>3
<1>5. \A j \in S : ~(j < i)
  <2> TAKE j \in S
  <2>1. j \in Nat /\ i \in Nat
    BY <1>1
  <2> QED BY <2>1, <1>4 DEF OpToRel
<1>6. \A j \in S : i <= j
  BY <1>1, <1>5
<1> QED BY <1>6 DEF Lowest

Codecs == OldCodecs \cup {"vp8", "h264", "drc", "none"}
ClientRecord == [stage : {"free", "hello", "ready"}, kind : Doors \cup {"web", "none"},
                 control : BOOLEAN, codec : Codecs, waiting : BOOLEAN, synced : BOOLEAN,
                 garbled : BOOLEAN, peer : {"there", "ended", "silent", "late"}]
PollAnswers == UNION {[S -> {"in", "hup", "none"}] : S \in SUBSET Slots}

FlagTypes == /\ keyPending \in BOOLEAN /\ keyRecent \in BOOLEAN
             /\ npc \in {"poll", "doors", "accepted", "serve", "demand", "keyframe"}
             /\ wantKeyframe \in BOOLEAN
             /\ polled \in PollAnswers /\ wanted \subseteq Streams /\ allowed \subseteq Gated
CountTypes == live \in [Streams -> 0 .. Cardinality(Slots)] /\ demandDirty \in BOOLEAN
TableInv == nativeClient \in [Slots -> ClientRecord] /\ CountTypes /\ CountsAreExact
HandsInv == hands \subseteq Slots /\ stranded \subseteq hands /\ HandsHaveOwners

\* The frame between the encoder and its clients is the encoder's last.
FrameFits == \/ old3dsFrame = <<>>
             \/ \E key \in BOOLEAN : old3dsFrame = <<[codec |-> encoderCodec, key |-> key]>>

\* An encoder in state e, with the frames of fr still to send, will not send a
\* predicted frame without the keyframe before it.
StartsWithKey(e, fr) == e \notin Predictive \/ (fr # <<>> /\ fr[1].key)

\* What is true of every client, when the group's codec is codec: only an old
\* 3DS garbles, and who decodes predicted frames has one to predict from.
Safe(c, codec, e, fr) ==
    /\ c.kind = "old3ds" => c.codec \in OldCodecs
    /\ c.garbled => c.kind = "old3ds" /\ c.stage = "ready" /\ c.codec # codec
    /\ c.stage = "ready" /\ Predicts(c) /\ c.codec = codec /\ ~c.waiting /\ ~c.synced
           => StartsWithKey(e, fr)
PictureInv == /\ groupCodec \in OldCodecs /\ encoderCodec \in OldCodecs /\ FrameFits
              /\ \A i \in Slots : Safe(nativeClient[i], groupCodec, encoderCodec, old3dsFrame)

NativeInv == FlagTypes /\ TableInv /\ HandsInv /\ PictureInv

LEMMA SlotsAreFinite == IsFiniteSet(Slots) /\ Cardinality(Slots) \in Nat /\ Slots \subseteq Nat
<1>1. MaxClients \in Nat
  BY NativeAssumption
<1>2. IsFiniteSet(Slots)
  BY <1>1, FS_Interval DEF Slots
<1> QED BY <1>1, <1>2, FS_CardinalityType DEF Slots

\* A count never exceeds the number of slots.
LEMMA CountsFit == \A t : Counts(t) \in [Streams -> 0 .. Cardinality(Slots)]
<1> SUFFICES ASSUME NEW t, NEW k \in Streams PROVE Counts(t)[k] \in 0 .. Cardinality(Slots)
    BY DEF Counts
<1>1. Watching(t, k) \in SUBSET Slots
  BY DEF Watching
<1>2. /\ IsFiniteSet(Watching(t, k)) /\ Cardinality(Watching(t, k)) <= Cardinality(Slots)
  BY <1>1, SlotsAreFinite, FS_Subset
<1>3. Cardinality(Watching(t, k)) \in Nat
  BY <1>2, FS_CardinalityType
<1> QED BY <1>2, <1>3, SlotsAreFinite DEF Counts

LEMMA NobodyIsSafe ==
    /\ Nobody \in ClientRecord /\ Nobody.stage = "free" /\ Nobody.kind = "none"
    /\ \A codec, e, fr : Safe(Nobody, codec, e, fr)
BY DEF Nobody, ClientRecord, Codecs, Safe, Predicts

LEMMA RecountKeeps ==
    ASSUME NEW t \in [Slots -> ClientRecord], Recounted(t), demandDirty \in BOOLEAN
    PROVE  TableInv' /\ nativeClient' = t
<1>1. nativeClient' = t /\ live' = Counts(t) /\ demandDirty' = (demandDirty \/ Counts(t) # live)
  BY DEF Recounted
<1>2. live' \in [Streams -> 0 .. Cardinality(Slots)]
  BY <1>1, CountsFit
<1>3. demandDirty' \in BOOLEAN
  BY <1>1
<1>4. CountsAreExact'
  BY <1>1 DEF CountsAreExact, Counts
<1> QED BY <1>1, <1>2, <1>3, <1>4 DEF TableInv, CountTypes

LEMMA DroppedIs ==
    ASSUME NEW t \in [Slots -> ClientRecord], NEW gone
    PROVE  /\ Dropped(t, gone) \in [Slots -> ClientRecord]
           /\ \A i \in Slots : Dropped(t, gone)[i] = IF i \in gone THEN Nobody ELSE t[i]
BY NobodyIsSafe DEF Dropped

\* Who is dropped holds nothing any more.
LEMMA ForgetKeeps ==
    ASSUME HandsInv, NEW gone, Forget(gone),
           \A i \in Slots : i \notin gone /\ nativeClient[i].stage = "ready" /\ nativeClient[i].control
               => nativeClient'[i].stage = "ready" /\ nativeClient'[i].control
    PROVE  HandsInv'
BY DEF HandsInv, Forget, HandsHaveOwners

LEMMA NativeStarts == NativeInit => NativeInv
<1> SUFFICES ASSUME NativeInit PROVE NativeInv
    OBVIOUS
<1>1. /\ nativeClient = [i \in Slots |-> Nobody] /\ live = [k \in Streams |-> 0]
      /\ demandDirty = FALSE /\ keyPending = FALSE /\ keyRecent = FALSE
      /\ groupCodec = "mpeg" /\ npc = "poll" /\ polled = <<>> /\ wanted = {} /\ allowed = Gated
      /\ wantKeyframe = FALSE /\ encoderCodec = "mpeg" /\ old3dsFrame = <<>>
      /\ hands = {} /\ stranded = {}
  BY DEF NativeInit
<1>2. polled \in PollAnswers
  <2>1. polled \in [{} -> {"in", "hup", "none"}]
    BY <1>1
  <2> QED BY <2>1 DEF PollAnswers
<1>3. FlagTypes
  BY <1>1, <1>2 DEF FlagTypes
<1>4. TableInv
  <2>1. nativeClient \in [Slots -> ClientRecord]
    BY <1>1, NobodyIsSafe
  <2>2. \A k \in Streams : Watching(nativeClient, k) = {}
    BY <1>1, NobodyIsSafe DEF Watching
  <2>3. CountsAreExact
    BY <1>1, <2>2, FS_EmptySet DEF CountsAreExact
  <2>4. live \in [Streams -> 0 .. Cardinality(Slots)]
    BY <1>1, SlotsAreFinite
  <2> QED BY <1>1, <2>1, <2>3, <2>4 DEF TableInv, CountTypes
<1>5. HandsInv
  BY <1>1 DEF HandsInv, HandsHaveOwners
<1>6. PictureInv
  BY <1>1, NobodyIsSafe DEF PictureInv, FrameFits, OldCodecs, Predictive
<1> QED BY <1>3, <1>4, <1>5, <1>6 DEF NativeInv

\* The steps that leave the table, the codecs and the bridge alone.
LEMMA RestKeeps ==
    ASSUME NativeInv, FlagTypes', demandDirty' \in BOOLEAN,
           UNCHANGED <<nativeClient, live, groupCodec, encoder, bridge>>
    PROVE  NativeInv'
<1>1. /\ nativeClient' = nativeClient /\ live' = live /\ groupCodec' = groupCodec
      /\ encoderCodec' = encoderCodec /\ old3dsFrame' = old3dsFrame
      /\ hands' = hands /\ stranded' = stranded
  BY DEF encoder, bridge
<1>2. TableInv'
  BY <1>1 DEF NativeInv, TableInv, CountTypes, CountsAreExact
<1>3. HandsInv'
  BY <1>1 DEF NativeInv, HandsInv, HandsHaveOwners
<1>4. PictureInv'
  BY <1>1 DEF NativeInv, PictureInv, FrameFits
<1> QED BY <1>2, <1>3, <1>4 DEF NativeInv


LEMMA RestSteps ==
    ASSUME NativeInv,
           \/ NativePoll \/ NativeRefuse \/ TakeLock \/ TakeDemand \/ ReadDemand \/ TakeKeyframe \/ KeyTick
           \/ \E on \in BOOLEAN : SetWiiu(on) \/ SetDrc(on)
    PROVE  NativeInv'
<1>1. FlagTypes /\ demandDirty \in BOOLEAN
  BY DEF NativeInv, TableInv, CountTypes
<1>2. CASE NativePoll
  <2>1. /\ UNCHANGED <<table, flags, groupCodec, chains, encoder, bridge, events>> /\ npc' = "doors"
        /\ \E hup, talking : polled' = [i \in InUse(nativeClient) |->
                         IF i \in hup THEN "hup"
                         ELSE IF nativeClient[i].peer \in talking THEN "in" ELSE "none"]
    BY <1>2 DEF NativePoll
  <2>2. polled' \in [InUse(nativeClient) -> {"in", "hup", "none"}]
    BY <2>1
  <2>3. InUse(nativeClient) \in SUBSET Slots
    BY DEF InUse
  <2>4. polled' \in PollAnswers
    BY <2>2, <2>3 DEF PollAnswers
  <2>5. FlagTypes' /\ demandDirty' \in BOOLEAN
    BY <1>1, <2>1, <2>4 DEF FlagTypes, table, flags, chains
  <2> QED BY <2>1, <2>5, RestKeeps DEF table
<1>3. CASE TakeLock \/ KeyTick \/ NativeRefuse
  <2>1. /\ UNCHANGED <<table, keyPending, wantKeyframe, groupCodec, polled, chains, encoder,
                       bridge>>
        /\ npc' \in {npc, "serve", "accepted"} /\ keyRecent' \in {keyRecent, FALSE}
    BY <1>3 DEF TakeLock, KeyTick, NativeRefuse, Knock, flags
  <2>2. FlagTypes' /\ demandDirty' \in BOOLEAN
    BY <1>1, <2>1 DEF FlagTypes, table, chains
  <2> QED BY <2>1, <2>2, RestKeeps DEF table
<1>4. CASE TakeDemand
  <2>1. /\ UNCHANGED <<nativeClient, live, flags, groupCodec, chains, encoder, bridge>>
        /\ npc' \in {"demand", "keyframe"} /\ demandDirty' = FALSE /\ polled' = <<>>
    BY <1>4 DEF TakeDemand
  <2>3. <<>> \in PollAnswers
    <3>1. <<>> \in [{} -> {"in", "hup", "none"}]
      OBVIOUS
    <3> QED BY <3>1 DEF PollAnswers
  <2>2. FlagTypes' /\ demandDirty' \in BOOLEAN
    BY <1>1, <2>1, <2>3 DEF FlagTypes, flags, chains
  <2> QED BY <2>1, <2>2, RestKeeps
<1>5. CASE ReadDemand \/ \E on \in BOOLEAN : SetDrc(on) \/ SetWiiu(on)
  <2>1. /\ UNCHANGED <<table, keyPending, keyRecent, groupCodec, polled, encoder, bridge>>
        /\ npc' \in {npc, "keyframe"}
    BY <1>5 DEF ReadDemand, SetDrc, SetWiiu, flags
  <2>2. allowed' \subseteq Gated
    BY <1>1, <1>5 DEF ReadDemand, SetDrc, SetWiiu, FlagTypes, Gated
  <2>3. \A settings : Evaluate(settings) => wanted' \subseteq Streams /\ wantKeyframe' \in {wantKeyframe, TRUE}
    BY DEF Evaluate, AskKeyframe
  <2>4. \A on \in BOOLEAN : SetWiiu(on) => wanted' \subseteq wanted /\ wantKeyframe' = wantKeyframe
    BY DEF SetWiiu, flags
  <2>5. wanted' \subseteq Streams /\ wantKeyframe' \in {wantKeyframe, TRUE}
    BY <1>1, <1>5, <2>3, <2>4 DEF ReadDemand, SetDrc, FlagTypes
  <2>6. FlagTypes' /\ demandDirty' \in BOOLEAN
    BY <1>1, <2>1, <2>2, <2>5 DEF FlagTypes, table
  <2> QED BY <2>1, <2>6, RestKeeps DEF table
<1>6. CASE TakeKeyframe
  <2>1. /\ UNCHANGED <<table, groupCodec, polled, chains, encoder, bridge>>
        /\ npc' = "poll" /\ keyPending' = FALSE /\ keyRecent' \in {keyRecent, TRUE}
        /\ wantKeyframe' \in {wantKeyframe, TRUE}
    BY <1>6 DEF TakeKeyframe, AskKeyframe
  <2>2. FlagTypes' /\ demandDirty' \in BOOLEAN
    BY <1>1, <2>1 DEF FlagTypes, table, chains
  <2> QED BY <2>1, <2>2, RestKeeps DEF table
<1> QED BY <1>2, <1>3, <1>4, <1>5, <1>6

LEMMA PeerSteps ==
    ASSUME NativeInv, NEW i \in Slots, PeerLeaves(i) \/ PeerLate(i)
    PROVE  NativeInv'
<1>1. /\ FlagTypes /\ TableInv /\ HandsInv /\ PictureInv /\ nativeClient \in [Slots -> ClientRecord]
  BY DEF NativeInv, TableInv
<1>2. UNCHANGED <<live, demandDirty, flags, groupCodec, npc, polled, chains, encoder, bridge>>
  BY DEF PeerLeaves, PeerLate
<1>3. PICK how \in {"ended", "silent", "late"} :
            nativeClient' = [nativeClient EXCEPT ![i].peer = how]
  BY DEF PeerLeaves, PeerLate
<1>4. /\ nativeClient' \in [Slots -> ClientRecord]
      /\ \A j \in Slots : nativeClient'[j] = IF j = i THEN [nativeClient[i] EXCEPT !.peer = how]
                                             ELSE nativeClient[j]
  BY <1>1, <1>3 DEF ClientRecord
<1>5. \A j \in Slots :
          /\ nativeClient'[j].stage = nativeClient[j].stage /\ nativeClient'[j].kind = nativeClient[j].kind
          /\ nativeClient'[j].control = nativeClient[j].control
          /\ nativeClient'[j].codec = nativeClient[j].codec
          /\ nativeClient'[j].waiting = nativeClient[j].waiting
          /\ nativeClient'[j].synced = nativeClient[j].synced
          /\ nativeClient'[j].garbled = nativeClient[j].garbled
  BY <1>1, <1>4 DEF ClientRecord
<1>6. FlagTypes' /\ CountTypes'
  BY <1>1, <1>2 DEF FlagTypes, TableInv, CountTypes, flags, chains
<1>7. CountsAreExact'
  <2>1. \A k : Watching(nativeClient', k) = Watching(nativeClient, k)
    BY <1>5 DEF Watching, StreamOf
  <2> QED BY <1>1, <1>2, <2>1 DEF TableInv, CountsAreExact
<1>8. HandsInv'
  BY <1>1, <1>2, <1>5 DEF HandsInv, HandsHaveOwners, bridge
<1>9. PictureInv'
  <2>1. \A j \in Slots : Safe(nativeClient'[j], groupCodec, encoderCodec, old3dsFrame)
    BY <1>1, <1>5 DEF PictureInv, Safe, Predicts
  <2> QED BY <1>1, <1>2, <2>1 DEF PictureInv, FrameFits, encoder
<1> QED BY <1>4, <1>6, <1>7, <1>8, <1>9 DEF NativeInv, TableInv

LEMMA ReplaceKeeps == ASSUME NativeInv, Replace PROVE NativeInv'
<1>1. /\ FlagTypes /\ HandsInv /\ PictureInv
  BY DEF NativeInv
<1>2. /\ nativeClient' = [i \in Slots |-> Nobody] /\ live' = [k \in Streams |-> 0]
      /\ demandDirty' = FALSE /\ keyPending' = FALSE /\ keyRecent' = FALSE
      /\ groupCodec' = "mpeg" /\ stranded' = hands /\ hands' = hands
      /\ UNCHANGED <<wantKeyframe, npc, polled, chains, encoder>>
  BY DEF Replace
<1>3. FlagTypes'
  BY <1>1, <1>2 DEF FlagTypes, chains
<1>4. TableInv'
  <2>1. nativeClient' \in [Slots -> ClientRecord]
    BY <1>2, NobodyIsSafe
  <2>2. \A k \in Streams : Watching(nativeClient', k) = {}
    BY <1>2, NobodyIsSafe DEF Watching
  <2>3. CountsAreExact'
    BY <1>2, <2>2, FS_EmptySet DEF CountsAreExact
  <2>4. live' \in [Streams -> 0 .. Cardinality(Slots)]
    BY <1>2, SlotsAreFinite
  <2> QED BY <1>2, <2>1, <2>3, <2>4 DEF TableInv, CountTypes
<1>5. HandsInv'
  BY <1>1, <1>2 DEF HandsInv, HandsHaveOwners
<1>6. PictureInv'
  <2>1. encoderCodec' = encoderCodec /\ old3dsFrame' = old3dsFrame /\ groupCodec' \in OldCodecs
    BY <1>2 DEF encoder, OldCodecs, Predictive
  <2>2. \A i \in Slots : nativeClient'[i] = Nobody
    BY <1>2
  <2> QED BY <1>1, <2>1, <2>2, NobodyIsSafe DEF PictureInv, FrameFits
<1> QED BY <1>3, <1>4, <1>5, <1>6 DEF NativeInv

LEMMA EncodeKeeps == ASSUME NativeInv, EncodeOld3ds PROVE NativeInv'
<1>1. /\ FlagTypes /\ TableInv /\ HandsInv /\ PictureInv /\ nativeClient \in [Slots -> ClientRecord]
  BY DEF NativeInv, TableInv
<1>2. UNCHANGED <<table, keyPending, keyRecent, groupCodec, npc, polled, chains, bridge>>
      /\ wantKeyframe' = FALSE /\ old3dsFrame = <<>>
  BY DEF EncodeOld3ds
<1>3. PICK key \in BOOLEAN :
          /\ StreamCodec("old3ds") # encoderCodec => key
          /\ old3dsFrame' = <<[codec |-> StreamCodec("old3ds"), key |-> key]>>
          /\ encoderCodec' = StreamCodec("old3ds")
  BY DEF EncodeOld3ds
<1>4. StreamCodec("old3ds") \in OldCodecs
  <2>1. CASE Watching(nativeClient, "old3ds") = {}
    BY <2>1 DEF StreamCodec, OldCodecs
  <2>2. CASE Watching(nativeClient, "old3ds") # {}
    <3> DEFINE i == Lowest(Watching(nativeClient, "old3ds"))
    <3>1. i \in Watching(nativeClient, "old3ds")
      <4>1. Watching(nativeClient, "old3ds") \subseteq Slots
        BY DEF Watching
      <4> QED BY <2>2, <4>1, LeastSlot
    <3>2. i \in Slots /\ StreamOf(nativeClient[i]) = "old3ds"
      BY <3>1 DEF Watching
    <3> HIDE DEF i
    <3>3. nativeClient[i].kind = "old3ds"
      <4>1. nativeClient[i].codec # "old3ds"
        BY <1>1, <3>2 DEF ClientRecord, Codecs, OldCodecs, Predictive
      <4> QED BY <3>2, <4>1 DEF StreamOf
    <3>4. nativeClient[i].codec \in OldCodecs
      BY <1>1, <3>2, <3>3 DEF PictureInv, Safe
    <3> QED BY <2>2, <3>4 DEF StreamCodec, i
  <2> QED BY <2>1, <2>2
<1>5. FlagTypes' /\ TableInv' /\ HandsInv'
  BY <1>1, <1>2 DEF FlagTypes, TableInv, CountTypes, CountsAreExact, HandsInv, HandsHaveOwners,
                    table, chains, bridge
<1>6. PictureInv'
  <2>1. groupCodec' \in OldCodecs /\ encoderCodec' \in OldCodecs /\ FrameFits'
    BY <1>1, <1>2, <1>3, <1>4 DEF PictureInv, FrameFits
  <2>2. StartsWithKey(encoderCodec, <<>>) => StartsWithKey(encoderCodec', old3dsFrame')
    <3> SUFFICES ASSUME StartsWithKey(encoderCodec, <<>>)
                 PROVE  StartsWithKey(encoderCodec', old3dsFrame')
      OBVIOUS
    <3>1. encoderCodec \notin Predictive
      BY DEF StartsWithKey
    <3>2. CASE encoderCodec' \in Predictive
      <4>1. key
        BY <1>3, <3>1, <3>2
      <4>2. old3dsFrame' # <<>> /\ old3dsFrame'[1].key
        BY <1>3, <4>1
      <4> QED BY <4>2 DEF StartsWithKey
    <3> QED BY <3>2 DEF StartsWithKey
  <2>3. \A i \in Slots : Safe(nativeClient[i], groupCodec, encoderCodec', old3dsFrame')
    BY <1>1, <1>2, <2>2 DEF PictureInv, Safe
  <2> QED BY <1>2, <2>1, <2>3 DEF PictureInv, table
<1> QED BY <1>5, <1>6 DEF NativeInv

\* The steps that write the table and count it again.
LEMMA ChangeKeeps ==
    ASSUME NativeInv, NEW t \in [Slots -> ClientRecord], Recounted(t), FlagTypes', HandsInv',
           groupCodec' \in OldCodecs, encoderCodec' = encoderCodec,
           old3dsFrame' \in {old3dsFrame, <<>>},
           \A i \in Slots : Safe(t[i], groupCodec', encoderCodec, old3dsFrame')
    PROVE  NativeInv'
<1>1. TableInv' /\ nativeClient' = t
  BY RecountKeeps DEF NativeInv, TableInv, CountTypes
<1>2. PictureInv'
  BY <1>1 DEF NativeInv, PictureInv, FrameFits
<1> QED BY <1>1, <1>2 DEF NativeInv

LEMMA AcceptKeeps ==
    ASSUME NativeInv, NEW door \in Doors, NativeAccept(door)
    PROVE  NativeInv'
<1> DEFINE given == CASE door = "drc" -> "drc"
                      [] door = "wiiu" -> "h264"
                      [] door = "old3ds" -> groupCodec
                      [] OTHER -> "vp8"
           new == [Nobody EXCEPT !.stage = "hello", !.kind = door, !.codec = given]
<1>0. PICK older \in {{}} \cup {{i} : i \in {j \in Slots : door = "wiiu" /\ nativeClient[j].kind = "wiiu"}} :
          /\ InUse(Dropped(nativeClient, older)) # Slots
          /\ Recounted([Dropped(nativeClient, older) EXCEPT
                           ![Lowest(Slots \ InUse(Dropped(nativeClient, older)))] = new])
          /\ Forget(older)
  BY DEF NativeAccept
<1> DEFINE rest == Dropped(nativeClient, older)
           t == [rest EXCEPT ![Lowest(Slots \ InUse(rest))] = new]
<1>1. /\ FlagTypes /\ TableInv /\ HandsInv /\ PictureInv /\ nativeClient \in [Slots -> ClientRecord]
  BY DEF NativeInv, TableInv
<1>2. /\ Recounted(t) /\ Forget(older) /\ UNCHANGED <<flags, groupCodec, polled, chains, encoder>>
      /\ npc' \in {npc, "accepted"}
  BY <1>0 DEF NativeAccept, Knock
<1>3. rest \in [Slots -> ClientRecord]
      /\ \A i \in Slots : rest[i] = IF i \in older THEN Nobody ELSE nativeClient[i]
  BY <1>1, DroppedIs
<1>4. /\ new \in ClientRecord /\ new.stage = "hello" /\ new.kind = door /\ new.codec = given
      /\ ~new.garbled
  <2>1. given \in Codecs
    BY <1>1 DEF PictureInv, Codecs
  <2>2. door \in Doors \cup {"web", "none"} /\ door # "none"
    BY NativeAssumption
  <2> HIDE DEF given
  <2> QED BY <2>1, <2>2 DEF Nobody, ClientRecord
<1>5. Safe(new, groupCodec, encoderCodec, old3dsFrame)
  <2>1. door = "old3ds" => given = groupCodec
    OBVIOUS
  <2> HIDE DEF given, new
  <2> QED BY <1>1, <1>4, <2>1 DEF Safe, PictureInv
<1> HIDE DEF new
<1>6. PICK k \in Slots : t = [rest EXCEPT ![k] = new] /\ rest[k].stage = "free"
  <2>1. Slots \ InUse(rest) # {} /\ Slots \ InUse(rest) \subseteq Slots
    BY <1>0 DEF InUse
  <2>2. Lowest(Slots \ InUse(rest)) \in Slots \ InUse(rest)
    BY <2>1, LeastSlot
  <2> QED BY <2>2 DEF InUse
<1> HIDE DEF t, rest
<1>7. /\ t \in [Slots -> ClientRecord]
      /\ \A i \in Slots : t[i] = rest[i] \/ (t[i] = new /\ rest[i].stage = "free")
  BY <1>3, <1>4, <1>6
<1>8. \A i \in Slots : Safe(t[i], groupCodec, encoderCodec, old3dsFrame)
  BY <1>1, <1>3, <1>5, <1>7, NobodyIsSafe DEF PictureInv
<1>9. HandsInv'
  <2>1. nativeClient' = t
    BY <1>2 DEF Recounted
  <2>2. \A i \in Slots : i \notin older /\ nativeClient[i].stage = "ready" => t[i] = nativeClient[i]
    BY <1>3, <1>7
  <2> QED BY <1>1, <1>2, <2>1, <2>2, ForgetKeeps
<1>10. FlagTypes'
  BY <1>1, <1>2 DEF FlagTypes, flags, chains
<1> QED BY <1>1, <1>2, <1>7, <1>8, <1>9, <1>10, ChangeKeeps DEF PictureInv, encoder

LEMMA AdoptKeeps == ASSUME NativeInv, Adopt PROVE NativeInv'
<1> DEFINE new == [Nobody EXCEPT !.stage = "ready", !.kind = "web", !.codec = "h264",
                                 !.control = ("web" \in Players)]
<1>1. /\ FlagTypes /\ TableInv /\ HandsInv /\ PictureInv /\ nativeClient \in [Slots -> ClientRecord]
  BY DEF NativeInv, TableInv
<1>2. /\ UNCHANGED <<keyRecent, wantKeyframe, groupCodec, npc, polled, chains, encoder, bridge>>
      /\ \/ /\ FreeSlots # {} /\ Recounted([nativeClient EXCEPT ![Lowest(FreeSlots)] = new])
            /\ keyPending' = TRUE
         \/ UNCHANGED <<table, keyPending>>
  BY DEF Adopt
<1>3. FlagTypes'
  BY <1>1, <1>2 DEF FlagTypes, chains
<1>4. CASE UNCHANGED <<table, keyPending>>
  <2>1. UNCHANGED <<nativeClient, live, groupCodec, encoder, bridge>> /\ demandDirty' \in BOOLEAN
    BY <1>1, <1>2, <1>4 DEF table, TableInv, CountTypes
  <2> QED BY <1>3, <2>1, RestKeeps
<1>5. CASE FreeSlots # {} /\ Recounted([nativeClient EXCEPT ![Lowest(FreeSlots)] = new])
  <2>1. PICK k \in Slots : nativeClient[k].stage = "free" /\ Lowest(FreeSlots) = k
    <3>1. FreeSlots \subseteq Slots
      BY DEF FreeSlots
    <3>2. Lowest(FreeSlots) \in FreeSlots
      BY <1>5, <3>1, LeastSlot
    <3> QED BY <3>2 DEF FreeSlots, InUse
  <2>2. new \in ClientRecord /\ new.kind = "web" /\ ~new.garbled
    <3>1. \A held \in BOOLEAN :
              [Nobody EXCEPT !.stage = "ready", !.kind = "web", !.codec = "h264", !.control = held]
                  \in {c \in ClientRecord : c.kind = "web" /\ ~c.garbled}
      BY DEF Nobody, ClientRecord, Codecs
    <3>2. ("web" \in Players) \in BOOLEAN
      OBVIOUS
    <3> QED BY <3>1, <3>2
  <2> HIDE DEF new
  <2> DEFINE t == [nativeClient EXCEPT ![k] = new]
  <2>3. /\ t \in [Slots -> ClientRecord] /\ Recounted(t)
        /\ \A i \in Slots : t[i] = nativeClient[i] \/ (t[i] = new /\ i = k)
    BY <1>1, <1>5, <2>1, <2>2
  <2> HIDE DEF t
  <2>4. \A i \in Slots : Safe(t[i], groupCodec, encoderCodec, old3dsFrame)
    BY <1>1, <2>2, <2>3 DEF PictureInv, Safe, Predicts
  <2>5. nativeClient' = t
    BY <2>3 DEF Recounted
  <2>6. HandsInv'
    BY <1>1, <1>2, <2>1, <2>3, <2>5 DEF HandsInv, HandsHaveOwners, bridge
  <2> QED BY <1>1, <1>2, <1>3, <2>3, <2>4, <2>6, ChangeKeeps DEF PictureInv, encoder
<1> QED BY <1>2, <1>4, <1>5

LEMMA SaidKeeps ==
    ASSUME NativeInv, NEW S \in SUBSET Slots, NEW sound \in BOOLEAN, Said(S, sound)
    PROVE  NativeInv'
<1>1. /\ FlagTypes /\ TableInv /\ HandsInv /\ PictureInv /\ nativeClient \in [Slots -> ClientRecord]
  BY DEF NativeInv, TableInv
<1>2. PICK leavers : Recounted(Dropped(nativeClient, leavers)) /\ Forget(leavers)
  BY DEF Said
<1>3. UNCHANGED <<flags, groupCodec, npc, polled, chains, encoder>>
  BY DEF Said
<1> DEFINE t == Dropped(nativeClient, leavers)
<1>4. t \in [Slots -> ClientRecord]
      /\ \A i \in Slots : t[i] = IF i \in leavers THEN Nobody ELSE nativeClient[i]
  BY <1>1, DroppedIs
<1> HIDE DEF t
<1>5. \A i \in Slots : Safe(t[i], groupCodec, encoderCodec, old3dsFrame)
  BY <1>1, <1>4, NobodyIsSafe DEF PictureInv
<1>6. nativeClient' = t
  BY <1>2 DEF Recounted, t
<1>7. HandsInv'
  BY <1>1, <1>2, <1>4, <1>6, ForgetKeeps
<1>8. FlagTypes'
  BY <1>1, <1>3 DEF FlagTypes, flags, chains
<1> QED BY <1>1, <1>2, <1>3, <1>4, <1>5, <1>7, <1>8, ChangeKeeps DEF PictureInv, encoder, t

\* What the lock's owner leaves alone while it serves one client.
Serving == UNCHANGED <<keyRecent, wantKeyframe, npc, chains, encoder>> /\ polled' \in PollAnswers

LEMMA ServingTypes ==
    ASSUME NativeInv, Serving, keyPending' \in BOOLEAN
    PROVE  FlagTypes'
BY DEF NativeInv, FlagTypes, Serving, chains

LEMMA LeftAlone ==
    ASSUME NativeInv, Serving, UNCHANGED <<table, groupCodec>>, keyPending' \in BOOLEAN, HandsInv'
    PROVE  NativeInv'
<1>1. /\ nativeClient' = nativeClient /\ live' = live /\ demandDirty' = demandDirty
      /\ groupCodec' = groupCodec /\ encoderCodec' = encoderCodec /\ old3dsFrame' = old3dsFrame
  BY DEF table, Serving, encoder
<1>2. TableInv'
  BY <1>1 DEF NativeInv, TableInv, CountTypes, CountsAreExact
<1>3. PictureInv'
  BY <1>1 DEF NativeInv, PictureInv, FrameFits
<1> QED BY <1>2, <1>3, ServingTypes DEF NativeInv

LEMMA HandsUntouched ==
    ASSUME HandsInv, UNCHANGED <<nativeClient, bridge>>
    PROVE  HandsInv'
BY DEF HandsInv, HandsHaveOwners, bridge

LEMMA DropKeeps ==
    ASSUME NativeInv, Serving, NEW i \in Slots, Drop(i)
    PROVE  NativeInv'
<1>1. /\ TableInv /\ HandsInv /\ PictureInv /\ nativeClient \in [Slots -> ClientRecord] /\ FlagTypes
  BY DEF NativeInv, TableInv
<1>2. /\ Recounted(Dropped(nativeClient, {i})) /\ Forget({i}) /\ keyPending' = keyPending
      /\ groupCodec' = groupCodec
  BY DEF Drop
<1> DEFINE t == Dropped(nativeClient, {i})
<1>3. t \in [Slots -> ClientRecord]
      /\ \A j \in Slots : t[j] = IF j \in {i} THEN Nobody ELSE nativeClient[j]
  BY <1>1, DroppedIs
<1>4. Recounted(t)
  BY <1>2
<1> HIDE DEF t
<1>5. \A j \in Slots : Safe(t[j], groupCodec, encoderCodec, old3dsFrame)
  BY <1>1, <1>3, NobodyIsSafe DEF PictureInv
<1>6. nativeClient' = t
  BY <1>4 DEF Recounted
<1>7. HandsInv'
  BY <1>1, <1>2, <1>3, <1>6, ForgetKeeps
<1>8. FlagTypes'
  BY <1>1, <1>2, ServingTypes DEF FlagTypes
<1> QED BY <1>1, <1>2, <1>3, <1>4, <1>5, <1>7, <1>8, ChangeKeeps DEF PictureInv, Serving, encoder

LEMMA HelloKeeps ==
    ASSUME NativeInv, Serving, NEW i \in Slots, nativeClient[i].stage = "hello", HelloOk(i)
    PROVE  NativeInv'
<1> DEFINE c == nativeClient[i]
           predicts == c.kind = "old3ds" /\ groupCodec \in Predictive
           held == c.codec = "drc" \/ c.kind \in Players
           told == IF c.codec = "vp8" THEN "h264" ELSE c.codec
           new == [c EXCEPT !.stage = "ready", !.control = held, !.codec = told, !.waiting = predicts]
           t == [nativeClient EXCEPT ![i] = new]
<1>1. /\ TableInv /\ HandsInv /\ PictureInv /\ nativeClient \in [Slots -> ClientRecord] /\ FlagTypes
  BY DEF NativeInv, TableInv
<1>2. /\ Recounted(t) /\ UNCHANGED <<groupCodec, bridge>>
      /\ keyPending' = (keyPending \/ c.kind # "old3ds" \/ predicts)
  BY DEF HelloOk
<1>3. c \in ClientRecord /\ told \in Codecs /\ held \in BOOLEAN /\ predicts \in BOOLEAN
  BY <1>1 DEF ClientRecord, Codecs
<1>4. Safe(c, groupCodec, encoderCodec, old3dsFrame) /\ c.stage = "hello"
  BY <1>1 DEF PictureInv
<1>5. c.kind = "old3ds" => told \in OldCodecs /\ told = c.codec
  BY <1>4 DEF Safe, OldCodecs, Predictive
<1>6. predicts <=> (c.kind = "old3ds" /\ groupCodec \in Predictive)
  OBVIOUS
<1> HIDE DEF told, held, predicts, c
<1>7. /\ new \in ClientRecord /\ new.kind = c.kind /\ new.codec = told /\ new.waiting = predicts
      /\ new.garbled = c.garbled /\ new.stage = "ready" /\ new.synced = c.synced
  BY <1>3 DEF ClientRecord
<1> HIDE DEF new
<1>8. Safe(new, groupCodec, encoderCodec, old3dsFrame)
  <2>1. ~c.garbled
    BY <1>4 DEF Safe
  <2>2. Predicts(new) /\ new.codec = groupCodec => new.waiting
    BY <1>6, <1>7 DEF Predicts
  <2> QED BY <1>5, <1>7, <2>1, <2>2 DEF Safe
<1>9. t \in [Slots -> ClientRecord] /\ \A j \in Slots : t[j] = IF j = i THEN new ELSE nativeClient[j]
  BY <1>1, <1>7
<1>10. nativeClient' = t
  BY <1>2 DEF Recounted
<1> HIDE DEF t
<1>11. HandsInv'
  <2>1. i \notin hands \ stranded
    BY <1>1 DEF HandsInv, HandsHaveOwners
  <2> QED BY <1>1, <1>2, <1>9, <1>10, <2>1 DEF HandsInv, HandsHaveOwners, bridge
<1>12. FlagTypes'
  <2>1. keyPending' \in BOOLEAN
    BY <1>1, <1>2, <1>3 DEF FlagTypes
  <2> QED BY <2>1, ServingTypes
<1>13. \A j \in Slots : Safe(t[j], groupCodec, encoderCodec, old3dsFrame)
  BY <1>1, <1>8, <1>9 DEF PictureInv
<1> QED BY <1>1, <1>2, <1>9, <1>11, <1>12, <1>13, ChangeKeeps DEF PictureInv, Serving, encoder

LEMMA GroupCodecKeeps ==
    ASSUME NativeInv, Serving, NEW i \in Slots, NEW new, GroupCodec(i, new)
    PROVE  NativeInv'
<1>1. /\ TableInv /\ HandsInv /\ PictureInv /\ nativeClient \in [Slots -> ClientRecord] /\ FlagTypes
  BY DEF NativeInv, TableInv
<1>2. new \in OldCodecs /\ keyPending' = keyPending /\ UNCHANGED bridge
  BY DEF GroupCodec
<1>3. keyPending' \in BOOLEAN
  BY <1>1, <1>2 DEF FlagTypes
<1>4. CASE new = groupCodec
  <2>1. UNCHANGED <<table, groupCodec>>
    BY <1>4 DEF GroupCodec
  <2>2. HandsInv'
    BY <1>1, <1>2, <2>1, HandsUntouched DEF table
  <2> QED BY <1>3, <2>1, <2>2, LeftAlone
<1>5. CASE new # groupCodec
  <2> DEFINE InGroup(j) == nativeClient[j].stage = "ready" /\ nativeClient[j].kind = "old3ds"
             told(j) == [nativeClient[j] EXCEPT !.codec = new, !.waiting = (new \in Predictive),
                                                !.garbled = FALSE]
             t == [j \in Slots |-> IF InGroup(j) THEN told(j) ELSE nativeClient[j]]
  <2>1. groupCodec' = new /\ Recounted(t)
    BY <1>5 DEF GroupCodec
  <2>2. \A j \in Slots : /\ told(j) \in ClientRecord /\ told(j).codec = new /\ ~told(j).garbled
                         /\ told(j).waiting <=> new \in Predictive
                         /\ told(j).stage = nativeClient[j].stage /\ told(j).kind = nativeClient[j].kind
                         /\ told(j).control = nativeClient[j].control
    <3>1. new \in Codecs
      BY <1>2 DEF Codecs
    <3> DEFINE Changed(c, wait) == [c EXCEPT !.codec = new, !.waiting = wait, !.garbled = FALSE]
    <3>2. \A c \in ClientRecord, wait \in BOOLEAN :
              /\ Changed(c, wait) \in ClientRecord /\ Changed(c, wait).codec = new
              /\ ~Changed(c, wait).garbled /\ (Changed(c, wait).waiting <=> wait)
              /\ Changed(c, wait).stage = c.stage /\ Changed(c, wait).kind = c.kind
              /\ Changed(c, wait).control = c.control
      BY <3>1 DEF ClientRecord
    <3>3. \A j \in Slots : told(j) = Changed(nativeClient[j], new \in Predictive)
      OBVIOUS
    <3> HIDE DEF Changed, told
    <3> TAKE j \in Slots
    <3> DEFINE wait == new \in Predictive
    <3>4. wait \in BOOLEAN /\ told(j) = Changed(nativeClient[j], wait) /\ nativeClient[j] \in ClientRecord
      BY <1>1, <3>3
    <3>5. wait <=> new \in Predictive
      OBVIOUS
    <3> HIDE DEF wait
    <3> QED BY <3>2, <3>4, <3>5
  <2> HIDE DEF told
  <2>3. t \in [Slots -> ClientRecord]
        /\ \A j \in Slots : t[j] = IF InGroup(j) THEN told(j) ELSE nativeClient[j]
    BY <1>1, <2>2
  <2>4. nativeClient' = t
    BY <2>1 DEF Recounted
  <2> HIDE DEF t
  <2>5. \A j \in Slots : Safe(t[j], new, encoderCodec, old3dsFrame)
    <3> TAKE j \in Slots
    <3>1. Safe(nativeClient[j], groupCodec, encoderCodec, old3dsFrame)
      BY <1>1 DEF PictureInv
    <3>2. CASE InGroup(j)
      <4>1. t[j] = told(j)
        BY <2>3, <3>2
      <4> QED BY <1>2, <2>2, <4>1 DEF Safe, Predicts
    <3>3. CASE ~InGroup(j)
      <4>1. t[j] = nativeClient[j]
        BY <2>3, <3>3
      <4> QED BY <3>1, <3>3, <4>1 DEF Safe, Predicts
    <3> QED BY <3>2, <3>3
  <2>6. HandsInv'
    <3>1. \A j \in Slots : t[j].stage = nativeClient[j].stage /\ t[j].control = nativeClient[j].control
      BY <2>2, <2>3
    <3> QED BY <1>1, <1>2, <2>4, <3>1 DEF HandsInv, HandsHaveOwners, bridge
  <2>7. FlagTypes'
    BY <1>3, ServingTypes
  <2> QED BY <1>1, <1>2, <2>1, <2>3, <2>5, <2>6, <2>7, ChangeKeeps DEF Serving, encoder
<1> QED BY <1>4, <1>5

LEMMA OwnCodecKeeps ==
    ASSUME NativeInv, Serving, NEW i \in Slots, NEW new, OwnCodec(i, new)
    PROVE  NativeInv'
<1>1. /\ TableInv /\ HandsInv /\ PictureInv /\ nativeClient \in [Slots -> ClientRecord] /\ FlagTypes
  BY DEF NativeInv, TableInv
<1>2. new \in NativeCodecs /\ nativeClient[i].kind # "old3ds" /\ UNCHANGED <<groupCodec, bridge>>
  BY DEF OwnCodec
<1>3. CASE UNCHANGED <<table, keyPending>>
  <2>1. HandsInv' /\ keyPending' \in BOOLEAN
    BY <1>1, <1>2, <1>3, HandsUntouched DEF table, FlagTypes
  <2> QED BY <1>2, <1>3, <2>1, LeftAlone
<1>4. CASE Recounted([nativeClient EXCEPT ![i].codec = new]) /\ keyPending' = TRUE
  <2> DEFINE t == [nativeClient EXCEPT ![i].codec = new]
             told == [nativeClient[i] EXCEPT !.codec = new]
  <2>1. new \in Codecs
    BY <1>2, NativeAssumption DEF Codecs
  <2>2. /\ told \in ClientRecord /\ told.kind = nativeClient[i].kind /\ told.codec = new
        /\ told.stage = nativeClient[i].stage /\ told.garbled = nativeClient[i].garbled
        /\ told.control = nativeClient[i].control
    BY <1>1, <2>1 DEF ClientRecord
  <2>3. Recounted(t) /\ nativeClient' = t
    BY <1>4 DEF Recounted
  <2>4. t \in [Slots -> ClientRecord] /\ \A j \in Slots : t[j] = IF j = i THEN told ELSE nativeClient[j]
    BY <1>1, <2>2
  <2> HIDE DEF t, told
  <2>5. \A j \in Slots : Safe(t[j], groupCodec, encoderCodec, old3dsFrame)
    BY <1>1, <1>2, <2>2, <2>4 DEF PictureInv, Safe, Predicts
  <2>6. HandsInv'
    BY <1>1, <1>2, <2>2, <2>3, <2>4 DEF HandsInv, HandsHaveOwners, bridge
  <2>7. FlagTypes'
    BY <1>4, ServingTypes
  <2> QED BY <1>1, <1>2, <2>3, <2>4, <2>5, <2>6, <2>7, ChangeKeeps DEF PictureInv, Serving, encoder
<1> QED BY <1>3, <1>4 DEF OwnCodec

LEMMA MessageKeeps ==
    ASSUME NativeInv, Serving, NEW i \in Slots, NEW m \in Messages,
           nativeClient[i].stage = "ready", Message(i, m)
    PROVE  NativeInv'
<1>1. /\ TableInv /\ HandsInv /\ PictureInv /\ FlagTypes
  BY DEF NativeInv
<1>2. CASE m = "oversized"
  BY <1>2, DropKeeps DEF Message
<1>3. CASE m \in {"input", "release"}
  <2>1. /\ UNCHANGED <<table, keyPending, groupCodec>>
        /\ \/ UNCHANGED bridge
           \/ /\ nativeClient[i].control /\ hands' \in {hands \cup {i}, hands \ {i}}
              /\ stranded' = stranded \ {i}
    BY <1>3 DEF Message
  <2>2. HandsInv' /\ keyPending' \in BOOLEAN
    <3>1. nativeClient' = nativeClient /\ keyPending' \in BOOLEAN
      BY <1>1, <2>1 DEF table, FlagTypes
    <3>2. CASE UNCHANGED bridge
      BY <1>1, <3>1, <3>2, HandsUntouched
    <3>3. CASE /\ nativeClient[i].control /\ hands' \in {hands \cup {i}, hands \ {i}}
               /\ stranded' = stranded \ {i}
      BY <1>1, <3>1, <3>3 DEF HandsInv, HandsHaveOwners
    <3> QED BY <2>1, <3>1, <3>2, <3>3
  <2> QED BY <2>1, <2>2, LeftAlone
<1>4. CASE m \in {"keyframe", "other"}
  <2>1. UNCHANGED <<table, groupCodec, bridge>> /\ keyPending' \in {keyPending, TRUE}
    BY <1>1, <1>4 DEF Message, FlagTypes
  <2>2. HandsInv' /\ keyPending' \in BOOLEAN
    BY <1>1, <2>1, HandsUntouched DEF table, FlagTypes
  <2> QED BY <2>1, <2>2, LeftAlone
<1> QED BY <1>2, <1>3, <1>4 DEF Messages

LEMMA ServeKeeps == ASSUME NativeInv, Serve PROVE NativeInv'
<1>1. /\ FlagTypes /\ TableInv /\ HandsInv /\ PictureInv
  BY DEF NativeInv
<1>2. /\ polled # <<>>
      /\ UNCHANGED <<keyRecent, wantKeyframe, npc, chains, encoder, events>>
  BY DEF Serve
<1> DEFINE i == Lowest(DOMAIN polled)
<1>3. PICK S \in SUBSET Slots : polled \in [S -> {"in", "hup", "none"}]
  BY <1>1 DEF FlagTypes, PollAnswers
<1>4. i \in Slots
  <2>1. S # {}
    <3>1. S = {} => polled = <<>>
      BY <1>3
    <3> QED BY <1>2, <3>1
  <2>2. DOMAIN polled = S
    BY <1>3
  <2>3. i \in S
    BY <2>1, <2>2, LeastSlot
  <2> QED BY <2>3
<1>5. polled' = [j \in DOMAIN polled \ {i} |-> polled[j]]
  BY DEF Serve, Served
<1>6. \/ UNCHANGED <<table, keyPending, groupCodec, bridge>>
      \/ Drop(i) \/ Silent(i) \/ NativeReadable(i)
  <2>1. CASE nativeClient[i].stage = "free"
    BY <2>1 DEF Serve
  <2>2. CASE nativeClient[i].stage # "free" /\ polled[i] = "hup"
    BY <2>2 DEF Serve
  <2>3. CASE nativeClient[i].stage # "free" /\ polled[i] = "none"
    BY <2>3 DEF Serve
  <2>4. CASE nativeClient[i].stage # "free" /\ polled[i] \notin {"hup", "none"}
    BY <2>4 DEF Serve
  <2> QED BY <2>1, <2>2, <2>3, <2>4
<1>7. polled' \in PollAnswers
  <2>1. polled' \in [S \ {i} -> {"in", "hup", "none"}]
    BY <1>3, <1>5
  <2> QED BY <2>1 DEF PollAnswers
<1> HIDE DEF i
<1>8. Serving
  BY <1>2, <1>7 DEF Serving
<1>9. ASSUME UNCHANGED <<table, keyPending, groupCodec, bridge>> PROVE NativeInv'
  <2>1. HandsInv' /\ keyPending' \in BOOLEAN
    BY <1>1, <1>9, HandsUntouched DEF table, FlagTypes
  <2> QED BY <1>8, <1>9, <2>1, LeftAlone
<1>10. ASSUME Drop(i) PROVE NativeInv'
  BY <1>4, <1>8, <1>10, DropKeeps
<1>11. ASSUME NativeReadable(i) PROVE NativeInv'
  <2>1. CASE nativeClient[i].stage = "hello" /\ Hello(i)
    BY <1>4, <1>8, <1>10, <2>1, HelloKeeps DEF Hello
  <2>2. CASE nativeClient[i].stage = "ready" /\ \E m \in Messages : Message(i, m)
    BY <1>4, <1>8, <2>2, MessageKeeps
  <2>3. CASE \E new : GroupCodec(i, new) \/ OwnCodec(i, new)
    BY <1>4, <1>8, <2>3, GroupCodecKeeps, OwnCodecKeeps
  <2> QED BY <1>9, <1>10, <1>11, <2>1, <2>2, <2>3 DEF NativeReadable
<1> QED BY <1>6, <1>9, <1>10, <1>11 DEF Silent

Frames == [codec : OldCodecs, key : BOOLEAN]

\* What a frame, sent or kept back, makes of a client.
LEMMA WroteIs ==
    ASSUME NEW c \in ClientRecord, NEW f \in Frames, NEW out
    PROVE  /\ Wrote(c, f, out) \in ClientRecord
           /\ Wrote(c, f, out).stage = c.stage /\ Wrote(c, f, out).kind = c.kind
           /\ Wrote(c, f, out).control = c.control /\ Wrote(c, f, out).codec = c.codec
           /\ Wrote(c, f, out).waiting <=>
                  IF Kept(c, f, out) THEN c.waiting \/ Predicts(c)
                  ELSE c.waiting /\ ~(Predicts(c) /\ f.key)
           /\ Wrote(c, f, out).garbled <=>
                  \/ c.garbled
                  \/ ~Kept(c, f, out) /\ Predicts(c) /\ f.codec \in Predictive /\ ~f.key /\ ~c.synced
           /\ Wrote(c, f, out).synced <=>
                  /\ ~Kept(c, f, out) /\ c.kind = "old3ds" /\ f.codec \in Predictive
                  /\ (f.key \/ c.synced)
<1> DEFINE wait == c.waiting /\ ~(Predicts(c) /\ f.key)
           mess == c.garbled \/ (Predicts(c) /\ f.codec \in Predictive /\ ~f.key /\ ~c.synced)
           sync == c.kind = "old3ds" /\ f.codec \in Predictive /\ (f.key \/ c.synced)
           kept == c.waiting \/ Predicts(c)
<1>1. /\ c.waiting \in BOOLEAN /\ c.garbled \in BOOLEAN /\ c.synced \in BOOLEAN /\ f.key \in BOOLEAN
  BY DEF ClientRecord, Frames
<1>2. wait \in BOOLEAN /\ mess \in BOOLEAN /\ sync \in BOOLEAN /\ kept \in BOOLEAN
  BY <1>1
<1>3. CASE Kept(c, f, out)
  <2>1. Wrote(c, f, out) = [c EXCEPT !.waiting = kept, !.synced = FALSE]
    BY <1>3 DEF Wrote
  <2> HIDE DEF kept
  <2>2. /\ Wrote(c, f, out) \in ClientRecord /\ (Wrote(c, f, out).waiting <=> kept)
        /\ Wrote(c, f, out).stage = c.stage /\ Wrote(c, f, out).kind = c.kind
        /\ Wrote(c, f, out).control = c.control /\ Wrote(c, f, out).codec = c.codec
        /\ Wrote(c, f, out).garbled = c.garbled /\ ~Wrote(c, f, out).synced
    BY <1>2, <2>1 DEF ClientRecord
  <2> QED BY <1>1, <1>3, <2>2 DEF kept
<1>4. CASE ~Kept(c, f, out)
  <2>1. Wrote(c, f, out) = [c EXCEPT !.waiting = wait, !.garbled = mess, !.synced = sync]
    BY <1>4 DEF Wrote, Given
  <2> HIDE DEF wait, mess, sync
  <2>2. /\ Wrote(c, f, out) \in ClientRecord /\ (Wrote(c, f, out).waiting <=> wait)
        /\ Wrote(c, f, out).stage = c.stage /\ Wrote(c, f, out).kind = c.kind
        /\ Wrote(c, f, out).control = c.control /\ Wrote(c, f, out).codec = c.codec
        /\ (Wrote(c, f, out).garbled <=> mess) /\ (Wrote(c, f, out).synced <=> sync)
    BY <1>2, <2>1 DEF ClientRecord
  <2> QED BY <1>4, <2>2 DEF wait, mess, sync
<1> QED BY <1>3, <1>4

\* Another chain's frame says nothing of an old 3DS.
LEMMA OtherFrame ==
    ASSUME NEW c \in ClientRecord, NEW f \in Frames, NEW out, c.kind # "old3ds",
           NEW codec, NEW e, NEW fr, Safe(c, codec, e, fr)
    PROVE  Safe(Wrote(c, f, out), codec, e, fr)
BY WroteIs DEF Safe, Predicts

\* The old 3DS encoder's frame is a keyframe for who lacks one, or is kept.
LEMMA OldFrame ==
    ASSUME NEW c \in ClientRecord, NEW f \in Frames, NEW out,
           NEW codec, Safe(c, codec, f.codec, <<f>>), c.stage = "ready"
    PROVE  Safe(Wrote(c, f, out), codec, f.codec, <<>>)
<1>1. /\ c.waiting \in BOOLEAN /\ c.garbled \in BOOLEAN /\ c.synced \in BOOLEAN /\ f.key \in BOOLEAN
  BY DEF ClientRecord, Frames
<1>2. Predicts(c) /\ c.codec = codec /\ ~c.waiting /\ ~c.synced => f.codec \notin Predictive \/ f.key
  BY DEF Safe, StartsWithKey
<1>3. Predicts(c) /\ c.waiting /\ ~f.key => Kept(c, f, out)
  BY DEF Kept
<1>4. Predicts(Wrote(c, f, out)) <=> Predicts(c)
  BY WroteIs DEF Predicts
<1>5. Wrote(c, f, out).garbled => c.kind = "old3ds" /\ c.codec # codec
  <2>1. CASE c.garbled
    BY <2>1 DEF Safe
  <2>2. CASE ~Kept(c, f, out) /\ Predicts(c) /\ f.codec \in Predictive /\ ~f.key /\ ~c.synced
    BY <1>1, <1>2, <1>3, <2>2 DEF Predicts
  <2> QED BY <2>1, <2>2, WroteIs
<1>6. Predicts(c) /\ c.codec = codec /\ ~Wrote(c, f, out).waiting /\ ~Wrote(c, f, out).synced
          => f.codec \notin Predictive
  <2> SUFFICES ASSUME Predicts(c), c.codec = codec, ~Wrote(c, f, out).waiting,
                      ~Wrote(c, f, out).synced, f.codec \in Predictive
               PROVE  FALSE
    OBVIOUS
  <2>1. ~Kept(c, f, out)
    BY WroteIs
  <2>2. ~f.key /\ ~c.synced
    BY <2>1, WroteIs DEF Predicts
  <2>3. ~c.waiting
    BY <1>3, <2>1, <2>2
  <2> QED BY <1>2, <2>2, <2>3
<1> QED BY <1>4, <1>5, <1>6, WroteIs DEF Safe, StartsWithKey

LEMMA BroadcastKeeps ==
    ASSUME NativeInv, NEW k \in Streams, NEW f \in Frames, Broadcast(k, f),
           \/ k # "old3ds" /\ UNCHANGED old3dsFrame
           \/ k = "old3ds" /\ old3dsFrame = <<f>> /\ old3dsFrame' = <<>>
    PROVE  NativeInv'
<1>1. /\ FlagTypes /\ TableInv /\ HandsInv /\ PictureInv /\ nativeClient \in [Slots -> ClientRecord]
  BY DEF NativeInv, TableInv
<1>2. UNCHANGED <<keyPending, groupCodec, npc, polled, chains, encoderCodec>>
  BY DEF Broadcast
<1>3. PICK out \in [Watching(nativeClient, k) -> {"written", "behind", "gone"}] :
           LET leavers == {i \in DOMAIN out : out[i] = "gone"}
               sent == [i \in Slots |-> IF i \in DOMAIN out THEN Wrote(nativeClient[i], f, out[i])
                                        ELSE nativeClient[i]]
           IN /\ Recounted(Dropped(sent, leavers)) /\ Forget(leavers)
              /\ AfterSkip(k, \E i \in DOMAIN out \ leavers : Kept(nativeClient[i], f, out[i]))
  BY DEF Broadcast
<1> DEFINE leavers == {i \in DOMAIN out : out[i] = "gone"}
           sent == [i \in Slots |-> IF i \in DOMAIN out THEN Wrote(nativeClient[i], f, out[i])
                                    ELSE nativeClient[i]]
           t == Dropped(sent, leavers)
<1>4. Recounted(t) /\ Forget(leavers) /\ keyRecent' \in {keyRecent, TRUE} /\ wantKeyframe' \in {wantKeyframe, TRUE}
  BY <1>3 DEF AfterSkip, AskKeyframe
<1>5. \A i \in Slots : /\ sent[i] \in ClientRecord /\ sent[i].stage = nativeClient[i].stage
                       /\ sent[i].control = nativeClient[i].control
  BY <1>1, WroteIs
<1>6. sent \in [Slots -> ClientRecord]
  BY <1>5
<1>7. \A i \in Slots : Safe(sent[i], groupCodec, encoderCodec, old3dsFrame')
  <2> SUFFICES ASSUME NEW i \in Slots PROVE Safe(sent[i], groupCodec, encoderCodec, old3dsFrame')
    OBVIOUS
  <2>1. Safe(nativeClient[i], groupCodec, encoderCodec, old3dsFrame) /\ nativeClient[i] \in ClientRecord
    BY <1>1 DEF PictureInv
  <2>2. i \in DOMAIN out <=> nativeClient[i].stage = "ready" /\ StreamOf(nativeClient[i]) = k
    BY <1>3 DEF Watching
  <2>3. sent[i] = IF i \in DOMAIN out THEN Wrote(nativeClient[i], f, out[i]) ELSE nativeClient[i]
    OBVIOUS
  <2>4. nativeClient[i].kind = "old3ds" => StreamOf(nativeClient[i]) = "old3ds"
    BY DEF StreamOf
  <2>5. StreamOf(nativeClient[i]) = "old3ds" => nativeClient[i].kind = "old3ds"
    BY <2>1 DEF StreamOf, ClientRecord, Codecs, OldCodecs, Predictive
  <2> HIDE DEF sent
  <2>6. CASE k # "old3ds" /\ UNCHANGED old3dsFrame
    <3>1. CASE i \in DOMAIN out
      BY <2>1, <2>2, <2>3, <2>4, <2>6, <3>1, OtherFrame
    <3>2. CASE i \notin DOMAIN out
      BY <2>1, <2>3, <2>6, <3>2
    <3> QED BY <3>1, <3>2
  <2>7. CASE k = "old3ds" /\ old3dsFrame = <<f>> /\ old3dsFrame' = <<>>
    <3>1. f.codec = encoderCodec
      BY <1>1, <2>7 DEF PictureInv, FrameFits
    <3>2. CASE i \in DOMAIN out
      BY <2>1, <2>2, <2>3, <2>7, <3>1, <3>2, OldFrame
    <3>3. CASE i \notin DOMAIN out
      BY <2>1, <2>2, <2>3, <2>4, <2>7, <3>3 DEF Safe, Predicts
    <3> QED BY <3>2, <3>3
  <2> QED BY <2>6, <2>7
<1> HIDE DEF sent, leavers
<1>8. /\ t \in [Slots -> ClientRecord]
      /\ \A i \in Slots : t[i] = IF i \in leavers THEN Nobody ELSE sent[i]
  BY <1>6, DroppedIs
<1> HIDE DEF t
<1>9. \A i \in Slots : Safe(t[i], groupCodec, encoderCodec, old3dsFrame')
  BY <1>7, <1>8, NobodyIsSafe
<1>10. nativeClient' = t
  BY <1>4 DEF Recounted
<1>11. HandsInv'
  BY <1>1, <1>4, <1>5, <1>8, <1>10, ForgetKeeps
<1>12. FlagTypes'
  BY <1>1, <1>2, <1>4 DEF FlagTypes, chains
<1>13. old3dsFrame' \in {old3dsFrame, <<>>} /\ groupCodec' \in OldCodecs /\ encoderCodec' = encoderCodec
  BY <1>1, <1>2 DEF PictureInv
<1> QED BY <1>2, <1>4, <1>8, <1>9, <1>11, <1>12, <1>13, ChangeKeeps

\* Every step of the native stream server keeps its invariant.
LEMMA NativeInvariant == NativeInv /\ [NativeNext]_nativeVars => NativeInv'
<1>1. ASSUME NativeInv, UNCHANGED nativeVars PROVE NativeInv'
  <2>1. UNCHANGED <<table, flags, groupCodec, npc, polled, chains, encoder, bridge>>
    BY <1>1 DEF nativeVars
  <2>2. FlagTypes' /\ demandDirty' \in BOOLEAN
    BY <1>1, <2>1 DEF NativeInv, FlagTypes, TableInv, CountTypes, table, flags, chains
  <2> QED BY <1>1, <2>1, <2>2, RestKeeps DEF table
<1> SUFFICES ASSUME NativeInv, NativeNext PROVE NativeInv'
    BY <1>1
<1>2. CASE AcceptThread
  BY <1>2, RestSteps, ServeKeeps DEF AcceptThread
<1>3. ASSUME NEW door \in Doors, NativeAccept(door) PROVE NativeInv'
  BY <1>3, AcceptKeeps
<1>4. CASE Adopt
  BY <1>4, AdoptKeeps
<1>5. ASSUME NEW k \in Streams, NEW key \in BOOLEAN, ChainFrame(k, key) PROVE NativeInv'
  <2>1. k # "old3ds" /\ Broadcast(k, [codec |-> "jpeg", key |-> key]) /\ UNCHANGED old3dsFrame
    BY <1>5 DEF ChainFrame, VideoSample
  <2>2. [codec |-> "jpeg", key |-> key] \in Frames
    BY DEF Frames, OldCodecs
  <2> QED BY <2>1, <2>2, BroadcastKeeps
<1>6. CASE EncodeOld3ds
  BY <1>6, EncodeKeeps
<1>7. CASE SendOld3ds
  <2>1. old3dsFrame # <<>> /\ Broadcast("old3ds", old3dsFrame[1]) /\ old3dsFrame' = <<>>
    BY <1>7 DEF SendOld3ds
  <2>2. PICK f \in Frames : old3dsFrame = <<f>>
    BY <2>1 DEF NativeInv, PictureInv, FrameFits, Frames
  <2>3. old3dsFrame[1] = f /\ "old3ds" \in Streams
    BY <2>2 DEF Streams
  <2> QED BY <2>1, <2>2, <2>3, BroadcastKeeps
<1>8. ASSUME Sound \/ \E k \in Streams : Announce(k) PROVE NativeInv'
  <2>1. PICK S \in SUBSET Slots, sound \in BOOLEAN : Said(S, sound)
    BY <1>8 DEF Sound, Announce, Watching
  <2> QED BY <2>1, SaidKeeps
<1>9. CASE KeyTick \/ NativeRefuse \/ \E on \in BOOLEAN : SetWiiu(on) \/ SetDrc(on)
  BY <1>9, RestSteps
<1>10. CASE Replace
  BY <1>10, ReplaceKeeps
<1>11. ASSUME NEW i \in Slots, PeerLeaves(i) \/ PeerLate(i) PROVE NativeInv'
  BY <1>11, PeerSteps
<1> QED BY <1>2, <1>3, <1>4, <1>5, <1>6, <1>7, <1>8, <1>9, <1>10, <1>11 DEF NativeNext

LEMMA NativeInvIsEnough ==
    NativeInv => NativeTypeOK /\ TableIsExact /\ PredictedNeedsReference
<1> SUFFICES ASSUME NativeInv PROVE NativeTypeOK /\ TableIsExact /\ PredictedNeedsReference
    OBVIOUS
<1>1. FlagTypes /\ TableInv /\ HandsInv /\ PictureInv
  BY DEF NativeInv
<1>2. TableIsExact
  BY <1>1 DEF TableInv, HandsInv, TableIsExact
<1>3. PredictedNeedsReference
  BY <1>1 DEF PictureInv, Safe, PredictedNeedsReference
<1>4. DOMAIN polled \subseteq Slots
  BY <1>1 DEF FlagTypes, PollAnswers
<1>5. NativeTypeOK
  BY <1>1, <1>4 DEF FlagTypes, TableInv, CountTypes, HandsInv, PictureInv, ClientRecord, Codecs,
                    NativeTypeOK
<1> QED BY <1>2, <1>3, <1>5

\* Whoever comes, goes, changes codec or is too slow, the counts are those of
\* the table, what is held on the console has an owner, and no old 3DS of the
\* group decodes a frame it has no reference for.
THEOREM NativeServerIsExact ==
    NativeSpec => [](NativeTypeOK /\ TableIsExact /\ PredictedNeedsReference)
<1>1. NativeInit => NativeInv
  BY NativeStarts
<1>2. NativeInv /\ [NativeNext]_nativeVars => NativeInv'
  BY NativeInvariant
<1> QED BY <1>1, <1>2, NativeInvIsEnough, PTL DEF NativeSpec

=============================================================================
