------------------------------ MODULE WebServer ------------------------------
(***************************************************************************)
(* The web server (server/web_stream.c): a listener started and stopped    *)
(* from the window, a detached thread for every connection, and what those *)
(* threads share - the players' sessions, the count of failed logins, the  *)
(* transport the pages are told to use.                                    *)
(*                                                                         *)
(* A token is the number of the login that got it, 0 one that nobody       *)
(* issued.  Pages answer nothing that is kept; the handlers that do        *)
(* something to the stream for a player are one, `order`.                  *)
(***************************************************************************)
EXTENDS Integers, Sequences

CONSTANTS
    Conns,          \* connections open at a time
    MaxSessions,    \* WS_MAX_SESSIONS
    MaxFails,       \* WS_LOGIN_MAX_FAILS
    MaxRequests,    \* bound: requests, changes of password and of the listener
    Kinds           \* what is asked: page, login, offer, ws, transport, shared, order

ASSUME WebAssumption ==
    /\ {MaxSessions, MaxFails} \subseteq Nat \ {0} /\ MaxRequests \in Nat
    /\ Kinds \subseteq {"page", "login", "offer", "ws", "transport", "shared", "order"}

VARIABLES
    worker,      \* client_thread(): where each is, and with what
    fd,          \* whose each socket is
    adopted,     \* the native server's browsers (external)
    sessions, sessionCount, sessionNext, \* under auth_mutex
    issued,      \* history: the tokens session_add() was given, in order
    made,        \* tokens generated
    fails, locked,
    password,    \* PLAYER_PASSWORD is in the .env
    transport, envTransport, \* g_transport_ws; WEB_TRANSPORT
    chosen,      \* history: the last choice of a player
    listening, stopRequested, running, \* under state_mutex
    acceptor,    \* accept_thread_func()
    window,      \* the thread that starts and stops the server
    requests     \* bounded by MaxRequests

authVars == <<sessions, sessionCount, sessionNext, issued, fails, locked>>
transportVars == <<transport, chosen>>
listenVars == <<listening, stopRequested, running, acceptor, window>>
webVars == <<worker, fd, adopted, authVars, made, password, transportVars, envTransport, listenVars, requests>>

Request == requests < MaxRequests /\ requests' = requests + 1
Transports == {"webrtc", "ws"}
ClientThreads ==
    [at : {"none", "headers", "route", "end", "password", "wrong", "right", "session",
           "settle", "settled"},
     kind : Kinds \cup {"page"}, token : Nat, right : BOOLEAN, want : Transports]
Closed == [at |-> "none", kind |-> "page", token |-> 0, right |-> FALSE, want |-> "webrtc"]

----------------------------------------------------------------------------
(* The listener. *)

\* web_stream_start(): any of socket(), bind() and listen() may fail.
ServerStarts ==
    /\ window = "idle" /\ Request
    /\ IF running THEN UNCHANGED <<listening, stopRequested, running, window>>
       ELSE \/ UNCHANGED <<listening, stopRequested, running, window>>
            \/ /\ listening' = TRUE /\ stopRequested' = FALSE /\ running' = TRUE
               /\ window' = "create"
    /\ UNCHANGED <<worker, fd, adopted, authVars, made, password, transportVars, envTransport, acceptor>>

Create ==
    /\ window = "create" /\ window' = "idle"
    /\ \/ acceptor' = "check" /\ UNCHANGED <<listening, running>>
       \/ listening' = FALSE /\ running' = FALSE /\ UNCHANGED acceptor
    /\ UNCHANGED <<worker, fd, adopted, authVars, made, password, transportVars, envTransport,
                   stopRequested, requests>>

\* web_stream_stop()
ServerStops ==
    /\ window = "idle" /\ running /\ Request
    /\ stopRequested' = TRUE /\ window' = "wait"
    /\ UNCHANGED <<worker, fd, adopted, authVars, made, password, transportVars, envTransport,
                   listening, running, acceptor>>

\* Mutant of Stopped: the thread is not waited for.
StoppedAtOnce ==
    /\ window = "wait"
    /\ window' = "idle" /\ running' = FALSE
    /\ UNCHANGED <<worker, fd, adopted, authVars, made, password, transportVars, envTransport,
                   listening, stopRequested, acceptor, requests>>

Stopped ==
    /\ window = "wait" /\ acceptor = "none"
    /\ window' = "idle" /\ running' = FALSE
    /\ UNCHANGED <<worker, fd, adopted, authVars, made, password, transportVars, envTransport,
                   listening, stopRequested, acceptor, requests>>

\* Mutant of AcceptCheck: the listening socket stays open.
AcceptCheckOpen ==
    /\ acceptor = "check" /\ acceptor' = (IF stopRequested THEN "none" ELSE "poll")
    /\ UNCHANGED <<worker, fd, adopted, authVars, made, password, transportVars, envTransport,
                   listening, stopRequested, running, window, requests>>

\* accept_thread_func(): the stop is read before the poll.
AcceptCheck ==
    /\ acceptor = "check"
    /\ IF stopRequested THEN acceptor' = "none" /\ listening' = FALSE
       ELSE acceptor' = "poll" /\ UNCHANGED listening
    /\ UNCHANGED <<worker, fd, adopted, authVars, made, password, transportVars, envTransport,
                   stopRequested, running, window, requests>>

AcceptNothing ==
    /\ acceptor = "poll" /\ acceptor' = "check"
    /\ UNCHANGED <<worker, fd, adopted, authVars, made, password, transportVars, envTransport,
                   listening, stopRequested, running, window, requests>>

\* A thread is made for the connection, or it is closed.
AcceptOne(c) ==
    /\ acceptor = "poll" /\ acceptor' = "check" /\ Request
    /\ fd[c] = "none"
    /\ \/ /\ fd' = [fd EXCEPT ![c] = "thread"]
          /\ worker' = [worker EXCEPT ![c].at = "headers"]
       \/ UNCHANGED <<fd, worker>>
    /\ UNCHANGED <<adopted, authVars, made, password, transportVars, envTransport,
                   listening, stopRequested, running, window>>

----------------------------------------------------------------------------
(* client_thread(): what a request asks for, and with which token. *)

Goto(c, place) == worker' = [worker EXCEPT ![c].at = place]
Is(c, kind) == worker[c].at = "route" /\ worker[c].kind = kind
Elsewhere == <<made, password, envTransport, listenVars, requests>>

Headers(c) ==
    /\ worker[c].at = "headers"
    /\ \E kind \in Kinds, token \in 0 .. made, right \in BOOLEAN, want \in Transports :
           /\ kind # "login" => ~right
           /\ kind # "transport" => want = "webrtc"
           /\ worker' = [worker EXCEPT ![c] = [at |-> "route", kind |-> kind, token |-> token,
                                             right |-> right, want |-> want]]
    /\ UNCHANGED <<fd, adopted, authVars, transportVars, Elsewhere>>

\* request_may_control(), session_is_valid()
Valid(token) == \E i \in 0 .. sessionCount - 1 : sessions[i] = token /\ token # 0
MayControl(c) == ~password \/ Valid(worker[c].token)

\* A file, a number, or something the request is too broken for.
Page(c) ==
    /\ worker[c].at = "headers" \/ Is(c, "page")
    /\ Goto(c, "end")
    /\ UNCHANGED <<fd, adopted, authVars, transportVars, Elsewhere>>

\* An offer is answered for a player or a viewer alike ...
HandleOffer(c) ==
    /\ Is(c, "offer") /\ Goto(c, "end")
    /\ UNCHANGED <<fd, adopted, authVars, transportVars, Elsewhere>>

\* ... and an order is refused or carried out.
Order(c) ==
    /\ Is(c, "order") /\ Goto(c, "end")
    /\ UNCHANGED <<fd, adopted, authVars, transportVars, Elsewhere>>

----------------------------------------------------------------------------
(* handle_login() *)

\* login_is_locked() and then load_player_password(), which reads the file.
LoginChecks(c) ==
    /\ Is(c, "login") /\ Goto(c, IF locked THEN "end" ELSE "password")
    /\ UNCHANGED <<fd, adopted, authVars, transportVars, Elsewhere>>
Login(c) ==
    /\ worker[c].at = "password"
    /\ IF ~password THEN Goto(c, "end")
       ELSE IF ~worker[c].right THEN Goto(c, "wrong") ELSE Goto(c, "right") \/ Goto(c, "end")
    /\ UNCHANGED <<fd, adopted, authVars, transportVars, Elsewhere>>

\* Mutant of LoginFails: the count is not begun again with a lockout.
LoginFailsOn(c) ==
    /\ worker[c].at = "wrong" /\ Goto(c, "end")
    /\ fails' = fails + 1 /\ locked' = (locked \/ fails + 1 >= MaxFails)
    /\ UNCHANGED <<fd, adopted, sessions, sessionCount, sessionNext, issued, transportVars, Elsewhere>>

\* login_record_failure()
LoginFails(c) ==
    /\ worker[c].at = "wrong" /\ Goto(c, "end")
    /\ fails' = (IF fails + 1 >= MaxFails THEN 0 ELSE fails + 1)
    /\ locked' = (locked \/ fails + 1 >= MaxFails)
    /\ UNCHANGED <<fd, adopted, sessions, sessionCount, sessionNext, issued, transportVars, Elsewhere>>

\* generate_token(), login_record_success()
LoginSucceeds(c) ==
    /\ worker[c].at = "right"
    /\ made' = made + 1
    /\ worker' = [worker EXCEPT ![c].token = made + 1, ![c].at = "session"]
    /\ fails' = 0 /\ locked' = FALSE
    /\ UNCHANGED <<fd, adopted, sessions, sessionCount, sessionNext, issued, transportVars,
                   password, envTransport, listenVars, requests>>

\* Mutant of SessionAdd: the turn starts at the second entry.
SessionAddNext(c) ==
    /\ worker[c].at = "session" /\ Goto(c, "end")
    /\ LET entry == IF sessionCount < MaxSessions THEN sessionCount ELSE (sessionNext + 1) % MaxSessions
       IN /\ sessions' = [sessions EXCEPT ![entry] = worker[c].token]
          /\ IF sessionCount < MaxSessions
             THEN sessionCount' = sessionCount + 1 /\ UNCHANGED sessionNext
             ELSE sessionNext' = (sessionNext + 1) % MaxSessions /\ UNCHANGED sessionCount
    /\ issued' = Append(issued, worker[c].token)
    /\ UNCHANGED <<fd, adopted, fails, locked, transportVars, Elsewhere>>

\* session_add(): the next entry, or the oldest.
SessionAdd(c) ==
    /\ worker[c].at = "session" /\ Goto(c, "end")
    /\ LET entry == IF sessionCount < MaxSessions THEN sessionCount ELSE sessionNext
       IN /\ sessions' = [sessions EXCEPT ![entry] = worker[c].token]
          /\ IF sessionCount < MaxSessions
             THEN sessionCount' = sessionCount + 1 /\ UNCHANGED sessionNext
             ELSE sessionNext' = (sessionNext + 1) % MaxSessions /\ UNCHANGED sessionCount
    /\ issued' = Append(issued, worker[c].token)
    /\ UNCHANGED <<fd, adopted, fails, locked, transportVars, Elsewhere>>

\* WS_LOGIN_LOCKOUT_SECONDS go by.
LockoutEnds ==
    /\ locked /\ locked' = FALSE
    /\ UNCHANGED <<worker, fd, adopted, sessions, sessionCount, sessionNext, issued, fails,
                   transportVars, Elsewhere>>

\* The settings write or clear the password.
SetPassword ==
    /\ Request /\ password' = ~password
    /\ UNCHANGED <<worker, fd, adopted, authVars, made, transportVars, envTransport, listenVars>>

----------------------------------------------------------------------------
(* The transport. *)

\* transport_is_ws(): the .env is read by the first to ask; two may be first.
Asks == {"ws", "transport", "shared"}
AskTransport(c) ==
    /\ \E kind \in Asks : Is(c, kind)
    /\ Goto(c, IF worker[c].kind = "transport" /\ ~MayControl(c) THEN "end"
               ELSE IF transport = "unread" THEN "settle" ELSE "settled")
    /\ UNCHANGED <<fd, adopted, authVars, transportVars, Elsewhere>>
Settle(c) ==
    /\ worker[c].at = "settle" /\ Goto(c, "settled")
    /\ transport' = envTransport
    /\ UNCHANGED <<fd, adopted, authVars, chosen, Elsewhere>>

\* handle_transport()
Choose(c) ==
    /\ worker[c].at = "settled" /\ worker[c].kind = "transport"
    /\ transport' = worker[c].want /\ chosen' = worker[c].want
    /\ Goto(c, "end")
    /\ UNCHANGED <<fd, adopted, authVars, Elsewhere>>

Shared(c) ==
    /\ worker[c].at = "settled" /\ worker[c].kind = "shared" /\ Goto(c, "end")
    /\ UNCHANGED <<fd, adopted, authVars, transportVars, Elsewhere>>

\* Mutant of Upgrade: the thread goes on to close what it has given away.
UpgradeAndEnd(c) ==
    /\ worker[c].at = "settled" /\ worker[c].kind = "ws"
    /\ \/ Goto(c, "end") /\ UNCHANGED adopted
       \/ transport = "ws" /\ adopted' = adopted \cup {c} /\ Goto(c, "end")
    /\ UNCHANGED <<fd, authVars, transportVars, Elsewhere>>

\* Mutant of Upgrade: a refusal is taken for a handover.
UpgradeRefusedKept(c) ==
    /\ worker[c].at = "settled" /\ worker[c].kind = "ws"
    /\ \/ worker' = [worker EXCEPT ![c] = Closed] /\ UNCHANGED <<fd, adopted>>
       \/ /\ transport = "ws" /\ adopted' = adopted \cup {c}
          /\ fd' = [fd EXCEPT ![c] = "native"]
          /\ worker' = [worker EXCEPT ![c] = Closed]
    /\ UNCHANGED <<authVars, transportVars, Elsewhere>>

\* handle_ws_upgrade(): refused, or given to the native server, whose the
\* socket is from then on.
Upgrade(c) ==
    /\ worker[c].at = "settled" /\ worker[c].kind = "ws"
    /\ \/ Goto(c, "end") /\ UNCHANGED <<fd, adopted>>
       \/ /\ transport = "ws" /\ adopted' = adopted \cup {c}
          /\ fd' = [fd EXCEPT ![c] = "native"]
          /\ worker' = [worker EXCEPT ![c] = Closed]
    /\ UNCHANGED <<authVars, transportVars, Elsewhere>>

NativeDrops(c) ==
    /\ c \in adopted /\ adopted' = adopted \ {c}
    /\ fd' = [fd EXCEPT ![c] = "none"]
    /\ UNCHANGED <<worker, authVars, transportVars, Elsewhere>>

Close(c) ==
    /\ worker[c].at = "end"
    /\ fd' = [fd EXCEPT ![c] = "none"] /\ worker' = [worker EXCEPT ![c] = Closed]
    /\ UNCHANGED <<adopted, authVars, transportVars, Elsewhere>>

ClientThread(c) ==
    \/ Headers(c) \/ Page(c) \/ HandleOffer(c) \/ Order(c)
    \/ LoginChecks(c) \/ Login(c) \/ LoginFails(c) \/ LoginSucceeds(c) \/ SessionAdd(c)
    \/ AskTransport(c) \/ Settle(c) \/ Choose(c) \/ Shared(c) \/ Upgrade(c) \/ Close(c)
Listener == AcceptCheck \/ AcceptNothing \/ \E c \in Conns : AcceptOne(c)

----------------------------------------------------------------------------
WebInit ==
    /\ worker = [c \in Conns |-> Closed] /\ fd = [c \in Conns |-> "none"] /\ adopted = {}
    /\ sessions = [i \in 0 .. MaxSessions - 1 |-> 0] /\ sessionCount = 0 /\ sessionNext = 0
    /\ issued = <<>> /\ made = 0
    /\ fails = 0 /\ locked = FALSE /\ password = TRUE
    /\ transport = "unread" /\ envTransport \in Transports /\ chosen = "none"
    /\ listening = FALSE /\ stopRequested = FALSE /\ running = FALSE
    /\ acceptor = "none" /\ window = "idle" /\ requests = 0

WebNext ==
    \/ ServerStarts \/ Create \/ ServerStops \/ Stopped \/ Listener
    \/ \E c \in Conns : ClientThread(c) \/ NativeDrops(c)
    \/ LockoutEnds \/ SetPassword

\* Threads run on (a peer reads what it is sent, or goes), and time passes.
WebFairness ==
    /\ \A c \in Conns : WF_webVars(ClientThread(c))
    /\ WF_webVars(Listener) /\ WF_webVars(Stopped) /\ WF_webVars(Create)
    /\ WF_webVars(LockoutEnds)

WebSpec == WebInit /\ [][WebNext]_webVars

----------------------------------------------------------------------------
WebTypeOK ==
    /\ worker \in [Conns -> ClientThreads] /\ fd \in [Conns -> {"none", "thread", "native"}]
    /\ adopted \subseteq Conns
    /\ sessions \in [0 .. MaxSessions - 1 -> Nat] /\ issued \in Seq(Nat)
    /\ sessionCount \in 0 .. MaxSessions /\ sessionNext \in 0 .. MaxSessions - 1
    /\ made \in Nat /\ requests \in 0 .. MaxRequests
    /\ fails \in 0 .. MaxFails - 1 /\ locked \in BOOLEAN /\ password \in BOOLEAN
    /\ transport \in Transports \cup {"unread"} /\ envTransport \in Transports
    /\ chosen \in Transports \cup {"none"}
    /\ listening \in BOOLEAN /\ stopRequested \in BOOLEAN /\ running \in BOOLEAN
    /\ acceptor \in {"none", "check", "poll"} /\ window \in {"idle", "create", "wait"}

\* The players are the last MaxSessions to have logged in: a new one takes the
\* place of the oldest, whatever the order the threads get there in.
PlayersAreTheNewest ==
    {sessions[i] : i \in 0 .. sessionCount - 1} =
        {issued[n] : n \in {k \in 1 .. Len(issued) : k > Len(issued) - MaxSessions}}

\* A socket has one owner: what the native server was given is not closed
\* under it, and a thread that runs has its own open.
SocketsHaveOneOwner ==
    \A c \in Conns : /\ c \in adopted => fd[c] = "native" /\ worker[c].at = "none"
                     /\ worker[c].at # "none" => fd[c] = "thread"

\* A start never finds the last listener's thread alive: it would poll, or
\* close, the new one's socket.
StartsAlone ==
    /\ window = "create" => acceptor = "none" /\ listening
    /\ window = "idle" => (running <=> acceptor # "none") /\ (running <=> listening)

\* However connections, logins, starts and stops interleave, nobody has what
\* is somebody else's: a player's place, a socket, the listener.
ServerIsExclusive == PlayersAreTheNewest /\ SocketsHaveOneOwner /\ StartsAlone

\* The .env says what the host starts on; after that the choice is the
\* players'.
ChoiceIsKept == chosen # "none" => transport = chosen

=============================================================================
