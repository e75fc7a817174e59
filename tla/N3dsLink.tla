------------------------------ MODULE N3dsLink ------------------------------
(***************************************************************************)
(* The link of the 3DS client (3ds/source: network.c, main.c):             *)
(* network_thread() logs in, opens the stream and reads it, tries again or *)
(* gives up, while main() connects, disconnects, reconnects, changes the   *)
(* settings, sends and leaves.                                             *)
(*                                                                         *)
(* Both close the thread's socket through g_socket; the thread's own       *)
(* number of it is not told apart, since no other TCP socket is opened     *)
(* while it holds one.  A socket it has not yet named main() cannot close. *)
(***************************************************************************)
EXTENDS Naturals

CONSTANTS
    N3dsConfigs,   \* the settings: address, ports, password
    WithPassword,  \* those that ask for a login
    MaxN3dsPresses \* what the user does

ASSUME N3dsLinkAssumption == WithPassword \subseteq N3dsConfigs /\ MaxN3dsPresses \in Nat

VARIABLES
    running, wanted, auto, \* g_running, g_wanted, g_auto_reconnect
    config, used,          \* g_config; what the thread copied of it
    net, sock,             \* network_thread(): its step; g_socket, and what it leads to
    status, controls,    \* g_stats
    spoiled,               \* something was sent on the socket before its own first message
    main, n3dsPresses,         \* main(): its step; what the user did
    asked                  \* history: somebody asked for an attempt since the last one

threadVars == <<config, used, net, sock, status, controls, spoiled>>
linkMainVars == <<main, n3dsPresses>>
n3dsLinkVars == <<running, wanted, auto, threadVars, linkMainVars, asked>>

----------------------------------------------------------------------------
(* network_thread() *)

Goes(to) == net' = to /\ UNCHANGED <<running, wanted, auto, config, used, controls,
                                     linkMainVars, asked>>

Leaves == net = "poll" /\ ~running /\ Goes("gone") /\ UNCHANGED <<sock, status, spoiled>>

Attempt ==
    /\ net = "poll" /\ running /\ wanted /\ used' = config /\ status' = "connecting"
    /\ net' = (IF config \in WithPassword THEN "login" ELSE "open") /\ asked' = FALSE
    /\ UNCHANGED <<running, wanted, auto, config, sock, controls, spoiled, linkMainVars>>

\* open_tcp() and the naming of its socket are two steps.
OpenTcp == \/ net = "login" /\ Goes("loginOpened") /\ UNCHANGED <<sock, status, spoiled>>
           \/ net = "open" /\ Goes("opened") /\ UNCHANGED <<sock, status, spoiled>>

CannotOpen == /\ net \in {"login", "open"} /\ Goes("decide") /\ status' = "error"
              /\ UNCHANGED <<sock, spoiled>>

Name == \/ /\ net = "loginOpened" /\ Goes("reply") /\ sock' = "login"
           /\ spoiled' = FALSE /\ UNCHANGED status
        \/ /\ net = "opened" /\ Goes("hello") /\ sock' = "stream"
           /\ spoiled' = FALSE /\ UNCHANGED status

\* login_password(), the exchange: it waits for its end and heeds no flag.
LoggedIn == /\ net = "reply" /\ sock = "login" /\ ~spoiled /\ Goes("open") /\ sock' = "none"
            /\ UNCHANGED <<status, spoiled>>

LoginFails == /\ net = "reply" /\ Goes("decide") /\ sock' = "none" /\ status' = "error"
              /\ UNCHANGED spoiled

Hello == net = "hello" /\ sock = "stream" /\ Goes("ack") /\ UNCHANGED <<sock, status, spoiled>>

Accepted == /\ net = "ack" /\ sock = "stream" /\ running /\ wanted /\ ~spoiled /\ Goes("acked")
            /\ UNCHANGED <<sock, status, spoiled>>

\* The hello was not sent, the host refuses it or closes, or the link is not wanted any more.
Refused == /\ (net = "hello" /\ sock = "none") \/ net = "ack"
           /\ Goes("decide") /\ sock' = "none" /\ status' = "error" /\ UNCHANGED spoiled

SessionUp ==
    /\ net = "acked" /\ net' = "stream" /\ status' = "connected" /\ controls' \in BOOLEAN
    /\ UNCHANGED <<running, wanted, auto, config, used, sock, spoiled, linkMainVars, asked>>

\* The loop of stream_session() ends; the host may end it too.
StreamEnds ==
    /\ net = "stream" /\ Goes("close") /\ UNCHANGED <<sock, status, spoiled>>

MustEnd == ~running \/ ~wanted \/ sock = "none"

\* Mutant of CloseStream: only a loss is reported.
CloseQuietly == /\ net = "close" /\ Goes("decide") /\ sock' = "none" /\ UNCHANGED spoiled
                /\ status' = (IF wanted THEN "error" ELSE status)

CloseStream == /\ net = "close" /\ Goes("decide") /\ sock' = "none" /\ UNCHANGED spoiled
               /\ status' = (IF wanted THEN "error" ELSE "disconnected")

Decide ==
    /\ net = "decide"
    /\ net' = (IF ~running \/ ~wanted THEN "poll" ELSE IF auto THEN "backoff" ELSE "giveUp")
    /\ asked' = (asked \/ (running /\ wanted /\ auto))
    /\ UNCHANGED <<running, wanted, auto, config, used, sock, status, controls, spoiled, linkMainVars>>

\* Mutant of GiveUp: the attempt is made again although nobody asked.
GiveUpNever == /\ net = "giveUp" /\ net' = "poll"
               /\ UNCHANGED <<running, wanted, auto, config, used, sock, status, controls,
                              spoiled, linkMainVars, asked>>

GiveUp ==
    /\ net = "giveUp" /\ net' = "poll" /\ wanted' = FALSE
    /\ UNCHANGED <<running, auto, config, used, sock, status, controls, spoiled, linkMainVars, asked>>

Backoff == net = "backoff" /\ Goes("poll") /\ UNCHANGED <<sock, status, spoiled>>

----------------------------------------------------------------------------
(* main() *)

Press(to) == main = "frame" /\ n3dsPresses < MaxN3dsPresses /\ n3dsPresses' = n3dsPresses + 1 /\ main' = to

\* network_apply_config()
ApplyConfig(c, again) == config' = c /\ auto' = again

EditConfig(c, again) ==
    /\ Press("frame") /\ ApplyConfig(c, again)
    /\ UNCHANGED <<running, wanted, used, net, sock, status, controls, spoiled, asked>>

NetworkConnect(c, again) ==
    /\ Press("frame") /\ ApplyConfig(c, again) /\ wanted' = TRUE /\ asked' = TRUE
    /\ UNCHANGED <<running, used, net, sock, status, controls, spoiled>>

\* network_disconnect(), network_reconnect() and network_exit() begin alike.
Disconnect ==
    /\ Press("disconnect") /\ wanted' = FALSE
    /\ UNCHANGED <<running, auto, threadVars, asked>>

Reconnect(c, again) ==
    /\ Press("reconnect") /\ ApplyConfig(c, again) /\ wanted' = FALSE
    /\ UNCHANGED <<running, used, net, sock, status, controls, spoiled, asked>>

Exit ==
    /\ main = "frame" /\ main' = "exit" /\ running' = FALSE /\ wanted' = FALSE
    /\ UNCHANGED <<auto, threadVars, n3dsPresses, asked>>

\* close_socket()
CloseN3ds ==
    /\ main \in {"disconnect", "reconnect", "exit"} /\ sock' = "none"
    /\ main' = CASE main = "disconnect" -> "frame" [] main = "reconnect" -> "sleep" [] OTHER -> "join"
    /\ UNCHANGED <<running, wanted, auto, config, used, net, status, controls, spoiled, n3dsPresses, asked>>

\* The tenth of a second of network_reconnect() is over, whatever the thread noticed.
ResumeN3ds == /\ main = "sleep" /\ main' = "frame" /\ wanted' = TRUE /\ asked' = TRUE
          /\ UNCHANGED <<running, auto, threadVars, n3dsPresses>>

\* Home and capture go out on whatever g_socket is, once a session has allowed them.
SendHome ==
    /\ Press("frame") /\ controls /\ net \in {"reply", "hello"} /\ sock # "none"
    /\ spoiled' \in {TRUE, net = "hello"}
    /\ UNCHANGED <<running, wanted, auto, config, used, net, sock, status, controls, asked>>

JoinNetwork == /\ main = "join" /\ net = "gone" /\ main' = "done"
        /\ UNCHANGED <<running, wanted, auto, threadVars, n3dsPresses, asked>>

----------------------------------------------------------------------------

\* main() up to its loop: network_init(), and the connection of the settings.
N3dsLinkInit ==
    /\ running = TRUE /\ auto \in BOOLEAN /\ wanted = auto /\ asked = wanted
    /\ config \in N3dsConfigs /\ used = config /\ net = "poll" /\ sock = "none"
    /\ status = "disconnected" /\ controls = FALSE /\ spoiled = FALSE
    /\ main = "frame" /\ n3dsPresses = 0

ThreadNext == \/ Leaves \/ Attempt \/ OpenTcp \/ CannotOpen \/ Name \/ Hello \/ Refused
              \/ SessionUp \/ CloseStream \/ Decide \/ GiveUp \/ Backoff
              \/ LoggedIn \/ LoginFails \/ Accepted \/ (StreamEnds /\ MustEnd)

UserNext == \E c \in N3dsConfigs, again \in BOOLEAN :
    EditConfig(c, again) \/ NetworkConnect(c, again) \/ Reconnect(c, again)

N3dsLinkNext ==
    \/ ThreadNext \/ StreamEnds
    \/ UserNext \/ Disconnect \/ Exit \/ CloseN3ds \/ ResumeN3ds \/ SendHome \/ JoinNetwork

MainGoesOn == CloseN3ds \/ ResumeN3ds \/ JoinNetwork

\* The threads run, and a connection attempt, a login and a hello are answered or fail.
N3dsLinkSpec == /\ N3dsLinkInit /\ [][N3dsLinkNext]_n3dsLinkVars
                /\ WF_n3dsLinkVars(ThreadNext) /\ WF_n3dsLinkVars(MainGoesOn)

----------------------------------------------------------------------------
(* Properties. *)

Steps == {"poll", "login", "loginOpened", "reply", "open", "opened", "hello", "ack", "acked",
          "stream", "close", "decide", "giveUp", "backoff", "gone"}

N3dsLinkTypeOK ==
    /\ {running, wanted, auto, controls, spoiled, asked} \subseteq BOOLEAN
    /\ config \in N3dsConfigs /\ used \in N3dsConfigs /\ net \in Steps
    /\ sock \in {"none", "login", "stream"}
    /\ status \in {"disconnected", "connecting", "connected", "error"}
    /\ main \in {"frame", "disconnect", "reconnect", "exit", "sleep", "join", "done"}
    /\ n3dsPresses \in 0 .. MaxN3dsPresses

\* The client shows a connection, and sends its pad, only while there is one, and
\* between attempts it holds no socket, whoever closed it.
StatusIsTrue ==
    /\ status = "connected" => net \in {"stream", "close"}
    /\ sock # "none" => net \in {"reply", "hello", "ack", "acked", "stream", "close"}
    /\ main = "done" => sock = "none"

\* Without automatic reconnection one press makes one attempt.
AskedForOnce == [][Attempt => asked]_n3dsLinkVars

\* What the user ends ends: a disconnected client leaves its session, and leaving waits for
\* no host that answers.
StillConnected == ~wanted /\ status = "connected"
LinkLetsGo == []<>~StillConnected /\ (main = "exit") ~> (main = "done")

\* Refuted: a press of connect is followed by an attempt.  One that comes between the
\* thread's decision to give up and its clearing of g_wanted is lost.
ConnectIsHeard == [][GiveUp => ~asked]_n3dsLinkVars

\* Refuted: a session has the settings of the last reconnection.  One that is pressed while
\* the thread is inside open_tcp() passes unnoticed.
ReconnectApplies == [][ResumeN3ds => net \in {"poll", "decide", "giveUp", "close"} \/ used = config]_n3dsLinkVars

\* Refuted: a press costs no connection.
PressesAreHarmless == ~spoiled

=============================================================================
