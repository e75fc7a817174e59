---------------------------- MODULE AndroidLink -----------------------------
(***************************************************************************)
(* The Android client's connections (DirectClient.kt and MainActivity.kt): *)
(* the main thread opens and closes them, each has a reader of its own and *)
(* tells the main thread what it hears by posts, which are handled in      *)
(* order and possibly after another connection was opened.  generation is  *)
(* what tells the posts of an old connection from those of the current.    *)
(*                                                                         *)
(* Left out: frames (AndroidVideo), what is shared (AndroidBitrate), the   *)
(* reader's posts for retries, leaving the activity.  Connections are      *)
(* numbered by their generation, at most MaxConnects of them; MaxPosts is  *)
(* the most posts that wait.                                               *)
(***************************************************************************)
EXTENDS Naturals, Sequences

CONSTANTS MaxConnects, MaxPosts

ASSUME AndroidLinkAssumption == MaxConnects \in Nat \ {0} /\ MaxPosts \in Nat \ {0}

VARIABLES
    generation, \* the current connection attempt
    client,     \* the connection client points at, or 0
    connectPanel, settingsMenu, \* the two screens over the picture
    padShown,   \* the pad's visibility
    reader,     \* where the reader of each connection is
    links,      \* its running, whether its sender has failed, and was asked to close
    first,      \* what the host is sent first on it
    posts,      \* <<what, whose>> waiting for the main thread
    loggingIn,  \* a login is on its way
    streamOf,   \* whose stream is shown, or 0
    roleOf,     \* who said what the player may do, or 0
    overtaken   \* history: a post of a connection that was replaced meanwhile

screens == <<connectPanel, settingsMenu, padShown>>
connections == <<reader, links, first>>
androidLinkVars == <<generation, client, screens, connections, posts, loggingIn, streamOf, roleOf,
                     overtaken>>

Connections == 1..MaxConnects

AndroidLinkTypeOK ==
    /\ {generation, client, streamOf, roleOf} \subseteq 0..MaxConnects
    /\ {connectPanel, settingsMenu, padShown, loggingIn, overtaken} \subseteq BOOLEAN
    /\ reader \in [Connections ->
          {"none", "dialing", "open", "greeted", "granting", "reading", "done"}]
    /\ links \in [Connections -> [running : BOOLEAN, failed : BOOLEAN, asked : BOOLEAN]]
    /\ first \in [Connections -> {"nothing", "hello", "frame"}]
    /\ Len(posts) <= MaxPosts
    /\ \A i \in DOMAIN posts :
          posts[i] \in ({"ack", "info", "closed"} \X Connections) \cup ({"login", "refused"} \X {0})

-----------------------------------------------------------------------------
(***************************************************************************)
(* The main thread.                                                        *)
(***************************************************************************)

\* close(): the reader is not waited for, and will say nothing of its end.
Closed == IF client = 0 THEN links
          ELSE [links EXCEPT ![client].running = FALSE, ![client].asked = TRUE]

\* connect(), over the direct path.
OpenNext(base) ==
    LET mine == generation + 1 IN
    /\ generation < MaxConnects /\ generation' = mine /\ client' = mine
    /\ reader' = [reader EXCEPT ![mine] = "dialing"]
    /\ links' = [base EXCEPT ![mine] = [running |-> TRUE, failed |-> FALSE, asked |-> FALSE]]
    /\ overtaken' = (overtaken \/ \E c \in Connections : reader[c] = "granting")
    /\ UNCHANGED first

\* The path over HTTP "is not built yet": the connection screen comes back.
NoPath(base) ==
    /\ generation < MaxConnects /\ generation' = generation + 1
    /\ links' = base /\ UNCHANGED <<client, reader, first, overtaken>>

\* hideConnectPanel() and connect(); with the HTTP path showConnectPanel().
Connecting(base, direct) ==
    /\ IF direct THEN OpenNext(base) ELSE NoPath(base)
    /\ connectPanel' = ~direct /\ padShown' = direct

\* The screen's connect button, which closes nothing.
PressConnect(direct) ==
    /\ connectPanel /\ Connecting(links, direct)
    /\ UNCHANGED <<settingsMenu, posts, loggingIn, streamOf, roleOf>>

\* Back opens the menu while there is a client.
OpenMenu == /\ ~settingsMenu /\ client # 0 /\ settingsMenu' = TRUE /\ padShown' = FALSE
            /\ UNCHANGED <<generation, client, connectPanel, connections, posts, loggingIn, streamOf,
                           roleOf, overtaken>>

\* Mutant of PadBack: the pad comes back whatever is shown.
PadBackAnyway == TRUE

\* closeMenu() gives the pad back, but not onto the connection screen.
PadBack == ~connectPanel \/ padShown

CloseMenu == /\ settingsMenu /\ settingsMenu' = FALSE /\ padShown' = PadBack
             /\ UNCHANGED <<generation, client, connectPanel, connections, posts, loggingIn, streamOf,
                            roleOf, overtaken>>

\* onHostChanged() and onBackToViewer(): the old connection is closed, a new one
\* opened.  The HTTP path can be set on the connection screen before that.
MenuReconnects(direct) ==
    /\ settingsMenu /\ ~connectPanel /\ settingsMenu' = FALSE /\ Connecting(Closed, direct)
    /\ UNCHANGED <<posts, loggingIn, streamOf, roleOf>>

\* onDisconnect(): the connection is closed and nothing else happens.
MenuDisconnects ==
    /\ settingsMenu /\ ~connectPanel /\ settingsMenu' = FALSE /\ padShown' = PadBack
    /\ links' = Closed
    /\ UNCHANGED <<generation, client, connectPanel, reader, first, posts, loggingIn, streamOf,
                   roleOf, overtaken>>

\* login(): a thread asks the host, whatever happens meanwhile.
MenuLogsIn == /\ settingsMenu /\ ~connectPanel /\ ~loggingIn /\ loggingIn' = TRUE
              /\ UNCHANGED <<generation, client, screens, connections, posts, streamOf, roleOf,
                             overtaken>>

Posted(what, whose) == Len(posts) < MaxPosts /\ posts' = Append(posts, <<what, whose>>)

LoginAnswers(accepted) ==
    /\ loggingIn /\ loggingIn' = FALSE /\ Posted(IF accepted THEN "login" ELSE "refused", 0)
    /\ UNCHANGED <<generation, client, screens, connections, streamOf, roleOf, overtaken>>

\* Mutant of Counts: the end of a connection counts, whichever it was.
CountsAnyway(whose) == TRUE

\* mine == generation.
Counts(whose) == whose = generation

\* The posts, one after the other.  Only an end is compared with the generation
\* again; the ack's was before it was posted, the stream's never is.
HandlePost ==
    LET what == Head(posts)[1]  whose == Head(posts)[2] IN
    /\ posts # <<>> /\ posts' = Tail(posts)
    /\ CASE what \in {"ack", "info"} ->
              streamOf' = whose
              /\ UNCHANGED <<generation, client, screens, connections, overtaken>>
         [] what = "closed" /\ Counts(whose) ->
              client' = 0 /\ connectPanel' = TRUE /\ padShown' = (connectPanel /\ padShown)
              /\ streamOf' = 0
              /\ UNCHANGED <<generation, settingsMenu, connections, overtaken>>
         [] what = "login" /\ generation < MaxConnects ->
              settingsMenu' = FALSE /\ Connecting(Closed, TRUE) /\ UNCHANGED streamOf
         [] OTHER -> UNCHANGED <<generation, client, screens, connections, streamOf, overtaken>>
    /\ UNCHANGED <<loggingIn, roleOf>>

-----------------------------------------------------------------------------
(***************************************************************************)
(* A connection's own threads: run().                                      *)
(***************************************************************************)
linkMain == <<generation, client, screens, loggingIn, streamOf>>

ConnGoes(c, from, to) == reader[c] = from /\ reader' = [reader EXCEPT ![c] = to]

\* From here on others can send on it.
Dials(c) == /\ ConnGoes(c, "dialing", "open")
            /\ UNCHANGED <<linkMain, links, first, posts, roleOf, overtaken>>

SaysFirst(c, what) == first' = [first EXCEPT ![c] = IF @ = "nothing" THEN what ELSE @]

\* A ping, a keyframe request or the pad's state.
SendsEarly(c) ==
    /\ client = c /\ reader[c] = "open" /\ links[c].running /\ SaysFirst(c, "frame")
    /\ UNCHANGED <<linkMain, reader, links, posts, roleOf, overtaken>>

Greets(c) == /\ ConnGoes(c, "open", "greeted") /\ SaysFirst(c, "hello")
             /\ UNCHANGED <<linkMain, links, posts, roleOf, overtaken>>

\* onAck: the generation is looked at once, for what follows.
Acked(c) ==
    /\ first[c] = "hello" /\ ConnGoes(c, "greeted", IF Counts(c) THEN "granting" ELSE "reading")
    /\ UNCHANGED <<linkMain, links, first, posts, roleOf, overtaken>>

Grants(c) ==
    /\ ConnGoes(c, "granting", "reading") /\ roleOf' = c /\ Posted("ack", c)
    /\ UNCHANGED <<linkMain, links, first, overtaken>>

\* onStreamInfo, of a frame that was being read when it was closed, too.
Informs(c) ==
    /\ reader[c] = "reading" /\ Posted("info", c)
    /\ overtaken' = (overtaken \/ c # generation)
    /\ UNCHANGED <<linkMain, connections, roleOf>>

\* Mutant of Says: nothing is said of an end that was not asked for.
SaysNever(c) == FALSE

\* Whether an end is reported: not one that close() brought about.
Says(c) == links[c].running

\* The reader's end, by the host, the network or the close: run()'s finally.
Ends(c) ==
    /\ reader[c] \in {"dialing", "open", "greeted", "reading"}
    /\ reader' = [reader EXCEPT ![c] = "done"] /\ links' = [links EXCEPT ![c].running = FALSE]
    /\ IF Says(c) THEN Posted("closed", c) ELSE UNCHANGED posts
    /\ UNCHANGED <<linkMain, first, roleOf, overtaken>>

\* A write fails on the sender's thread, while the reader goes on.
SendFails(c) ==
    /\ reader[c] \in {"greeted", "granting", "reading"} /\ links[c].running /\ ~links[c].failed
    /\ links' = [links EXCEPT ![c].failed = TRUE] /\ Posted("closed", c)
    /\ UNCHANGED <<linkMain, reader, first, roleOf, overtaken>>

ReaderNext(c) == \/ Dials(c) \/ Greets(c) \/ Acked(c) \/ Grants(c) \/ Ends(c)

-----------------------------------------------------------------------------
AndroidLinkInit ==
    /\ generation = 0 /\ client = 0 /\ connectPanel = TRUE /\ settingsMenu = FALSE
    /\ padShown = FALSE /\ reader = [c \in Connections |-> "none"]
    /\ links = [c \in Connections |-> [running |-> FALSE, failed |-> FALSE, asked |-> FALSE]]
    /\ first = [c \in Connections |-> "nothing"] /\ posts = <<>> /\ loggingIn = FALSE
    /\ streamOf = 0 /\ roleOf = 0 /\ overtaken = FALSE

AndroidLinkNext ==
    \/ (\E direct \in BOOLEAN : PressConnect(direct) \/ MenuReconnects(direct))
    \/ OpenMenu \/ CloseMenu \/ MenuDisconnects \/ MenuLogsIn
    \/ (\E accepted \in BOOLEAN : LoginAnswers(accepted)) \/ HandlePost
    \/ (\E c \in Connections : ReaderNext(c) \/ SendsEarly(c) \/ Informs(c) \/ SendFails(c))

AndroidLinkSpec == AndroidLinkInit /\ [][AndroidLinkNext]_androidLinkVars

-----------------------------------------------------------------------------
\* The connection screen is up while nothing is connected: an old connection's
\* end does not put it over a new one.  A connection whose sender failed is
\* given up before its reader ends.
PanelIsTrue == connectPanel =>
    \A c \in Connections : links[c].running => links[c].failed

\* The pad is hidden by a screen and by nothing else, and always by the
\* connection screen.
PadIsThere == /\ ~connectPanel /\ ~settingsMenu => padShown
              /\ connectPanel => ~padShown

\* With every post handled, the stream shown and the role are the current
\* connection's, unless an old reader was in the middle of telling of its own.
WordsAreTheirs ==
    posts = <<>> /\ ~overtaken /\ client # 0 /\ client = generation /\ reader[client] = "reading"
        => streamOf = client /\ roleOf = client

\* A connection that ends by itself brings the connection screen back, unless
\* another one is there by then.
EndUnshown == client # 0 /\ reader[client] = "done" /\ ~links[client].asked /\ ~connectPanel
EndIsShown == []<>~EndUnshown

\* Refuted: "closing a client makes its onClosed fire some time later".  A
\* Disconnect leaves the last picture where it is.
DisconnectIsShown == \A c \in Connections :
    (client = c /\ links[c].asked) ~> (connectPanel \/ generation > c)

\* Refuted: the hello is the first thing the host reads.  socket is set before
\* it is written, and another thread's ping can go first.
HelloIsFirst == \A c \in Connections : first[c] # "frame"
=============================================================================
