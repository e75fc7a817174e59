----------------------------- MODULE SwitchLink -----------------------------
(***************************************************************************)
(* The Switch client's link to the host and what it keeps between launches *)
(* (switch_homebrew/src: net.c, and the settings, the login and the menu's *)
(* entries of main.c).  All of it runs on main()'s thread, a step of the   *)
(* frame loop at a time; the host and the player decide what it meets.     *)
(***************************************************************************)
EXTENDS Naturals

CONSTANT MaxEntries \* bound: entries of the menu the player activates

ASSUME SwitchLinkAssumption == MaxEntries \in Nat

VARIABLES
    wants, link,     \* g_want_connection; g_stage and g_info.state
    mayControl, hasToken, \* g_info.may_control; whether g_token of net.c is one
    password, autologin, \* g_password: none, right or wrong; g_autologin
    volume, savedVolume, \* audio.c's volume; what load_config() read
    dirty, disk,    \* g_config_dirty; what the file says
    wasConnected, step, \* main()'s was_connected and its next step
    opened,         \* g_decoders_ready
    chosen,         \* history: the volume the player chose last
    entries, answered \* the bound; history: a login was answered with a token since
                    \* the player or the network last made a connection

linkVars == <<wants, link, mayControl, hasToken, answered>>
keptVars == <<password, autologin, volume, dirty, disk>>
loopVars == <<savedVolume, chosen, wasConnected, step, opened, entries>>
switchLinkVars == <<linkVars, keptVars, loopVars>>

Passwords == {"none", "right", "wrong"}
Volumes == {"quiet", "loud"}
Settings == [password : Passwords, autologin : BOOLEAN, volume : Volumes]

\* What is read of a file without lines.
Defaults == [password |-> "none", autologin |-> FALSE, volume |-> "quiet"]

----------------------------------------------------------------------------
(* net.c *)

Connected == link = "up"

\* fail(): the socket is closed; may_control stays as it was.
Fail == link' = "failed" /\ answered' = FALSE /\ UNCHANGED <<wants, mayControl, hasToken>>

\* begin_connect()
BeginSwitch ==
    \/ Fail
    \/ link' = "connecting" /\ UNCHANGED <<wants, mayControl, hasToken, answered>>

\* finish_connect(): still in flight, refused or timed out, or the hello is sent.
FinishSwitch ==
    \/ UNCHANGED linkVars
    \/ Fail
    \/ link' = "handshake" /\ UNCHANGED <<wants, mayControl, hasToken, answered>>

\* handle_handshake_reply(): the host knows the token it has just given, and may
\* have forgotten an older one.
HandleHandshakeReply ==
    \/ UNCHANGED linkVars
    \/ Fail
    \/ /\ link' = "up" /\ UNCHANGED <<wants, hasToken, answered>>
       /\ mayControl' = hasToken \/ (~answered /\ mayControl' = FALSE)

\* net_poll()
NetPoll ==
    /\ step = "poll" /\ step' = "login"
    /\ \/ ~wants /\ UNCHANGED linkVars
       \/ wants /\ link \in {"idle", "failed"} /\ BeginSwitch
       \/ wants /\ link = "failed" /\ UNCHANGED linkVars \* RETRY_INTERVAL_MS is not over
       \/ link = "connecting" /\ FinishSwitch
       \/ link = "handshake" /\ HandleHandshakeReply
       \/ Connected /\ (UNCHANGED linkVars \/ Fail)
    /\ UNCHANGED <<keptVars, savedVolume, chosen, wasConnected, opened, entries>>

\* Mutant of NetConnect: the token is forgotten on the way.
NetConnectWithoutToken(token) ==
    wants' = TRUE /\ link' = "idle" /\ hasToken' = FALSE /\ mayControl' = FALSE

\* net_connect()
NetConnect(token) ==
    wants' = TRUE /\ link' = "idle" /\ hasToken' = token /\ mayControl' = FALSE

\* net_disconnect()
NetDisconnect ==
    wants' = FALSE /\ link' = "idle" /\ answered' = FALSE /\ UNCHANGED <<mayControl, hasToken>>

\* net_login(): whatever goes wrong is a failure; only the right password can succeed.
NetLoginAnswers == {FALSE} \cup {password = "right"}

----------------------------------------------------------------------------
(* main.c: the settings. *)

Memory == [password |-> password, autologin |-> autologin, volume |-> volume]

\* save_config(): the file is truncated before it is written, and dirty until then.
SaveConfig ==
    \/ disk' = Memory /\ dirty' = FALSE
    \/ UNCHANGED <<disk, dirty>> \* it cannot be opened

\* save_config_if_needed(): two seconds after the first change.
SaveConfigIfNeeded ==
    /\ step = "save" /\ step' = "poll"
    /\ IF dirty THEN SaveConfig \/ UNCHANGED <<disk, dirty>> ELSE UNCHANGED <<disk, dirty>>
    /\ UNCHANGED <<linkVars, password, autologin, volume, savedVolume, chosen, wasConnected, opened, entries>>

----------------------------------------------------------------------------
(* main.c: the pass of the frame loop. *)

\* Mutant of MaybeAutologin: the lost password is not a change.
MaybeAutologinUnsaved ==
    IF ~autologin \/ password = "none" \/ mayControl THEN UNCHANGED <<linkVars, password, dirty>>
    ELSE \E ok \in NetLoginAnswers :
        IF ok THEN NetConnect(TRUE) /\ answered' = TRUE /\ UNCHANGED <<password, dirty>>
        ELSE password' = "none" /\ UNCHANGED <<linkVars, dirty>>

\* maybe_autologin(): a failure clears the password, whatever it was due to.
MaybeAutologin ==
    IF ~autologin \/ password = "none" \/ mayControl THEN UNCHANGED <<linkVars, password, dirty>>
    ELSE \E ok \in NetLoginAnswers :
        IF ok THEN NetConnect(TRUE) /\ answered' = TRUE /\ UNCHANGED <<password, dirty>>
        ELSE password' = "none" /\ dirty' = TRUE /\ UNCHANGED linkVars

\* What main() does on the edge into "connected".
OnEdge ==
    /\ step = "login" /\ step' = "open" /\ wasConnected' = Connected
    /\ IF Connected /\ ~wasConnected THEN MaybeAutologin ELSE UNCHANGED <<linkVars, password, dirty>>
    /\ UNCHANGED <<autologin, volume, disk, savedVolume, chosen, opened, entries>>

\* start_decoders_if_needed(), what of it concerns the settings.
StartDecoders ==
    /\ step = "open" /\ step' = "menu"
    /\ \/ Connected /\ ~opened /\ opened' = TRUE /\ volume' = savedVolume
       \/ UNCHANGED <<opened, volume>> \* not connected, already open, or no decoder
    /\ UNCHANGED <<linkVars, password, autologin, dirty, disk, savedVolume, chosen, wasConnected, entries>>

----------------------------------------------------------------------------
(* menu_activate(): the entries that matter here.  Those of its list       *)
(* "persists" end in settings_changed().                                   *)

Entry(persists) ==
    /\ step = "menu" /\ step' = "save" /\ entries < MaxEntries /\ entries' = entries + 1
    /\ dirty' = (dirty \/ persists)
    /\ UNCHANGED <<disk, savedVolume, wasConnected>>

\* MENU_CONNECT
Connect ==
    /\ Entry(FALSE)
    /\ IF link \in {"connecting", "handshake", "up"}
       THEN NetDisconnect /\ opened' = FALSE
       ELSE NetConnect(FALSE) /\ answered' = FALSE /\ UNCHANGED opened
    /\ UNCHANGED <<password, autologin, volume, chosen>>

\* MENU_HOST, MENU_PORT: the new address is taken at once, unless nothing was connected.
Readdress ==
    /\ Entry(TRUE)
    /\ IF link # "idle" THEN NetConnect(FALSE) /\ answered' = FALSE ELSE UNCHANGED linkVars
    /\ UNCHANGED <<password, autologin, volume, chosen, opened>>

\* MENU_LOGIN: out again for who may control; else in, typing a password if none is kept.
Login ==
    /\ Entry(TRUE)
    /\ \/ /\ mayControl /\ NetConnect(FALSE) /\ answered' = FALSE /\ UNCHANGED password
       \/ /\ ~mayControl /\ password = "none" /\ UNCHANGED <<linkVars, password>> \* nothing typed
       \/ /\ ~mayControl
          /\ \E typed \in IF password = "none" THEN Passwords \ {"none"} ELSE {password} :
             \E ok \in {FALSE} \cup {typed = "right"} :
                IF ok THEN NetConnect(TRUE) /\ answered' = TRUE /\ password' = typed
                ELSE password' = "none" /\ UNCHANGED linkVars
    /\ UNCHANGED <<autologin, volume, chosen, opened>>

\* MENU_AUTOLOGIN, MENU_FORGET_PASSWORD, MENU_VOLUME_DOWN and MENU_VOLUME_UP
ToggleAutologin == /\ Entry(TRUE) /\ autologin' = ~autologin
                   /\ UNCHANGED <<linkVars, password, volume, chosen, opened>>
ForgetPassword == /\ Entry(TRUE) /\ password' = "none"
                  /\ UNCHANGED <<linkVars, autologin, volume, chosen, opened>>
ChangeVolume == /\ Entry(TRUE) /\ volume' \in Volumes /\ chosen' = volume'
                /\ UNCHANGED <<linkVars, password, autologin, opened>>

NoEntry == step = "menu" /\ step' = "save"
           /\ UNCHANGED <<linkVars, keptVars, savedVolume, chosen, wasConnected, opened, entries>>

\* MENU_QUIT and the gesture: save_config(), and the loop ends.
Quit ==
    /\ step = "menu" /\ step' = "ended" /\ SaveConfig
    /\ UNCHANGED <<linkVars, password, autologin, volume, savedVolume, chosen, wasConnected, opened, entries>>

\* The console closes the program at any moment, between the truncation of the
\* file and its lines too.
Killed ==
    /\ step # "ended" /\ step' = "ended"
    /\ disk' = disk \/ (step \in {"menu", "save"} /\ disk' = Defaults)
    /\ UNCHANGED <<linkVars, password, autologin, volume, dirty, savedVolume, chosen, wasConnected, opened, entries>>

----------------------------------------------------------------------------
(* main(), from load_config() on. *)

SwitchLinkInit ==
    /\ entries = 0 /\ disk \in Settings
    /\ wants = FALSE /\ link = "idle" /\ mayControl = FALSE /\ hasToken = FALSE /\ answered = FALSE
    /\ password = disk.password /\ autologin = disk.autologin /\ dirty = FALSE
    /\ volume = Defaults.volume /\ savedVolume = disk.volume /\ chosen = disk.volume
    /\ wasConnected = FALSE /\ opened = FALSE /\ step = "poll"

Launch ==
    /\ step = "ended" /\ step' = "poll"
    /\ wants' = FALSE /\ link' = "idle" /\ mayControl' = FALSE /\ hasToken' = FALSE /\ answered' = FALSE
    /\ password' = disk.password /\ autologin' = disk.autologin /\ dirty' = FALSE
    /\ volume' = Defaults.volume /\ savedVolume' = disk.volume /\ chosen' = disk.volume
    /\ wasConnected' = FALSE /\ opened' = FALSE
    /\ UNCHANGED <<disk, entries>>

MenuActivate == \/ Connect \/ Readdress \/ Login \/ ToggleAutologin \/ ForgetPassword \/ ChangeVolume

FrameLoop == NetPoll \/ OnEdge \/ StartDecoders \/ NoEntry \/ SaveConfigIfNeeded

SwitchLinkNext == FrameLoop \/ MenuActivate \/ Quit \/ Killed \/ Launch

SwitchLinkSpec == SwitchLinkInit /\ [][SwitchLinkNext]_switchLinkVars

----------------------------------------------------------------------------
(* Properties. *)

SwitchLinkTypeOK ==
    /\ wants \in BOOLEAN /\ link \in {"idle", "failed", "connecting", "handshake", "up"}
    /\ mayControl \in BOOLEAN /\ hasToken \in BOOLEAN /\ answered \in BOOLEAN
    /\ password \in Passwords /\ autologin \in BOOLEAN /\ volume \in Volumes /\ savedVolume \in Volumes
    /\ chosen \in Volumes /\ dirty \in BOOLEAN /\ disk \in Settings
    /\ wasConnected \in BOOLEAN /\ opened \in BOOLEAN /\ entries \in 0 .. MaxEntries
    /\ step \in {"poll", "login", "open", "menu", "save", "ended"}

\* A link that is not wanted is idle; and who is told to be a player by the
\* host holds a token, whatever reconnections, logouts and lost links came before.
ControlNeedsToken == (mayControl => hasToken) /\ (~wants => link = "idle")

\* "A failure clears the saved password, and a success reconnects with the
\* token, so neither outcome loops": an answered login is not tried again
\* until the link is lost or the player makes another.
LoginIsNotRepeated ==
    step = "login" /\ Connected /\ ~wasConnected /\ autologin /\ password # "none" /\ ~mayControl => ~answered

\* What the program holds and the file does not is marked to be saved: the
\* password that a failed login cleared too.
FileFollows ==
    step # "ended" /\ ~dirty => disk.password = password /\ disk.autologin = autologin

\* The three, which hold together.
LinkIsKept == ControlNeedsToken /\ LoginIsNotRepeated /\ FileFollows

\* "A choice made once survives the next launch" (main.c): the volume a file
\* is written with is the one last chosen.  It is not: before the decoders
\* are open it is the default of audio.c, and after the second connection the
\* one that was read at the launch.
VolumeSurvives == [][dirty /\ ~dirty' => disk'.volume = chosen]_switchLinkVars

=============================================================================
