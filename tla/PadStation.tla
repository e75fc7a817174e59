----------------------------- MODULE PadStation -----------------------------
(***************************************************************************)
(* The Wii U GamePad's client (wiiu_pad.cpp, pad_menu.cpp): one process    *)
(* per session of one pad.  Its main thread waits for the pad to associate *)
(* with the access point, connects to the host and receives; an input      *)
(* thread sends what the pad holds; a recovery thread deauthenticates a    *)
(* pad whose decoder is stuck.  The process ends with the session and the  *)
(* supervisor starts another.                                              *)
(*                                                                         *)
(* Left out: the pictures and the sound (PadPicture),                     *)
(* the settings of the menu other than its button for a new association,   *)
(* and the two seconds it lets a pad settle.  What the pad holds is one    *)
(* control.  The thresholds are the code's, scaled down.                   *)
(***************************************************************************)
EXTENDS Naturals

CONSTANTS
    QuietGiveUp,   \* silent seconds until it takes the host for gone (30)
    MaxMisses      \* readings without the pad that end the session (3)

ASSUME StationAssumption == QuietGiveUp \in Nat \ {0} /\ MaxMisses \in Nat \ {0}

VARIABLES
    station,     \* whether the pad is associated
    hand,        \* whether the player holds the control
    life,        \* where the main thread is
    hostLink,        \* whether the connection to the host stands
    quiet,       \* seconds of silence
    misses,      \* readings in a row that did not find the pad
    cycle,       \* the recovery thread: none, kicking, waiting
    spaced,      \* whether the last recovery of its own is old enough
    reconnect,   \* the menu's button was pressed
    menuOpen,    \* whether the menu is on the panel
    inputLive,   \* whether the input thread runs
    last         \* what it sent last, which is what the host holds

stationVars == <<station, hand, life, hostLink, quiet, misses, cycle, spaced,
                 reconnect, menuOpen, inputLive, last>>
stationLoop == <<quiet, misses, cycle, spaced, reconnect>>

StationTypeOK ==
    /\ life \in {"waiting", "settling", "connecting", "streaming", "ending",
                 "joining", "over"}
    /\ quiet \in 0..QuietGiveUp /\ misses \in 0..MaxMisses
    /\ cycle \in {"none", "kicking", "waiting"}
    /\ {station, hand, hostLink, spaced, reconnect, menuOpen, inputLive, last} \subseteq BOOLEAN

unsticking == cycle # "none"

\* HasStation(): hostapd_cli may fail to answer while the pad is there.
HasStation(reading) == reading => station

-----------------------------------------------------------------------------
(***************************************************************************)
(* The main thread, from its start to the connection.                      *)
(***************************************************************************)
FindStation ==
    /\ life = "waiting" /\ HasStation(TRUE) /\ life' = "settling"
    /\ UNCHANGED <<station, hand, hostLink, stationLoop, menuOpen, inputLive, last>>

Settle ==
    /\ life = "settling"
    /\ \E reading \in BOOLEAN :
         HasStation(reading) /\ life' = IF reading THEN "connecting" ELSE "over"
    /\ UNCHANGED <<station, hand, hostLink, stationLoop, menuOpen, inputLive, last>>

\* The host may be away, or refuse it, or another process may hold its ports.
ConnectHost(ok) ==
    /\ life = "connecting" /\ life' = (IF ok THEN "streaming" ELSE "over")
    /\ hostLink' = ok /\ inputLive' = ok
    /\ UNCHANGED <<station, hand, stationLoop, menuOpen, last>>

-----------------------------------------------------------------------------
(***************************************************************************)
(* The receive loop.                                                       *)
(***************************************************************************)

GivesUp == quiet + 1 >= QuietGiveUp

\* A second without a message: past QuietGiveUp of them the host is gone.
Silence ==
    /\ life = "streaming" /\ hostLink
    /\ quiet' = quiet + 1
    /\ life' = IF GivesUp THEN "ending" ELSE life
    /\ UNCHANGED <<station, hand, hostLink, misses, cycle, spaced, reconnect, menuOpen,
                   inputLive, last>>

\* Mutant of MayKick: a press of the button starts another recovery at once.
MayKickAnyway(byHand) == byHand \/ ~unsticking

\* One recovery at a time.
MayKick(byHand) == ~unsticking

\* What the loop does once a second, after a message: the two ways to a new
\* association, each on the recovery thread, and the reading of the pad.
EverySecond(stuck, reading) ==
    LET itself == stuck /\ MayKick(FALSE) /\ spaced
        byHand == reconnect /\ MayKick(TRUE)
    IN /\ cycle' = IF itself \/ byHand THEN "kicking" ELSE cycle
       /\ spaced' = (spaced /\ ~itself)
       /\ reconnect' = FALSE
       /\ misses' = IF reading THEN 0 ELSE misses + 1
       /\ life' = IF ~reading /\ misses + 1 >= MaxMisses THEN "ending" ELSE life

\* A message, handled; after a silence a second has passed for certain.
Message(second) ==
    /\ life = "streaming" /\ hostLink /\ (quiet > 0 => second)
    /\ quiet' = 0
    /\ \/ /\ second
          /\ \E stuck, reading \in BOOLEAN : HasStation(reading) /\ EverySecond(stuck, reading)
       \/ ~second /\ UNCHANGED <<misses, cycle, spaced, reconnect, life>>
    /\ UNCHANGED <<station, hand, hostLink, menuOpen, inputLive, last>>

\* The host closed the connection.
LostHost ==
    /\ life = "streaming" /\ ~hostLink /\ life' = "ending"
    /\ UNCHANGED <<station, hand, hostLink, stationLoop, menuOpen, inputLive, last>>

\* Mutant of Joined: the recovery is left to itself.
JoinedNever == TRUE

\* What joinable() and join() wait for.
KickJoined == ~unsticking

\* The end of main(): the recovery thread is joined, then the input thread,
\* and the socket is closed, upon which the host lets go of the pad.
JoinUnstick ==
    /\ life = "ending" /\ KickJoined /\ life' = "joining"
    /\ UNCHANGED <<station, hand, hostLink, stationLoop, menuOpen, inputLive, last>>

JoinInput ==
    /\ life = "joining" /\ ~inputLive /\ life' = "over" /\ hostLink' = FALSE /\ last' = FALSE
    /\ UNCHANGED <<station, hand, stationLoop, menuOpen, inputLive>>

-----------------------------------------------------------------------------
(***************************************************************************)
(* The recovery thread: PadLink::Cycle().  It deauthenticates the pad and  *)
(* waits until its association is a new one, or twenty seconds.            *)
(***************************************************************************)
Kick ==
    /\ cycle = "kicking"
    /\ \E reading \in BOOLEAN :
         /\ HasStation(reading)
         /\ IF reading THEN station' = FALSE /\ cycle' = "waiting"
                       ELSE station' = station /\ cycle' = "none"
    /\ UNCHANGED <<hand, life, hostLink, quiet, misses, spaced, reconnect, menuOpen,
                   inputLive, last>>

CycleEnds ==
    /\ cycle = "waiting" /\ cycle' = "none"
    /\ UNCHANGED <<station, hand, life, hostLink, quiet, misses, spaced, reconnect,
                   menuOpen, inputLive, last>>

-----------------------------------------------------------------------------
(***************************************************************************)
(* The input thread: input_loop() with PadMenu::Filter() and Tap().        *)
(***************************************************************************)

\* What a tap does to the menu: its mark opens it, its rows act on it.
Tap(tap) ==
    /\ tap = "mark" => ~menuOpen
    /\ tap \in {"close", "reconnect"} => menuOpen
    /\ menuOpen' = (tap = "mark" \/ (menuOpen /\ tap # "close"))
    /\ reconnect' = (reconnect \/ tap = "reconnect")

\* Mutant of Filtered: the menu swallows what the pad lets go of, too.
FilteredAll(open) == IF open THEN last ELSE hand

\* Filter(): what is sent of what is held.
Filtered(open) == hand /\ ~open

\* One reading of the pad: nothing is held while the menu is open, and only a
\* change is sent.  A pad that is away gives no valid reading.
InputPoll(tap) ==
    /\ inputLive /\ life = "streaming" /\ hostLink /\ station
    /\ Tap(tap)
    /\ last' = Filtered(menuOpen')
    /\ UNCHANGED <<station, hand, life, hostLink, quiet, misses, cycle, spaced, inputLive>>

\* The thread returns: g_stop was set, or nothing can be sent.
InputReturns ==
    /\ inputLive /\ (life \in {"ending", "joining"} \/ ~hostLink) /\ inputLive' = FALSE
    /\ UNCHANGED <<station, hand, life, hostLink, stationLoop, menuOpen, last>>

-----------------------------------------------------------------------------
(***************************************************************************)
(* What is around it: the pad, the player, the host and the supervisor.    *)
(***************************************************************************)
PadMoves ==
    /\ station' \in BOOLEAN /\ hand' \in BOOLEAN /\ (station' \/ ~hand')
    /\ <<station', hand'>> # <<station, hand>>
    /\ UNCHANGED <<life, hostLink, stationLoop, menuOpen, inputLive, last>>

\* The host closes the connection, or the network does: it lets go.
HostCloses ==
    /\ hostLink /\ hostLink' = FALSE /\ last' = FALSE
    /\ UNCHANGED <<station, hand, life, stationLoop, menuOpen, inputLive>>

TimePasses ==
    /\ ~spaced /\ spaced' = TRUE
    /\ UNCHANGED <<station, hand, life, hostLink, quiet, misses, cycle, reconnect,
                   menuOpen, inputLive, last>>

\* SIGTERM or SIGINT: _exit(0), every thread with it.
Signal ==
    /\ life # "over" /\ life' = "over" /\ hostLink' = FALSE /\ last' = FALSE
    /\ inputLive' = FALSE /\ cycle' = "none"
    /\ UNCHANGED <<station, hand, quiet, misses, spaced, reconnect, menuOpen>>

\* The supervisor starts the program again.
Restart ==
    /\ life = "over" /\ life' = "waiting"
    /\ quiet' = 0 /\ misses' = 0 /\ cycle' = "none" /\ spaced' = TRUE
    /\ reconnect' = FALSE /\ menuOpen' = FALSE
    /\ UNCHANGED <<station, hand, hostLink, inputLive, last>>

StationInit ==
    /\ station \in BOOLEAN /\ hand = FALSE /\ life = "waiting"
    /\ hostLink = FALSE /\ quiet = 0 /\ misses = 0 /\ cycle = "none" /\ spaced = TRUE
    /\ reconnect = FALSE /\ menuOpen = FALSE /\ inputLive = FALSE /\ last = FALSE

MainThread ==
    \/ FindStation \/ Settle \/ (\E ok \in BOOLEAN : ConnectHost(ok))
    \/ Silence \/ (\E second \in BOOLEAN : Message(second)) \/ LostHost
    \/ JoinUnstick \/ JoinInput
\* The main thread with a second in every turn of its loop.
MainGoes == \/ FindStation \/ Settle \/ (\E ok \in BOOLEAN : ConnectHost(ok))
            \/ Silence \/ Message(TRUE) \/ LostHost \/ JoinUnstick \/ JoinInput
RecoveryThread == Kick \/ CycleEnds
Taps == {"none", "mark", "close", "reconnect"}

StationNext ==
    \/ MainThread \/ RecoveryThread
    \/ (\E tap \in Taps : InputPoll(tap)) \/ InputReturns
    \/ PadMoves \/ HostCloses \/ TimePasses \/ Signal \/ Restart

StationSpec ==
    /\ StationInit /\ [][StationNext]_stationVars
    /\ WF_stationVars(MainGoes) /\ WF_stationVars(RecoveryThread)
    /\ WF_stationVars(InputReturns) /\ SF_stationVars(InputPoll("none"))

-----------------------------------------------------------------------------
Held == station /\ hand /\ ~menuOpen

\* Whatever the pad let go of, or the menu took away, is let go of on the host,
\* unless it is held again first.
StillPressed == last /\ ~Held
StationLetsGo == []<>~StillPressed

\* A pad that is gone ends its session, if it does not come back before.
GoneIsNoticed == (life = "streaming" /\ ~station) ~> (station \/ life = "over")

\* While one recovery waits for the pad to come back, no other kicks it.
RecoveryIsAlone == [][cycle = "waiting" => cycle' # "kicking"]_stationVars

\* A process that is over, or another before its session, has neither link nor
\* threads nor anything held.
OverIsClean == life \in {"waiting", "settling", "connecting", "over"} =>
                   ~hostLink /\ ~inputLive /\ ~unsticking /\ ~last
=============================================================================
