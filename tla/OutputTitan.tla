---------------------------- MODULE OutputTitan ----------------------------
(***************************************************************************)
(* The Titan controller adapter (server/output_titan.c).  One thread owns  *)
(* the USB handle and pushes reports without pause; everybody else leaves  *)
(* flags for it: the players' combined state, a reset, a press of HOME,    *)
(* another output protocol.  The adapter may be pulled out at any moment,  *)
(* transfers may time out, and a report that says what the last one said   *)
(* is skipped unless the last one is old.                                  *)
(*                                                                         *)
(* A state is the set of the inputs held.  The adapter, its console and    *)
(* the controller plugged into it are external; what is left of each time  *)
(* out is whether it has passed.                                           *)
(***************************************************************************)
EXTENDS Integers

CONSTANTS
    Buttons,
    Guide,     \* GAMEPAD_XB360_GUIDE
    Protocols, \* PROTOCOL_NAME
    MaxTitanEvents, \* bound on what happens to the thread from outside
    Unset      \* -1: nothing requested, nobody there

ASSUME TitanAssumption ==
    Guide \in Buttons /\ Unset \notin Protocols /\ MaxTitanEvents \in Nat

VARIABLES
    titanRunning,   \* g_thread_running
    linkUp,    \* g_link_up, g_handle
    resetAsked, homeAsked, protoAsked, \* the flags left for the send thread
    latest,    \* g_latest_state
    real,      \* g_real_state
    realFresh, \* REAL_PAD_STALE_MS has not passed since the last good report
    lastOut,   \* last_output
    lastFresh, \* KEEPALIVE_MS has not passed since it was sent
    home,      \* HOME is still held
    titanTaken,     \* the protocol request it has read
    tpc,       \* where the send thread is
    titanAdapter,   \* external: away, idle or in capture mode
    protocol,  \* external: what the adapter is set to be
    pad,       \* external: the controller plugged into it
    console,   \* external: what the console last saw held
    broken,    \* history: an adapter in capture mode was let go after an error
    titanEvents     \* history: requests, plugs pulled and controllers moved so far

outside == <<titanAdapter, protocol, pad, console, broken>>
TitanEvent == titanEvents < MaxTitanEvents /\ titanEvents' = titanEvents + 1
titanAsks == <<resetAsked, homeAsked, protoAsked>>
reports == <<latest, real, realFresh, lastOut, lastFresh, home>>
titanVars == <<titanRunning, linkUp, titanAsks, reports, titanTaken, tpc, outside, titanEvents>>

----------------------------------------------------------------------------
(* The callers: output_titan_update(), _reset(), _press_home(),            *)
(* _request_output_protocol().                                             *)

TitanUpdate(s) ==
    /\ latest' = s
    /\ UNCHANGED <<titanRunning, linkUp, titanAsks, real, realFresh, lastOut, lastFresh, home,
                   titanTaken, tpc, outside>>

AskReset ==
    /\ resetAsked' = TRUE
    /\ UNCHANGED <<titanRunning, linkUp, homeAsked, protoAsked, reports, titanTaken, tpc, outside>>

AskHome ==
    /\ homeAsked' = TRUE
    /\ UNCHANGED <<titanRunning, linkUp, resetAsked, protoAsked, reports, titanTaken, tpc, outside>>

AskProtocol(p) ==
    /\ protoAsked' = p
    /\ UNCHANGED <<titanRunning, linkUp, resetAsked, homeAsked, reports, titanTaken, tpc, outside>>

Callers ==
    /\ tpc # "over"   \* g_connected
    /\ \/ \E s \in SUBSET (Buttons \ {Guide}) : TitanUpdate(s) /\ UNCHANGED titanEvents
       \/ (AskReset \/ AskHome \/ \E p \in Protocols : AskProtocol(p)) /\ TitanEvent

----------------------------------------------------------------------------
(* send_thread_main(). *)

\* The handle is closed; the adapter stays in the mode it was left in.
CloseIn(mode) == linkUp' = FALSE /\ titanAdapter' = mode

\* What an adapter does when it is reset or told to leave capture mode.
LetGo == IF titanAdapter = "away" THEN "away" ELSE "idle"

\* A reset is asked for: re-enumerate, let go, and stay away for a while.
ResetAsked ==
    /\ tpc = "top" /\ titanRunning /\ resetAsked
    /\ resetAsked' = FALSE
    /\ IF linkUp THEN CloseIn(LetGo) ELSE UNCHANGED <<linkUp, titanAdapter>>
    /\ tpc' = "hold"
    /\ UNCHANGED <<titanRunning, homeAsked, protoAsked, reports, titanTaken, protocol, pad, console,
                   broken>>

\* interruptible_delay(RESET_HOLD_MS)
HoldOver ==
    /\ tpc = "hold"
    /\ tpc' = "top"
    /\ UNCHANGED <<titanRunning, linkUp, titanAsks, reports, titanTaken, outside>>

\* The link is down: usb_open_and_claim(), which resets the adapter first and
\* sends five empty reports in the end, or the wait of a second.  An
\* ENTER_CAPTURE that timed out may have been carried out: the handle is closed.
Reconnect ==
    /\ tpc = "top" /\ titanRunning /\ ~resetAsked /\ ~linkUp
    /\ \/ /\ titanAdapter # "away"
          /\ titanAdapter' = "capture" /\ console' = {}
          /\ linkUp' = TRUE /\ broken' = FALSE
       \/ /\ linkUp' = FALSE
          /\ \/ UNCHANGED <<titanAdapter, broken>>
             \/ titanAdapter # "away" /\ titanAdapter' = "idle" /\ broken' = FALSE
             \/ titanAdapter # "away" /\ titanAdapter' = "capture" /\ broken' = TRUE
          /\ UNCHANGED console
    /\ UNCHANGED <<titanRunning, titanAsks, reports, titanTaken, tpc, protocol, pad>>

Up == tpc = "top" /\ titanRunning /\ ~resetAsked /\ linkUp

\* Mutant of TakeProtocol: no test for an absent request.
TakeProtocolAlways ==
    /\ Up
    /\ titanTaken' = protoAsked
    /\ tpc' = "protocol"
    /\ UNCHANGED <<titanRunning, linkUp, titanAsks, reports, outside>>

\* A protocol change is asked for: it is read ...
TakeProtocol ==
    /\ Up /\ protoAsked # Unset
    /\ titanTaken' = protoAsked
    /\ tpc' = "protocol"
    /\ UNCHANGED <<titanRunning, linkUp, titanAsks, reports, outside>>

\* Mutant of Written: capture mode is not left around the write.
WrittenInCapture == CloseIn(titanAdapter) /\ protocol' \in {titanTaken, protocol} /\ UNCHANGED broken

\* Capture mode left, the value written or refused, the link dropped; any of
\* the transfers may fail.
Written ==
    \/ CloseIn(LetGo) /\ protocol' \in {titanTaken, protocol} /\ UNCHANGED broken
    \/ CloseIn(titanAdapter) /\ broken' = TRUE /\ UNCHANGED protocol

\* ... cleared, and applied if the adapter answers and is set to another.
ApplyProtocol ==
    /\ tpc = "protocol"
    /\ protoAsked' = Unset /\ titanTaken' = Unset
    /\ \/ tpc' = "build" /\ UNCHANGED <<linkUp, outside>>
       \/ /\ titanAdapter = "capture" /\ titanTaken # protocol
          /\ Written
          /\ tpc' = "top"
          /\ UNCHANGED <<pad, console>>
    /\ UNCHANGED <<titanRunning, resetAsked, homeAsked, reports>>

\* HOME is overlaid from the moment it is asked for until its time is over.
Held == home \/ homeAsked

Merged == latest \cup real \cup (IF Held THEN {Guide} ELSE {})

\* Mutant of Same: an unchanged report is skipped however old the last is.
SameForEver == Merged = lastOut

\* The report says what a recent one said.
Same == Merged = lastOut /\ lastFresh

\* Mutant of ReadReal: the last state of the controller is kept for ever.
ReadRealKeeps ==
    \/ pad # Unset /\ titanAdapter = "capture" /\ real' = pad /\ realFresh' = TRUE
    \/ UNCHANGED <<real, realFresh>>

\* read_real_controller_state(): a report, or none: then the last one stands
\* until it is stale.
ReadReal ==
    \/ pad # Unset /\ titanAdapter = "capture" /\ real' = pad /\ realFresh' = TRUE
    \/ real' = (IF realFresh THEN real ELSE {}) /\ UNCHANGED realFresh

\* The report reaches the console, times out, or finds the adapter gone.
Sent ==
    \/ /\ titanAdapter = "capture" /\ console' \in {Merged, console}
       /\ ReadReal
       /\ UNCHANGED <<linkUp, titanAdapter, broken>>
    \/ /\ CloseIn(titanAdapter) /\ broken' = (titanAdapter = "capture")
       /\ UNCHANGED <<console, real, realFresh>>

\* The snapshot is merged with the controller in the adapter's own port, and
\* sent unless the adapter has just had the same.
Pass ==
    /\ \/ Up /\ protoAsked = Unset
       \/ tpc = "build"
    /\ tpc' = "top"
    /\ homeAsked' = FALSE /\ home' = Held
    /\ \/ Same /\ ReadReal /\ UNCHANGED <<lastOut, lastFresh, linkUp, titanAdapter, broken, console>>
       \/ ~Same /\ lastOut' = Merged /\ lastFresh' = TRUE /\ Sent
    /\ UNCHANGED <<titanRunning, resetAsked, protoAsked, latest, titanTaken, protocol, pad>>

\* Mutant of ThreadEnds: told to stop, it waits for the adapter first.
ThreadEndsLinked ==
    /\ tpc = "top" /\ ~titanRunning /\ linkUp
    /\ tpc' = "done"
    /\ UNCHANGED <<titanRunning, linkUp, titanAsks, reports, titanTaken, outside>>

ThreadEnds ==
    /\ tpc = "top" /\ ~titanRunning
    /\ tpc' = "done"
    /\ UNCHANGED <<titanRunning, linkUp, titanAsks, reports, titanTaken, outside>>

SendThread ==
    /\ \/ ResetAsked \/ HoldOver \/ Reconnect \/ TakeProtocol \/ ApplyProtocol \/ Pass
       \/ ThreadEnds
    /\ UNCHANGED titanEvents

----------------------------------------------------------------------------
(* output_titan_shutdown(), time, and the hardware. *)

StopThread ==
    /\ titanRunning
    /\ titanRunning' = FALSE
    /\ UNCHANGED <<linkUp, titanAsks, reports, titanTaken, tpc, outside, titanEvents>>

\* The thread has been joined: leave capture mode, if there is a link.
LeaveCapture ==
    /\ tpc = "done"
    /\ tpc' = "over"
    /\ \/ linkUp /\ CloseIn(LetGo) /\ UNCHANGED broken
       \/ linkUp /\ CloseIn(titanAdapter) /\ broken' = TRUE
       \/ ~linkUp /\ UNCHANGED <<linkUp, titanAdapter, broken>>
    /\ UNCHANGED <<titanRunning, titanAsks, reports, titanTaken, protocol, pad, console, titanEvents>>

\* A time out passes: the keepalive, the staleness, the press of HOME.
TitanTime ==
    /\ \/ lastFresh' = FALSE /\ UNCHANGED <<realFresh, home>>
       \/ realFresh' = FALSE /\ UNCHANGED <<lastFresh, home>>
       \/ home' = FALSE /\ UNCHANGED <<lastFresh, realFresh>>
    /\ UNCHANGED <<titanRunning, linkUp, titanAsks, latest, real, lastOut, titanTaken, tpc, outside, titanEvents>>

AdapterOut ==
    /\ titanAdapter # "away"
    /\ titanAdapter' = "away" /\ console' = {} /\ broken' = FALSE
    /\ UNCHANGED <<titanRunning, linkUp, titanAsks, reports, titanTaken, tpc, protocol, pad>>

AdapterIn ==
    /\ titanAdapter = "away"
    /\ titanAdapter' = "idle"
    /\ UNCHANGED <<titanRunning, linkUp, titanAsks, reports, titanTaken, tpc, protocol, pad, console, broken>>

PadMoves(s) ==
    /\ pad' = s
    /\ UNCHANGED <<titanRunning, linkUp, titanAsks, reports, titanTaken, tpc, titanAdapter, protocol, console,
                   broken>>

Hardware ==
    \/ (AdapterOut \/ \E s \in {Unset} \cup SUBSET (Buttons \ {Guide}) : PadMoves(s)) /\ TitanEvent
    \/ AdapterIn /\ UNCHANGED titanEvents

----------------------------------------------------------------------------

TitanInit ==
    /\ titanRunning = TRUE /\ linkUp = TRUE
    /\ resetAsked = FALSE /\ homeAsked = FALSE /\ protoAsked = Unset
    /\ latest = {} /\ real = {} /\ realFresh = FALSE
    /\ lastOut = {Unset} /\ lastFresh = FALSE /\ home = FALSE
    /\ titanTaken = Unset /\ tpc = "top"
    /\ titanAdapter = "capture" /\ protocol \in Protocols /\ pad = Unset
    /\ console = {} /\ broken = FALSE /\ titanEvents = 0

TitanNext ==
    \/ Callers \/ Hardware
    \/ SendThread \/ StopThread \/ LeaveCapture \/ TitanTime

TitanSpec == TitanInit /\ [][TitanNext]_titanVars

\* A report arrives.
Arrives == SendThread /\ tpc \in {"top", "build"} /\ ~Same /\ linkUp /\ linkUp' /\ console' = Merged

\* The adapter is opened.
Opens == SendThread /\ ~linkUp /\ linkUp'

\* The thread and time run; transfers and attempts to open an adapter that is
\* there do not fail for ever; nobody has to touch anything.
TitanFairness ==
    /\ WF_titanVars(SendThread) /\ WF_titanVars(LeaveCapture)
    /\ WF_titanVars(TitanTime /\ lastFresh # lastFresh')
    /\ WF_titanVars(TitanTime /\ realFresh # realFresh')
    /\ WF_titanVars(TitanTime /\ home # home')
    /\ SF_titanVars(Arrives) /\ SF_titanVars(Opens)

----------------------------------------------------------------------------
(* Properties *)

\* The variables have their types, and a change being applied was asked for.
TitanTypeOK ==
    /\ \A b \in {titanRunning, linkUp, resetAsked, homeAsked, realFresh, lastFresh, home, broken} :
           b \in BOOLEAN
    /\ {protoAsked, titanTaken} \subseteq Protocols \cup {Unset}
    /\ protocol \in Protocols
    /\ {latest, real, console} \subseteq SUBSET Buttons
    /\ lastOut \in SUBSET (Buttons \cup {Unset})
    /\ pad = Unset \/ pad \in SUBSET Buttons
    /\ tpc \in {"top", "hold", "protocol", "build", "done", "over"}
    /\ titanAdapter \in {"away", "idle", "capture"}
    /\ tpc = "protocol" => titanTaken # Unset

\* An adapter is never forgotten in capture mode - by a reset, a change of
\* protocol, a failed attempt to open it, or the end of the program - unless a
\* transfer to it failed (usb_close_device(), output_titan_shutdown()).
CaptureIsOwned == titanAdapter = "capture" => linkUp \/ broken

\* Nobody asks for anything any more, and the players hold s for good.
Quiet(s) ==
    /\ titanRunning /\ ~resetAsked /\ ~homeAsked /\ protoAsked = Unset
    /\ latest = s /\ pad = Unset /\ titanAdapter # "away"

\* Then s is what the console sees in the end: no report that was skipped,
\* timed out or was lost with the link leaves it with another, a press of HOME
\* ends, and a controller pulled out of the adapter lets go of its buttons
\* (send_thread_main(), read_real_controller_state()).
SettlesOnLatest ==
    \A s \in SUBSET (Buttons \ {Guide}) : <>[]Quiet(s) => []<>(console = s)

=============================================================================
