---------------------------- MODULE PcbleBackend ----------------------------
(***************************************************************************)
(* The Bluetooth controller a console sees                                 *)
(* (pcble_backend/poc/pro-controller.c, control.c, ../src/ipc.c): a        *)
(* process with one main loop that takes the adapter over, pairs or comes  *)
(* back with a stored key, plays the controller, and gives the adapter     *)
(* back.                                                                   *)
(*                                                                         *)
(* Blocking calls are one step, the loop serving nothing meanwhile.  The   *)
(* keys, colours and reports themselves are not modelled: a hand presses   *)
(* nothing, something, or one of A, B and HOME.                            *)
(***************************************************************************)
EXTENDS Integers, FiniteSets, Sequences

CONSTANTS
    Consoles, NoConsole,
    Clients,        \* requests in the air on the local socket
    MaxHandoffs,    \* the 5 of pairing_handoff_reconnect()
    MaxDeeds        \* bound: what consoles and the desktop do

ASSUME BackendAssumption ==
    NoConsole \notin Consoles /\ MaxHandoffs \in Nat \ {0} /\ MaxDeeds \in Nat

VARIABLES
    life, step,     \* main(): start, loop, drain, restore, over, killed
    adapter, found, \* its properties now, and before main()
    armed,          \* what main() keeps to undo
    restored,
    pairing,        \* started without --reconnect: there are listeners
    keyed, keySeen, \* consoles with a stored key; pairing_mgmt_key_seen
    channel,        \* channels[0], channels[1]: PSM 17 and 19
    peer, lastPeer,
    byKey,          \* reconnect_mode
    handoff, attempts, \* pairing_reconnect_source, pairing_handoff_attempts
    excused,        \* history: a key or a property failed, or the 180 s are over
    ready, slow, leaving, \* initialized, slow_input_frequency, slow_exit_until
    left,           \* history: A, B or HOME was seen on this link
    hand, releaseSet, \* state.buttons, release_at
    client, stopAsked, \* the requests, and stop()'s timer
    deeds

linkVars == <<channel, peer, lastPeer, ready, slow, leaving, left>>
pairVars == <<byKey, handoff, attempts, excused>>
handVars == <<hand, releaseSet>>
mainVars == <<life, step, adapter, found, armed, restored, pairing>>
backendVars == <<mainVars, keyed, keySeen, linkVars, pairVars, handVars, client, stopAsked, deeds>>

Keys == {"Powered", "Alias", "Timeouts", "Pairable", "Discoverable", "Class"}
Deed == deeds < MaxDeeds /\ deeds' = deeds + 1
Looping == life \in {"loop", "drain"}
ShuttingDown == life \in {"drain", "restore", "over"}
Apart == channel = [i \in 1 .. 2 |-> NoConsole]
Together == channel[1] # NoConsole /\ channel[2] # NoConsole

----------------------------------------------------------------------------
(* main(): the adapter is taken over one property at a time. *)

PairingStart == <<"saved", "Powered", "class read", "capture", "agent", "listeners", "Alias",
                  "Timeouts", "Pairable", "Discoverable", "Class", "control">>
KeyStart == <<"saved", "Powered", "class read", "key", "Alias", "Pairable", "Discoverable",
              "Class", "connect", "control">>
Start == IF pairing THEN PairingStart ELSE KeyStart
Next1 == Start[step + 1]

\* set_property(), hci_write_class_of_dev(): what a session sets.
Ours(key) == IF key \in {"Pairable", "Discoverable"} THEN pairing ELSE TRUE
Done(what) == IF what \in Keys THEN [adapter EXCEPT ![what] = Ours(what)] ELSE adapter

StartStep ==
    /\ life = "start" /\ Next1 \notin {"connect", "key"}
    /\ step' = step + 1
    /\ adapter' = Done(Next1)
    /\ armed' = armed \cup (CASE Next1 = "saved" -> Keys \ {"Class"}
                              [] Next1 = "class read" -> {"Class"}
                              [] OTHER -> {})
    /\ life' = IF step + 1 = Len(Start) THEN "loop" ELSE life
    /\ UNCHANGED <<found, restored, pairing, keyed, keySeen, linkVars, pairVars, handVars, client, stopAsked, deeds>>

\* pairing_load_into_kernel(): a key that can be read is given to the kernel.
StartKey ==
    /\ life = "start" /\ Next1 = "key"
    /\ \E c \in Consoles : c \in keyed
    /\ step' = step + 1
    /\ UNCHANGED <<life, adapter, found, armed, restored, pairing, keyed, keySeen, linkVars, pairVars, handVars,
                   client, stopAsked, deeds>>

\* goto cleanup
BeginDrain == /\ life' = "drain" /\ handoff' = FALSE
         /\ UNCHANGED <<step, adapter, found, armed, restored, pairing>>

\* Mutant of StartFails: a return instead of the cleanup.
StartFailsAtOnce ==
    /\ life = "start" /\ life' = "over"
    /\ UNCHANGED <<step, adapter, found, armed, restored, pairing, keyed, keySeen, linkVars, pairVars,
                   handVars, client, stopAsked, deeds>>

StartFails ==
    /\ life = "start" /\ BeginDrain
    /\ UNCHANGED <<keyed, keySeen, linkVars, byKey, attempts, excused, handVars, client, stopAsked, deeds>>

\* SIGTERM before its handler is there.
Killed ==
    /\ life = "start" /\ Deed /\ life' = "killed"
    /\ UNCHANGED <<step, adapter, found, armed, restored, pairing, keyed, keySeen, linkVars, pairVars, handVars,
                   client, stopAsked>>

----------------------------------------------------------------------------
(* The link. *)

NoLink == /\ channel' = [i \in 1 .. 2 |-> NoConsole] /\ peer' = NoConsole
          /\ ready' = FALSE /\ slow' = FALSE /\ leaving' = FALSE /\ left' = FALSE

\* Mutant of ResetLink: a handoff is scheduled at any time.
ResetLinkAlways ==
    /\ NoLink /\ hand' = "none"
    /\ LET wanted == ~byKey /\ lastPeer # NoConsole IN
       /\ handoff' = (handoff \/ wanted)
       /\ attempts' = IF wanted /\ ~handoff THEN 0 ELSE attempts
    /\ UNCHANGED <<lastPeer, byKey, releaseSet>>

\* reset_link()
ResetLink ==
    /\ NoLink /\ hand' = "none"
    /\ LET wanted == ~ShuttingDown /\ ~byKey /\ lastPeer # NoConsole IN
       /\ handoff' = (handoff \/ wanted)
       /\ attempts' = IF wanted /\ ~handoff THEN 0 ELSE attempts
    /\ UNCHANGED <<lastPeer, byKey, releaseSet>>

\* Mutant of MayJoin: any console completes a half link.
MayJoinAny(i, c) == channel[i] = NoConsole

MayJoin(i, c) == channel[i] = NoConsole /\ peer \in {NoConsole, c}

\* accept_peer()
Accept(i, c) ==
    /\ Looping /\ pairing /\ Deed /\ MayJoin(i, c)
    /\ peer' = c /\ lastPeer' = c
    /\ channel' = [channel EXCEPT ![i] = c]
    /\ IF channel[3 - i] # NoConsole THEN slow' = TRUE /\ leaving' = FALSE ELSE UNCHANGED <<slow, leaving>>
    /\ UNCHANGED <<mainVars, keyed, keySeen, ready, left, pairVars, handVars, client, stopAsked>>

\* receive_packet(), pro_reply(): lights and vibration are set up.
LinkReady ==
    /\ Looping /\ channel[2] # NoConsole /\ ~ready
    /\ ready' = TRUE /\ slow' = (slow /\ ~byKey)
    /\ UNCHANGED <<mainVars, keyed, keySeen, channel, peer, lastPeer, leaving, left, pairVars, handVars,
                   client, stopAsked, deeds>>

\* receive_packet(), tick(): a channel hangs up, or refuses a report.
Hangup ==
    /\ Looping /\ ~Apart /\ ResetLink
    /\ UNCHANGED <<mainVars, keyed, keySeen, excused, client, stopAsked, deeds>>

\* PairableTimeout, DiscoverableTimeout: BlueZ hides the adapter again.
VisibleTimeEnds ==
    /\ life = "loop" /\ Deed /\ adapter["Timeouts"]
    /\ \E key \in {"Pairable", "Discoverable"} :
           adapter[key] /\ adapter' = [adapter EXCEPT ![key] = FALSE]
    /\ excused' = TRUE
    /\ UNCHANGED <<life, step, found, armed, restored, pairing, keyed, keySeen, linkVars, byKey, handoff,
                   attempts, handVars, client, stopAsked>>

\* pairing_save_key(): the file is emptied before it is written.
Saved(c) == keyed' \in {keyed, keyed \cup {c}, keyed \ {c}}

\* pairing_mgmt_event()
KeyByManagement(c) ==
    /\ Looping /\ pairing /\ Deed
    /\ keySeen' = TRUE /\ Saved(c)
    /\ UNCHANGED <<mainVars, linkVars, pairVars, handVars, client, stopAsked>>

\* pairing_hci_event(): the monitor's key is kept while no other was seen.
KeyByMonitor(c) ==
    /\ Looping /\ pairing /\ Deed
    /\ ~keySeen /\ Saved(c)
    /\ UNCHANGED <<mainVars, keySeen, linkVars, pairVars, handVars, client, stopAsked>>

\* pairing_read_key()
Readable(c) == c \in keyed

\* connect_outbound(): both channels, or none.
Connected(c) ==
    /\ channel' = [i \in 1 .. 2 |-> c] /\ peer' = c /\ lastPeer' = c
    /\ slow' = TRUE /\ leaving' = FALSE /\ left' = FALSE /\ UNCHANGED ready

\* The first report may fail when everything else is set.
NotConnected(c) ==
    /\ channel' = [i \in 1 .. 2 |-> NoConsole] /\ peer' = NoConsole
    /\ \/ UNCHANGED <<lastPeer, slow, leaving, left>>
       \/ lastPeer' = c /\ slow' = TRUE /\ leaving' = FALSE /\ left' = FALSE
    /\ UNCHANGED ready

StartConnect ==
    /\ life = "start" /\ Next1 = "connect"
    /\ \E c \in {d \in Consoles : Readable(d)} :
           \/ Connected(c) /\ step' = step + 1 /\ UNCHANGED <<life, handoff, adapter, found, armed, restored, pairing>>
           \/ NotConnected(c) /\ BeginDrain
    /\ UNCHANGED <<keyed, keySeen, byKey, attempts, excused, handVars, client, stopAsked, deeds>>

----------------------------------------------------------------------------
(* pairing_handoff_reconnect(): the console drops the pairing's link and   *)
(* the controller comes back with the key.                                 *)

\* Mutant of GiveUpHandoff: the adapter stays hidden.
GiveUpHandoffHidden == UNCHANGED <<adapter, excused>>

\* The properties may fail to be set.
GiveUpHandoff ==
    \/ adapter' = [adapter EXCEPT !["Timeouts"] = TRUE, !["Pairable"] = TRUE, !["Discoverable"] = TRUE]
       /\ UNCHANGED excused
    \/ UNCHANGED adapter /\ excused' = TRUE

Hidden == [adapter EXCEPT !["Pairable"] = FALSE, !["Discoverable"] = FALSE]

\* Its four outcomes: nothing to do, no key, connected, not connected.
\* Mutant of HandoffIdle: with a link there, the timer stays.
HandoffIdleEnding ==
    /\ Looping /\ handoff /\ ShuttingDown
    /\ handoff' = FALSE
    /\ UNCHANGED <<mainVars, keyed, keySeen, linkVars, byKey, attempts, excused, handVars, client, stopAsked, deeds>>

HandoffIdle ==
    /\ Looping /\ handoff /\ (ShuttingDown \/ ~Apart)
    /\ handoff' = FALSE
    /\ UNCHANGED <<mainVars, keyed, keySeen, linkVars, byKey, attempts, excused, handVars, client, stopAsked, deeds>>

HandoffKeyless ==
    /\ life = "loop" /\ handoff /\ Apart
    /\ handoff' = FALSE /\ excused' = TRUE
    /\ UNCHANGED <<mainVars, keyed, keySeen, linkVars, byKey, attempts, handVars, client, stopAsked, deeds>>

HandoffConnects ==
    /\ life = "loop" /\ handoff /\ Apart /\ Readable(lastPeer)
    /\ handoff' = FALSE /\ byKey' = TRUE /\ attempts' = 0
    /\ Connected(lastPeer) /\ adapter' = Hidden
    /\ UNCHANGED <<life, step, found, armed, restored, pairing, keyed, keySeen, excused, handVars, client,
                   stopAsked, deeds>>

\* Mutant of MoreHandoffs: it is tried for ever.
MoreHandoffsAlways == TRUE

MoreHandoffs == attempts + 1 < MaxHandoffs

HandoffFails ==
    /\ life = "loop" /\ handoff /\ Apart /\ Readable(lastPeer)
    /\ byKey' = FALSE /\ attempts' = attempts + 1
    /\ NotConnected(lastPeer)
    /\ handoff' = MoreHandoffs
    /\ IF MoreHandoffs THEN adapter' = Hidden /\ UNCHANGED excused ELSE GiveUpHandoff
    /\ UNCHANGED <<life, step, found, armed, restored, pairing, keyed, keySeen, handVars, client, stopAsked, deeds>>

----------------------------------------------------------------------------
(* tick(), every 15 ms. *)

\* Mutant of Released: the time is only looked at with a console there.
ReleasedTogether ==
    /\ Looping /\ releaseSet /\ Together
    /\ hand' = "none" /\ releaseSet' = FALSE
    /\ UNCHANGED <<mainVars, keyed, keySeen, linkVars, pairVars, client, stopAsked, deeds>>

Released ==
    /\ Looping /\ releaseSet
    /\ hand' = "none" /\ releaseSet' = FALSE
    /\ UNCHANGED <<mainVars, keyed, keySeen, linkVars, pairVars, client, stopAsked, deeds>>

\* Mutant of GripExit: a press counts before the console is ready.
GripExitEarly == slow /\ hand = "exit" /\ ~leaving

GripExit == slow /\ ready /\ hand = "exit" /\ ~leaving

LeavingGrip ==
    /\ Looping /\ Together /\ GripExit
    /\ leaving' = TRUE /\ left' = TRUE
    /\ UNCHANGED <<mainVars, keyed, keySeen, channel, peer, lastPeer, ready, slow, pairVars, handVars,
                   client, stopAsked, deeds>>

LeftGrip ==
    /\ Looping /\ Together /\ slow /\ leaving
    /\ slow' = FALSE /\ leaving' = FALSE
    /\ UNCHANGED <<mainVars, keyed, keySeen, channel, peer, lastPeer, ready, left, pairVars, handVars,
                   client, stopAsked, deeds>>

\* quit() on a signal, stop() after a request, a desktop silent for 5 s.
Quits ==
    /\ life = "loop" /\ (Deed \/ (stopAsked /\ UNCHANGED deeds)) /\ BeginDrain
    /\ UNCHANGED <<keyed, keySeen, linkVars, byKey, attempts, excused, handVars, client, stopAsked>>

----------------------------------------------------------------------------
(* The local socket: request() answers in the loop, also while             *)
(* ipc_server_free() waits for the clients.                                *)

\* incoming()
Incoming(q) ==
    /\ life = "loop" /\ client[q] = "none" /\ Deed
    /\ client' = [client EXCEPT ![q] = "reading"]
    /\ UNCHANGED <<mainVars, keyed, keySeen, linkVars, pairVars, handVars, stopAsked>>

Answered(q) == Looping /\ client[q] = "reading" /\ client' = [client EXCEPT ![q] = "writing"]

RequestInput(q) ==
    /\ Answered(q)
    /\ \/ \E press \in {"press", "exit"} : hand' = press /\ releaseSet' = TRUE
       \/ hand' = "none" /\ releaseSet' = FALSE
    /\ UNCHANGED <<mainVars, keyed, keySeen, linkVars, pairVars, stopAsked, deeds>>

RequestStop(q) ==
    /\ Answered(q) /\ stopAsked' = TRUE
    /\ UNCHANGED <<mainVars, keyed, keySeen, linkVars, pairVars, handVars, deeds>>

\* status, logging, reconnect with a channel open, a request that is refused.
RequestOther(q) ==
    /\ Answered(q)
    /\ UNCHANGED <<mainVars, keyed, keySeen, linkVars, pairVars, handVars, stopAsked, deeds>>

\* reconnect_from_control()
RequestReconnect(q, c) ==
    /\ Answered(q) /\ Apart
    /\ byKey' = TRUE
    /\ \/ Connected(c)
       \/ NotConnected(c)
    /\ UNCHANGED <<mainVars, keyed, keySeen, handoff, attempts, excused, handVars, stopAsked, deeds>>

\* Mutant of ClientGone: a client that is written to is kept while the loop drains.
ClientGoneReading(q) ==
    /\ Looping /\ client[q] = "reading"
    /\ client' = [client EXCEPT ![q] = "none"]
    /\ UNCHANGED <<mainVars, keyed, keySeen, linkVars, pairVars, handVars, stopAsked, deeds>>

\* client_free(): the answer is written, the 10 s are over, the client left or
\* the server cancels it.
ClientGone(q) ==
    /\ Looping /\ client[q] # "none"
    /\ client' = [client EXCEPT ![q] = "none"]
    /\ UNCHANGED <<mainVars, keyed, keySeen, linkVars, pairVars, handVars, stopAsked, deeds>>

----------------------------------------------------------------------------
(* The cleanup: the reverse of what was done. *)

Drained ==
    /\ life = "drain" /\ \A q \in Clients : client[q] = "none"
    /\ ResetLink /\ life' = "restore"
    /\ UNCHANGED <<step, adapter, found, armed, restored, pairing, keyed, keySeen, excused, client, stopAsked, deeds>>

RestoreOrder == {key \in armed : key = "Powered" => armed = {"Powered"}}

\* The power goes last; a property that cannot be set is reported.
Restore ==
    /\ life = "restore"
    /\ \E key \in RestoreOrder :
           /\ armed' = armed \ {key}
           /\ \/ adapter' = [adapter EXCEPT ![key] = found[key]] /\ UNCHANGED restored
              \/ restored' = FALSE /\ UNCHANGED adapter
    /\ UNCHANGED <<life, step, found, pairing, keyed, keySeen, linkVars, pairVars, handVars, client, stopAsked, deeds>>

Ended ==
    /\ life = "restore" /\ armed = {} /\ life' = "over"
    /\ UNCHANGED <<step, adapter, found, armed, restored, pairing, keyed, keySeen, linkVars, pairVars,
                   handVars, client, stopAsked, deeds>>

----------------------------------------------------------------------------
BackendInit ==
    /\ life = "start" /\ step = 0 /\ pairing \in BOOLEAN
    /\ found \in [Keys -> BOOLEAN]
    /\ \A key \in {"Alias", "Timeouts", "Class", "Discoverable"} : found[key] = FALSE
    /\ adapter = found /\ armed = {} /\ restored = TRUE
    /\ keyed \in SUBSET Consoles /\ keySeen = FALSE
    /\ channel = [i \in 1 .. 2 |-> NoConsole] /\ peer = NoConsole /\ lastPeer = NoConsole
    /\ byKey = ~pairing /\ handoff = FALSE /\ attempts = 0 /\ excused = FALSE
    /\ ready = FALSE /\ slow = FALSE /\ leaving = FALSE /\ left = FALSE
    /\ hand = "none" /\ releaseSet = FALSE
    /\ client = [q \in Clients |-> "none"] /\ stopAsked = FALSE /\ deeds = 0

StartNext == StartStep \/ StartKey \/ StartFails \/ Killed \/ StartConnect
LinkNext == LinkReady \/ Hangup \/ VisibleTimeEnds
            \/ \E c \in Consoles : KeyByManagement(c) \/ KeyByMonitor(c) \/ (\E i \in 1 .. 2 : Accept(i, c))
HandoffNext == HandoffIdle \/ HandoffKeyless \/ HandoffConnects \/ HandoffFails
TickNext == Released \/ LeavingGrip \/ LeftGrip \/ Quits
ClientNext == \E q \in Clients : \/ Incoming(q) \/ RequestInput(q) \/ RequestStop(q) \/ RequestOther(q)
                                 \/ ClientGone(q) \/ \E c \in Consoles : RequestReconnect(q, c)
CleanupNext == Drained \/ Restore \/ Ended

BackendNext == StartNext \/ LinkNext \/ HandoffNext \/ TickNext \/ ClientNext \/ CleanupNext
BackendSpec == BackendInit /\ [][BackendNext]_backendVars

(* The loop comes round (timers fire), main() goes on, clients are answered*)
(* or cancelled.                                                           *)
BackendFairness ==
    /\ WF_backendVars(StartNext) /\ WF_backendVars(CleanupNext) /\ WF_backendVars(HandoffNext)
    /\ WF_backendVars(Released) /\ WF_backendVars(stopAsked /\ Quits)
    /\ \A q \in Clients : WF_backendVars(ClientGone(q))

----------------------------------------------------------------------------
BackendTypeOK ==
    /\ life \in {"start", "loop", "drain", "restore", "over", "killed"} /\ step \in 0 .. Len(Start)
    /\ adapter \in [Keys -> BOOLEAN] /\ found \in [Keys -> BOOLEAN] /\ armed \subseteq Keys
    /\ restored \in BOOLEAN /\ pairing \in BOOLEAN
    /\ keyed \subseteq Consoles /\ keySeen \in BOOLEAN
    /\ channel \in [1 .. 2 -> Consoles \cup {NoConsole}]
    /\ peer \in Consoles \cup {NoConsole} /\ lastPeer \in Consoles \cup {NoConsole}
    /\ byKey \in BOOLEAN /\ handoff \in BOOLEAN /\ excused \in BOOLEAN /\ attempts \in 0 .. MaxHandoffs
    /\ ready \in BOOLEAN /\ slow \in BOOLEAN /\ leaving \in BOOLEAN /\ left \in BOOLEAN
    /\ hand \in {"none", "press", "exit"} /\ releaseSet \in BOOLEAN /\ stopAsked \in BOOLEAN
    /\ client \in [Clients -> {"none", "reading", "writing"}] /\ deeds \in 0 .. MaxDeeds

\* Both channels belong to one console, the one the session answers for,
\* whichever of listeners, handoff and desktop opened them.
OneConsole ==
    /\ \A i \in 1 .. 2 : channel[i] \in {NoConsole, peer}
    /\ Apart => peer = NoConsole

\* A backend that says it restored the adapter left it as it was, at whatever
\* step the session failed or ended.
AdapterGivenBack == life = "over" /\ restored => adapter = found

\* Reports go out at the slow rate until the console has set the controller
\* up; no handoff is scheduled once the session ends; and a pairing session
\* with no console is not left where no console can come: the adapter is
\* visible, or a reconnection is on its way, or failed for want of a key or a
\* property, or is now the desktop's to ask for - or its 180 s are over.
HandoffsAreSafe ==
    /\ Together /\ ~slow => ready
    /\ ShuttingDown => ~handoff
    /\ life = "loop" /\ pairing /\ Apart => adapter["Discoverable"] \/ handoff \/ byKey \/ excused

\* What the desktop or the console waits for ends though they say nothing more:
\* a pressed button is released, a handoff gives a link or is given up, and a
\* session that ends gives the adapter back.
BackendWaitsEnd ==
    /\ hand # "none" /\ life = "loop" ~> hand = "none" \/ life # "loop"
    /\ handoff ~> ~handoff
    /\ life = "drain" ~> life = "over"

=============================================================================
