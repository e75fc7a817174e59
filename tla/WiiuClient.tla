----------------------------- MODULE WiiuClient -----------------------------
(***************************************************************************)
(* The Wii U console client (wiiu_console/src: main.c, net.c,              *)
(* video_worker.c): the main loop, which connects and, once a frame of the *)
(* television, takes what arrived; the receiver, a second thread that      *)
(* reads the socket when the settings ask for it; the worker that decodes. *)
(*                                                                         *)
(* The host (external) sends messages in order on one connection: pictures *)
(* - a keyframe, or one that needs the picture before it -, STREAM_INFO    *)
(* before a keyframe of another geometry, and others.  Messages are whole: *)
(* the bytes in the buffer and those in the socket are one line.           *)
(* OSCreateThread() does not fail: the receiver starts when it is asked to.*)
(***************************************************************************)
EXTENDS Integers, Sequences

CONSTANTS
    Geometries,
    PacketSlots,    \* VIDEO_PACKET_SLOTS
    EventSlots,     \* ASYNC_EVENT_SLOTS
    MaxSent, MaxOrders \* bounds: messages of the host; choices of the user and losses

ASSUME WiiuAssumption ==
    /\ {PacketSlots, EventSlots} \subseteq Nat \ {0} /\ {MaxSent, MaxOrders} \subseteq Nat
    /\ {"clean", "none"} \cap Geometries = {}

VARIABLES
    stage, want, info, \* g_stage, g_want_connection, g_info's geometry
    line, linkLost,     \* what the host sent; the connection is closed at its other end
    hostGeo, chain, \* external: its geometry; the picture the next may need, or 0
    askedHost,      \* external: a keyframe is asked for
    sent,           \* numbers the messages
    rx, asyncStop, asyncWanted, \* the receiver: none, top, submit; g_async_stop, g_async_requested
    paused, synced, requested, \* g_async_video_paused, _synced, _keyframe_requested
    queued,         \* g_async_events
    wiiuPc, next,       \* main(): top, take, submit, rebuild, join, away, over; what a join is for
    playing,        \* STATE_STREAMING
    videoSynced, keyRequested, \* main()'s own
    held,           \* the picture the thread in "submit" holds
    decoder,        \* clean, the geometry of its SPS, or none when it could not be made
    packets, decoding, \* the worker
    fed, taken,     \* history: the last picture submitted; the last message main() took
    orders

wiiuLinkVars == <<stage, want, info, line, linkLost>>
hostVars == <<hostGeo, chain, askedHost, sent>>
rxVars == <<rx, asyncStop, asyncWanted>>
syncVars == <<paused, synced, requested>>
wiiuMainVars == <<wiiuPc, next, playing>>
ownVars == <<videoSynced, keyRequested>>
workVars == <<decoder, packets, decoding>>
wiiuVars == <<wiiuLinkVars, hostVars, rxVars, syncVars, queued, wiiuMainVars, ownVars, held, workVars, fed, taken, orders>>

Pictures == {"key", "delta"}
Nothing == [t |-> "none", n |-> 0, after |-> 0, geo |-> CHOOSE g \in Geometries : TRUE]
UserOrder == orders < MaxOrders /\ orders' = orders + 1

----------------------------------------------------------------------------
(* The host (switch_stream.c). *)

Send(t, after, geo) ==
           /\ sent < MaxSent /\ stage = "up" /\ ~linkLost /\ sent' = sent + 1
           /\ line' = Append(line, [t |-> t, n |-> sent + 1, after |-> after, geo |-> geo])
           /\ UNCHANGED <<stage, want, info, linkLost, rxVars, syncVars, queued, wiiuMainVars, ownVars, held,
                          workVars, fed, taken, orders>>

HostKey == Send("key", 0, hostGeo) /\ chain' = sent + 1 /\ askedHost' = FALSE /\ UNCHANGED hostGeo
HostDelta == chain # 0 /\ Send("delta", chain, hostGeo) /\ chain' = sent + 1 /\ UNCHANGED <<askedHost, hostGeo>>
HostOther == Send("other", 0, hostGeo) /\ UNCHANGED <<chain, askedHost, hostGeo>>
HostGeometry(g) ==
    /\ g # hostGeo /\ hostGeo' = g /\ chain' = 0 /\ UNCHANGED askedHost
    /\ IF stage = "up" /\ ~linkLost THEN Send("info", 0, g)
       ELSE UserOrder /\ UNCHANGED <<wiiuLinkVars, sent, rxVars, syncVars, queued, wiiuMainVars, ownVars, held,
                                 workVars, fed, taken>>

LinkLost ==
    /\ stage # "none" /\ ~linkLost /\ UserOrder /\ linkLost' = TRUE
    /\ UNCHANGED <<stage, want, info, line, hostVars, rxVars, syncVars, queued, wiiuMainVars, ownVars, held,
                   workVars, fed, taken>>

----------------------------------------------------------------------------
(* net.c: the connection. *)

\* close_socket(); fail() also sets the time of the next try.
CloseSocket == stage' = "none" /\ line' = <<>> /\ linkLost' = FALSE /\ chain' = 0

\* The socket is read to its end, and the host has closed it.
FillRx == line = <<>> /\ linkLost

\* net_poll(), once a turn: without a connection one stage further, or fail().
Turn ==
    /\ wiiuPc \in {"top", "poll"} /\ playing /\ wiiuPc' = "take"
    /\ UNCHANGED <<want, hostGeo, askedHost, sent, rxVars, syncVars, queued, next, playing, ownVars, held,
                   workVars, fed, taken, orders>>

BeginConnect == want /\ stage = "none" /\ Turn /\ stage' = "connecting" /\ UNCHANGED <<info, line, linkLost, chain>>
FinishConnect ==
    stage = "connecting" /\ ~linkLost /\ Turn /\ stage' = "handshake" /\ UNCHANGED <<info, line, linkLost, chain>>
HandshakeReply ==
    stage = "handshake" /\ ~linkLost /\ Turn /\ stage' = "up" /\ info' = hostGeo /\ UNCHANGED <<line, linkLost, chain>>
ConnectFails == stage \in {"connecting", "handshake"} /\ linkLost /\ Turn /\ CloseSocket /\ UNCHANGED info

\* Mutant of DirectRead: main() reads whoever else does.
DirectReadAlways == TRUE

DirectRead == ~(rx # "none" /\ stage = "up")

\* With a connection: a ping for the receiver's, else fill_rx().
PollHost ==
    /\ stage = "up" /\ Turn /\ UNCHANGED info
    /\ IF DirectRead /\ FillRx THEN CloseSocket ELSE UNCHANGED <<stage, line, linkLost, chain>>

----------------------------------------------------------------------------
(* net.c: the receiver. *)

\* send_message() may find the socket full, and then nothing is sent.
AskHost == askedHost' \in {askedHost, TRUE}

\* Mutant of RxEnds: a receiver that waits for the decoder does not look.
RxEndsReading ==
    /\ rx = "top" /\ asyncStop /\ ~paused /\ rx' = "none"
    /\ UNCHANGED <<wiiuLinkVars, hostVars, asyncStop, asyncWanted, syncVars, queued, wiiuMainVars, ownVars, held,
                   workVars, fed, taken, orders>>

RxEnds ==
    /\ rx = "top" /\ asyncStop /\ rx' = "none"
    /\ UNCHANGED <<wiiuLinkVars, hostVars, asyncStop, asyncWanted, syncVars, queued, wiiuMainVars, ownVars, held,
                   workVars, fed, taken, orders>>

RxReads == rx = "top" /\ ~asyncStop /\ stage = "up" /\ ~paused

\* Mutant of RxFails: the end of the stream taken for a wait.
RxFailsUnseen == RxReads /\ FillRx /\ UNCHANGED wiiuVars

\* The host closed the connection: fail().
RxFails ==
    /\ RxReads /\ FillRx /\ CloseSocket
    /\ UNCHANGED <<want, info, hostGeo, askedHost, sent, rxVars, syncVars, queued, wiiuMainVars, ownVars, held,
                   workVars, fed, taken, orders>>

\* Mutant of Queue: the oldest stays.
QueueNewestLost(m) == IF Len(queued) >= EventSlots THEN queued ELSE Append(queued, m)

\* Mutant of Queue: none goes.
QueueGrows(m) == Append(queued, m)

\* async_queue_event(): the oldest goes.
Queue(m) == Append(IF Len(queued) >= EventSlots THEN Tail(queued) ELSE queued, m)

RxOther ==
    /\ RxReads /\ line # <<>> /\ Head(line).t = "other" /\ line' = Tail(line)
    /\ \/ queued' = Queue(Head(line))
       \/ Len(queued) >= EventSlots /\ UNCHANGED queued \* audio is expendable
    /\ UNCHANGED <<stage, want, info, linkLost, hostVars, rxVars, syncVars, wiiuMainVars, ownVars, held, workVars,
                   fed, taken, orders>>

\* Mutant of RxInfo: what follows is read at once.
RxInfoGoesOn ==
    /\ RxReads /\ line # <<>> /\ Head(line).t = "info"
    /\ queued' = Queue(Head(line)) /\ line' = Tail(line)
    /\ UNCHANGED <<stage, want, info, linkLost, hostVars, rxVars, syncVars, wiiuMainVars, ownVars, held, workVars,
                   fed, taken, orders>>

\* async_drain_rx(): what follows is left until the decoder is made again.
RxInfo ==
    /\ RxReads /\ line # <<>> /\ Head(line).t = "info"
    /\ queued' = Queue(Head(line)) /\ line' = Tail(line)
    /\ paused' = TRUE /\ synced' = FALSE /\ requested' = FALSE
    /\ UNCHANGED <<stage, want, info, linkLost, hostVars, rxVars, wiiuMainVars, ownVars, held, workVars, fed,
                   taken, orders>>

\* async_handle_video(): a picture that needs one that was not shown is
\* skipped, and a keyframe asked for once.
RxPicture ==
    /\ RxReads /\ line # <<>> /\ Head(line).t \in Pictures
    /\ line' = Tail(line)
    /\ IF synced \/ Head(line).t = "key"
       THEN /\ rx' = "submit" /\ held' = Head(line)
            /\ synced' = TRUE /\ requested' = (requested /\ synced) /\ UNCHANGED askedHost
       ELSE /\ requested' = TRUE
            /\ IF requested THEN UNCHANGED askedHost ELSE AskHost
            /\ UNCHANGED <<rx, held, synced>>
    /\ UNCHANGED <<stage, want, info, linkLost, hostGeo, chain, sent, asyncStop, asyncWanted, paused, queued,
                   wiiuMainVars, ownVars, workVars, fed, taken, orders>>

\* video_worker_submit_now(): a slot is there and the worker runs.
Submitted == /\ decoder # "none" /\ Len(packets) < PacketSlots
             /\ packets' = Append(packets, held) /\ fed' = held /\ held' = Nothing

RxSubmits ==
    /\ rx = "submit" /\ Submitted /\ rx' = "top"
    /\ UNCHANGED <<wiiuLinkVars, hostVars, asyncStop, asyncWanted, syncVars, queued, wiiuMainVars, ownVars,
                   decoder, decoding, taken, orders>>

\* Mutant of RxGivesUp: the pictures that follow are shown all the same.
RxGivesUpSynced ==
    /\ rx = "submit" /\ rx' = "top" /\ held' = Nothing
    /\ AskHost
    /\ UNCHANGED <<wiiuLinkVars, hostGeo, chain, sent, asyncStop, asyncWanted, syncVars, queued, wiiuMainVars,
                   ownVars, workVars, fed, taken, orders>>

\* video_worker_submit_wait(): 12 ms without a slot, or no worker.
RxGivesUp ==
    /\ rx = "submit" /\ rx' = "top" /\ held' = Nothing
    /\ synced' = FALSE /\ requested' = TRUE /\ AskHost
    /\ UNCHANGED <<wiiuLinkVars, hostGeo, chain, sent, asyncStop, asyncWanted, paused, queued, wiiuMainVars,
                   ownVars, workVars, fed, taken, orders>>

----------------------------------------------------------------------------
(* video_worker.c *)

Decode ==
    /\ packets # <<>> /\ ~decoding /\ wiiuPc # "rebuild" /\ decoding' = TRUE
    /\ UNCHANGED <<wiiuLinkVars, hostVars, rxVars, syncVars, queued, wiiuMainVars, ownVars, held, decoder, packets,
                   fed, taken, orders>>

\* The geometry of the first picture stays the decoder's (external).
Decoded ==
    /\ decoding /\ decoding' = FALSE
    /\ packets' = Tail(packets)
    /\ decoder' = IF decoder = "clean" THEN Head(packets).geo ELSE decoder
    /\ UNCHANGED <<wiiuLinkVars, hostVars, rxVars, syncVars, queued, wiiuMainVars, ownVars, held, fed, taken, orders>>

----------------------------------------------------------------------------
(* main(): a turn of the loop takes all that arrived. *)

\* Mutant of FromEvents: the buffer first.
FromEventsLast == queued # <<>> /\ ~(DirectRead /\ line # <<>>)

\* net_take_frame(): what the receiver queue, then what is in the buffer.
FromEvents == queued # <<>>
FromBuffer == ~FromEvents /\ DirectRead /\ stage = "up" /\ line # <<>>

Offered == IF FromEvents THEN Head(queued) ELSE IF FromBuffer THEN Head(line) ELSE Nothing

TakeOffered ==
    /\ Offered # Nothing /\ taken' = Offered.n
    /\ IF FromEvents THEN queued' = Tail(queued) /\ UNCHANGED line
                     ELSE line' = Tail(line) /\ UNCHANGED queued

TakeNothing ==
    /\ wiiuPc = "take" /\ Offered = Nothing
    /\ wiiuPc' = "top"
    /\ UNCHANGED <<wiiuLinkVars, hostVars, rxVars, syncVars, queued, next, playing, ownVars, held, workVars,
                   fed, taken, orders>>

TakeOther ==
    /\ wiiuPc = "take" /\ Offered.t = "other" /\ TakeOffered
    /\ UNCHANGED <<stage, want, info, linkLost, hostVars, rxVars, syncVars, wiiuMainVars, ownVars, held, workVars,
                   fed, orders>>

\* STREAM_INFO: another geometry needs another decoder.
TakeInfo ==
    /\ wiiuPc = "take" /\ Offered.t = "info" /\ TakeOffered
    /\ info' = Offered.geo
    /\ wiiuPc' = IF info # Offered.geo THEN "rebuild" ELSE "resume"
    /\ UNCHANGED <<stage, want, linkLost, hostVars, rxVars, syncVars, next, playing, ownVars, held, workVars,
                   fed, orders>>

\* video_worker_stop(): the worker is joined, and what it had is freed.
WorkerStops == ~decoding /\ packets' = <<>> /\ fed' = Nothing

\* video_worker_start(), after video_init(): one of them may fail, and then
\* there is neither.
WorkerStarts == decoder' \in {"clean", "none"}

\* rebuild_video_decoder()
Rebuild ==
    /\ wiiuPc = "rebuild" /\ wiiuPc' = "resume"
    /\ WorkerStops /\ WorkerStarts
    /\ UNCHANGED <<wiiuLinkVars, hostVars, rxVars, syncVars, queued, next, playing, ownVars, held, decoding,
                   taken, orders>>

\* Mutant of Resume: the receiver is not told.
ResumeNever ==
    /\ wiiuPc = "resume" /\ wiiuPc' = "take"
    /\ videoSynced' = FALSE /\ keyRequested' = FALSE
    /\ UNCHANGED <<wiiuLinkVars, hostVars, rxVars, syncVars, queued, next, playing, held, workVars, fed, taken, orders>>

\* net_async_video_resume()
Resume ==
    /\ wiiuPc = "resume" /\ wiiuPc' = "take"
    /\ videoSynced' = FALSE /\ keyRequested' = FALSE
    /\ IF asyncWanted /\ rx # "none" /\ decoder # "none"
       THEN /\ paused' = FALSE /\ synced' = FALSE /\ requested' = TRUE
            /\ IF stage = "up" THEN AskHost ELSE UNCHANGED askedHost
       ELSE UNCHANGED <<syncVars, askedHost>>
    /\ UNCHANGED <<wiiuLinkVars, hostGeo, chain, sent, rxVars, queued, next, playing, held, workVars, fed, taken, orders>>

\* Without the receiver the pictures pass here.
TakePicture ==
    /\ wiiuPc = "take" /\ Offered.t \in Pictures /\ TakeOffered
    /\ IF videoSynced \/ Offered.t = "key"
       THEN /\ wiiuPc' = "submit" /\ held' = Offered
            /\ videoSynced' = TRUE /\ keyRequested' = (keyRequested /\ videoSynced) /\ UNCHANGED askedHost
       ELSE /\ keyRequested' = TRUE
            /\ IF keyRequested THEN UNCHANGED askedHost ELSE AskHost
            /\ UNCHANGED <<wiiuPc, held, videoSynced>>
    /\ UNCHANGED <<stage, want, info, linkLost, hostGeo, chain, sent, rxVars, syncVars, next, playing, workVars,
                   fed, orders>>

MainSubmits ==
    /\ wiiuPc = "submit" /\ Submitted /\ wiiuPc' = "take"
    /\ UNCHANGED <<wiiuLinkVars, hostVars, rxVars, syncVars, queued, next, playing, ownVars, decoder, decoding,
                   taken, orders>>

MainGivesUp ==
    /\ wiiuPc = "submit" /\ wiiuPc' = "take" /\ held' = Nothing
    /\ videoSynced' = FALSE /\ keyRequested' = TRUE
    /\ IF keyRequested THEN UNCHANGED askedHost ELSE AskHost
    /\ UNCHANGED <<wiiuLinkVars, hostGeo, chain, sent, rxVars, syncVars, queued, next, playing, workVars, fed, taken, orders>>

----------------------------------------------------------------------------
(* main(): the menu, HOME, the end.  Each of them first joins the receiver.*)

Join(what) ==
    /\ wiiuPc = "top" /\ UserOrder /\ next' = what /\ wiiuPc' = "join"
    /\ asyncStop' = (rx # "none")
    /\ UNCHANGED <<wiiuLinkVars, hostVars, rx, asyncWanted, syncVars, queued, playing, ownVars, held, workVars, fed, taken>>

\* async_start_internal()
RxStart == rx' = "top" /\ asyncStop' = FALSE /\ paused' = FALSE /\ synced' = FALSE /\ requested' = FALSE

\* Mutant of Joined: the thread is not waited for.
JoinedAtOnce(what) == wiiuPc = "join" /\ next = what

Joined(what) == wiiuPc = "join" /\ next = what /\ rx = "none"

\* MENU_ACTION_CONNECT: net_connect(); from the settings only with a decoder.
ConnectAsked ==
    /\ Joined("connect") /\ (playing \/ decoder # "none")
    /\ queued' = <<>> /\ want' = TRUE /\ CloseSocket /\ playing' = TRUE
    /\ videoSynced' = FALSE /\ keyRequested' = FALSE
    /\ IF asyncWanted THEN RxStart ELSE rx' = "none" /\ UNCHANGED <<asyncStop, syncVars>>
    /\ wiiuPc' = "top"
    /\ UNCHANGED <<info, hostGeo, askedHost, sent, asyncWanted, next, held, workVars, fed, taken, orders>>

ConnectRefused ==
    /\ Joined("connect") /\ ~playing /\ decoder = "none" /\ wiiuPc' = "top"
    /\ UNCHANGED <<wiiuLinkVars, hostVars, rxVars, syncVars, queued, next, playing, ownVars, held, workVars, fed, taken, orders>>

\* MENU_ACTION_ASYNC_RECEIVE: net_set_async_receive(); the turn goes on.
AsyncToggled ==
    /\ Joined("toggle") /\ wiiuPc' = IF playing THEN "poll" ELSE "top"
    /\ asyncWanted' = ~asyncWanted
    /\ IF ~asyncWanted /\ playing THEN RxStart ELSE rx' = "none" /\ UNCHANGED <<asyncStop, syncVars>>
    /\ videoSynced' = FALSE /\ keyRequested' = FALSE
    /\ UNCHANGED <<wiiuLinkVars, hostVars, queued, next, playing, held, workVars, fed, taken, orders>>

\* proc_release_pending(): everything is given up for the HOME menu; the end
\* of main() is the same.
ReleaseAll ==
    /\ Joined("home") \/ Joined("exit")
    /\ queued' = <<>> /\ want' = FALSE /\ CloseSocket /\ playing' = FALSE
    /\ WorkerStops /\ decoder' = "none"
    /\ wiiuPc' = IF next = "exit" THEN "over" ELSE "away"
    /\ UNCHANGED <<info, hostGeo, askedHost, sent, rxVars, syncVars, next, ownVars, held, decoding, taken, orders>>

\* The HOME menu ends the program.
EndsAway ==
    /\ wiiuPc = "away" /\ wiiuPc' = "over"
    /\ UNCHANGED <<wiiuLinkVars, hostVars, rxVars, syncVars, queued, next, playing, ownVars, held, workVars, fed, taken, orders>>

ComesBack ==
    /\ wiiuPc = "away" /\ wiiuPc' = "top"
    /\ WorkerStarts
    /\ videoSynced' = FALSE /\ keyRequested' = FALSE
    /\ UNCHANGED <<wiiuLinkVars, hostVars, rxVars, syncVars, queued, next, playing, held, packets, decoding, fed, taken, orders>>

----------------------------------------------------------------------------
WiiuInit ==
    /\ stage = "none" /\ want = FALSE /\ line = <<>> /\ linkLost = FALSE
    /\ hostGeo \in Geometries /\ info = hostGeo /\ chain = 0 /\ askedHost = FALSE /\ sent = 0
    /\ rx = "none" /\ asyncStop = FALSE /\ asyncWanted \in BOOLEAN
    /\ paused = FALSE /\ synced = FALSE /\ requested = FALSE /\ queued = <<>>
    /\ wiiuPc = "top" /\ next = "none" /\ playing = FALSE /\ videoSynced = FALSE /\ keyRequested = FALSE
    /\ held = Nothing /\ decoder = "clean" /\ packets = <<>> /\ decoding = FALSE
    /\ fed = Nothing /\ taken = 0 /\ orders = 0

HostNext == HostKey \/ HostDelta \/ HostOther \/ LinkLost \/ \E g \in Geometries : HostGeometry(g)
RxNext == RxEnds \/ RxFails \/ RxOther \/ RxInfo \/ RxPicture \/ RxSubmits \/ RxGivesUp
WorkNext == Decode \/ Decoded
TakeNext == TakeNothing \/ TakeOther \/ TakeInfo \/ TakePicture \/ MainSubmits \/ MainGivesUp \/ Rebuild \/ Resume
JoinNext == ConnectAsked \/ ConnectRefused \/ AsyncToggled \/ ReleaseAll \/ ComesBack \/ EndsAway
WiiuLinkNext == BeginConnect \/ FinishConnect \/ HandshakeReply \/ ConnectFails \/ PollHost
MenuNext == \E what \in {"connect", "toggle", "home", "exit"} : Join(what)

WiiuNext == HostNext \/ RxNext \/ WorkNext \/ TakeNext \/ JoinNext \/ MenuNext \/ WiiuLinkNext
WiiuSpec == WiiuInit /\ [][WiiuNext]_wiiuVars

(* The three threads are scheduled, the loop turns; of the host only that a*)
(* connection it lost is seen.                                             *)
WiiuFairness ==
    /\ WF_wiiuVars(RxNext) /\ WF_wiiuVars(WorkNext) /\ WF_wiiuVars(TakeNext) /\ WF_wiiuVars(JoinNext)
    /\ WF_wiiuVars(WiiuLinkNext)

----------------------------------------------------------------------------
WiiuTypeOK ==
    /\ stage \in {"none", "connecting", "handshake", "up"} /\ Len(line) \in 0 .. MaxSent
    /\ {want, linkLost, askedHost, asyncStop, asyncWanted, paused, synced, requested, playing, videoSynced,
        keyRequested, decoding} \subseteq BOOLEAN
    /\ {info, hostGeo} \subseteq Geometries /\ rx \in {"none", "top", "submit"}
    /\ Len(queued) \in 0 .. EventSlots /\ Len(packets) \in 0 .. PacketSlots
    /\ wiiuPc \in {"top", "poll", "take", "submit", "rebuild", "resume", "join", "away", "over"}
    /\ decoder \in Geometries \cup {"clean", "none"} /\ decoding => packets # <<>>

\* The receiver never hands a picture to a worker main() is taking down, and
\* never outlives what it reads.
ReceiverLeavesFirst ==
    /\ rx = "submit" => wiiuPc \notin {"submit", "rebuild", "away", "over"}
    /\ wiiuPc \in {"away", "over"} => rx = "none"

\* What main() takes comes in the order the host sent it, whichever thread
\* read it.
InOrder == [][taken' >= taken]_wiiuVars

\* The decoder is given a picture only after the one it needs: nothing is
\* skipped but up to a keyframe, whatever was dropped, paused or reconnected.
NothingMissing == [][fed' # fed /\ fed'.t = "delta" => fed'.after = fed.n]_wiiuVars

\* However threads, drops and reconnections interleave, pictures are taken and
\* decoded in order.
PicturesInOrder == InOrder /\ NothingMissing

\* "A new stream geometry therefore needs a clean decoder boundary": pictures
\* of one geometry only reach a decoder.
CleanBoundary == \A i \in 1 .. Len(packets) : decoder \in {"clean", packets[i].geo}

\* The receiver that stopped before a new geometry goes on.
PausesEnd == paused ~> ~paused \/ decoder = "none" \/ wiiuPc = "over" \/ rx = "none"

\* A lost connection is noticed and made again, as long as one is wanted; but a
\* receiver that stays paused, main() having failed to rebuild the decoder, does not
\* read, and nobody notices.
LossesAreSeen == linkLost /\ playing ~> ~linkLost \/ ~playing \/ (paused /\ rx # "none")

\* The receiver's thread ends whenever main() joins it.
JoinsReturn == wiiuPc = "join" ~> wiiuPc # "join"

\* Neither thread waits for the other, or for the host, for ever.
NobodyIsStuck == PausesEnd /\ LossesAreSeen /\ JoinsReturn

=============================================================================
