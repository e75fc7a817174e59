------------------------------ MODULE WiiuSound ------------------------------
(***************************************************************************)
(* The sound of the Wii U console client (audio.c, and the PCM part of     *)
(* net.c and main.c).  The host's frames come as datagrams, or over TCP    *)
(* where the host grants no UDP; the main loop writes them into a ring     *)
(* that the console's audio processor (AX) plays in a loop at its own      *)
(* pace.  The client learns how far AX is only when it asks, modulo the    *)
(* ring, and it asks only when it writes: audio_stats(), audio_diag() and  *)
(* audio_queue_ms(), which ask too, have no caller.                        *)
(*                                                                         *)
(* Frames are single positions of the ring; their sound is left out.  The  *)
(* sequence numbers do not wrap: 2^31 pieces are months of sound.          *)
(***************************************************************************)
EXTENDS Integers, Sequences, FiniteSets

CONSTANTS
    Ring,         \* AUDIO_RING_FRAMES
    StartFrames,  \* AUDIO_START_MS of frames
    Pieces,       \* the numbers of frames of a datagram or message, C2S_PCM_UDP_MAX_FRAMES at most
    SocketHolds,  \* bound: the datagrams the kernel keeps for the socket
    MaxSent,      \* bound: the datagrams a host sends
    MaxHosts      \* bound: the hosts there are one after the other, restarts of one included

ASSUME WiiuSoundAssumption ==
    /\ Ring \in Nat \ {0} /\ StartFrames \in 1..Ring /\ Pieces \subseteq 1..Ring
    /\ SocketHolds \in Nat /\ MaxSent \in Nat /\ MaxHosts \in Nat \ {0}

VARIABLES
    voicesAlive,  \* audio_alive: the rings and both voices are there
    playing,      \* g_started
    writePos, lastRead, soundCount, \* g_write_pos, g_last_read, g_count
    spot,         \* the position AX plays next
    fresh,        \* history: the positions written and not played since
    turned,       \* history: AX came round to where the client last saw it
    missed,       \* history: the client took a turn of AX for none
    streaming,    \* STATE_STREAMING
    soundUp,      \* g_stage = LINK_UP
    pcmUdp,       \* g_info.audio_udp; where not, the messages of the connection are
    audioSock,    \* g_audio_sock is open
    haveSequence, expected, \* g_audio_have_sequence, g_audio_expected_sequence
    datagrams,    \* in the socket's buffer
    hostNow, hostSent, \* which host it is, s->pcm_sequence
    peer, taken   \* history: the host of the connection, and those whose datagrams it took

ringVars == <<voicesAlive, playing, writePos, lastRead, soundCount, spot, fresh, turned, missed>>
soundLinkVars == <<streaming, soundUp, pcmUdp, audioSock, haveSequence, expected, peer, taken>>
soundHostVars == <<hostNow, hostSent>>
soundVars == <<ringVars, soundLinkVars, datagrams, soundHostVars>>

Position == 0..(Ring - 1)
Datagram == [host : 1..MaxHosts, n : 0..(MaxSent - 1), size : Pieces]

WiiuSoundTypeOK ==
    /\ voicesAlive \in BOOLEAN /\ playing \in BOOLEAN
    /\ writePos \in Position /\ lastRead \in Position /\ soundCount \in 0..Ring
    /\ spot \in Position /\ fresh \subseteq Position /\ turned \in BOOLEAN /\ missed \in BOOLEAN
    /\ streaming \in BOOLEAN /\ soundUp \in BOOLEAN /\ pcmUdp \in BOOLEAN /\ audioSock \in BOOLEAN
    /\ haveSequence \in BOOLEAN /\ expected \in 0..MaxSent
    /\ datagrams \in Seq(Datagram) /\ Len(datagrams) <= SocketHolds
    /\ hostNow \in 1..MaxHosts /\ hostSent \in 0..MaxSent
    /\ peer \in 1..MaxHosts /\ taken \subseteq 1..MaxHosts

-----------------------------------------------------------------------------
(* The ring. *)

\* % AUDIO_RING_FRAMES, of what is never two rings.
Wrap(x) == IF x >= Ring THEN x - Ring ELSE x
After(p, S) == {Wrap(p + i) : i \in S}

\* audio_sync_position(): what AX has played as far as the client can see, and
\* what it makes of the queue.  All of it played is an underrun, which stops the
\* voices.
Consumed == IF playing THEN Wrap(spot + Ring - lastRead) ELSE 0
Underrun == Consumed > 0 /\ Consumed >= soundCount
SyncedCount == IF Underrun THEN 0 ELSE soundCount - Consumed
SyncedWrite == IF Underrun THEN spot ELSE writePos
SyncedRead == IF playing THEN spot ELSE lastRead
SyncedPlaying == playing /\ ~Underrun


Room == Ring - SyncedCount

Synced ==
    /\ turned' = FALSE
    /\ missed' = (SyncedPlaying /\ (missed \/ turned))

\* A piece that has no room is dropped, after the queue was brought up to date.
PushDrops(size) ==
    /\ size > Room
    /\ Synced
    /\ playing' = SyncedPlaying /\ soundCount' = SyncedCount
    /\ writePos' = SyncedWrite /\ lastRead' = SyncedRead
    /\ UNCHANGED <<voicesAlive, spot, fresh>>

\* start_if_ready(): enough of a queue starts the voices, at its oldest frame.
Starts(count) == ~SyncedPlaying /\ count >= StartFrames
Oldest(write, count) == Wrap(write + Ring - count)

\* Otherwise it is written behind the queue.
PushWrites(size) ==
    LET count == SyncedCount + size
        write == Wrap(SyncedWrite + size)
    IN  /\ size <= Room
        /\ Synced
        /\ soundCount' = count /\ writePos' = write
        /\ fresh' = fresh \cup After(SyncedWrite, 0..(size - 1))
        /\ playing' = (SyncedPlaying \/ Starts(count))
        /\ lastRead' = IF Starts(count) THEN Oldest(write, count) ELSE SyncedRead
        /\ spot' = IF Starts(count) THEN Oldest(write, count) ELSE spot
        /\ UNCHANGED voicesAlive

\* audio_push_pcm_s16le(), of a piece of a size the host sends.
PushPcm(size) == PushDrops(size) \/ PushWrites(size)

\* AX plays a frame, whatever it finds there, and begins anew at the end: the
\* voices are set up to loop over the whole ring.
AxPlays ==
    /\ playing
    /\ spot' = Wrap(spot + 1) /\ fresh' = fresh \ {spot}
    /\ turned' = (turned \/ Wrap(spot + 1) = lastRead)
    /\ UNCHANGED <<voicesAlive, playing, writePos, lastRead, soundCount, missed,
                   soundLinkVars, datagrams, soundHostVars>>

RingIsEmpty ==
    /\ playing' = FALSE /\ writePos' = 0 /\ lastRead' = 0 /\ soundCount' = 0
    /\ fresh' = {} /\ turned' = FALSE /\ missed' = FALSE
    /\ UNCHANGED spot
AudioExit == voicesAlive' = FALSE /\ RingIsEmpty

\* audio_init() begins with audio_exit(), and fails without memory or voices.
AudioInit(sounds) == voicesAlive' = sounds /\ RingIsEmpty

-----------------------------------------------------------------------------
(* The connection. *)

\* open_audio_socket() may fail; closing the socket forgets what it held and what
\* was expected.
OpenAudioSocket(opens) == audioSock' = (audioSock \/ opens)
CloseAudioSocket == datagrams' = <<>> /\ haveSequence' = FALSE /\ expected' = 0

\* CONNECT in the settings: the voices if they are not there, the socket if it is
\* closed; either may fail, and neither failure keeps the client from connecting.
SoundConnects(sounds, opens) ==
    /\ ~streaming /\ streaming' = TRUE
    /\ IF voicesAlive THEN UNCHANGED ringVars ELSE AudioInit(sounds)
    /\ OpenAudioSocket(opens) /\ soundUp' = FALSE
    /\ UNCHANGED <<pcmUdp, haveSequence, expected, peer, taken, datagrams, soundHostVars>>

\* CONNECT in the menu of a running stream: net_disconnect(), net_connect().
SoundReconnects(opens) ==
    /\ streaming /\ soundUp' = FALSE /\ CloseAudioSocket /\ audioSock' = opens
    /\ UNCHANGED <<ringVars, streaming, pcmUdp, peer, taken, soundHostVars>>

\* RELEASE_FOREGROUND: the connection, then the sound.
Suspend ==
    /\ streaming' = FALSE /\ soundUp' = FALSE /\ CloseAudioSocket /\ audioSock' = FALSE
    /\ AudioExit
    /\ UNCHANGED <<pcmUdp, peer, taken, soundHostVars>>

\* The host's answer (handle_handshake_reply()): datagrams only to a client that
\* has a socket for them.
HandshakeReply(udp) ==
    /\ streaming /\ ~soundUp /\ soundUp' = TRUE
    /\ udp => audioSock
    /\ pcmUdp' = udp /\ haveSequence' = FALSE /\ expected' = 0
    /\ peer' = hostNow /\ taken' = {}
    /\ UNCHANGED <<ringVars, streaming, audioSock, datagrams, soundHostVars>>

\* fail(): the socket of the sound stays open, and the voices play on.
LinkFails ==
    /\ soundUp /\ soundUp' = FALSE
    /\ UNCHANGED <<ringVars, streaming, pcmUdp, audioSock, haveSequence, expected, peer, taken,
                   datagrams, soundHostVars>>

\* The main loop plays what there are voices for.
Play(size) == IF voicesAlive THEN PushPcm(size) ELSE UNCHANGED ringVars

\* A datagram no older than what is expected is taken, any other is passed over.
InTime(d) == haveSequence => d.n >= expected
TakeAudio ==
    /\ streaming /\ soundUp /\ pcmUdp /\ audioSock /\ datagrams # <<>>
    /\ datagrams' = Tail(datagrams)
    /\ LET d == Head(datagrams) IN
       IF InTime(d)
       THEN /\ haveSequence' = TRUE /\ expected' = d.n + 1 /\ taken' = taken \cup {d.host}
            /\ Play(d.size)
       ELSE UNCHANGED <<haveSequence, expected, taken, ringVars>>
    /\ UNCHANGED <<streaming, soundUp, pcmUdp, audioSock, peer, soundHostVars>>

\* C2S_MSG_AUDIO, the fallback.
TakeMessage(size) ==
    /\ streaming /\ soundUp /\ ~pcmUdp /\ Play(size)
    /\ UNCHANGED <<soundLinkVars, datagrams, soundHostVars>>

-----------------------------------------------------------------------------
(* The host and the network. *)

\* switch_stream's PCM, once for all its clients.
HostSends == /\ hostSent < MaxSent /\ hostSent' = hostSent + 1
             /\ UNCHANGED <<ringVars, soundLinkVars, datagrams, hostNow>>

\* Another server begins with 0.
HostIsAnother == /\ hostNow < MaxHosts /\ hostNow' = hostNow + 1 /\ hostSent' = 0
                 /\ UNCHANGED <<ringVars, soundLinkVars, datagrams>>

\* What was sent comes late, twice, in another order, or never.
DatagramComes(d) ==
    /\ d.host = hostNow => d.n < hostSent
    /\ d.host <= hostNow
    /\ audioSock /\ Len(datagrams) < SocketHolds
    /\ datagrams' = Append(datagrams, d)
    /\ UNCHANGED <<ringVars, soundLinkVars, soundHostVars>>

WiiuSoundInit ==
    /\ voicesAlive = FALSE /\ playing = FALSE
    /\ writePos = 0 /\ lastRead = 0 /\ soundCount = 0 /\ spot = 0
    /\ fresh = {} /\ turned = FALSE /\ missed = FALSE
    /\ streaming = FALSE /\ soundUp = FALSE /\ pcmUdp = FALSE /\ audioSock \in BOOLEAN
    /\ haveSequence = FALSE /\ expected = 0 /\ datagrams = <<>>
    /\ hostNow = 1 /\ hostSent = 0 /\ peer = 1 /\ taken = {}

WiiuSoundNext ==
    \/ AxPlays
    \/ (\E sounds \in BOOLEAN, opens \in BOOLEAN : SoundConnects(sounds, opens))
    \/ (\E opens \in BOOLEAN : SoundReconnects(opens))
    \/ Suspend
    \/ (\E udp \in BOOLEAN : HandshakeReply(udp))
    \/ LinkFails
    \/ TakeAudio
    \/ (\E size \in Pieces : TakeMessage(size))
    \/ HostSends \/ HostIsAnother
    \/ (\E d \in Datagram : DatagramComes(d))

WiiuSoundSpec == WiiuSoundInit /\ [][WiiuSoundNext]_soundVars

-----------------------------------------------------------------------------
(* Properties. *)

\* The positions the client holds for queued and not played, by what it saw of AX
\* and what AX has played since.
Unplayed == IF turned THEN {} ELSE After(lastRead, Consumed..(soundCount - 1))

\* However pieces, AX, losses of the link and new connections interleave, the
\* queue of the client is what AX has not played, unless the client missed a turn
\* of AX; and then there is less to hear than it believes, never more.
QueueIsTrue == fresh \subseteq Unplayed /\ (~missed => fresh = Unplayed)

\* The next datagram of the host a connection is to is never taken for a late one,
\* while the connection took no datagram of a host that is gone.
NextIsTaken == soundUp /\ haveSequence /\ taken \subseteq {hostNow} => expected <= hostSent

\* No piece is written over frames that are still to be played, not even after a
\* missed turn.
NothingIsOverwritten ==
    [][\A size \in Pieces : PushWrites(size) => fresh \cap After(SyncedWrite, 0..(size - 1)) = {}]_soundVars

\* "A drop means ONLY a genuine full hardware ring": a piece is dropped only if it
\* does not fit beside what is still to be played, or a turn was missed.
DropIsFull ==
    [][\A size \in Pieces : PushDrops(size) => missed' \/ Cardinality(fresh) + size > Ring]_soundVars

\* Refuted: "stop immediately ... instead of letting the DSP loop over stale ring
\* contents".  A stream that stops, or a connection that is lost, leaves nobody to
\* see that everything was played.
SilenceIsSilent == (playing /\ fresh = {}) ~> (~playing \/ fresh # {})

\* Refuted: sound comes back with the connection.  A datagram of a host that is
\* gone, still in the socket, is taken first; the new host counts from 0, and its
\* datagrams are late until it has sent as many.
SoundComesBack == soundUp /\ haveSequence /\ peer = hostNow => expected <= hostSent
=============================================================================
