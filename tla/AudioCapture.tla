---------------------------- MODULE AudioCapture ----------------------------
(***************************************************************************)
(* The sound of the capture card (audio_capture.c): the capture thread     *)
(* records, hands every packet to the encoders and to the ring of the      *)
(* speakers here, and opens and closes those; a playback thread empties    *)
(* the ring and rebuilds its stream when a write fails.  Windows and menus *)
(* only ask.  ring.play is written by both threads under no lock.          *)
(*                                                                         *)
(* Left out: the filters, the gate and the volume; the ring's wrap-around  *)
(* (its oldest chunk goes when it is full), the clock correction; a sound  *)
(* server that never answers record_open(), which waits for it without the *)
(* timer that record_read() has.                                           *)
(* PlayThreads stands for the playback threads, MaxRing for the            *)
(* ring's chunks.                                                          *)
(***************************************************************************)
EXTENDS Naturals, FiniteSets

CONSTANTS PlayThreads, MaxRing, MaxStalls

ASSUME AudioCaptureAssumption ==
    /\ IsFiniteSet(PlayThreads) /\ "none" \notin PlayThreads
    /\ MaxRing \in Nat \ {0} /\ MaxStalls \in Nat

VARIABLES
    appRunning,    \* *ac->running
    recording,        \* the recording: it sounds, is stuck, or is refused
    stalls,        \* how often it got stuck
    captureAt,     \* where the capture thread is
    localWanted,   \* local_wanted
    localDirect,   \* local_direct
    directApplied, \* local_direct_applied
    play,          \* ring.play, or 0
    playback,      \* ac->playback_thread, or none
    ringRunning,   \* ring.running
    ringCount,     \* ring.count
    playerAt,      \* where each playback thread is
    writesTo,      \* the stream it is writing to, or 0
    doubled,       \* history: a thread was started beside one that lives
    burnt          \* history: a stream was freed under a write, or none written to

ringVars == <<play, playback, ringRunning, ringCount, playerAt, writesTo, doubled, burnt>>
audioVars == <<appRunning, recording, stalls, captureAt, localWanted, localDirect, directApplied, ringVars>>

PlayStreams == 1..(Cardinality(PlayThreads) + 2)
Live == {"waits", "writes", "retries"}

AudioTypeOK ==
    /\ appRunning \in BOOLEAN /\ localWanted \in BOOLEAN /\ localDirect \in BOOLEAN
    /\ directApplied \in BOOLEAN /\ ringRunning \in BOOLEAN
    /\ doubled \in BOOLEAN /\ burnt \in BOOLEAN
    /\ recording \in {"sounds", "stuck", "refused"} /\ stalls \in 0..MaxStalls
    /\ captureAt \in {"opens", "reads", "speaks", "moves", "shuts", "stops", "reopens", "done"}
    /\ play \in PlayStreams \cup {0} /\ playback \in PlayThreads \cup {"none"} /\ ringCount \in 0..MaxRing
    /\ playerAt \in [PlayThreads -> Live \cup {"none", "done"}]
    /\ writesTo \in [PlayThreads -> PlayStreams \cup {0}]

-----------------------------------------------------------------------------
(***************************************************************************)
(* What is asked for, and what the recording does: left alone once two     *)
(* threads own the stream, where all is lost that can be.                  *)
(***************************************************************************)
SetLocalOutput(on) ==
    /\ appRunning /\ ~doubled /\ on # localWanted /\ localWanted' = on
    /\ UNCHANGED <<appRunning, recording, stalls, captureAt, localDirect, directApplied, ringVars>>

SetLocalDirect(direct) ==
    /\ appRunning /\ ~doubled /\ direct # localDirect /\ localDirect' = direct
    /\ UNCHANGED <<appRunning, recording, stalls, captureAt, localWanted, directApplied, ringVars>>

SourceTurns(to) ==
    /\ ~doubled /\ recording \notin {to, "stuck"} /\ recording' = to
    /\ stalls' = IF to = "stuck" THEN stalls + 1 ELSE stalls
    /\ stalls' <= MaxStalls /\ UNCHANGED <<appRunning, captureAt, localWanted, localDirect, directApplied, ringVars>>

AppStops ==
    /\ appRunning /\ appRunning' = FALSE
    /\ UNCHANGED <<recording, stalls, captureAt, localWanted, localDirect, directApplied, ringVars>>

-----------------------------------------------------------------------------
(***************************************************************************)
(* The capture thread: audio_thread().                                     *)
(***************************************************************************)
askedVars == <<appRunning, recording, stalls, localWanted, localDirect>>

NewStream == CHOOSE s \in PlayStreams : s # play /\ \A p \in PlayThreads : writesTo[p] # s
FreePlayer == {p \in PlayThreads : playerAt[p] \in {"none", "done"}}
PlayersAlive == {p \in PlayThreads : playerAt[p] \in Live}

\* local_playback_open(): the thread it starts is the one that will be waited
\* for.  It is not asked whether the last one is still there.
OpenSpeakers ==
    \E p \in FreePlayer :
        /\ play' = NewStream /\ ringRunning' = TRUE /\ playback' = p /\ directApplied' = localDirect
        /\ playerAt' = [playerAt EXCEPT ![p] = "waits"]
        /\ doubled' = (doubled \/ PlayersAlive # {})

\* record_open(): at the start a refusal is the end of it; later it is tried
\* again.  A source that was stuck is not so on a new stream.
RecordOpen ==
    /\ captureAt \in {"opens", "reopens"}
    /\ captureAt' = IF captureAt = "reopens" /\ ~appRunning THEN "stops"
                    ELSE IF recording # "refused" THEN "reads"
                    ELSE IF captureAt = "opens" THEN "done" ELSE "reopens"
    /\ recording' = IF recording = "stuck" THEN "sounds" ELSE recording
    /\ ringRunning' = (ringRunning /\ captureAt' # "stops")
    /\ UNCHANGED <<appRunning, stalls, localWanted, localDirect, directApplied, play, playback,
                   ringCount, playerAt, writesTo, doubled, burnt>>

\* Mutant of GivesUp: the read waits for what was asked for, however long.
GivesUpNever == FALSE

\* A read that waits too long "says so and is reconnected".
GivesUp == recording # "sounds"

\* record_read(): a source that gives nothing for long enough is opened again,
\* "whatever it claims about its state".
RecordRead ==
    /\ captureAt = "reads"
    /\ ~appRunning \/ recording = "sounds" \/ GivesUp
    /\ captureAt' = IF ~appRunning THEN "stops" ELSE IF GivesUp THEN "reopens" ELSE "speaks"
    /\ ringRunning' = (ringRunning /\ captureAt' # "stops")
    /\ UNCHANGED <<askedVars, directApplied, play, playback, ringCount, playerAt, writesTo, doubled,
                   burnt>>

\* playback_ring_push(): never blocks, the oldest chunk goes.
Pushed == IF ringCount < MaxRing THEN ringCount + 1 ELSE ringCount

\* A chunk of sound, which the encoders are sent: then the speakers, which are
\* closed to be moved, opened, closed, or fed.
Speakers(opens) ==
    LET moves == play # 0 /\ localDirect # directApplied
        opening == localWanted /\ play = 0 IN
    /\ captureAt = "speaks" /\ (opens => opening) /\ UNCHANGED <<askedVars, writesTo, burnt>>
    /\ IF moves \/ (play # 0 /\ ~localWanted)
       THEN /\ captureAt' = (IF moves THEN "moves" ELSE "shuts") /\ ringRunning' = FALSE
            /\ UNCHANGED <<directApplied, play, playback, ringCount, playerAt, doubled>>
       ELSE IF opens
       THEN OpenSpeakers /\ captureAt' = "reads" /\ ringCount' = 1
       ELSE IF opening
       THEN \* refused: what there is of it is closed
            /\ captureAt' = "shuts" /\ ringRunning' = FALSE /\ ringCount' = 0
            /\ directApplied' = localDirect /\ UNCHANGED <<play, playback, playerAt, doubled>>
       ELSE /\ captureAt' = "reads" /\ ringCount' = IF play # 0 THEN Pushed ELSE ringCount
            /\ UNCHANGED <<directApplied, play, playback, ringRunning, playerAt, doubled>>

\* Mutant of ThreadGone: the stream goes before the thread that writes to it.
ThreadGoneOrNot == TRUE

\* "The thread first, then its stream".
ThreadGone == playback # "none" => playerAt[playback] \notin Live

\* local_playback_close(), once the thread it knows of has ended.
CloseSpeakers ==
    /\ captureAt \in {"moves", "shuts", "stops"} /\ ThreadGone
    /\ play' = 0 /\ playback' = "none"
    /\ burnt' = (burnt \/ (play # 0 /\ \E p \in PlayThreads : writesTo[p] = play))
    /\ captureAt' = CASE captureAt = "moves" -> "speaks" [] captureAt = "shuts" -> "reads"
                      [] captureAt = "stops" -> "done"
    /\ UNCHANGED <<askedVars, directApplied, ringRunning, ringCount, playerAt, writesTo, doubled>>

-----------------------------------------------------------------------------
(***************************************************************************)
(* A playback thread: playback_thread_main().                              *)
(***************************************************************************)
playerRest == <<appRunning, recording, stalls, captureAt, localWanted, localDirect, directApplied, playback,
                ringRunning, doubled>>

\* What was in the ring is played before it ends.
PlayerTakes(p) ==
    /\ playerAt[p] = "waits" /\ (ringCount > 0 \/ ~ringRunning)
    /\ IF ringCount > 0
       THEN /\ ringCount' = ringCount - 1 /\ playerAt' = [playerAt EXCEPT ![p] = "writes"]
            /\ writesTo' = [writesTo EXCEPT ![p] = play] /\ burnt' = (burnt \/ play = 0)
       ELSE /\ playerAt' = [playerAt EXCEPT ![p] = "done"]
            /\ UNCHANGED <<ringCount, writesTo, burnt>>
    /\ UNCHANGED <<playerRest, play>>

PlayerWrote(p) ==
    /\ playerAt[p] = "writes" /\ playerAt' = [playerAt EXCEPT ![p] = "waits"]
    /\ writesTo' = [writesTo EXCEPT ![p] = 0]
    /\ UNCHANGED <<playerRest, play, ringCount, burnt>>

\* A write that fails: the stream is freed, and tried anew after a while.
PlayerFails(p) ==
    /\ playerAt[p] = "writes" /\ writesTo' = [writesTo EXCEPT ![p] = 0] /\ play' = 0
    /\ burnt' = (burnt \/ \E q \in PlayThreads \ {p} : play # 0 /\ writesTo[q] = play)
    /\ playerAt' = [playerAt EXCEPT ![p] = IF ringRunning THEN "retries" ELSE "done"]
    /\ UNCHANGED <<playerRest, ringCount>>

\* Whatever the other thread has put there meanwhile.
PlayerRetries(p, opens) ==
    /\ playerAt[p] = "retries" /\ play' = (IF opens THEN NewStream ELSE 0)
    /\ playerAt' = [playerAt EXCEPT ![p] = IF opens THEN "waits" ELSE
                                           IF ringRunning THEN "retries" ELSE "done"]
    /\ UNCHANGED <<playerRest, ringCount, writesTo, burnt>>

-----------------------------------------------------------------------------
AudioInit ==
    /\ appRunning = TRUE /\ recording \in {"sounds", "refused"} /\ stalls = 0 /\ captureAt = "opens"
    /\ localWanted \in BOOLEAN /\ localDirect = FALSE /\ directApplied = FALSE
    /\ play = 0 /\ playback = "none" /\ ringRunning = FALSE /\ ringCount = 0
    /\ playerAt = [p \in PlayThreads |-> "none"] /\ writesTo = [p \in PlayThreads |-> 0]
    /\ doubled = FALSE /\ burnt = FALSE

CaptureNext == RecordOpen \/ RecordRead \/ (\E opens \in BOOLEAN : Speakers(opens)) \/ CloseSpeakers

PlayerNext(p) ==
    \/ PlayerTakes(p) \/ PlayerWrote(p) \/ PlayerFails(p)
    \/ (\E opens \in BOOLEAN : PlayerRetries(p, opens))

AudioNext ==
    \/ (\E on \in BOOLEAN : SetLocalOutput(on) \/ SetLocalDirect(on)) \/ AppStops
    \/ (\E to \in {"sounds", "stuck", "refused"} : SourceTurns(to))
    \/ CaptureNext \/ (\E p \in PlayThreads : PlayerNext(p))

AudioSpec == AudioInit /\ [][AudioNext]_audioVars

-----------------------------------------------------------------------------
\* "Freeing a stream something is writing to is the one ordering that cannot be
\* recovered from": it does not happen while there is one playback thread.
FreedLast == burnt => doubled

\* The thread that plays is the one that will be waited for.
PlayerIsKnown == ~doubled => PlayersAlive \subseteq {playback}

\* The recording goes on whatever its source went through: one that stopped
\* "while still claiming to be running" is opened again.
SoundResumes == <>[](appRunning /\ recording # "refused" /\ captureAt # "done")
    => []<><<\E opens \in BOOLEAN : Speakers(opens)>>_audioVars

\* The end of the program is not kept waiting.
SoundEnds == []<>(appRunning \/ captureAt = "done")

\* Refuted: "opening a PulseAudio stream from whichever thread happened to click
\* a menu is how two threads end up owning one device".  A write that fails
\* leaves ring.play empty until it is tried again; the capture thread takes that
\* for closed speakers and starts a second thread on the ring.
OneOwner == ~doubled
=============================================================================
