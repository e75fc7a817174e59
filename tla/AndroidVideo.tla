---------------------------- MODULE AndroidVideo ----------------------------
(***************************************************************************)
(* The Android client's picture (VideoDecoder.kt and the parts of          *)
(* MainActivity.kt that start it): the main thread makes and stops         *)
(* decoders, the connection's reader hands frames to the one it finds, and *)
(* every decoder has a pump, a thread of its own that builds the codec at  *)
(* the first H.264 keyframe and feeds it.  Only one codec can hold the     *)
(* surface.  stop() does not wait for the pump, so a decoder that was      *)
(* stopped may still build a codec; what a retired one may do is kept in   *)
(* haunted and holder.                                                     *)
(*                                                                         *)
(* Left out: the frames skipped while behind (DirectClient.kt), sizes, the *)
(* drawing.  MaxFrames stands for the queue of nine, Pumps for the threads *)
(* one decoder can have at once, MaxInfos bounds the streams announced.    *)
(***************************************************************************)
EXTENDS Naturals, Sequences

CONSTANTS MaxFrames, MaxInfos, Pumps

ASSUME AndroidVideoAssumption == MaxFrames \in Nat \ {0} /\ MaxInfos \in Nat \ {0}

VARIABLES
    reading,       \* the reader is reading
    surfaceReady,  \* surfaceReady, and surface not null
    pendingStream, \* the codec of pendingStream
    infos,         \* streams announced
    posted,        \* a retryVideoIfNeeded() waits for the main thread
    currentVideo,  \* the codec the current decoder is for, or none without one
    pumping,       \* its pumping
    pumps,         \* where each of its pumps is
    frames,        \* its queue
    awaiting,      \* its awaitingKeyframe
    holder,        \* who holds the surface: its codec, one that was lost, or nobody
    readerHas,     \* the frame the reader is about to hand to the decoder it found
    haunted,       \* a retired decoder is about to build a codec
    keyFed,        \* history: the codec was fed a keyframe
    blindly,       \* history: a codec was fed without one
    excused        \* history: a keyframe was lost, or two pumps ran

streamVars == <<reading, surfaceReady, pendingStream, infos>>
feedHistory == <<keyFed, blindly, excused>>
androidVideoVars == <<streamVars, posted, currentVideo, pumping, pumps, frames, awaiting, holder,
                      readerHas, haunted, feedHistory>>

AndroidCodecs == {"h264", "vp8"}
Frames == {"key", "delta"}

AndroidVideoTypeOK ==
    /\ {reading, surfaceReady, posted, pumping, awaiting, haunted, keyFed, blindly, excused}
          \subseteq BOOLEAN
    /\ {pendingStream, currentVideo} \subseteq AndroidCodecs \cup {"none"} /\ infos \in 0..MaxInfos
    /\ pumps \in [Pumps -> Frames \cup {"none", "loop", "build"}]
    /\ Len(frames) <= MaxFrames /\ \A i \in DOMAIN frames : frames[i] \in Frames
    /\ holder \in {"none", "current", "lost"} /\ readerHas \in Frames \cup {"none"}

-----------------------------------------------------------------------------
(***************************************************************************)
(* The main thread.                                                        *)
(***************************************************************************)

\* stop(): the pump is told and not waited for, the codec released.
Told == pumping' = FALSE /\ frames' = <<>>
Freed == IF holder = "current" THEN "none" ELSE holder

\* Its pumps and the reader go on with a decoder nobody points at: one of them
\* that holds a keyframe builds a codec.
Left ==
    /\ pumps' = [p \in Pumps |-> "none"] /\ readerHas' = "none"
    /\ haunted' = (haunted \/ readerHas = "key" \/ \E p \in Pumps : pumps[p] \in {"key", "build"})

\* Mutant of NewDecoder: VP8's decoder is not made to wait for a keyframe.
NewDecoderEager(codec, builds) ==
    /\ currentVideo' = IF codec = "vp8" /\ ~builds THEN "none" ELSE codec
    /\ holder' = IF builds THEN "current" ELSE Freed
    /\ awaiting' = (codec = "h264") /\ keyFed' = FALSE

\* start(): VP8's codec is built at once, unless the surface is taken or the
\* device refuses; H.264's waits for its parameter sets.
NewDecoder(codec, builds) ==
    /\ currentVideo' = IF codec = "vp8" /\ ~builds THEN "none" ELSE codec
    /\ holder' = IF builds THEN "current" ELSE Freed
    /\ awaiting' = TRUE /\ keyFed' = FALSE

StartVideo(codec, builds) ==
    /\ builds => codec = "vp8" /\ holder # "lost"
    /\ Told /\ Left /\ NewDecoder(codec, builds)

codecVars == <<currentVideo, pumping, pumps, frames, awaiting, holder, readerHas, haunted>>

\* The ack, or C2S_MSG_STREAM_INFO.
NewStream(codec, builds) ==
    /\ infos < MaxInfos /\ infos' = infos + 1 /\ reading' = TRUE /\ pendingStream' = codec
    /\ IF surfaceReady THEN StartVideo(codec, builds)
                       ELSE ~builds /\ UNCHANGED <<codecVars, keyFed>>
    /\ UNCHANGED <<surfaceReady, posted, blindly, excused>>

SurfaceAvailable(builds) ==
    /\ ~surfaceReady /\ surfaceReady' = TRUE
    /\ IF pendingStream # "none" /\ currentVideo = "none" THEN StartVideo(pendingStream, builds)
                                                   ELSE ~builds /\ UNCHANGED <<codecVars, keyFed>>
    /\ UNCHANGED <<reading, pendingStream, infos, posted, blindly, excused>>

\* The old surface is released: no codec of before can hold the next one.
SurfaceDestroyed ==
    /\ surfaceReady /\ surfaceReady' = FALSE /\ currentVideo' = "none" /\ Told
    /\ pumps' = [p \in Pumps |-> "none"] /\ readerHas' = "none"
    /\ haunted' = FALSE /\ holder' = "none"
    /\ UNCHANGED <<reading, pendingStream, infos, posted, awaiting, feedHistory>>

\* onDisconnected(), which does not forget the stream.
Disconnected ==
    /\ reading /\ reading' = FALSE /\ currentVideo' = "none" /\ Told /\ Left /\ holder' = Freed
    /\ UNCHANGED <<surfaceReady, pendingStream, infos, posted, awaiting, feedHistory>>

\* retryVideoIfNeeded(): a decoder that has no codec yet is stopped too, and
\* replaced unless another was made within the second.
Retry(soon, builds) ==
    /\ posted /\ posted' = FALSE
    /\ IF holder = "current" \/ ~surfaceReady
       THEN ~builds /\ UNCHANGED <<codecVars, keyFed>>
       ELSE IF soon \/ pendingStream = "none"
       THEN ~builds /\ Told /\ holder' = Freed /\ UNCHANGED <<currentVideo, pumps, awaiting, readerHas, haunted, keyFed>>
       ELSE StartVideo(pendingStream, builds)
    /\ UNCHANGED <<streamVars, blindly, excused>>

-----------------------------------------------------------------------------
(***************************************************************************)
(* The reader and the pumps.                                               *)
(***************************************************************************)

\* onVideo: val d = video.  Without one the main thread is asked for it.
Reads(frame) ==
    /\ reading /\ readerHas = "none"
    /\ IF currentVideo = "none" THEN posted' = TRUE /\ UNCHANGED readerHas
                         ELSE readerHas' = frame /\ UNCHANGED posted
    /\ UNCHANGED <<streamVars, currentVideo, pumping, pumps, frames, awaiting, holder, haunted, feedHistory>>

\* queue.offer(): a full queue gives its oldest frame for a keyframe only.
OfferedFrame == IF Len(frames) < MaxFrames THEN Append(frames, readerHas)
           ELSE IF readerHas = "key" THEN Append(Tail(frames), "key") ELSE frames

\* startPump(): one that has not seen yet that it was stopped goes on beside
\* the new one.
StartPump ==
    IF pumping \/ \A p \in Pumps : pumps[p] # "none"
    THEN UNCHANGED pumps
    ELSE pumps' = [pumps EXCEPT ![CHOOSE p \in Pumps : pumps[p] = "none"] = "loop"]

\* decode().
Gives ==
    /\ readerHas # "none" /\ StartPump /\ pumping' = TRUE
    /\ frames' = OfferedFrame /\ readerHas' = "none"
    /\ excused' = (excused \/ (~pumping /\ \E p \in Pumps : pumps[p] # "none"))
    /\ UNCHANGED <<streamVars, posted, currentVideo, awaiting, holder, haunted, keyFed, blindly>>

At(p, where) == pumps' = [pumps EXCEPT ![p] = where]

PumpTakes(p) ==
    /\ pumps[p] = "loop"
    /\ IF ~pumping THEN At(p, "none") /\ UNCHANGED frames
       ELSE frames # <<>> /\ At(p, Head(frames)) /\ frames' = Tail(frames)
    /\ UNCHANGED <<streamVars, posted, currentVideo, pumping, awaiting, holder, readerHas, haunted,
                   feedHistory>>

\* parameterSets(): what an H.264 keyframe carries in band, and nothing else.
ParameterSets(frame) == frame = "key" /\ currentVideo = "h264"

\* Mutant of PumpLooks: the parameter sets are looked for only before the first
\* picture.
PumpLooksOnce(p) ==
    /\ pumps[p] \in Frames /\ holder # "current"
    /\ At(p, IF ParameterSets(pumps[p]) /\ awaiting THEN "build" ELSE "loop")
    /\ UNCHANGED <<streamVars, posted, currentVideo, pumping, frames, awaiting, holder, readerHas, haunted,
                   feedHistory>>

\* decodeNow() without a codec: only an H.264 keyframe carries what one is
\* built from.
PumpLooks(p) ==
    /\ pumps[p] \in Frames /\ holder # "current"
    /\ At(p, IF ParameterSets(pumps[p]) THEN "build" ELSE "loop")
    /\ UNCHANGED <<streamVars, posted, currentVideo, pumping, frames, awaiting, holder, readerHas, haunted,
                   feedHistory>>

\* configure(): a refusal forgets the codec that another pump has built.
PumpBuilds(p, builds) ==
    /\ pumps[p] = "build" /\ (builds => holder = "none")
    /\ At(p, IF builds THEN "key" ELSE "loop")
    /\ holder' = IF builds THEN "current" ELSE IF holder = "current" THEN "lost" ELSE holder
    /\ awaiting' = (awaiting /\ ~builds) /\ keyFed' = (keyFed /\ ~builds)
    /\ UNCHANGED <<streamVars, posted, currentVideo, pumping, frames, readerHas, haunted, blindly, excused>>

\* decodeNow() with one, which takes the frame, is busy, or has died.
PumpFeeds(p, outcome) ==
    /\ pumps[p] \in Frames /\ holder = "current" /\ At(p, "loop")
    /\ IF awaiting /\ pumps[p] = "delta"
       THEN outcome = "busy" /\ UNCHANGED <<pumping, frames, awaiting, holder, feedHistory>>
       ELSE /\ awaiting' = FALSE
            /\ keyFed' = (keyFed \/ (outcome = "fed" /\ pumps[p] = "key"))
            /\ blindly' = (blindly \/ (outcome = "fed" /\ pumps[p] = "delta" /\ ~keyFed))
            /\ excused' = (excused \/ (outcome # "fed" /\ pumps[p] = "key"))
            /\ IF outcome = "dies" THEN Told /\ holder' = Freed ELSE UNCHANGED <<pumping, frames, holder>>
    /\ UNCHANGED <<streamVars, posted, currentVideo, readerHas, haunted>>

\* What is left of a retired decoder: its codec would keep the surface.
RetiredBuilds ==
    /\ haunted /\ haunted' = FALSE
    /\ holder' \in IF holder = "none" THEN {"none", "lost"} ELSE {holder}
    /\ UNCHANGED <<streamVars, posted, currentVideo, pumping, pumps, frames, awaiting, readerHas,
                   feedHistory>>

-----------------------------------------------------------------------------
AndroidVideoInit ==
    /\ reading = FALSE /\ surfaceReady = FALSE /\ pendingStream = "none" /\ infos = 0
    /\ posted = FALSE /\ currentVideo = "none" /\ pumping = FALSE
    /\ pumps = [p \in Pumps |-> "none"] /\ frames = <<>> /\ awaiting = TRUE
    /\ holder = "none" /\ readerHas = "none" /\ haunted = FALSE
    /\ keyFed = FALSE /\ blindly = FALSE /\ excused = FALSE

PumpNext == \E p \in Pumps :
    \/ PumpTakes(p) \/ PumpLooks(p) \/ (\E builds \in BOOLEAN : PumpBuilds(p, builds))
    \/ (\E outcome \in {"fed", "busy", "dies"} : PumpFeeds(p, outcome))

AndroidVideoNext ==
    \/ (\E codec \in AndroidCodecs, builds \in BOOLEAN : NewStream(codec, builds))
    \/ (\E builds \in BOOLEAN : SurfaceAvailable(builds)) \/ SurfaceDestroyed \/ Disconnected
    \/ (\E soon, builds \in BOOLEAN : Retry(soon, builds))
    \/ (\E frame \in Frames : Reads(frame)) \/ Gives \/ PumpNext \/ RetiredBuilds

AndroidVideoSpec == AndroidVideoInit /\ [][AndroidVideoNext]_androidVideoVars

-----------------------------------------------------------------------------
\* "Feeding starts at the first keyframe and not before": but for a keyframe
\* that was lost on its way into the codec, and for two pumps on one decoder,
\* either of which lets the frames after it through.
FedFromKey == blindly => excused

\* Nobody feeds or builds for a decoder that is not there.
RetiredIsQuiet == currentVideo = "none" => holder # "current" /\ \A p \in Pumps : pumps[p] = "none"

\* While a surface is there, the host sends H.264 and no lost codec holds the
\* surface, frames are fed again and again.
FeedAnew == \E p \in Pumps : PumpFeeds(p, "fed")
CanShow(codec) == surfaceReady /\ reading /\ pendingStream = codec /\ holder # "lost"
AndroidShows == <>[]CanShow("h264") => []<><<FeedAnew>>_androidVideoVars

\* Refuted: "the caller builds another", "also retried when the decoder died on
\* its own".  A VP8 decoder that died is not built again.
Vp8Returns == <>[]CanShow("vp8") => []<><<FeedAnew>>_androidVideoVars

\* Refuted: once the surface is there, no lost codec holds it for ever.
SurfaceIsFreed == [](holder = "lost" => <>(holder # "lost"))
=============================================================================
