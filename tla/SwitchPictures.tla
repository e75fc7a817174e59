--------------------------- MODULE SwitchPictures ---------------------------
(***************************************************************************)
(* The pictures and the sound of the Switch client: what a pass of main()'s *)
(* loop does with the messages that have arrived (switch_homebrew/src:     *)
(* main.c, video.c, audio.c).  The host begins what it sends with a        *)
(* keyframe, after a connection, a change of stream and a frame it had to  *)
(* drop, and sends one now and then; every other picture refers to the one *)
(* before it.                                                              *)
(***************************************************************************)
EXTENDS Naturals, Sequences, SequencesExt

CONSTANTS
    MaxDecode,  \* MAX_DECODE_PER_PASS
    MaxBatch    \* bound: messages that arrive between two passes

ASSUME SwitchPicturesAssumption == MaxDecode \in Nat \ {0} /\ MaxBatch \in Nat

VARIABLES
    up, pass,       \* whether the link is; main()'s next step
    receiver,             \* the messages net_poll() has read
    here, skipped, kept, \* decoded_here, skipped_here, have_key
    ready, await,   \* g_decoders_ready, g_await_keyframe
    video, sound,   \* whether the decoder and the sound device are open
    owes,           \* the host: the next picture it sends is a keyframe
    broken,         \* history: the decoder lacks the picture the next one refers to
    behind, jumped    \* history: a picture was skipped after the kept one; the
                    \* decoder was last given a kept one

passVars == <<pass, receiver, here, skipped, kept>>
decoderVars == <<ready, await, video, sound>>
pictureVars == <<up, passVars, decoderVars, owes, broken, behind, jumped>>

Messages == {"key", "delta", "info"}

\* What the host may send next, in its order: after a change of stream a keyframe.
Legal(batch, owing) ==
    \A i \in DOMAIN batch : batch[i] = "delta" =>
        IF i = 1 THEN ~owing ELSE batch[i - 1] # "info"

Batches == UNION {[1 .. n -> Messages] : n \in 0 .. MaxBatch}

----------------------------------------------------------------------------
(* net_poll() and the link. *)

LinkUp == /\ pass = "poll" /\ ~up /\ up' = TRUE /\ owes' = TRUE /\ pass' = "open"
          /\ UNCHANGED <<receiver, here, skipped, kept, decoderVars, broken, behind, jumped>>

\* What was read and not taken is lost with the link; the decoders stay open.
LinkDown == /\ pass = "poll" /\ up /\ up' = FALSE /\ pass' = "open" /\ broken' = TRUE
            /\ UNCHANGED <<receiver, here, skipped, kept, decoderVars, owes, behind, jumped>>

Arrives(batch) ==
    /\ pass = "poll" /\ up /\ Legal(batch, owes) /\ receiver' = batch /\ pass' = "open"
    /\ owes' \in {TRUE} \cup IF batch = <<>> THEN {owes} ELSE {Last(batch) = "info"}
    /\ UNCHANGED <<up, here, skipped, kept, decoderVars, broken, behind, jumped>>

KeyArrives == \E batch \in Batches : batch # <<>> /\ Head(batch) = "key" /\ Arrives(batch)

NothingArrives == /\ pass = "poll" /\ ~up /\ pass' = "open"
                  /\ UNCHANGED <<up, receiver, here, skipped, kept, decoderVars, owes, broken, behind, jumped>>

NetPolled == LinkUp \/ LinkDown \/ NothingArrives \/ \E batch \in Batches : Arrives(batch)

----------------------------------------------------------------------------
(* The decoders. *)

\* start_decoders_if_needed(), both open.
DecodersStart ==
    /\ pass = "open" /\ up /\ ~ready /\ pass' = "take"
    /\ ready' = TRUE /\ await' = TRUE /\ video' = TRUE /\ sound' = TRUE /\ broken' = TRUE
    /\ here' = 0 /\ skipped' = FALSE /\ kept' = FALSE
    /\ UNCHANGED <<up, receiver, owes, behind, jumped>>

\* The same, when the decoder or the sound does not open: the one that did stays so.
DecodersFail ==
    /\ pass = "open" /\ up /\ ~ready /\ pass' = "take"
    /\ video' \in BOOLEAN
    /\ here' = 0 /\ skipped' = FALSE /\ kept' = FALSE
    /\ UNCHANGED <<up, receiver, ready, await, sound, owes, broken, behind, jumped>>

DecodersStay ==
    /\ pass = "open" /\ (~up \/ ready) /\ pass' = "take"
    /\ here' = 0 /\ skipped' = FALSE /\ kept' = FALSE
    /\ UNCHANGED <<up, receiver, decoderVars, owes, broken, behind, jumped>>

\* stop_decoders(), and net_disconnect() before it.
StopDecoders ==
    /\ pass = "rest" /\ up /\ pass' = "poll" /\ up' = FALSE
    /\ ready' = FALSE /\ (IF ready THEN video' = FALSE /\ sound' = FALSE ELSE UNCHANGED <<video, sound>>)
    /\ broken' = TRUE
    /\ UNCHANGED <<receiver, here, skipped, kept, await, owes, behind, jumped>>

----------------------------------------------------------------------------
(* What main() does with a message. *)

Taking(kind) == pass = "take" /\ receiver # <<>> /\ Head(receiver) = kind /\ receiver' = Tail(receiver)

\* The pictures before the first keyframe are passed over.
Waiting == await /\ Head(receiver) = "delta"

RoomFor == here < MaxDecode

\* Whether the picture taken is given to the decoder.
IsDecoded == receiver # <<>> /\ Head(receiver) \in {"key", "delta"} /\ ~Waiting /\ RoomFor /\ ready

PictureTaken ==
    /\ Taking("key") \/ Taking("delta")
    /\ await' = Waiting
    /\ \/ Waiting /\ broken' = TRUE /\ UNCHANGED <<here, skipped, kept, behind, jumped>>
       \/ /\ ~Waiting /\ RoomFor /\ here' = here + 1
          /\ broken' = IF ready THEN broken /\ Head(receiver) = "delta" ELSE TRUE
          /\ jumped' = (jumped /\ Head(receiver) = "delta")
          /\ UNCHANGED <<skipped, kept, behind>>
       \/ /\ ~Waiting /\ ~RoomFor /\ skipped' = TRUE /\ kept' = (kept \/ Head(receiver) = "key")
          /\ behind' = (Head(receiver) = "delta") /\ broken' = TRUE
          /\ UNCHANGED <<here, jumped>>
    /\ UNCHANGED <<up, pass, ready, video, sound, owes>>

\* C2S_MSG_STREAM_INFO: another decoder, and whatever was counted for the old one forgotten.
InfoTaken ==
    /\ Taking("info") /\ await' = TRUE
    /\ here' = 0 /\ skipped' = FALSE /\ kept' = FALSE /\ broken' = TRUE
    /\ video' \in BOOLEAN /\ ready' = (ready /\ video')
    /\ UNCHANGED <<up, pass, sound, owes, behind, jumped>>

\* Mutant of Jump: the pictures after the skipped ones are decoded.
JumpAnyway ==
    /\ pass = "take" /\ receiver = <<>> /\ pass' = "rest"
    /\ IF skipped /\ kept /\ ready THEN broken' = behind /\ jumped' = TRUE
       ELSE UNCHANGED <<broken, jumped>>
    /\ UNCHANGED <<up, receiver, here, skipped, kept, decoderVars, owes, behind>>

\* The end of the pass: forward to the kept keyframe, or wait for another.
Jump ==
    /\ pass = "take" /\ receiver = <<>> /\ pass' = "rest"
    /\ \/ skipped /\ kept /\ ready /\ broken' = behind /\ jumped' = TRUE /\ UNCHANGED await
       \/ skipped /\ ~(kept /\ ready) /\ await' = TRUE /\ UNCHANGED <<broken, jumped>>
       \/ ~skipped /\ UNCHANGED <<await, broken, jumped>>
    /\ UNCHANGED <<up, receiver, here, skipped, kept, ready, video, sound, owes, behind>>

Rest == /\ pass = "rest" /\ pass' = "poll"
        /\ UNCHANGED <<up, receiver, here, skipped, kept, decoderVars, owes, broken, behind, jumped>>

----------------------------------------------------------------------------

PicturesInit ==
    /\ up = FALSE /\ pass = "poll" /\ receiver = <<>> /\ here = 0 /\ skipped = FALSE /\ kept = FALSE
    /\ ready = FALSE /\ await = TRUE /\ video = FALSE /\ sound = FALSE
    /\ owes = TRUE /\ broken = TRUE /\ behind = FALSE /\ jumped = FALSE

PassNext == \/ NetPolled \/ DecodersStart \/ DecodersFail \/ DecodersStay
            \/ PictureTaken \/ InfoTaken \/ Jump \/ Rest

PicturesNext == PassNext \/ StopDecoders

\* The loop goes on; keyframes keep coming, and what can be opened is in the end.
PicturesSpec ==
    /\ PicturesInit /\ [][PicturesNext]_pictureVars
    /\ WF_pictureVars(PassNext) /\ SF_pictureVars(KeyArrives) /\ SF_pictureVars(DecodersStart)

----------------------------------------------------------------------------
(* Properties. *)

PicturesTypeOK ==
    /\ {up, skipped, kept, ready, await, video, sound, owes, broken, behind, jumped} \subseteq BOOLEAN
    /\ pass \in {"poll", "open", "take", "rest"} /\ receiver \in Batches /\ here \in 0 .. MaxDecode

\* The decoders that are said to be ready are open.  A picture that refers to
\* another is given to a decoder that has that one - over lost links, new
\* streams and passes that fall behind -, unless the pass jumped to a
\* keyframe: what came after it in that pass is missing then.
PicturesAreWhole ==
    /\ ready => video /\ sound
    /\ pass = "take" /\ IsDecoded /\ Head(receiver) = "delta" => ~broken \/ jumped

\* "Jumps forward to the next keyframe - a clean restart" (main.c): it is one
\* only when nothing was skipped after the keyframe.
CleanRestart == pass = "take" /\ IsDecoded /\ Head(receiver) = "delta" => ~broken

\* Whatever was lost, skipped or opened anew, while the link is up a picture
\* comes that the decoder can show, or another stream.
PictureDue == up /\ (~ready \/ await \/ broken) /\ (receiver = <<>> \/ Head(receiver) # "info")
PictureResumes == []<>~PictureDue

=============================================================================
