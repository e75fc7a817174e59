---------------------------- MODULE N3dsPictures ----------------------------
(***************************************************************************)
(* The pictures of the 3DS client (3ds/source: network.c, video.c and      *)
(* main.c): network_thread() receives them into slots, video_worker()      *)
(* decodes and draws them, main() swaps the framebuffers.                  *)
(*                                                                         *)
(* A JPEG picture stands alone.  A picture of the MPEG codecs refers to    *)
(* the one before it unless it is a keyframe; the host begins with one     *)
(* after a connection and a change of stream, and sends one now and then.  *)
(* Slots are told apart by what they hold only: the ready ones are a queue *)
(* in the order of their sequence numbers.                                 *)
(***************************************************************************)
EXTENDS Naturals, Sequences, SequencesExt

CONSTANTS
    VideoSlots, \* VIDEO_SLOTS
    MaxWork     \* pictures the worker takes before it draws one: 4

ASSUME N3dsPicturesAssumption == VideoSlots \in Nat \ {0} /\ MaxWork \in Nat \ {0}

VARIABLES
    linked, codec,  \* whether a session is on; g_video_codec
    n3dsOwes,           \* the host: the next picture is a keyframe
    lost,           \* history: a picture was lost since the last one published
    orphan,         \* history: one too large was, while a keyframe waited, and none came since
    writing, n3dsReady, \* the picture being received; g_video, those that are ready
    need,           \* g_need_keyframe
    worker, work, n3dsTaken, present, \* video_worker(): its step, its count, its picture
    frameReady,     \* g_video_frame_ready
    n3dsBroken          \* history: the decoder lacks the picture the next one refers to

n3dsHostVars == <<linked, codec, n3dsOwes>>
slotVars == <<lost, orphan, writing, n3dsReady, need>>
workerVars == <<worker, work, n3dsTaken, present, n3dsBroken>>
n3dsVars == <<n3dsHostVars, slotVars, workerVars, frameReady>>

Codecs == {"jpeg", "mpeg"}

\* gap: the picture before this one was not, or will not be, given to the decoder.
\* orphan: one behind a picture too large, whose loss the client has no note of.
N3dsFrames == [key : BOOLEAN, codec : Codecs, gap : BOOLEAN, orphan : BOOLEAN]
None == [key |-> FALSE, codec |-> "none", gap |-> FALSE, orphan |-> FALSE]

Predictive(c) == c = "mpeg"

\* The ready pictures without the oldest.
Dropped(q) == IF Len(q) < 2 THEN <<>> ELSE <<[q[2] EXCEPT !.gap = TRUE]>> \o SubSeq(q, 3, Len(q))

----------------------------------------------------------------------------
(* network_thread() *)

Used == Len(n3dsReady) + (IF writing = None THEN 0 ELSE 1) + (IF n3dsTaken = None THEN 0 ELSE 1)

\* stream_session(), the host's acknowledgement.  What is ready stays.
SessionBegins(c) ==
    /\ ~linked /\ linked' = TRUE /\ codec' = c /\ n3dsOwes' = TRUE
    /\ need' = Predictive(c) /\ lost' = TRUE
    /\ orphan' = FALSE /\ UNCHANGED <<writing, n3dsReady, workerVars, frameReady>>

\* The connection ends, in the middle of a picture or between two.
SessionEnds ==
    /\ linked /\ linked' = FALSE /\ writing' = None /\ lost' = TRUE
    /\ UNCHANGED <<codec, n3dsOwes, orphan, n3dsReady, need, workerVars, frameReady>>

\* Mutant of ReserveVideoSlot: whoever makes room breaks no reference.
ReserveAnySlot(picture) ==
    /\ writing' = picture /\ lost' = FALSE
    /\ IF Used < VideoSlots THEN UNCHANGED <<n3dsReady, need>>
       ELSE n3dsReady' = Dropped(n3dsReady) /\ UNCHANGED need

\* reserve_video_slot(): a free one, or that of the oldest ready picture.
ReserveVideoSlot(picture) ==
    \/ /\ Used < VideoSlots /\ writing' = picture /\ lost' = FALSE /\ UNCHANGED <<n3dsReady, need>>
    \/ /\ Used = VideoSlots /\ n3dsReady # <<>> /\ n3dsReady' = Dropped(n3dsReady)
       /\ need' = (need \/ Predictive(Head(n3dsReady).codec))
       /\ writing' = [picture EXCEPT !.gap = @ \/ Len(n3dsReady) = 1] /\ lost' = FALSE
    \/ /\ Used = VideoSlots /\ n3dsReady = <<>>
       /\ need' = (need \/ Predictive(picture.codec)) /\ lost' = TRUE /\ UNCHANGED <<writing, n3dsReady>>

\* C2S_MSG_VIDEO, until its payload is received.
VideoComes(key) ==
    /\ linked /\ writing = None /\ (n3dsOwes => key) /\ n3dsOwes' = FALSE /\ orphan' = (orphan /\ ~key)
    /\ ReserveVideoSlot([key |-> key, codec |-> codec, gap |-> lost, orphan |-> orphan /\ ~key])
    /\ UNCHANGED <<linked, codec, workerVars, frameReady>>

\* A keyframe is ready.
KeyWaits == \E i \in DOMAIN n3dsReady : n3dsReady[i].key

\* One that no slot can hold is passed over, a keyframe too.  The keyframe that is
\* then needed may be one that waited already: the client takes that one for it.
TooLarge ==
    /\ linked /\ writing = None /\ n3dsOwes' = FALSE /\ lost' = TRUE
    /\ orphan' = KeyWaits
    /\ need' = (need \/ Predictive(codec))
    /\ UNCHANGED <<linked, codec, writing, n3dsReady, workerVars, frameReady>>

\* publish_video()
PublishVideo ==
    /\ linked /\ writing # None /\ n3dsReady' = Append(n3dsReady, writing) /\ writing' = None
    /\ UNCHANGED <<n3dsHostVars, lost, orphan, need, workerVars, frameReady>>

\* C2S_MSG_STREAM_INFO: the ready pictures are of the stream that was.
StreamInfo(c) ==
    /\ linked /\ writing = None /\ codec' = c /\ n3dsOwes' = TRUE
    /\ need' = Predictive(c) /\ n3dsReady' = <<>> /\ lost' = TRUE
    /\ orphan' = FALSE /\ UNCHANGED <<linked, writing, workerVars, frameReady>>

----------------------------------------------------------------------------
(* video_worker() *)

Begin ==
    /\ worker = "idle" /\ ~frameReady /\ worker' = "acquire" /\ work' = 0
    /\ UNCHANGED <<n3dsHostVars, slotVars, n3dsTaken, present, n3dsBroken, frameReady>>

\* network_request_keyframe(); what the host does of it is not told apart from the
\* keyframes it sends anyway.
RequestKeyframe == need' = TRUE

\* The first ready picture that may be taken while a keyframe is needed.
FirstUsable == IF need THEN SelectInSeq(n3dsReady, LAMBDA p : p.key)
               ELSE IF n3dsReady = <<>> THEN 0 ELSE 1

Take(picture, rest) ==
    /\ n3dsTaken' = picture /\ n3dsReady' = rest
    /\ need' = (need /\ ~(Predictive(codec) /\ picture.key))

\* network_acquire_video(), the MPEG codecs: in their order, from a keyframe if one
\* is needed.  Where pictures were dropped on the way a keyframe is asked for after
\* the lock is given back, although the one that was found ended the need of it.
AcquireNext ==
    /\ worker = "acquire" /\ Predictive(codec)
    /\ LET first == FirstUsable IN
       \/ /\ first = 1 /\ Take(n3dsReady[1], Tail(n3dsReady)) /\ worker' = "choose"
          /\ UNCHANGED <<lost, writing>>
       \/ /\ first > 1 /\ Take(n3dsReady[first], SubSeq(n3dsReady, first + 1, Len(n3dsReady)))
          /\ worker' = "ask" /\ UNCHANGED <<lost, writing>>
       \/ /\ first = 0 /\ n3dsReady = <<>> /\ worker' = "idle"
          /\ UNCHANGED <<n3dsTaken, n3dsReady, need, lost, writing>>
       \/ /\ first = 0 /\ n3dsReady # <<>> /\ worker' = "ask" /\ n3dsReady' = <<>>
          /\ UNCHANGED <<n3dsTaken, need>>
          /\ IF writing = None THEN lost' = TRUE /\ UNCHANGED writing
             ELSE writing' = [writing EXCEPT !.gap = TRUE] /\ UNCHANGED lost
    /\ UNCHANGED <<n3dsHostVars, orphan, work, present, n3dsBroken, frameReady>>

\* The end of network_acquire_video(): network_request_keyframe().
AskAgain ==
    /\ worker = "ask" /\ RequestKeyframe
    /\ worker' = IF n3dsTaken = None THEN "idle" ELSE "choose"
    /\ UNCHANGED <<n3dsHostVars, lost, orphan, writing, n3dsReady, work, n3dsTaken, present, n3dsBroken,
                   frameReady>>

\* The same, JPEG: the newest, and the others dropped.
AcquireNewest ==
    /\ worker = "acquire" /\ ~Predictive(codec)
    /\ IF n3dsReady = <<>> THEN worker' = "idle" /\ UNCHANGED <<n3dsTaken, n3dsReady, need>>
       ELSE /\ Take([Last(n3dsReady) EXCEPT !.gap = @ \/ Len(n3dsReady) > 1], <<>>)
            /\ worker' = "choose"
    /\ UNCHANGED <<n3dsHostVars, lost, orphan, writing, work, present, n3dsBroken, frameReady>>

\* video_worker(): a picture behind which others wait is not drawn, but the last of four is.
Choose ==
    /\ worker = "choose" /\ worker' = "decode"
    /\ present' = (~Predictive(n3dsTaken.codec) \/ n3dsReady = <<>> \/ work = MaxWork - 1)
    /\ UNCHANGED <<n3dsHostVars, slotVars, work, n3dsTaken, n3dsBroken, frameReady>>

\* What goes on after a picture that was decoded.
GoOn == IF present \/ ~Predictive(n3dsTaken.codec) \/ work = MaxWork - 1
        THEN worker' = "idle" /\ UNCHANGED work
        ELSE worker' = "acquire" /\ work' = work + 1

\* video_decode_and_present() makes a picture, and draws it.
N3dsDecoded ==
    /\ worker = "decode" /\ n3dsBroken' = (IF Predictive(n3dsTaken.codec) THEN n3dsBroken /\ ~n3dsTaken.key ELSE n3dsBroken)
    /\ n3dsTaken' = None
    /\ IF present THEN worker' = "drawn" /\ UNCHANGED work ELSE GoOn
    /\ UNCHANGED <<n3dsHostVars, slotVars, present, frameReady>>

\* It keeps the picture for later (AVERROR(EAGAIN)).
Buffered ==
    /\ worker = "decode" /\ Predictive(n3dsTaken.codec) /\ n3dsBroken' = (n3dsBroken /\ ~n3dsTaken.key)
    /\ n3dsTaken' = None /\ GoOn
    /\ UNCHANGED <<n3dsHostVars, slotVars, present, frameReady>>

\* It fails.
DecodeFails ==
    /\ worker = "decode" /\ n3dsTaken' = None /\ worker' = "idle"
    /\ IF Predictive(n3dsTaken.codec) THEN RequestKeyframe /\ n3dsBroken' = TRUE
       ELSE UNCHANGED <<need, n3dsBroken>>
    /\ UNCHANGED <<n3dsHostVars, lost, orphan, writing, n3dsReady, work, present, frameReady>>

Drawn ==
    /\ worker = "drawn" /\ frameReady' = TRUE /\ worker' = "idle"
    /\ UNCHANGED <<n3dsHostVars, slotVars, work, n3dsTaken, present, n3dsBroken>>

----------------------------------------------------------------------------
(* main() *)

\* gfxScreenSwapBuffers()
Swap == /\ frameReady /\ frameReady' = FALSE
        /\ UNCHANGED <<n3dsHostVars, slotVars, workerVars>>

----------------------------------------------------------------------------

N3dsInit ==
    /\ linked = FALSE /\ codec = "jpeg" /\ n3dsOwes = TRUE
    /\ lost = TRUE /\ orphan = FALSE /\ writing = None /\ n3dsReady = <<>> /\ need = FALSE
    /\ worker = "idle" /\ work = 0 /\ n3dsTaken = None /\ present = FALSE
    /\ frameReady = FALSE /\ n3dsBroken = TRUE

WorkerNext == \/ Begin \/ AcquireNext \/ AskAgain \/ AcquireNewest \/ Choose
              \/ N3dsDecoded \/ Buffered \/ DecodeFails \/ Drawn

N3dsNext ==
    \/ \E c \in Codecs : SessionBegins(c) \/ StreamInfo(c)
    \/ SessionEnds \/ TooLarge \/ PublishVideo
    \/ \E key \in BOOLEAN : VideoComes(key)
    \/ WorkerNext \/ Swap

TakesPicture == (AcquireNext \/ AcquireNewest) /\ n3dsTaken' # None
LooksInTime == Begin /\ KeyWaits
AsksInTime == AskAgain /\ KeyWaits

\* The threads run, the host sends a keyframe now and then, the worker is not late
\* for ever.
N3dsSpec ==
    /\ N3dsInit /\ [][N3dsNext]_n3dsVars
    /\ WF_n3dsVars(WorkerNext) /\ WF_n3dsVars(PublishVideo) /\ WF_n3dsVars(Swap)
    /\ SF_n3dsVars(VideoComes(TRUE)) /\ SF_n3dsVars(LooksInTime) /\ SF_n3dsVars(AsksInTime)
    /\ SF_n3dsVars(TakesPicture)

----------------------------------------------------------------------------
(* Properties. *)

N3dsTypeOK ==
    /\ {linked, n3dsOwes, lost, orphan, need, present, frameReady, n3dsBroken} \subseteq BOOLEAN
    /\ codec \in Codecs /\ writing \in N3dsFrames \cup {None} /\ n3dsTaken \in N3dsFrames \cup {None}
    /\ n3dsReady \in Seq(N3dsFrames) /\ Used <= VideoSlots /\ work \in 0 .. MaxWork - 1
    /\ worker \in {"idle", "acquire", "ask", "choose", "decode", "drawn"}

\* In a session with pictures of the MPEG codecs, one that refers to another is
\* given to a decoder that has it, whatever was dropped, lost or failed before; but
\* for those behind a picture that was too large while a keyframe waited (orphan).
ReferencesAreThere ==
    [][AcquireNext /\ n3dsTaken' # None /\ Predictive(n3dsTaken'.codec)
          /\ ~n3dsTaken'.key /\ ~n3dsTaken'.orphan => ~n3dsTaken'.gap /\ ~n3dsBroken]_n3dsVars

\* No picture is drawn into the framebuffer main() is about to swap.
SwapIsAlone == frameReady => worker = "idle"

\* In the middle of a pass a keyframe comes to be needed: a picture was too large or
\* gave its slot, or the pass itself found its keyframe behind others and asks for one
\* more (AskAgain).  What is left of the pass is dropped, and nothing may be drawn.
CutShort == /\ ~need /\ need'
            /\ worker \in {"ask", "choose", "decode"} \/ (worker = "acquire" /\ work > 0)

\* While a session goes on in which the stream stays the same and pictures are
\* decoded, they come onto the screen: no wait for a keyframe is for ever, unless
\* pass after pass is CutShort.
Unlucky == (\E c \in Codecs : StreamInfo(c)) \/ (Buffered /\ present) \/ DecodeFails \/ CutShort
N3dsWaits == linked /\ ~frameReady
N3dsShows == <>[]N3dsWaits => []<><<Unlucky>>_n3dsVars

=============================================================================
