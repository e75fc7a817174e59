----------------------------- MODULE PadPicture -----------------------------
(***************************************************************************)
(* Which of its two encodes the GamePad's stream carries, and whether the  *)
(* pad can show it: the host's side (gst_webrtc.c, drc_encoder.c and the   *)
(* codec messages of switch_stream.c) and one pad program (wiiu_pad.cpp)   *)
(* that receives it.  The program asks for one encode, the host makes what *)
(* its record of that client says, and nothing tells the program that it   *)
(* was refused.                                                            *)
(*                                                                         *)
(* Left out: the silence of a link (PadStation), the pictures' data, the   *)
(* announcements a full socket swallows.  MinGap counts the steps of       *)
(* drcAge that stand for DRC_IDR_MIN_GAP_MS.                               *)
(***************************************************************************)
EXTENDS Naturals, Sequences

CONSTANTS
    MinGap, \* DRC_IDR_MIN_GAP_MS
    MaxDown \* what the socket to the pad holds

ASSUME PadPictureAssumption == MinGap \in Nat \ {0} /\ MaxDown \in Nat \ {0}

VARIABLES
    drcAllowed, drcEnc, drcAvailable, \* the setting, the encoder, the offer
    drcWanted,   \* switch_wanted[SS_STREAM_DRC]
    drcAsked,    \* drc_want_idr
    drcAge,      \* the time since drc_last_idr_ms, or Never
    record,      \* the host's codec for the pad's client, or none without one
    ownDoor,     \* on_drc_port
    toHost,      \* the codecs and keyframes the pad asked for, on their way
    toPad,       \* the messages on their way to the pad
    wantCodec,   \* want_codec
    confirmed,   \* drc_confirmed
    late,        \* drc_deadline has passed
    lostTrack,   \* the pad cannot follow the encode it is sent
    steady       \* the setting was on as the pad came, and was not touched since

drcVars == <<drcAllowed, drcEnc, drcAvailable, drcWanted, drcAsked, drcAge>>
padSideVars == <<wantCodec, confirmed, late, lostTrack>>
padPictureVars == <<drcVars, record, ownDoor, toHost, toPad, padSideVars, steady>>

Encodes == {"h264", "drc"}
Never == MinGap + 1
Infos == {"info h264", "info drc"}
Wires == Infos \cup {"audio", "h264", "idr", "wave"}

PadPictureTypeOK ==
    /\ drcAllowed \in BOOLEAN /\ drcAvailable \in BOOLEAN /\ drcWanted \in BOOLEAN
    /\ drcAsked \in BOOLEAN /\ confirmed \in BOOLEAN /\ late \in BOOLEAN
    /\ lostTrack \in BOOLEAN /\ steady \in BOOLEAN /\ ownDoor \in BOOLEAN
    /\ drcEnc \in {"none", "open", "broken"} /\ drcAge \in 0..Never
    /\ record \in Encodes \cup {"none"} /\ wantCodec \in Encodes
    /\ toHost \in Seq(Encodes \cup {"key"}) /\ toPad \in Seq(Wires)

-----------------------------------------------------------------------------
(***************************************************************************)
(* The host.                                                               *)
(***************************************************************************)
Linked == record # "none"

\* client_slot(): a client of the pad's own port stays on the pad's stream, of
\* whichever codec; another is there while that is what it is sent.
OnPadStream(codec, own) == codec # "none" /\ (own \/ codec = "drc")

\* STREAM_INFO says of the pad's stream that it is drc, whatever it carries
\* (slot_codec()).
Info(codec, own) == IF OnPadStream(codec, own) THEN "info drc" ELSE "info h264"

\* on_switch_demand_changed(): a chain that is wanted again is announced, and
\* asked for a keyframe.
Wants(codec, own, allowed) == OnPadStream(codec, own) /\ allowed
Starts(codec, own, allowed) == Wants(codec, own, allowed) /\ ~drcWanted
Announced(starts) == IF starts THEN <<"info drc">> ELSE <<>>

\* handle_messages(), C2S_MSG_CODEC: the pad's own encode is refused without a
\* word unless the host can make it.
HostChanges ==
    LET asked == Head(toHost)
        starts == Starts(asked, ownDoor, drcAllowed) IN
    /\ Linked /\ toHost # <<>> /\ asked \in Encodes /\ toHost' = Tail(toHost)
    /\ IF asked # record /\ (asked = "drc" => drcAvailable)
       THEN /\ record' = asked /\ drcAsked' = TRUE
            /\ toPad' = toPad \o <<Info(asked, ownDoor)>> \o Announced(starts)
            /\ drcWanted' = Wants(asked, ownDoor, drcAllowed)
       ELSE UNCHANGED <<record, toPad, drcAsked, drcWanted>>
    /\ UNCHANGED <<drcAllowed, drcEnc, drcAvailable, drcAge, ownDoor, padSideVars, steady>>

\* C2S_MSG_KEYFRAME: requests that follow each other closely are not heard.
HostHears(heard) ==
    /\ Linked /\ toHost # <<>> /\ Head(toHost) = "key" /\ toHost' = Tail(toHost)
    /\ drcAsked' = (drcAsked \/ heard)
    /\ UNCHANGED <<drcAllowed, drcEnc, drcAvailable, drcWanted, drcAge, record, ownDoor,
                   toPad, padSideVars, steady>>

\* The queue's bound.  A picture the socket has no room for is skipped and, not
\* too often, a keyframe asked for (broadcast_filtered()); that is one that does
\* not arrive.
PadRoom == Len(toPad) < MaxDown
Deliver(picture, arrives) == toPad' = IF arrives THEN Append(toPad, picture) ELSE toPad
Skips(arrives) == IF arrives THEN {FALSE} ELSE BOOLEAN

\* push_drc_chain(): a recovery point is the first picture of a new encoder,
\* on request and then not too often, and all chunks of it must be there.
DrcIdr == drcAge = Never \/ (drcAsked /\ drcAge >= MinGap)

AskedAfter == drcAsked /\ ~DrcIdr

\* drc_encoder_open(): x264 and its settings, which may be refused.
OpensEncoder(on) == IF on THEN {"open", "none"} ELSE {"none"}

\* drc_encoder_restart() builds the encoder anew, the only way it has to give a
\* recovery point; it is left without one if that fails.
Restarted(restarts) == IF restarts THEN "open" ELSE "broken"

\* drc_encoder_encode(): only a picture whose five chunks on_nal() has collected
\* is one.
FiveChunks(enc, arrives) == enc = "open" /\ arrives

PushDrc(restarts, arrives) ==
    LET enc == IF DrcIdr THEN Restarted(restarts) ELSE drcEnc IN
    /\ PadRoom /\ drcWanted /\ record = "drc" /\ drcEnc # "none"
    /\ drcEnc' = enc
    /\ \E asks \in Skips(arrives) : drcAsked' = (AskedAfter \/ asks)
    /\ drcAge' = IF DrcIdr THEN 0 ELSE drcAge
    /\ Deliver(IF DrcIdr THEN "idr" ELSE "wave", FiveChunks(enc, arrives))
    /\ UNCHANGED <<drcAllowed, drcAvailable, drcWanted, record, ownDoor, toHost, padSideVars,
                   steady>>

\* push_drc_h264_chain(), or for a client of the native port that port's chain.
PushDrcH264(arrives) ==
    /\ PadRoom /\ record = "h264" /\ (ownDoor => drcWanted) /\ Deliver("h264", arrives)
    /\ \E asks \in Skips(arrives) : drcAsked' = (drcAsked \/ asks)
    /\ UNCHANGED <<drcAllowed, drcEnc, drcAvailable, drcWanted, drcAge, record, ownDoor, toHost,
                   padSideVars, steady>>

\* switch_stream_send_audio(): the sound goes to everybody.
PushSound ==
    /\ Linked /\ PadRoom /\ toPad' = Append(toPad, "audio")
    /\ UNCHANGED <<drcVars, record, ownDoor, toHost, padSideVars, steady>>

DrcTime == /\ drcAge < MinGap /\ drcAge' = drcAge + 1
           /\ UNCHANGED <<drcAllowed, drcEnc, drcAvailable, drcWanted, drcAsked, record, ownDoor,
                          toHost, toPad, padSideVars, steady>>

\* Mutant of Offered: the transport keeps the offer it had.
OfferedAsBefore(enc) == drcAvailable

\* What switch_stream_set_drc_available() is told.
OfferedToPad(enc) == enc # "none"

\* gst_webrtc_stream_set_drc_enabled(): the encoder is opened now, so that the
\* transport knows what it may offer.
SetDrcEnabled(on) ==
    /\ on # drcAllowed /\ drcAllowed' = on
    /\ drcEnc' \in OpensEncoder(on)
    /\ drcAvailable' = OfferedToPad(drcEnc')
    /\ drcWanted' = Wants(record, ownDoor, on)
    /\ drcAsked' = (drcAsked \/ Starts(record, ownDoor, on))
    /\ toPad' = toPad \o Announced(Starts(record, ownDoor, on) /\ PadRoom)
    /\ steady' = FALSE
    /\ UNCHANGED <<drcAge, record, ownDoor, toHost, padSideVars>>

\* The native transport starts again without its clients; set_switch_output()
\* tells the new one what may be offered.
NewTransport ==
    /\ record' = "none" /\ toHost' = <<>> /\ toPad' = <<>>
    /\ drcAvailable' = OfferedToPad(drcEnc) /\ drcWanted' = FALSE
    /\ UNCHANGED <<drcAllowed, drcEnc, drcAsked, drcAge, ownDoor, padSideVars, steady>>

-----------------------------------------------------------------------------
(***************************************************************************)
(* The pad program.                                                        *)
(***************************************************************************)

\* It connects to its own port, which puts it on the pad's own encode, or, by
\* its --port, to the native one, where it has to ask.
PadConnects(want, ownPort) ==
    /\ ~Linked /\ wantCodec' = want /\ confirmed' = FALSE /\ late' = FALSE /\ lostTrack' = TRUE
    /\ record' = (IF ownPort THEN "drc" ELSE "h264") /\ ownDoor' = ownPort
    /\ toPad' = <<Info(record', ownPort)>> \o Announced(Starts(record', ownPort, drcAllowed))
    /\ toHost' = IF ownPort THEN <<>> ELSE <<want>>
    /\ drcWanted' = Wants(record', ownPort, drcAllowed)
    /\ drcAsked' = (drcAsked \/ Starts(record', ownPort, drcAllowed))
    /\ steady' = drcAllowed
    /\ UNCHANGED <<drcAllowed, drcEnc, drcAvailable, drcAge>>

PadLeaves ==
    /\ Linked /\ record' = "none" /\ toHost' = <<>> /\ toPad' = <<>>
    /\ drcWanted' = FALSE
    /\ UNCHANGED <<drcAllowed, drcEnc, drcAvailable, drcAsked, drcAge, ownDoor, padSideVars, steady>>

DeadlinePasses ==
    /\ Linked /\ ~late /\ late' = TRUE
    /\ UNCHANGED <<drcVars, record, ownDoor, toHost, toPad, wantCodec, confirmed, lostTrack, steady>>

\* Mutant of Proves: one ordinary picture is taken for the pad's own.
ProvesAny(message) == message \in {"h264", "idr", "wave"}

\* Five chunks whose sizes add up.
Proves(message) == message \in {"idr", "wave"}

\* What it can show: its own encode from a recovery point on, or any ordinary
\* picture, which it decodes and encodes again.
Follows(want, message) == IF want = "drc" THEN message = "idr" \/ (message = "wave" /\ ~lostTrack)
                                          ELSE message = "h264"

\* The receive loop, one message: the deadline first, then the message, then
\* the pad's own wish for a recovery point.
PadReads(loses) ==
    LET message == Head(toPad)
        gives == ~confirmed /\ wantCodec = "drc" /\ late
        want == IF gives THEN "h264" ELSE wantCodec
        again == message \in Infos /\ message # (IF want = "drc" THEN "info drc" ELSE "info h264")
        lost == (lostTrack /\ ~Follows(want, message)) \/ loses IN
    /\ Linked /\ toPad # <<>> /\ Len(toHost) < 2 /\ toPad' = Tail(toPad)
    /\ loses => want = "drc"
    /\ wantCodec' = want
    /\ confirmed' = (confirmed \/ gives \/ (want = "drc" /\ Proves(message)))
    /\ lostTrack' = lost
    /\ toHost' = toHost \o (IF gives THEN <<"h264">> ELSE <<>>)
                        \o (IF again THEN <<want>> ELSE <<>>)
                        \o (IF want = "drc" /\ lost THEN <<"key">> ELSE <<>>)
    /\ UNCHANGED <<drcVars, record, ownDoor, late, steady>>

-----------------------------------------------------------------------------
PadPictureInit ==
    /\ drcAllowed = FALSE /\ drcEnc = "none" /\ drcAvailable = FALSE
    /\ drcWanted = FALSE /\ drcAsked = FALSE /\ drcAge = Never
    /\ record = "none" /\ ownDoor = TRUE /\ toHost = <<>> /\ toPad = <<>>
    /\ wantCodec = "h264" /\ confirmed = FALSE /\ late = FALSE /\ lostTrack = TRUE
    /\ steady = FALSE

PadPictureNext ==
    \/ HostChanges \/ (\E heard \in BOOLEAN : HostHears(heard))
    \/ (\E restarts, arrives \in BOOLEAN : PushDrc(restarts, arrives))
    \/ (\E arrives \in BOOLEAN : PushDrcH264(arrives)) \/ PushSound
    \/ DrcTime \/ (\E on \in BOOLEAN : SetDrcEnabled(on)) \/ NewTransport
    \/ (\E want \in Encodes, ownPort \in BOOLEAN : PadConnects(want, ownPort))
    \/ PadLeaves \/ DeadlinePasses \/ (\E loses \in BOOLEAN : PadReads(loses))

PadPictureSpec == PadPictureInit /\ [][PadPictureNext]_padPictureVars

\* The sound goes on and time passes, whatever becomes of the pictures; a
\* picture arrives, a recovery point is shown and a request heard again and again.
PadPictureFair ==
    /\ WF_padPictureVars(HostChanges) /\ WF_padPictureVars(PushSound) /\ WF_padPictureVars(DrcTime)
    /\ WF_padPictureVars(DeadlinePasses) /\ WF_padPictureVars(\E loses \in BOOLEAN : PadReads(loses))
    /\ WF_padPictureVars(\E heard \in BOOLEAN : HostHears(heard))
    /\ SF_padPictureVars(HostHears(TRUE))
    /\ SF_padPictureVars(PushDrcH264(TRUE)) /\ SF_padPictureVars(PushDrc(TRUE, TRUE))
    /\ SF_padPictureVars(PushDrc(TRUE, TRUE) /\ DrcIdr)
    /\ SF_padPictureVars(PadReads(FALSE) /\ Head(toPad) = "idr")

-----------------------------------------------------------------------------
\* The transport offers the pad's own encode exactly while the host has the
\* encoder for it, and nobody is fed with the setting off.
OfferIsHonest == drcAvailable = (drcEnc # "none") /\ (drcWanted => drcAllowed)

\* A pad that stays sees pictures, whichever encode it asked for and whether
\* or not the host can make it: "a fallback is not something you sit through"
\* (wiiu_pad.cpp).  Not if the encoder would not open again.
Shows == PadReads(FALSE) /\ Follows(wantCodec', Head(toPad))
CanSee == Linked /\ steady /\ drcEnc # "broken"
PadSees == <>[]CanSee => []<><<Shows>>_padPictureVars
=============================================================================
