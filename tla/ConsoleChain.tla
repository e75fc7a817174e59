---------------------------- MODULE ConsoleChain ----------------------------
(***************************************************************************)
(* How a captured picture reaches the encoder of the Wii U console's       *)
(* stream (gst_webrtc.c).  The main loop feeds the chain through a scaler  *)
(* it keeps, while the settings window and the stream's thread set the     *)
(* chain's profile.                                                        *)
(*                                                                         *)
(* Left out: the pictures' data, the pace of the chain (Pace), the other   *)
(* chains, whose size never changes, and memory running out.               *)
(***************************************************************************)
EXTENDS Naturals

CONSTANT CaptureFormats \* the pixel formats a capture may have

ASSUME CaptureFormatsAssumption == CaptureFormats # {}

VARIABLES
    watched,     \* whether a console is on the console's stream
    wiiuWanted,  \* switch_wanted[SS_STREAM_WIIU]
    source,      \* wiiu_source_width x wiiu_source_height, by its height
    appCaps,     \* the caps of the chain's appsrc
    scaler,      \* sws_switch[SS_STREAM_WIIU], or NoScaler
    buffer,      \* the size switch_i420_buf[SS_STREAM_WIIU] has
    pushAt,      \* the main loop: idle, or where it is in push_switch_chain
    picture,     \* the picture it pushes: its format and the size it chose
    moved        \* a profile moved the source while a picture was pushed

consoleVars == <<watched, wiiuWanted, source, appCaps, scaler, buffer, pushAt, picture, moved>>

NoScaler == [to |-> 0, format |-> "none"]
Heights == {720, 1080}

ConsoleTypeOK ==
    /\ watched \in BOOLEAN /\ wiiuWanted \in BOOLEAN /\ moved \in BOOLEAN
    /\ source \in Heights /\ appCaps \in Heights /\ buffer \in Heights \cup {0}
    /\ scaler \in {NoScaler} \cup [to : Heights, format : CaptureFormats]
    /\ pushAt \in {"idle", "chosen", "built"}
    /\ picture \in [to : Heights, format : CaptureFormats]

-----------------------------------------------------------------------------
\* on_switch_demand_changed(), for the console's stream.
Demand == /\ wiiuWanted' = watched'
          /\ UNCHANGED <<source, appCaps, scaler, buffer, pushAt, picture, moved>>
ConsoleComes == ~watched /\ watched' = TRUE /\ Demand
ConsoleGoes == watched /\ watched' = FALSE /\ Demand

\* 480 and 720 are made from one staging picture; 1080 has its own.
SourceOf(height) == IF height = 1080 THEN 1080 ELSE 720

\* Mutant of AfterMove: the scaler of the old size is kept.
AfterMoveKept(moves) == scaler

\* The scaler goes with the size it was made for.
AfterMove(moves) == IF moves THEN NoScaler ELSE scaler

\* set_wiiu_profile_full(): the source moves only while nobody watches, since
\* a buffer in flight has its size; the scaler that made it goes with it.
SetWiiuProfile(height) ==
    LET moves == ~wiiuWanted /\ source # SourceOf(height) IN
    /\ source' = IF moves THEN SourceOf(height) ELSE source
    /\ appCaps' = IF moves THEN SourceOf(height) ELSE appCaps
    /\ scaler' = AfterMove(moves)
    /\ moved' = (moved \/ (moves /\ pushAt # "idle"))
    /\ UNCHANGED <<watched, wiiuWanted, buffer, pushAt, picture>>

\* push_switch_chain(): it chooses the size, ...
PushChooses ==
    /\ pushAt = "idle" /\ wiiuWanted /\ pushAt' = "chosen"
    /\ \E format \in CaptureFormats : picture' = [to |-> source, format |-> format]
    /\ UNCHANGED <<watched, wiiuWanted, source, appCaps, scaler, buffer, moved>>

\* ... makes the scaler and its buffer, if it has none of this format, ...
PushBuilds ==
    /\ pushAt = "chosen" /\ pushAt' = "built"
    /\ IF scaler = NoScaler \/ scaler.format # picture.format
       THEN scaler' = picture /\ buffer' = picture.to
       ELSE UNCHANGED <<scaler, buffer>>
    /\ UNCHANGED <<watched, wiiuWanted, source, appCaps, picture, moved>>

\* ... and scales the picture into the buffer for the encoder.
PushScales ==
    /\ pushAt = "built" /\ pushAt' = "idle"
    /\ UNCHANGED <<watched, wiiuWanted, source, appCaps, scaler, buffer, picture, moved>>

-----------------------------------------------------------------------------
ConsoleInit ==
    /\ watched = FALSE /\ wiiuWanted = FALSE /\ source = 720 /\ appCaps = 720
    /\ scaler = NoScaler /\ buffer = 0 /\ pushAt = "idle" /\ moved = FALSE
    /\ picture = [to |-> 720, format |-> CHOOSE f \in CaptureFormats : TRUE]

ConsoleNext == \/ ConsoleComes \/ ConsoleGoes
               \/ \E height \in {480, 720, 1080} : SetWiiuProfile(height)
               \/ PushChooses \/ PushBuilds \/ PushScales
ConsoleSpec == ConsoleInit /\ [][ConsoleNext]_consoleVars

-----------------------------------------------------------------------------
\* A picture is scaled by a scaler that is there and made for its size and
\* format, into a buffer of that size, for an encoder that expects it; only a
\* profile that moved the source in the middle of the push could spoil it.
PictureFits ==
    pushAt = "built" => moved \/ (scaler = picture /\ buffer = picture.to /\ appCaps = picture.to)
=============================================================================
