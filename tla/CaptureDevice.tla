--------------------------- MODULE CaptureDevice ---------------------------
(***************************************************************************)
(* The capture card and the loop that owns it (server/capture2cloud.c,     *)
(* main(); server/video_capture.c).  Pages and the settings window ask for *)
(* another format by storing one int; the loop takes it at the top of each *)
(* pass, closes the device and reopens it.  A card that drops off the USB  *)
(* bus is waited for, and one that comes back with another picture size is *)
(* turned away: encoders and clients were built for the first one.         *)
(*                                                                         *)
(* Which formats the card accepts, and the size it settles on for each, is *)
(* a parameter of the behaviour.  Opening a card that is there may fail    *)
(* too: it may still be coming up, or be somebody else's.  The last four   *)
(* variables are history.                                                  *)
(***************************************************************************)
EXTENDS Integers

CONSTANTS
    Formats,
    Sizes,
    Models,    \* the kinds of card
    Initial,   \* CAPTURE_FORMAT
    MaxAsks,   \* bound on the requests of a behaviour
    MaxLosses, \* bound on the times the card is lost
    NONE

Device == [format : Formats, size : Sizes]

ASSUME DeviceAssumption ==
    /\ Models \subseteq [accepted : SUBSET Formats \ {{}}, size : [Formats -> Sizes]]
    /\ NONE \notin Formats \cup Device
    /\ Initial \in Formats
    /\ MaxAsks \in Nat /\ MaxLosses \in Nat

VARIABLES
    model,   \* the kind of card this host has
    stream,  \* the size everything downstream was built for
    plugged,    \* the card is on the bus
    attached,    \* the open device has not been unplugged since it was opened
    device,  \* g_video: nothing, or what the open device delivers
    wantedFormat,  \* capture_format
    formatRequest, \* g_format_request
    taken,   \* the request the loop has read
    recent,  \* the last attempt to open was less than a second ago
    loopAt,      \* where the loop is
    asked,   \* the last format anybody asked for
    asks,
    losses,
    dropped  \* the last request came to nothing

deviceHistory == <<asked, asks, losses, dropped>>
fixed == <<model, stream>>
deviceVars == <<fixed, plugged, attached, device, wantedFormat, formatRequest, taken, recent, loopAt, deviceHistory>>

----------------------------------------------------------------------------

\* Mutant of Chosen: a refused format is an error.
ChosenStrict(f) == {f} \cap model.accepted

\* open_device(): the format asked for, or another if the card refuses it.
Chosen(f) == IF f \in model.accepted THEN {f} ELSE model.accepted

Opened(f) == {[format |-> g, size |-> model.size[g]] : g \in Chosen(f)}

\* video_capture_request_format(), from the HTTP thread or the settings
AskFormat(f) ==
    /\ asks < MaxAsks
    /\ formatRequest' = f
    /\ asked' = f /\ asks' = asks + 1
    /\ dropped' = (loopAt = "clear")
    /\ UNCHANGED <<fixed, plugged, attached, device, wantedFormat, taken, recent, loopAt, losses>>

\* Mutant of Top: no test for an absent request.
TopAlways ==
    /\ loopAt = "top"
    /\ taken' = formatRequest /\ loopAt' = "clear"
    /\ UNCHANGED <<fixed, plugged, attached, device, wantedFormat, formatRequest, recent, deviceHistory>>

\* video_capture_take_format_request(): the request is read ...
Top ==
    /\ loopAt = "top"
    /\ taken' = formatRequest
    /\ loopAt' = IF formatRequest = NONE THEN "device" ELSE "clear"
    /\ UNCHANGED <<fixed, plugged, attached, device, wantedFormat, formatRequest, recent, deviceHistory>>

\* Mutant of Switch: the format to reopen with is left as it was.
SwitchForgets == device' = NONE /\ wantedFormat' = wantedFormat

\* close_device(): the card's buffers and the card are given back.
CloseDevice == device' = NONE

Switch == CloseDevice /\ wantedFormat' = taken

OtherFormat == device # NONE /\ device.format # taken

\* ... and cleared, and the device closed if it delivers another format.
Clear ==
    /\ loopAt = "clear"
    /\ formatRequest' = NONE
    /\ loopAt' = "device"
    /\ \/ OtherFormat /\ Switch /\ recent' = FALSE
       \/ ~OtherFormat /\ UNCHANGED <<device, wantedFormat, recent>>
    /\ dropped' = (dropped \/ device = NONE)
    /\ UNCHANGED <<fixed, plugged, attached, taken, asked, asks, losses>>

\* Mutant of Fits: a card that came back is used whatever its size.
FitsAny(d) == TRUE

Fits(d) == d.size = stream

\* The device is open, or the loop waits, or it tries to open it.
Open ==
    /\ loopAt = "device"
    /\ \/ /\ device # NONE /\ loopAt' = "poll"
          /\ UNCHANGED <<device, attached, recent>>
       \/ /\ device = NONE /\ recent /\ loopAt' = "top"
          /\ UNCHANGED <<device, attached, recent>>
       \/ /\ device = NONE /\ ~recent /\ plugged
          /\ recent' = TRUE
          /\ device' \in {d \in Opened(wantedFormat) : Fits(d)} /\ attached' = TRUE
          /\ loopAt' = "poll"
       \/ /\ device = NONE /\ ~recent
          /\ recent' = TRUE /\ loopAt' = "top"
          /\ UNCHANGED <<device, attached>>
    /\ UNCHANGED <<fixed, plugged, wantedFormat, formatRequest, taken, deviceHistory>>

\* video_capture_read(): a frame, a frame that is skipped, or none yet; and the
\* error of a device that is gone: video_capture_lost().
Read == IF attached THEN UNCHANGED device ELSE CloseDevice

Poll ==
    /\ loopAt = "poll"
    /\ Read
    /\ loopAt' = "top"
    /\ UNCHANGED <<fixed, plugged, attached, wantedFormat, formatRequest, taken, recent, deviceHistory>>

Second ==
    /\ recent
    /\ recent' = FALSE
    /\ UNCHANGED <<fixed, plugged, attached, device, wantedFormat, formatRequest, taken, loopAt, deviceHistory>>

CardOut ==
    /\ plugged /\ losses < MaxLosses
    /\ plugged' = FALSE /\ attached' = FALSE /\ losses' = losses + 1
    /\ UNCHANGED <<fixed, device, wantedFormat, formatRequest, taken, recent, loopAt, asked, asks,
                   dropped>>

CardIn ==
    /\ ~plugged
    /\ plugged' = TRUE
    /\ UNCHANGED <<fixed, attached, device, wantedFormat, formatRequest, taken, recent, loopAt, deviceHistory>>

----------------------------------------------------------------------------

DeviceInit ==
    /\ model \in Models /\ plugged = TRUE /\ attached = TRUE
    /\ device \in Opened(Initial) /\ stream = device.size
    /\ wantedFormat = Initial /\ formatRequest = NONE /\ taken = NONE
    /\ recent = FALSE /\ loopAt = "top"
    /\ asked = NONE /\ asks = 0 /\ losses = 0 /\ dropped = FALSE

DeviceLoop == Top \/ Clear \/ Open \/ Poll

DeviceNext == (\E f \in Formats : AskFormat(f)) \/ DeviceLoop \/ Second \/ CardOut \/ CardIn

DeviceSpec == DeviceInit /\ [][DeviceNext]_deviceVars

Reopen == Open /\ device' # device

\* The loop runs, seconds pass, a card that drops off the bus comes back, and
\* opening one that is there does not fail for ever.
DeviceFairSpec ==
    DeviceSpec /\ WF_deviceVars(DeviceLoop) /\ WF_deviceVars(Second) /\ WF_deviceVars(CardIn) /\ SF_deviceVars(Reopen)

----------------------------------------------------------------------------
(* Properties *)

\* The variables have their types.
DeviceTypeOK ==
    /\ model \in Models
    /\ stream \in Sizes /\ attached \in BOOLEAN
    /\ plugged \in BOOLEAN /\ recent \in BOOLEAN /\ dropped \in BOOLEAN
    /\ device \in Device \cup {NONE}
    /\ wantedFormat \in Formats
    /\ formatRequest \in Formats \cup {NONE} /\ taken \in Formats \cup {NONE}
    /\ asked \in Formats \cup {NONE}
    /\ loopAt = "clear" => taken # NONE
    /\ loopAt \in {"top", "clear", "device", "poll"}
    /\ asks \in 0..MaxAsks /\ losses \in 0..MaxLosses

\* "a different one cannot be fed into the running pipeline" (main()): no
\* frame is ever read from a device whose size is not the stream's.
FramesFitStream == loopAt = "poll" => device # NONE /\ device.size = stream

\* "Wait for it to come back instead, keeping the stream" (main()): frames
\* are read again and again, whatever was asked of the card and however
\* often it was lost.
PictureComesBack == []<>(loopAt = "poll" /\ attached)

OneSize == \A f, g \in model.accepted : model.size[f] = model.size[g]

\* What the page asked for last is what the card ends up delivering, however
\* often it is lost meanwhile, unless the card refuses it or changes size with
\* the format, and unless the request met the loop taking the one before or
\* with no device open (video_capture_request_format(), main()).
AskedFormatRuns ==
    \A f \in Formats :
        []<>(asked = f => \/ dropped \/ ~OneSize \/ f \notin model.accepted
                          \/ device # NONE /\ device.format = f)

=============================================================================
