---------------------------- MODULE DeviceProofs ----------------------------
(***************************************************************************)
(* What the host's devices are promised, whatever the order of the steps.  *)
(* The capture side: the loop that reads the card (CaptureDevice), for     *)
(* every card, any formats, any sizes, any subset of the formats refused;  *)
(* the token bucket of a chain (Pace), for every frame time and every      *)
(* arrival of pictures; the sound's ring and threads (AudioCapture), for   *)
(* any number of playback threads.  The ways to the console's controller   *)
(* port: the capture of a Titan adapter (OutputTitan), the program that    *)
(* wakes a console over Bluetooth (WakeHelper), and the backend that is    *)
(* the controller and borrows the Bluetooth adapter (PcbleBackend).        *)
(***************************************************************************)
EXTENDS CaptureDevice, Pace, AudioCapture, OutputTitan, WakeHelper, PcbleBackend,
        TLAPS, FiniteSetTheorems

----------------------------------------------------------------------------
(* The capture loop: what a card opens as, and what is read from it. *)

\* Whatever a card opens as is a device.
LEMMA OpenedAreDevices ==
    ASSUME model \in Models, NEW f \in Formats
    PROVE  Opened(f) \subseteq Device
<1>1. model \in [accepted : SUBSET Formats \ {{}}, size : [Formats -> Sizes]]
  BY DeviceAssumption
<1>2. Chosen(f) \subseteq Formats
  BY <1>1 DEF Chosen
<1>3. \A g \in Formats : model.size[g] \in Sizes
  BY <1>1
<1>4. QED
  BY <1>2, <1>3 DEF Opened, Device

LEMMA DeviceTypeStep == DeviceTypeOK /\ [DeviceNext]_deviceVars => DeviceTypeOK'
<1> SUFFICES ASSUME DeviceTypeOK, [DeviceNext]_deviceVars PROVE DeviceTypeOK'
  OBVIOUS
<1> USE DeviceAssumption DEF DeviceTypeOK, deviceHistory, fixed
<1>1. ASSUME NEW f \in Formats, AskFormat(f) PROVE DeviceTypeOK'
  <2>1. dropped' \in BOOLEAN
    BY <1>1, Zenon DEF AskFormat
  <2>2. asks' \in 0..MaxAsks
    BY <1>1 DEF AskFormat
  <2>3. QED
    BY <1>1, <2>1, <2>2 DEF AskFormat
<1>2. CASE Top
  BY <1>2 DEF Top
<1>3. CASE Clear
  <2>1. recent' \in BOOLEAN /\ dropped' \in BOOLEAN
    BY <1>3, Zenon DEF Clear
  <2>2. QED
    BY <1>3, <2>1 DEF Clear, Switch, CloseDevice
<1>4. CASE Open
  <2>1. device' \in Device \cup {NONE}
    BY <1>4, OpenedAreDevices DEF Open
  <2>2. attached' \in BOOLEAN /\ recent' \in BOOLEAN
    BY <1>4, Zenon DEF Open
  <2>3. QED
    BY <1>4, <2>1, <2>2 DEF Open
<1>5. CASE Poll
  BY <1>5 DEF Poll, Read, CloseDevice
<1>6. CASE Second \/ CardOut \/ CardIn
  <2>1. plugged' \in BOOLEAN /\ recent' \in BOOLEAN /\ attached' \in BOOLEAN
    BY <1>6, Zenon DEF Second, CardOut, CardIn
  <2>2. losses' \in 0..MaxLosses
    BY <1>6 DEF Second, CardOut, CardIn
  <2>3. QED
    BY <1>6, <2>1, <2>2 DEF Second, CardOut, CardIn
<1>7. CASE UNCHANGED deviceVars
  BY <1>7 DEF deviceVars
<1>8. QED
  BY <1>1, <1>2, <1>3, <1>4, <1>5, <1>6, <1>7 DEF DeviceNext, DeviceLoop

LEMMA DeviceTypeInit == DeviceInit => DeviceTypeOK
<1> SUFFICES ASSUME DeviceInit PROVE DeviceTypeOK
  OBVIOUS
<1>1. plugged \in BOOLEAN /\ attached \in BOOLEAN /\ recent \in BOOLEAN /\ dropped \in BOOLEAN
  BY Zenon DEF DeviceInit
<1>2. device \in Device /\ stream \in Sizes /\ wantedFormat \in Formats
  BY DeviceAssumption, OpenedAreDevices DEF DeviceInit, Device
<1>3. asks \in 0..MaxAsks /\ losses \in 0..MaxLosses
  BY DeviceAssumption DEF DeviceInit
<1>4. QED
  BY <1>1, <1>2, <1>3 DEF DeviceInit, DeviceTypeOK

\* The variables of the capture loop keep their types (DeviceTypeOK), whatever
\* formats and sizes the card has (capture2cloud.c, main()).
THEOREM DeviceTypes == DeviceSpec => []DeviceTypeOK
BY DeviceTypeInit, DeviceTypeStep, PTL DEF DeviceSpec

----------------------------------------------------------------------------
(* Only a device of the stream's size is ever kept, and the loop is about  *)
(* to read a frame only with one open.                                     *)

FitInv ==
    /\ device # NONE => device.size = stream
    /\ loopAt = "poll" => device # NONE

LEMMA FitStep == DeviceTypeOK /\ FitInv /\ [DeviceNext]_deviceVars => FitInv'
<1> SUFFICES ASSUME DeviceTypeOK, FitInv, [DeviceNext]_deviceVars PROVE FitInv'
  OBVIOUS
<1> USE DEF FitInv
<1>2. stream' = stream
  BY DEF DeviceNext, DeviceLoop, AskFormat, Top, Clear, Open, Poll, Second, CardOut, CardIn, deviceVars, fixed
<1>3. CASE \E f \in Formats : AskFormat(f)
  BY <1>2, <1>3 DEF AskFormat
<1>4. CASE Top
  BY <1>2, <1>4 DEF Top
<1>5. CASE Clear
  BY <1>2, <1>5 DEF Clear, Switch, CloseDevice
<1>6. CASE Open
  <2>1. CASE device' = device
    <3>1. loopAt' = "poll" => device # NONE
      BY <1>6, <2>1, OpenedAreDevices, DeviceAssumption DEF Open, DeviceTypeOK
    <3>2. QED
      BY <1>2, <2>1, <3>1
  <2>2. CASE device' # device
    <3>1. device' \in Opened(wantedFormat) /\ Fits(device')
      BY <1>6, <2>2 DEF Open
    <3>2. device' # NONE
      BY <3>1, OpenedAreDevices, DeviceAssumption DEF DeviceTypeOK
    <3>3. QED
      BY <1>2, <3>1, <3>2 DEF Fits
  <2>3. QED
    BY <2>1, <2>2
<1>7. CASE Poll
  BY <1>2, <1>7 DEF Poll, Read, CloseDevice
<1>8. CASE Second \/ CardOut \/ CardIn \/ UNCHANGED deviceVars
  BY <1>2, <1>8 DEF Second, CardOut, CardIn, deviceVars
<1>9. QED
  BY <1>3, <1>4, <1>5, <1>6, <1>7, <1>8 DEF DeviceNext, DeviceLoop

\* No frame is read from a device of another size than the stream's
\* (FramesFitStream), whatever the card comes back as.
THEOREM OnlyStreamFrames == DeviceSpec => []FramesFitStream
<1>1. DeviceInit => FitInv
  BY DEF DeviceInit, FitInv
<1>2. FitInv => FramesFitStream
  BY DEF FitInv, FramesFitStream
<1>3. QED
  BY DeviceTypeInit, DeviceTypeStep, FitStep, <1>1, <1>2, PTL DEF DeviceSpec

----------------------------------------------------------------------------
(* The token bucket of a chain. *)

LEMMA PaceStarts == PaceInit => PaceInv
<1> SUFFICES ASSUME PaceInit PROVE PaceInv
    OBVIOUS
<1>1. fed \in BOOLEAN /\ ~fed
  BY DEF PaceInit
<1>2. elapsed = 0 /\ credit = 0 /\ shown = 0 /\ since = 0 /\ ticks = 0
  BY DEF PaceInit
<1> QED BY <1>1, <1>2 DEF PaceInv, PaceTypeOK

LEMMA PaceKept == PaceInv /\ [PaceNext]_paceVars => PaceInv'
<1> SUFFICES ASSUME PaceInv, [PaceNext]_paceVars PROVE PaceInv'
    OBVIOUS
<1> USE PaceAssumption DEF PaceInv, PaceTypeOK
<1>1. CASE PictureArrives
  <2>1. fed' \in BOOLEAN /\ fed' /\ elapsed' = 0 /\ ticks' = ticks
    BY <1>1 DEF PictureArrives
  <2>2. Credit \in Nat /\ (Credit >= since \/ Credit >= Frame) /\ (fed => shown + Credit <= ticks + Frame)
        /\ (~fed => Credit = Frame)
    BY DEF Credit, Afresh
  <2> QED BY <1>1, <2>1, <2>2 DEF PictureArrives
<1>2. CASE Tick
  BY <1>2 DEF Tick
<1>3. CASE UNCHANGED paceVars
  BY <1>3 DEF paceVars
<1> QED BY <1>1, <1>2, <1>3 DEF PaceNext

\* The bucket's accounts hold, always.
THEOREM PaceInvariant == PaceSpec => []PaceInv
BY PaceStarts, PaceKept, PTL DEF PaceSpec

\* A chain never runs ahead of its screen.
THEOREM PaceIsBounded == PaceSpec => []PaceBounded
<1>1. PaceInv => PaceBounded
  BY PaceAssumption DEF PaceInv, PaceTypeOK, PaceBounded
<1> QED BY <1>1, PaceInvariant, PTL

\* And no picture that is due is left out.
THEOREM PaceNeverStarves == PaceSpec => PaceKeepsUp
<1>1. PaceInv /\ [PaceNext]_paceVars
      => [(fed' /\ elapsed' = 0 /\ since >= Frame) => shown' = shown + Frame]_paceVars
  <2> SUFFICES ASSUME PaceInv, PaceNext, fed', elapsed' = 0, since >= Frame
               PROVE  shown' = shown + Frame
      OBVIOUS
  <2>1. CASE PictureArrives
    <3>1. Credit >= Frame
      BY PaceAssumption DEF Credit, Afresh, PaceInv, PaceTypeOK
    <3> QED BY <2>1, <3>1, PaceAssumption DEF PictureArrives, Credit, Afresh, PaceInv, PaceTypeOK
  <2>2. CASE Tick
    BY <2>2 DEF Tick, PaceInv, PaceTypeOK
  <2> QED BY <2>1, <2>2 DEF PaceNext
<1> QED BY <1>1, PaceInvariant, PTL DEF PaceSpec, PaceKeepsUp

----------------------------------------------------------------------------
(* The sound: the ring, its playback threads and the stream they write to. *)

\* While there is one playback thread it is the known one, it has a stream to
\* write to whenever it may write, and nobody else writes.
SpeakersInv ==
    /\ AudioTypeOK
    /\ doubled \/ /\ ~burnt
                  /\ \A p \in PlayThreads : playerAt[p] \in Live => p = playback
                  /\ \A p \in PlayThreads : playerAt[p] \in {"waits", "writes"} => play # 0
                  /\ \A p \in PlayThreads : writesTo[p] # 0 => playerAt[p] = "writes" /\ writesTo[p] = play

\* The sound starts with no stream and no thread.
LEMMA SpeakersStart == AudioInit => SpeakersInv
<1> SUFFICES ASSUME AudioInit PROVE SpeakersInv
    OBVIOUS
<1>1. /\ playerAt = [p \in PlayThreads |-> "none"] /\ writesTo = [p \in PlayThreads |-> 0]
      /\ doubled = FALSE /\ burnt = FALSE /\ stalls = 0 /\ ringCount = 0 /\ play = 0 /\ playback = "none"
  BY DEF AudioInit
<1>2. stalls \in 0 .. MaxStalls /\ ringCount \in 0 .. MaxRing
  BY <1>1, AudioCaptureAssumption
<1>3. playerAt \in [PlayThreads -> Live \cup {"none", "done"}] /\ writesTo \in [PlayThreads -> PlayStreams \cup {0}]
  BY <1>1
<1>4. AudioTypeOK
  BY <1>1, <1>2, <1>3 DEF AudioInit, AudioTypeOK
<1> QED BY <1>1, <1>4 DEF SpeakersInv, Live

\* There is always a stream left to open: every thread writes to one at most.
LEMMA StreamIsThere ==
    ASSUME NEW writing \in [PlayThreads -> Nat], NEW current \in Nat
    PROVE  \E s \in PlayStreams : s # current /\ \A p \in PlayThreads : writing[p] # s
<1> DEFINE Taken == {writing[p] : p \in PlayThreads}
           Used == Taken \cup {current}
<1>1. IsFiniteSet(PlayThreads) /\ Cardinality(PlayThreads) \in Nat
  BY AudioCaptureAssumption, FS_CardinalityType
<1>2. writing \in Surjection(PlayThreads, Taken)
  BY DEF Surjection
<1>3. IsFiniteSet(Taken) /\ Cardinality(Taken) <= Cardinality(PlayThreads)
  BY <1>1, <1>2, FS_Surjection
<1>4. Cardinality(Taken) \in Nat
  BY <1>3, FS_CardinalityType
<1> HIDE DEF Taken
<1>5. IsFiniteSet(Used) /\ Cardinality(Used) <= Cardinality(PlayThreads) + 1
  <2>1. /\ IsFiniteSet(Used)
        /\ Cardinality(Used) = IF current \in Taken THEN Cardinality(Taken) ELSE Cardinality(Taken) + 1
    BY <1>3, FS_AddElement
  <2> QED BY <1>1, <1>3, <1>4, <2>1
<1>6. Cardinality(PlayStreams) = Cardinality(PlayThreads) + 2
  BY <1>1, FS_Interval DEF PlayStreams
<1>7. ~(PlayStreams \subseteq Used)
  <2>1. SUFFICES ASSUME PlayStreams \subseteq Used PROVE FALSE
    OBVIOUS
  <2>2. Cardinality(PlayStreams) <= Cardinality(Used)
    BY <1>5, <2>1, FS_Subset
  <2>3. Cardinality(Used) \in Nat
    BY <1>5, FS_CardinalityType
  <2> HIDE DEF Used
  <2> QED BY <1>1, <1>5, <1>6, <2>2, <2>3
<1> QED BY <1>7 DEF Taken

\* The name of a new stream is free: there are more names than threads.
LEMMA NewStreamIsNew ==
    ASSUME AudioTypeOK
    PROVE  NewStream \in PlayStreams /\ NewStream # play /\ NewStream # 0
           /\ \A p \in PlayThreads : writesTo[p] # NewStream
<1>1. Cardinality(PlayThreads) \in Nat
  BY AudioCaptureAssumption, FS_CardinalityType
<1>2. PlayStreams \subseteq Nat /\ 0 \notin PlayStreams
  BY <1>1 DEF PlayStreams
<1>3. writesTo \in [PlayThreads -> Nat] /\ play \in Nat
  <2>1. PlayStreams \cup {0} \subseteq Nat
    BY <1>2
  <2>2. writesTo \in [PlayThreads -> PlayStreams \cup {0}] /\ play \in PlayStreams \cup {0}
    BY DEF AudioTypeOK
  <2> HIDE DEF PlayStreams
  <2> QED BY <2>1, <2>2
<1>4. \E s \in PlayStreams : s # play /\ \A p \in PlayThreads : writesTo[p] # s
  BY <1>3, StreamIsThere
<1> QED BY <1>2, <1>4 DEF NewStream

\* What each part of the sound keeps of its types.
AskTypes == /\ appRunning \in BOOLEAN /\ recording \in {"sounds", "stuck", "refused"}
            /\ stalls \in 0 .. MaxStalls /\ localWanted \in BOOLEAN /\ localDirect \in BOOLEAN
CaptureTypes ==
    /\ directApplied \in BOOLEAN
    /\ captureAt \in {"opens", "reads", "speaks", "moves", "shuts", "stops", "reopens", "done"}
PlayTypes ==
    /\ ringRunning \in BOOLEAN /\ doubled \in BOOLEAN /\ burnt \in BOOLEAN
    /\ play \in PlayStreams \cup {0} /\ playback \in PlayThreads \cup {"none"}
    /\ ringCount \in 0 .. MaxRing
    /\ playerAt \in [PlayThreads -> Live \cup {"none", "done"}]
    /\ writesTo \in [PlayThreads -> PlayStreams \cup {0}]
OneSpeaks ==
    /\ ~burnt
    /\ \A p \in PlayThreads : playerAt[p] \in Live => p = playback
    /\ \A p \in PlayThreads : playerAt[p] \in {"waits", "writes"} => play # 0
    /\ \A p \in PlayThreads : writesTo[p] # 0 => playerAt[p] = "writes" /\ writesTo[p] = play

LEMMA SpeakersMeans == SpeakersInv <=> AskTypes /\ CaptureTypes /\ PlayTypes /\ (doubled \/ OneSpeaks)
BY DEF SpeakersInv, AudioTypeOK, AskTypes, CaptureTypes, PlayTypes, OneSpeaks

LEMMA SpeakersMeant ==
    AskTypes' /\ CaptureTypes' /\ PlayTypes' /\ (doubled' \/ OneSpeaks') => SpeakersInv'
BY DEF SpeakersInv, AudioTypeOK, AskTypes, CaptureTypes, PlayTypes, OneSpeaks

\* Opening the speakers gives the new thread a stream nobody writes to.
LEMMA OpenKeeps ==
    ASSUME PlayTypes, doubled \/ OneSpeaks, AudioTypeOK, play = 0, OpenSpeakers,
           UNCHANGED <<writesTo, burnt>>, ringCount' \in 0 .. MaxRing
    PROVE  PlayTypes' /\ (doubled' \/ OneSpeaks')
<1>1. PICK p \in FreePlayer :
        /\ play' = NewStream /\ ringRunning' = TRUE /\ playback' = p
        /\ playerAt' = [playerAt EXCEPT ![p] = "waits"]
        /\ doubled' = (doubled \/ PlayersAlive # {})
  BY DEF OpenSpeakers
<1>2. p \in PlayThreads
  BY DEF FreePlayer
<1>3. PlayTypes'
  BY <1>1, <1>2, NewStreamIsNew DEF PlayTypes, Live, PlayStreams
<1>4. ASSUME ~doubled' PROVE OneSpeaks'
  <2>1. ~doubled /\ \A q \in PlayThreads : playerAt[q] \notin Live
    BY <1>1, <1>4 DEF PlayersAlive
  <2>2. \A q \in PlayThreads : playerAt'[q] = IF q = p THEN "waits" ELSE playerAt[q]
    BY <1>1 DEF PlayTypes
  <2>3. \A q \in PlayThreads : writesTo[q] = 0
    BY <2>1 DEF OneSpeaks, Live
  <2> QED BY <1>1, <2>1, <2>2, <2>3, NewStreamIsNew DEF OneSpeaks, Live
<1> QED BY <1>3, <1>4

LEMMA SpeakersSteps ==
    ASSUME SpeakersInv, NEW opens \in BOOLEAN, Speakers(opens)
    PROVE  SpeakersInv'
<1>0. AskTypes /\ CaptureTypes /\ PlayTypes /\ (doubled \/ OneSpeaks) /\ AudioTypeOK
  BY SpeakersMeans DEF SpeakersInv
<1>1. UNCHANGED <<appRunning, recording, stalls, localWanted, localDirect, writesTo, burnt>>
  BY DEF Speakers, askedVars
<1>2. AskTypes'
  BY <1>0, <1>1 DEF AskTypes
<1>3. captureAt' \in {"moves", "shuts", "reads"}
  BY DEF Speakers
<1>4. directApplied' \in BOOLEAN
  BY <1>0 DEF Speakers, OpenSpeakers, AskTypes, CaptureTypes
<1>5. CaptureTypes'
  BY <1>3, <1>4 DEF CaptureTypes
<1>6. ringCount' \in 0 .. MaxRing
  <2>1. ringCount' \in {ringCount, 1, 0, Pushed}
    BY DEF Speakers
  <2>2. Pushed \in 0 .. MaxRing
    BY <1>0, AudioCaptureAssumption DEF PlayTypes, Pushed
  <2> QED BY <1>0, <2>1, <2>2, AudioCaptureAssumption DEF PlayTypes
<1>7. CASE UNCHANGED <<play, playback, playerAt, doubled>> /\ ringRunning' \in BOOLEAN
  BY <1>0, <1>1, <1>2, <1>5, <1>6, <1>7, SpeakersMeant DEF PlayTypes, OneSpeaks
<1>8. CASE play = 0 /\ OpenSpeakers
  BY <1>0, <1>1, <1>2, <1>5, <1>6, <1>8, OpenKeeps, SpeakersMeant
<1>9. \/ UNCHANGED <<play, playback, playerAt, doubled>> /\ ringRunning' \in BOOLEAN
      \/ play = 0 /\ OpenSpeakers
  BY <1>0 DEF Speakers, PlayTypes
<1> QED BY <1>7, <1>8, <1>9

LEMMA CloseSteps == SpeakersInv /\ CloseSpeakers => SpeakersInv'
<1> SUFFICES ASSUME SpeakersInv, CloseSpeakers PROVE SpeakersInv'
    OBVIOUS
<1>0. AskTypes /\ CaptureTypes /\ PlayTypes /\ (doubled \/ OneSpeaks)
  BY SpeakersMeans
<1>1. /\ UNCHANGED <<appRunning, recording, stalls, localWanted, localDirect, directApplied,
                     ringRunning, ringCount, playerAt, writesTo, doubled>>
      /\ play' = 0 /\ playback' = "none" /\ ThreadGone
      /\ burnt' = (burnt \/ (play # 0 /\ \E p \in PlayThreads : writesTo[p] = play))
  BY DEF CloseSpeakers, askedVars
<1>2. captureAt' \in {"speaks", "reads", "done"}
  BY DEF CloseSpeakers
<1>3. AskTypes' /\ CaptureTypes'
  BY <1>0, <1>1, <1>2 DEF AskTypes, CaptureTypes
<1>4. burnt' \in BOOLEAN
  BY <1>0, <1>1 DEF PlayTypes
<1>5. PlayTypes'
  BY <1>0, <1>1, <1>4 DEF PlayTypes
<1>6. ASSUME ~doubled PROVE OneSpeaks'
  <2>1. \A p \in PlayThreads : playerAt[p] \notin Live
    <3>1. \A p \in PlayThreads : p # "none"
      BY AudioCaptureAssumption
    <3> QED BY <1>0, <1>1, <1>6, <3>1 DEF OneSpeaks, ThreadGone
  <2>2. \A p \in PlayThreads : writesTo[p] = 0
    BY <1>0, <1>6, <2>1 DEF OneSpeaks, Live
  <2>3. ~burnt'
    BY <1>0, <1>1, <1>6, <2>2 DEF OneSpeaks
  <2> QED BY <1>1, <2>1, <2>2, <2>3 DEF OneSpeaks, Live
<1> QED BY <1>1, <1>3, <1>5, <1>6, SpeakersMeant

LEMMA PlayerSteps ==
    ASSUME SpeakersInv, NEW p \in PlayThreads, PlayerNext(p)
    PROVE  SpeakersInv'
<1>0. AskTypes /\ CaptureTypes /\ PlayTypes /\ (doubled \/ OneSpeaks) /\ AudioTypeOK
  BY SpeakersMeans DEF SpeakersInv
<1>1. /\ UNCHANGED <<appRunning, recording, stalls, captureAt, localWanted, localDirect,
                     directApplied>>
      /\ UNCHANGED <<playback, ringRunning, doubled>>
  BY DEF PlayerNext, PlayerTakes, PlayerWrote, PlayerFails, PlayerRetries, playerRest
<1>2. AskTypes' /\ CaptureTypes'
  BY <1>0, <1>1 DEF AskTypes, CaptureTypes
<1>3. SUFFICES PlayTypes' /\ (doubled \/ OneSpeaks')
  BY <1>1, <1>2, SpeakersMeant
<1>4. CASE PlayerTakes(p) /\ ringCount > 0
  <2>1. /\ ringCount' = ringCount - 1 /\ playerAt' = [playerAt EXCEPT ![p] = "writes"] /\ play' = play
        /\ writesTo' = [writesTo EXCEPT ![p] = play] /\ burnt' = (burnt \/ play = 0) /\ playerAt[p] = "waits"
    BY <1>4 DEF PlayerTakes
  <2>2. ringCount' \in 0 .. MaxRing /\ burnt' \in BOOLEAN
    BY <1>0, <1>4, <2>1, AudioCaptureAssumption DEF PlayTypes
  <2>3. PlayTypes'
    BY <1>0, <1>1, <2>1, <2>2 DEF PlayTypes, Live
  <2>4. ASSUME ~doubled PROVE OneSpeaks'
    BY <1>0, <1>1, <2>1, <2>4 DEF PlayTypes, OneSpeaks, Live
  <2> QED BY <2>3, <2>4
<1>5. CASE PlayerTakes(p) /\ ~(ringCount > 0)
  <2>1. playerAt' = [playerAt EXCEPT ![p] = "done"] /\ UNCHANGED <<ringCount, writesTo, burnt, play>>
        /\ playerAt[p] = "waits"
    BY <1>5 DEF PlayerTakes
  <2>2. PlayTypes'
    BY <1>0, <1>1, <2>1 DEF PlayTypes, Live
  <2>3. ASSUME ~doubled PROVE OneSpeaks'
    BY <1>0, <1>1, <2>1, <2>3 DEF PlayTypes, OneSpeaks, Live
  <2> QED BY <2>2, <2>3
<1>6. CASE PlayerWrote(p)
  <2>1. playerAt' = [playerAt EXCEPT ![p] = "waits"] /\ writesTo' = [writesTo EXCEPT ![p] = 0]
        /\ UNCHANGED <<ringCount, burnt, play>> /\ playerAt[p] = "writes"
    BY <1>6 DEF PlayerWrote
  <2>2. PlayTypes'
    BY <1>0, <1>1, <2>1 DEF PlayTypes, Live
  <2>3. ASSUME ~doubled PROVE OneSpeaks'
    BY <1>0, <1>1, <2>1, <2>3 DEF PlayTypes, OneSpeaks, Live
  <2> QED BY <2>2, <2>3
<1>7. CASE PlayerFails(p)
  <2>1. /\ writesTo' = [writesTo EXCEPT ![p] = 0] /\ play' = 0 /\ ringCount' = ringCount
        /\ burnt' = (burnt \/ \E q \in PlayThreads \ {p} : play # 0 /\ writesTo[q] = play)
        /\ playerAt' = [playerAt EXCEPT ![p] = IF ringRunning THEN "retries" ELSE "done"]
        /\ playerAt[p] = "writes"
    BY <1>7 DEF PlayerFails
  <2>2. PlayTypes'
    <3>1. burnt' \in BOOLEAN
      BY <1>0, <2>1 DEF PlayTypes
    <3> QED BY <1>0, <1>1, <2>1, <3>1 DEF PlayTypes, Live
  <2>3. ASSUME ~doubled PROVE OneSpeaks'
    <3>1. \A q \in PlayThreads : q # p => playerAt[q] \notin Live /\ writesTo[q] = 0
      BY <1>0, <2>1, <2>3 DEF OneSpeaks, Live
    <3>2. ~burnt'
      BY <1>0, <2>1, <2>3, <3>1 DEF OneSpeaks
    <3>3. \A q \in PlayThreads : writesTo'[q] = 0 /\ playerAt'[q] \notin {"waits", "writes"}
      BY <1>0, <2>1, <3>1 DEF PlayTypes, Live
    <3>4. \A q \in PlayThreads : playerAt'[q] \in Live => q = playback'
      BY <1>0, <1>1, <2>1, <2>3, <3>1 DEF PlayTypes, OneSpeaks, Live
    <3> QED BY <3>2, <3>3, <3>4 DEF OneSpeaks
  <2> QED BY <2>2, <2>3
<1>8. ASSUME NEW opens \in BOOLEAN, PlayerRetries(p, opens) PROVE PlayTypes' /\ (doubled \/ OneSpeaks')
  <2>1. /\ playerAt[p] = "retries" /\ play' = (IF opens THEN NewStream ELSE 0)
        /\ playerAt' = [playerAt EXCEPT ![p] = IF opens THEN "waits" ELSE
                                               IF ringRunning THEN "retries" ELSE "done"]
        /\ UNCHANGED <<ringCount, writesTo, burnt>>
    BY <1>8 DEF PlayerRetries
  <2>2. play' \in PlayStreams \cup {0} /\ (opens => play' # 0)
    BY <1>0, <2>1, NewStreamIsNew
  <2>3. PlayTypes'
    BY <1>0, <1>1, <2>1, <2>2 DEF PlayTypes, Live
  <2>4. ASSUME ~doubled PROVE OneSpeaks'
    <3>1. \A q \in PlayThreads : writesTo[q] = 0 /\ (q # p => playerAt[q] \notin Live)
      BY <1>0, <2>1, <2>4 DEF OneSpeaks, Live
    <3>2. \A q \in PlayThreads : playerAt'[q] \in Live => q = playback'
      BY <1>0, <1>1, <2>1, <2>4, <3>1 DEF PlayTypes, OneSpeaks, Live
    <3>3. \A q \in PlayThreads : playerAt'[q] \in {"waits", "writes"} => opens
      BY <1>0, <2>1, <3>1 DEF PlayTypes, Live
    <3> QED BY <1>0, <2>1, <2>2, <2>4, <3>1, <3>2, <3>3 DEF OneSpeaks
  <2> QED BY <2>3, <2>4
<1> QED BY <1>4, <1>5, <1>6, <1>7, <1>8 DEF PlayerNext

\* Every step of the capture thread, the playback threads and the settings
\* keeps the invariant.
LEMMA SpeakersKept == SpeakersInv /\ [AudioNext]_audioVars => SpeakersInv'
<1> SUFFICES ASSUME SpeakersInv, [AudioNext]_audioVars PROVE SpeakersInv'
    OBVIOUS
<1>0. AskTypes /\ CaptureTypes /\ PlayTypes /\ (doubled \/ OneSpeaks)
  BY SpeakersMeans
<1>r. ASSUME UNCHANGED <<play, playback, ringCount, playerAt, writesTo, doubled, burnt>>,
             ringRunning' \in BOOLEAN, AskTypes', CaptureTypes'
      PROVE  SpeakersInv'
  <2>1. PlayTypes' /\ (doubled' \/ OneSpeaks')
    BY <1>0, <1>r DEF PlayTypes, OneSpeaks
  <2> QED BY <1>r, <2>1, SpeakersMeant
<1>1. ASSUME NEW on \in BOOLEAN, SetLocalOutput(on) \/ SetLocalDirect(on) PROVE SpeakersInv'
  <2>1. UNCHANGED <<appRunning, recording, stalls, captureAt, directApplied, ringVars>>
        /\ localWanted' \in {localWanted, on} /\ localDirect' \in {localDirect, on}
    BY <1>1 DEF SetLocalOutput, SetLocalDirect
  <2>2. AskTypes' /\ CaptureTypes'
    BY <1>0, <2>1 DEF AskTypes, CaptureTypes
  <2> QED BY <1>0, <1>r, <2>1, <2>2 DEF ringVars, PlayTypes
<1>2. CASE AppStops
  <2>1. UNCHANGED <<recording, stalls, captureAt, localWanted, localDirect, directApplied,
                    ringVars>>
        /\ appRunning' = FALSE
    BY <1>2 DEF AppStops
  <2>2. AskTypes' /\ CaptureTypes'
    BY <1>0, <2>1 DEF AskTypes, CaptureTypes
  <2> QED BY <1>0, <1>r, <2>1, <2>2 DEF ringVars, PlayTypes
<1>3. ASSUME NEW to \in {"sounds", "stuck", "refused"}, SourceTurns(to) PROVE SpeakersInv'
  <2>1. UNCHANGED <<appRunning, captureAt, localWanted, localDirect, directApplied, ringVars>>
        /\ recording' = to /\ stalls' <= MaxStalls /\ stalls' \in {stalls, stalls + 1}
    BY <1>3 DEF SourceTurns
  <2>2. stalls' \in 0 .. MaxStalls
    BY <1>0, <2>1, AudioCaptureAssumption DEF AskTypes
  <2>3. AskTypes' /\ CaptureTypes'
    BY <1>0, <2>1, <2>2 DEF AskTypes, CaptureTypes
  <2> QED BY <1>0, <1>r, <2>1, <2>3 DEF ringVars, PlayTypes
<1>4. CASE RecordOpen
  <2>1. /\ UNCHANGED <<appRunning, stalls, localWanted, localDirect, directApplied, play, playback,
                       ringCount, playerAt, writesTo, doubled, burnt>>
        /\ recording' \in {"sounds", recording}
        /\ captureAt' \in {"stops", "reads", "done", "reopens"}
        /\ ringRunning' \in BOOLEAN
    BY <1>4 DEF RecordOpen
  <2>2. AskTypes' /\ CaptureTypes'
    BY <1>0, <2>1 DEF AskTypes, CaptureTypes
  <2> QED BY <1>r, <2>1, <2>2
<1>5. CASE RecordRead
  <2>1. /\ UNCHANGED <<askedVars, directApplied, play, playback, ringCount, playerAt, writesTo, doubled,
                       burnt>>
        /\ captureAt' \in {"stops", "reopens", "speaks"} /\ ringRunning' \in BOOLEAN
    BY <1>5 DEF RecordRead
  <2>2. AskTypes' /\ CaptureTypes'
    BY <1>0, <2>1 DEF AskTypes, CaptureTypes, askedVars
  <2> QED BY <1>r, <2>1, <2>2
<1>6. ASSUME NEW opens \in BOOLEAN, Speakers(opens) PROVE SpeakersInv'
  BY <1>6, SpeakersSteps
<1>7. CASE CloseSpeakers
  BY <1>7, CloseSteps
<1>8. ASSUME NEW p \in PlayThreads, PlayerNext(p) PROVE SpeakersInv'
  BY <1>8, PlayerSteps
<1>9. CASE UNCHANGED audioVars
  <2>1. UNCHANGED <<appRunning, recording, stalls, captureAt, localWanted, localDirect,
                    directApplied, ringVars>>
    BY <1>9 DEF audioVars
  <2>2. AskTypes' /\ CaptureTypes'
    BY <1>0, <2>1 DEF AskTypes, CaptureTypes
  <2> QED BY <1>0, <1>r, <2>1, <2>2 DEF ringVars, PlayTypes
<1> QED BY <1>1, <1>2, <1>3, <1>4, <1>5, <1>6, <1>7, <1>8, <1>9 DEF AudioNext, CaptureNext

\* While one playback thread is all there is (doubled, see the module), it is
\* the one the ring knows, it always has a stream to write to, and no stream
\* is freed under a write.
THEOREM SpeakersAreKnown == AudioSpec => [](AudioTypeOK /\ FreedLast /\ PlayerIsKnown)
<1>1. SpeakersInv => AudioTypeOK /\ FreedLast /\ PlayerIsKnown
  BY DEF SpeakersInv, FreedLast, PlayerIsKnown, PlayersAlive
<1> QED BY <1>1, SpeakersStart, SpeakersKept, PTL DEF AudioSpec

----------------------------------------------------------------------------
(* The Titan adapter: an adapter in capture mode has an owner. *)

\* No step forgets an adapter in capture mode.
LEMMA TitanKeepsCapture == CaptureIsOwned /\ [TitanNext]_titanVars => CaptureIsOwned'
<1> SUFFICES ASSUME CaptureIsOwned, [TitanNext]_titanVars PROVE CaptureIsOwned'
    OBVIOUS
<1> USE DEF CaptureIsOwned
<1>1. CASE Callers
  BY <1>1 DEF Callers, TitanUpdate, AskReset, AskHome, AskProtocol, outside
<1>2. CASE Hardware
  BY <1>2 DEF Hardware, AdapterOut, AdapterIn, PadMoves
<1>3. CASE SendThread
  <2>1. CASE ResetAsked
    BY <2>1 DEF ResetAsked, CloseIn, LetGo
  <2>2. CASE HoldOver
    BY <2>2 DEF HoldOver, outside
  <2>3. CASE Reconnect
    BY <2>3 DEF Reconnect
  <2>4. CASE TakeProtocol
    BY <2>4 DEF TakeProtocol, outside
  <2>5. CASE ApplyProtocol
    BY <2>5 DEF ApplyProtocol, Written, CloseIn, LetGo, outside
  <2>6. CASE Pass
    <3>1. \/ UNCHANGED <<linkUp, titanAdapter, broken>>
          \/ linkUp' = FALSE /\ titanAdapter' = titanAdapter /\ broken' = (titanAdapter = "capture")
      BY <2>6 DEF Pass, Sent, CloseIn
    <3> QED BY <3>1
  <2>7. CASE ThreadEnds
    BY <2>7 DEF ThreadEnds, outside
  <2> QED BY <1>3, <2>1, <2>2, <2>3, <2>4, <2>5, <2>6, <2>7 DEF SendThread
<1>4. CASE StopThread
  BY <1>4 DEF StopThread, outside
<1>5. CASE LeaveCapture
  BY <1>5 DEF LeaveCapture, CloseIn, LetGo
<1>6. CASE TitanTime
  BY <1>6 DEF TitanTime, outside
<1>7. CASE UNCHANGED titanVars
  BY <1>7 DEF titanVars, outside
<1> QED BY <1>1, <1>2, <1>3, <1>4, <1>5, <1>6, <1>7 DEF TitanNext

\* Every step of the Titan output keeps the types of its variables.
LEMMA TitanKeepsTypes == TitanTypeOK /\ [TitanNext]_titanVars => TitanTypeOK'
<1> SUFFICES ASSUME TitanTypeOK, [TitanNext]_titanVars PROVE TitanTypeOK'
    OBVIOUS
<1> USE TitanAssumption DEF TitanTypeOK, outside, titanAsks, reports
<1>1. CASE Callers
  BY <1>1 DEF Callers, TitanUpdate, AskReset, AskHome, AskProtocol, outside
<1>2. CASE Hardware
  BY <1>2 DEF Hardware, AdapterOut, AdapterIn, PadMoves
<1>3. CASE SendThread
  <2>1. CASE ResetAsked
    BY <2>1 DEF ResetAsked, CloseIn, LetGo
  <2>2. CASE HoldOver
    BY <2>2 DEF HoldOver, outside
  <2>3. CASE Reconnect
    BY <2>3 DEF Reconnect
  <2>4. CASE TakeProtocol
    BY <2>4 DEF TakeProtocol, outside
  <2>5. CASE ApplyProtocol
    BY <2>5 DEF ApplyProtocol, Written, CloseIn, LetGo, outside
  <2>6. CASE Pass
    BY <2>6 DEF Pass, Sent, CloseIn, ReadReal, Merged, Held
  <2>7. CASE ThreadEnds
    BY <2>7 DEF ThreadEnds, outside
  <2> QED BY <1>3, <2>1, <2>2, <2>3, <2>4, <2>5, <2>6, <2>7 DEF SendThread
<1>4. CASE StopThread
  BY <1>4 DEF StopThread, outside
<1>5. CASE LeaveCapture
  BY <1>5 DEF LeaveCapture, CloseIn, LetGo
<1>6. CASE TitanTime
  BY <1>6 DEF TitanTime, outside
<1>7. CASE UNCHANGED titanVars
  BY <1>7 DEF titanVars, outside
<1> QED BY <1>1, <1>2, <1>3, <1>4, <1>5, <1>6, <1>7 DEF TitanNext

\* Whatever is reset, changed, lost or shut down, and in whatever order the
\* threads run, an adapter is not forgotten in capture mode unless a transfer
\* to it failed.
THEOREM TitanOwnsCapture == TitanSpec => [](TitanTypeOK /\ CaptureIsOwned)
<1>1. TitanInit => TitanTypeOK /\ CaptureIsOwned
  BY DEF TitanInit, TitanTypeOK, CaptureIsOwned
<1> QED BY <1>1, TitanKeepsTypes, TitanKeepsCapture, PTL DEF TitanSpec

----------------------------------------------------------------------------
(* The wake programs: what they leave behind. *)

\* What the wake programs owe at each of their places.
WakeInv ==
    /\ WakeTypeOK
    /\ script \in {"ask", "stop"} => place = "none"
    /\ place \in {"none", "setup"} => command = 0 /\ ~scanning /\ ~advertising
    /\ place = "steps" => command < Len(Steps)
    /\ mode = "capture" => ~advertising /\ (place = "steps" => ~scanning)
    /\ mode = "send" => ~scanning
    /\ code = "none" <=> place # "gone"
    /\ mode = "probe" /\ ok /\ place = "steps" => /\ scanning => command = 2
                                                  /\ advertising => command = 7
    /\ mode = "probe" /\ ok /\ place = "cleanup" => ~scanning /\ ~advertising
    /\ HelperLeavesClean

\* The steps of each mode, and what the next one is: only the modes that scan
\* or advertise do, and a test turns each off again right after.
LEMMA ProbeSteps ==
    ASSUME mode = "probe", command \in Nat, command < Len(Steps)
    PROVE  /\ command \in {0, 1, 2, 3, 4, 5, 6, 7}
           /\ command \in {0, 3, 4, 5} => Command = "set"
           /\ command = 1 => Command = "scan on"
           /\ command = 2 => Command = "scan off"
           /\ command = 6 => Command = "advertise on"
           /\ command = 7 => Command = "advertise off"
<1>1. Len(Steps) = 8
  BY DEF Steps
<1>2. command \in {0, 1, 2, 3, 4, 5, 6, 7}
  BY <1>1
<1>3. CASE command \in {0, 3, 4, 5}
  <2>1. CASE command = 0
    BY <2>1 DEF Steps, Command
  <2>2. CASE command = 3
    BY <2>2 DEF Steps, Command
  <2>3. CASE command = 4
    BY <2>3 DEF Steps, Command
  <2>4. CASE command = 5
    BY <2>4 DEF Steps, Command
  <2> QED BY <1>3, <2>1, <2>2, <2>3, <2>4
<1>4. command = 1 => Command = "scan on"
  BY DEF Steps, Command
<1>5. command = 2 => Command = "scan off"
  BY DEF Steps, Command
<1>6. command = 6 => Command = "advertise on"
  BY DEF Steps, Command
<1>7. command = 7 => Command = "advertise off"
  BY DEF Steps, Command
<1> QED BY <1>2, <1>3, <1>4, <1>5, <1>6, <1>7
LEMMA CaptureSteps ==
    ASSUME mode = "capture", command \in Nat, command < Len(Steps)
    PROVE  /\ Command \in {"filter", "set", "scan on"} /\ Len(Steps) = 3
           /\ command + 1 # 3 => Command # "scan on"
<1>1. Len(Steps) = 3
  BY DEF Steps
<1>2. command \in {0, 1, 2}
  BY <1>1
<1>3. CASE command = 0
  BY <1>3 DEF Steps, Command
<1>4. CASE command = 1
  BY <1>4 DEF Steps, Command
<1>5. CASE command = 2
  BY <1>5 DEF Steps, Command
<1> QED BY <1>1, <1>2, <1>3, <1>4, <1>5
LEMMA SendSteps ==
    ASSUME mode = "send", command \in Nat, command < Len(Steps)
    PROVE  Command \in {"set", "advertise on"}
<1>1. Len(Steps) = 4
  BY DEF Steps
<1>2. command \in {0, 1, 2, 3}
  BY <1>1
<1>3. CASE command = 0
  BY <1>3 DEF Steps, Command
<1>4. CASE command = 1
  BY <1>4 DEF Steps, Command
<1>5. CASE command = 2
  BY <1>5 DEF Steps, Command
<1>6. CASE command = 3
  BY <1>6 DEF Steps, Command
<1> QED BY <1>2, <1>3, <1>4, <1>5, <1>6
LEMMA SomeSteps == Len(Steps) \in Nat /\ Len(Steps) > 0 /\ (mode = "probe" => Len(Steps) = 8)
BY DEF Steps

LEMMA WakeStarts == WakeInit => WakeInv
<1> SUFFICES ASSUME WakeInit PROVE WakeInv
    OBVIOUS
<1>1. WakeTypeOK
  <2>1. Len(Steps) \in Nat
    BY DEF WakeInit, Steps
  <2>2. service \in BOOLEAN /\ wasActive \in BOOLEAN /\ scanning \in BOOLEAN /\ advertising \in BOOLEAN
        /\ deaf \in BOOLEAN /\ ok \in BOOLEAN /\ heard \in BOOLEAN
    BY DEF WakeInit
  <2>3. command \in 0 .. Len(Steps) /\ happenings \in 0 .. MaxHappenings
    BY <2>1, WakeAssumption DEF WakeInit
  <2> QED BY <2>2, <2>3 DEF WakeInit, WakeTypeOK
<1> QED BY <1>1 DEF WakeInit, WakeInv, HelperLeavesClean, RadioLeftSilent, ProbeTellsTheTruth

LEMMA WakeKept == WakeInv /\ [WakeNext]_wakeVars => WakeInv'
<1> SUFFICES ASSUME WakeInv, [WakeNext]_wakeVars PROVE WakeInv'
    OBVIOUS
<1> DEFINE Length == Len(Steps)
<1>0. mode' = mode
  BY DEF WakeNext, wakeVars, ScriptNext, ProgramNext, ScriptAsks, ScriptStops, ScriptRan,
         ScriptRestores,
         Setup, StepDone, StepFails, Listened, Cleanup, Report, HelperKilled
<1>1. Steps' = Steps
  BY <1>0 DEF Steps
<1> USE WakeAssumption
        DEF WakeInv, WakeTypeOK, HelperLeavesClean, RadioLeftSilent, ProbeTellsTheTruth,
            adapterVars, programVars, scriptVars, Exit
<1>2. Length \in Nat /\ Length > 0
  BY SomeSteps
<1>3. CASE ScriptAsks
  BY <1>1, <1>2, <1>3 DEF ScriptAsks
<1>4. CASE ScriptStops
  BY <1>1, <1>2, <1>4 DEF ScriptStops
<1>15. UNCHANGED <<place, command>> => ScanEnableFailed' = ScanEnableFailed
  BY <1>0, <1>1 DEF ScanEnableFailed, Command
<1>5. CASE ScriptRan
  BY <1>1, <1>2, <1>5, <1>15 DEF ScriptRan
<1>6. CASE ScriptRestores
  <2>1. /\ script' \in {"over", "unstarted"} /\ service' \in BOOLEAN
        /\ UNCHANGED <<mode, adapterVars, programVars, wasActive>>
    BY <1>6 DEF ScriptRestores
  <2> QED BY <1>1, <1>2, <1>15, <2>1
<1>7. CASE Setup
  <2>1. mode = "send" => scanning' = FALSE /\ advertising' \in BOOLEAN
    BY <1>7 DEF Setup
  <2>2. mode # "send" => scanning' = FALSE /\ advertising' = FALSE
    BY <1>7 DEF Setup
  <2>3. CASE place' = "gone"
    <3>1. code' = "failure" /\ UNCHANGED adapterVars
      BY <1>7, <2>3 DEF Setup
    <3> QED BY <1>0, <1>1, <1>2, <1>7, <2>3, <3>1 DEF Setup
  <2>4. CASE place' = "steps"
    <3>1. code' = code /\ deaf' = deaf
      BY <1>7, <2>4 DEF Setup
    <3>2. WakeTypeOK'
      BY <1>0, <1>1, <1>2, <1>7, <2>1, <2>2, <2>4, <3>1 DEF Setup
    <3>3. (place = "steps" => command < Len(Steps))'
      BY <1>0, <1>1, <1>2, <1>7, <2>1, <2>2, <2>4, <3>1 DEF Setup
    <3> QED BY <1>0, <1>1, <1>7, <2>1, <2>2, <2>4, <3>1, <3>2, <3>3 DEF Setup
  <2> QED BY <1>7, <2>3, <2>4 DEF Setup
<1>8. CASE StepDone
  <2>0. /\ command < Len(Steps) /\ command \in Nat /\ command' = command + 1
       /\ command' \in Nat /\ command' =< Len(Steps)
    BY <1>2, <1>8 DEF StepDone
  <2>8. (command \in 0 .. Len(Steps))'
    BY <1>1, <1>2, <2>0
  <2>9. UNCHANGED <<mode, deaf, ok, heard, happenings, code, script, service, wasActive>> /\ place = "steps"
    BY <1>8 DEF StepDone
  <2>1. CASE mode = "probe"
    <3>1. command \in {0, 1, 2, 3, 4, 5, 6, 7}
      BY <2>0, <2>1, ProbeSteps
    <3>2. ok /\ scanning' => command = 1
      <4>1. Command = "scan on" => command = 1
        BY <2>0, <2>1, <3>1, ProbeSteps
      <4>2. ok /\ scanning => Command = "scan off"
        BY <1>8, <2>0, <2>1, ProbeSteps DEF StepDone
      <4> QED BY <1>8, <4>1, <4>2 DEF StepDone, Carried
    <3>3. ok /\ advertising' => command = 6
      <4>1. Command = "advertise on" => command = 6
        BY <2>0, <2>1, <3>1, ProbeSteps
      <4>2. ok /\ advertising => Command = "advertise off"
        BY <1>8, <2>0, <2>1, ProbeSteps DEF StepDone
      <4> QED BY <1>8, <4>1, <4>2 DEF StepDone, Carried
    <3>4. scanning' \in BOOLEAN /\ advertising' \in BOOLEAN
      BY <1>8 DEF StepDone, Carried
    <3>5. place' = IF command' = 8 THEN "cleanup" ELSE "steps"
      BY <1>8, <2>0, <2>1, SomeSteps DEF StepDone, After
    <3>6. (ok /\ scanning => command = 2)' /\ (ok /\ advertising => command = 7)'
      BY <1>8, <2>0, <3>2, <3>3 DEF StepDone
    <3>8. WakeTypeOK'
      BY <1>0, <1>1, <1>2, <1>8, <2>0, <2>1, <3>4, <3>5, <3>6 DEF StepDone
    <3>7. Len(Steps) = 8 /\ command' \in Nat /\ command' =< 8
      BY <2>0, <2>1, SomeSteps
    <3>9. (place = "steps" => command < Len(Steps))'
      BY <1>1, <3>5, <3>7
    <3> QED BY <1>0, <1>1, <1>8, <2>0, <2>1, <3>4, <3>5, <3>6, <3>8, <3>9, SomeSteps DEF StepDone
  <2>2. CASE mode = "capture"
    <3>1. scanning' \in BOOLEAN /\ advertising' = FALSE
      BY <1>8, <2>0, <2>2, CaptureSteps DEF StepDone, Carried
    <3>2. place' = IF command' = Len(Steps) THEN "listen" ELSE "steps"
      BY <1>8, <2>0, <2>2 DEF StepDone, After
    <3>7. place' \in {"listen", "steps"}
      BY <3>2
    <3>10. place' = "steps" => ~scanning'
      BY <1>8, <2>0, <2>2, <3>2, CaptureSteps DEF StepDone, Carried
    <3>8. WakeTypeOK'
      BY <2>8, <2>9, <2>2, <3>1, <3>7
    <3>9. (place = "steps" => command < Len(Steps))'
      BY <1>1, <1>2, <2>0, <3>2
    <3> QED BY <2>9, <2>2, <3>1, <3>7, <3>8, <3>9, <3>10
  <2>3. CASE mode = "send"
    <3>1. scanning' = FALSE /\ advertising' \in BOOLEAN
      BY <1>8, <2>0, <2>3, SendSteps DEF StepDone, Carried
    <3>2. place' = IF command' = Len(Steps) THEN "cleanup" ELSE "steps"
      BY <1>8, <2>0, <2>3 DEF StepDone, After
    <3>7. place' \in {"cleanup", "steps"}
      BY <3>2
    <3>8. WakeTypeOK'
      BY <2>8, <2>9, <2>3, <3>1, <3>7
    <3>9. (place = "steps" => command < Len(Steps))'
      BY <1>1, <1>2, <2>0, <3>2
    <3> QED BY <2>9, <2>3, <3>1, <3>7, <3>8, <3>9
  <2> QED BY <2>1, <2>2, <2>3
<1>9. CASE StepFails
  <2>0. command < Len(Steps) /\ command \in Nat /\ command' = command
    BY <1>2, <1>9 DEF StepFails
  <2>1. scanning' \in BOOLEAN /\ advertising' \in BOOLEAN
    BY <1>9 DEF StepFails, Carried
  <2>2. CASE mode = "capture"
    <3>1. advertising' = FALSE
      BY <1>9, <2>0, <2>2, CaptureSteps DEF StepFails, Carried
    <3>2. ScanEnableFailed' \/ ~scanning'
      <4>1. CASE Command = "scan on"
        BY <1>0, <1>1, <1>9, <2>0, <2>2, <4>1 DEF StepFails, ScanEnableFailed, Command
      <4>2. CASE Command # "scan on"
        BY <1>9, <2>0, <2>2, <4>2 DEF StepFails, Carried
      <4> QED BY <4>1, <4>2
    <3> HIDE DEF ScanEnableFailed
    <3> QED BY <1>0, <1>1, <1>2, <1>9, <2>0, <2>1, <2>2, <3>1, <3>2 DEF StepFails
  <2>3. CASE mode = "send"
    <3>1. scanning' = FALSE
      BY <1>9, <2>0, <2>3, SendSteps DEF StepFails, Carried
    <3> QED BY <1>0, <1>1, <1>2, <1>9, <2>0, <2>1, <2>3, <3>1 DEF StepFails
  <2>4. CASE mode = "probe"
    BY <1>0, <1>1, <1>2, <1>9, <2>0, <2>1, <2>4 DEF StepFails
  <2> QED BY <2>2, <2>3, <2>4
<1>10. CASE Listened
  BY <1>1, <1>2, <1>10 DEF Listened
<1>11. CASE Cleanup
  BY <1>1, <1>2, <1>11 DEF Cleanup, Status, Offs
<1>12. CASE Report
  BY <1>1, <1>2, <1>12 DEF Report
<1>13. CASE HelperKilled("killed")
  BY <1>1, <1>2, <1>13 DEF HelperKilled
<1>14. CASE UNCHANGED wakeVars
  BY <1>1, <1>2, <1>14, <1>15 DEF wakeVars
<1> QED BY <1>3, <1>4, <1>5, <1>6, <1>7, <1>8, <1>9, <1>10, <1>11, <1>12, <1>13, <1>14
        DEF WakeNext, ScriptNext, ProgramNext

\* However a wake goes - refused steps, a stop, a failed cleanup - a program
\* that ends by itself leaves the radio silent, unless the adapter refused to be
\* stopped or it is a capture whose LE Scan Enable failed.
THEOREM HelperClean == WakeSpec => [](WakeTypeOK /\ HelperLeavesClean)
<1>1. WakeInv => WakeTypeOK /\ HelperLeavesClean
  BY DEF WakeInv
<1> QED BY <1>1, WakeStarts, WakeKept, PTL DEF WakeSpec

----------------------------------------------------------------------------
(* The Bluetooth backend: its console, and the adapter it borrows. *)

\* Where the start of a session is when it comes to what it keeps or sets.
LEMMA PairingSteps ==
    ASSUME pairing = TRUE, step \in Nat, step < Len(Start)
    PROVE  /\ Len(Start) = 12 /\ Next1 \notin {"key", "connect"}
           /\ step = 0 <=> Next1 = "saved"
           /\ step = 2 <=> Next1 = "class read"
           /\ step = 9 <=> Next1 = "Discoverable"
           /\ Next1 = "Class" => step >= 3
<1>1. Start = PairingStart
  BY DEF Start
<1>2. Len(Start) = 12
  BY <1>1 DEF PairingStart
<1>3. step \in {0, 1, 2, 3, 4, 5, 6, 7, 8, 9, 10, 11}
  BY <1>2
<1>4. CASE step = 0
  <2>1. Next1 = PairingStart[1]
    BY <1>1, <1>4 DEF Next1
  <2>2. PairingStart[1] = "saved"
    BY DEF PairingStart
  <2> QED BY <1>2, <1>4, <2>1, <2>2
<1>5. CASE step = 1
  <2>1. Next1 = PairingStart[2]
    BY <1>1, <1>5 DEF Next1
  <2>2. PairingStart[2] = "Powered"
    BY DEF PairingStart
  <2> QED BY <1>2, <1>5, <2>1, <2>2
<1>6. CASE step = 2
  <2>1. Next1 = PairingStart[3]
    BY <1>1, <1>6 DEF Next1
  <2>2. PairingStart[3] = "class read"
    BY DEF PairingStart
  <2>3. Next1 = "class read"
    BY <2>1, <2>2
  <2>4. Next1 \notin {"key", "connect", "saved", "Discoverable", "Class"}
    BY <2>3
  <2>5. step # 0 /\ step # 9
    BY <1>6
  <2> QED BY <1>2, <1>6, <2>3, <2>4, <2>5
<1>7. CASE step = 3
  <2>1. Next1 = PairingStart[4]
    BY <1>1, <1>7 DEF Next1
  <2>2. PairingStart[4] = "capture"
    BY DEF PairingStart
  <2> QED BY <1>2, <1>7, <2>1, <2>2
<1>8. CASE step = 4
  <2>1. Next1 = PairingStart[5]
    BY <1>1, <1>8 DEF Next1
  <2>2. PairingStart[5] = "agent"
    BY DEF PairingStart
  <2> QED BY <1>2, <1>8, <2>1, <2>2
<1>9. CASE step = 5
  <2>1. Next1 = PairingStart[6]
    BY <1>1, <1>9 DEF Next1
  <2>2. PairingStart[6] = "listeners"
    BY DEF PairingStart
  <2> QED BY <1>2, <1>9, <2>1, <2>2
<1>10. CASE step = 6
  <2>1. Next1 = PairingStart[7]
    BY <1>1, <1>10 DEF Next1
  <2>2. PairingStart[7] = "Alias"
    BY DEF PairingStart
  <2> QED BY <1>2, <1>10, <2>1, <2>2
<1>11. CASE step = 7
  <2>1. Next1 = PairingStart[8]
    BY <1>1, <1>11 DEF Next1
  <2>2. PairingStart[8] = "Timeouts"
    BY DEF PairingStart
  <2> QED BY <1>2, <1>11, <2>1, <2>2
<1>12. CASE step = 8
  <2>1. Next1 = PairingStart[9]
    BY <1>1, <1>12 DEF Next1
  <2>2. PairingStart[9] = "Pairable"
    BY DEF PairingStart
  <2> QED BY <1>2, <1>12, <2>1, <2>2
<1>13. CASE step = 9
  <2>1. Next1 = PairingStart[10]
    BY <1>1, <1>13 DEF Next1
  <2>2. PairingStart[10] = "Discoverable"
    BY DEF PairingStart
  <2> QED BY <1>2, <1>13, <2>1, <2>2
<1>14. CASE step = 10
  <2>1. Next1 = PairingStart[11]
    BY <1>1, <1>14 DEF Next1
  <2>2. PairingStart[11] = "Class"
    BY DEF PairingStart
  <2> QED BY <1>2, <1>14, <2>1, <2>2
<1>15. CASE step = 11
  <2>1. Next1 = PairingStart[12]
    BY <1>1, <1>15 DEF Next1
  <2>2. PairingStart[12] = "control"
    BY DEF PairingStart
  <2> QED BY <1>2, <1>15, <2>1, <2>2
<1> QED BY <1>3, <1>4, <1>5, <1>6, <1>7, <1>8, <1>9, <1>10, <1>11, <1>12, <1>13, <1>14, <1>15

LEMMA KeySteps ==
    ASSUME pairing = FALSE, step \in Nat, step < Len(Start)
    PROVE  /\ Len(Start) = 10
           /\ step = 0 <=> Next1 = "saved"
           /\ step = 2 <=> Next1 = "class read"
           /\ Next1 = "key" => step = 3
           /\ Next1 = "connect" => step = 8
           /\ Next1 = "Class" => step >= 3
<1>1. Start = KeyStart
  BY DEF Start
<1>2. Len(Start) = 10
  BY <1>1 DEF KeyStart
<1>3. step \in {0, 1, 2, 3, 4, 5, 6, 7, 8, 9}
  BY <1>2
<1>4. CASE step = 0
  <2>1. Next1 = KeyStart[1]
    BY <1>1, <1>4 DEF Next1
  <2>2. KeyStart[1] = "saved"
    BY DEF KeyStart
  <2> QED BY <1>2, <1>4, <2>1, <2>2
<1>5. CASE step = 1
  <2>1. Next1 = KeyStart[2]
    BY <1>1, <1>5 DEF Next1
  <2>2. KeyStart[2] = "Powered"
    BY DEF KeyStart
  <2> QED BY <1>2, <1>5, <2>1, <2>2
<1>6. CASE step = 2
  <2>1. Next1 = KeyStart[3]
    BY <1>1, <1>6 DEF Next1
  <2>2. KeyStart[3] = "class read"
    BY DEF KeyStart
  <2>3. Next1 = "class read"
    BY <2>1, <2>2
  <2>4. Next1 \notin {"key", "connect", "saved", "Class"}
    BY <2>3
  <2>5. step # 0 /\ step # 9
    BY <1>6
  <2> QED BY <1>2, <1>6, <2>3, <2>4, <2>5
<1>7. CASE step = 3
  <2>1. Next1 = KeyStart[4]
    BY <1>1, <1>7 DEF Next1
  <2>2. KeyStart[4] = "key"
    BY DEF KeyStart
  <2> QED BY <1>2, <1>7, <2>1, <2>2
<1>8. CASE step = 4
  <2>1. Next1 = KeyStart[5]
    BY <1>1, <1>8 DEF Next1
  <2>2. KeyStart[5] = "Alias"
    BY DEF KeyStart
  <2> QED BY <1>2, <1>8, <2>1, <2>2
<1>9. CASE step = 5
  <2>1. Next1 = KeyStart[6]
    BY <1>1, <1>9 DEF Next1
  <2>2. KeyStart[6] = "Pairable"
    BY DEF KeyStart
  <2> QED BY <1>2, <1>9, <2>1, <2>2
<1>10. CASE step = 6
  <2>1. Next1 = KeyStart[7]
    BY <1>1, <1>10 DEF Next1
  <2>2. KeyStart[7] = "Discoverable"
    BY DEF KeyStart
  <2> QED BY <1>2, <1>10, <2>1, <2>2
<1>11. CASE step = 7
  <2>1. Next1 = KeyStart[8]
    BY <1>1, <1>11 DEF Next1
  <2>2. KeyStart[8] = "Class"
    BY DEF KeyStart
  <2> QED BY <1>2, <1>11, <2>1, <2>2
<1>12. CASE step = 8
  <2>1. Next1 = KeyStart[9]
    BY <1>1, <1>12 DEF Next1
  <2>2. KeyStart[9] = "connect"
    BY DEF KeyStart
  <2> QED BY <1>2, <1>12, <2>1, <2>2
<1>13. CASE step = 9
  <2>1. Next1 = KeyStart[10]
    BY <1>1, <1>13 DEF Next1
  <2>2. KeyStart[10] = "control"
    BY DEF KeyStart
  <2> QED BY <1>2, <1>13, <2>1, <2>2
<1> QED BY <1>3, <1>4, <1>5, <1>6, <1>7, <1>8, <1>9, <1>10, <1>11, <1>12, <1>13


\* What is not to be undone yet is as it was found, unless an undoing failed.
AdapterIsKnown ==
    /\ restored => \A key \in Keys \ armed : adapter[key] = found[key]
    /\ life = "over" => armed = {}
    /\ life = "loop" => armed = Keys
    /\ life = "start" => /\ step < Len(Start)
                         /\ step >= 1 => Keys \ {"Class"} \subseteq armed
                         /\ step >= 3 => "Class" \in armed

\* A link belongs to the last console, is slow until it is set up, and once it
\* is lost a pairing session is visible, or has a reason not to be.
LinkIsKnown ==
    /\ ~Apart => lastPeer # NoConsole
    /\ leaving => ready
    /\ Together /\ ~slow => ready
HandoffsEnd ==
    /\ ShuttingDown => ~handoff
    /\ handoff => attempts < MaxHandoffs
PairingIsOpen ==
    /\ life = "loop" /\ pairing => adapter["Discoverable"] \/ handoff \/ byKey \/ excused \/ ~Apart
    /\ life = "start" /\ pairing /\ step >= 10 => adapter["Discoverable"]

BackendInv == BackendTypeOK /\ OneConsole /\ AdapterIsKnown /\ LinkIsKnown /\ HandoffsEnd /\ PairingIsOpen

LEMMA ApartMeans ==
    \A both \in [1 .. 2 -> Consoles \cup {NoConsole}] :
        both = [i \in 1 .. 2 |-> NoConsole] <=> both[1] = NoConsole /\ both[2] = NoConsole
OBVIOUS

LEMMA StartIsShort == /\ Len(Start) \in Nat /\ Len(Start) >= 10
                      /\ pairing = TRUE => Len(Start) = 12
                      /\ pairing = FALSE => Len(Start) = 10
<1>1. CASE pairing
  <2>1. Len(PairingStart) = 12
    BY DEF PairingStart
  <2>2. Start = PairingStart
    BY <1>1 DEF Start
  <2>3. Len(Start) = 12
    BY <2>1, <2>2
  <2> QED BY <1>1, <2>3
<1>2. CASE ~pairing
  <2>1. Len(KeyStart) = 10
    BY DEF KeyStart
  <2>2. Start = KeyStart
    BY <1>2 DEF Start
  <2>3. Len(Start) = 10
    BY <2>1, <2>2
  <2> QED BY <1>2, <2>3
<1> QED BY <1>1, <1>2

LEMMA AdapterKept == BackendInv /\ [BackendNext]_backendVars => AdapterIsKnown'
<1> SUFFICES ASSUME BackendInv, [BackendNext]_backendVars PROVE AdapterIsKnown'
    OBVIOUS
<1>0. /\ adapter \in [Keys -> BOOLEAN] /\ found \in [Keys -> BOOLEAN] /\ armed \subseteq Keys
      /\ step \in Nat /\ Len(Start) \in Nat /\ pairing \in BOOLEAN
  BY StartIsShort DEF BackendInv, BackendTypeOK
<1>00. AdapterIsKnown
  BY DEF BackendInv
<1>1. CASE UNCHANGED mainVars
  BY <1>00, <1>1 DEF AdapterIsKnown, mainVars, Start
<1>2. CASE StartStep
  <2>1. life = "start" /\ step < Len(Start) /\ step' = step + 1 /\ UNCHANGED <<pairing, found, restored>>
    BY <1>00, <1>2 DEF StartStep, AdapterIsKnown
  <2>2. Start' = Start
    BY <2>1 DEF Start
  <2>3. /\ step = 0 <=> Next1 = "saved"
        /\ step = 2 <=> Next1 = "class read"
        /\ Next1 = "Class" => step >= 3
    <3>1. CASE pairing = TRUE
      BY <1>0, <2>1, <3>1, PairingSteps
    <3>2. CASE pairing = FALSE
      BY <1>0, <2>1, <3>2, KeySteps
    <3> QED BY <1>0, <3>1, <3>2
  <2>7. life' = IF step' = Len(Start) THEN "loop" ELSE "start"
    BY <1>2, <2>1 DEF StartStep
  <2>8. life' = "start" => step' < Len(Start)
    <3>1. step' \in Nat /\ step' =< Len(Start)
      BY <1>0, <2>1
    <3> QED BY <1>0, <2>7, <3>1
  <2>9. life' = "loop" => step >= 9
    <3>1. Len(Start) >= 10
      BY StartIsShort
    <3>2. life' = "loop" => step + 1 = Len(Start)
      BY <2>1, <2>7
    <3>3. CASE life' = "loop"
      <4>1. step + 1 >= 10
        BY <3>1, <3>2, <3>3
      <4> QED BY <1>0, <4>1
    <3> QED BY <3>3
  <2>4. CASE Next1 = "saved"
    <3>1. adapter' = adapter /\ armed' = armed \cup (Keys \ {"Class"}) /\ step = 0
      BY <1>2, <2>3, <2>4 DEF StartStep, Done, Keys
    <3>2. life' = "start" /\ step' < Len(Start)
      BY <2>7, <2>8, <2>9, <3>1
    <3> QED BY <1>0, <1>00, <2>1, <2>2, <3>1, <3>2 DEF AdapterIsKnown
  <2>5. CASE Next1 = "class read"
    <3>1. adapter' = adapter /\ armed' = armed \cup {"Class"} /\ step = 2
      BY <1>2, <2>3, <2>5 DEF StartStep, Done, Keys
    <3>2. life' = "start" /\ step' < Len(Start)
      BY <2>7, <2>8, <2>9, <3>1
    <3>3. Keys \ {"Class"} \subseteq armed
      BY <1>00, <2>1, <3>1 DEF AdapterIsKnown
    <3> QED BY <1>0, <1>00, <2>1, <2>2, <3>1, <3>2, <3>3 DEF AdapterIsKnown
  <2>6. CASE Next1 \notin {"saved", "class read"}
    <3>1. armed' = armed /\ adapter' = Done(Next1) /\ step # 0 /\ step # 2
      BY <1>2, <2>3, <2>6 DEF StartStep
    <3>2. Keys \ {"Class"} \subseteq armed /\ (step >= 3 => "Class" \in armed)
      BY <1>0, <1>00, <2>1, <3>1 DEF AdapterIsKnown
    <3>3. Next1 \in Keys => Next1 \in armed
      BY <2>3, <3>2
    <3>4. \A key \in Keys \ armed : adapter'[key] = adapter[key]
      BY <1>0, <3>1, <3>3 DEF Done
    <3>5. step' >= 3 => step >= 3
      BY <1>0, <2>1, <3>1
    <3>6. life' = "loop" => step >= 3
      BY <1>0, <2>9
    <3>7. life' = "start" \/ life' = "loop"
      BY <1>2, <2>1 DEF StartStep
    <3>8. life' = "start" => step' < Len(Start)
      BY <2>8
    <3>9. life' = "loop" => armed = Keys
      BY <1>0, <3>2, <3>6
    <3> QED BY <1>00, <2>1, <2>2, <3>1, <3>2, <3>4, <3>5, <3>7, <3>8, <3>9 DEF AdapterIsKnown
  <2> QED BY <2>4, <2>5, <2>6
<1>3. CASE step' = step + 1 /\ UNCHANGED <<life, adapter, found, armed, restored, pairing>> /\ pairing = FALSE
           /\ step \in {3, 8}
  <2>1. Start' = Start
    BY <1>3 DEF Start
  <2>2. Len(Start) = 10 /\ step' \in {4, 9}
    BY <1>3, StartIsShort
  <2>3. step >= 1 /\ step >= 3 /\ step' < Len(Start')
    BY <1>3, <2>1, <2>2
  <2> QED BY <1>00, <1>3, <2>1, <2>3 DEF AdapterIsKnown
<1>4. CASE life' \in {"drain", "restore", "killed"} /\ UNCHANGED <<step, adapter, found, armed, restored, pairing>>
  BY <1>00, <1>4 DEF AdapterIsKnown
<1>5. CASE StartKey
  BY <1>0, <1>00, <1>3, <1>5, KeySteps, PairingSteps DEF StartKey, AdapterIsKnown
<1>6. CASE StartConnect
  BY <1>0, <1>00, <1>3, <1>4, <1>6, KeySteps, PairingSteps DEF StartConnect, AdapterIsKnown,
         BeginDrain
<1>7. CASE StartFails \/ Killed \/ Quits \/ Drained
  BY <1>4, <1>7 DEF StartFails, Killed, Quits, Drained, BeginDrain
<1>8. CASE HandoffConnects \/ HandoffFails
  <2>1. life = "loop" /\ armed = Keys /\ UNCHANGED <<life, step, found, armed, restored, pairing>>
    BY <1>00, <1>8 DEF HandoffConnects, HandoffFails, AdapterIsKnown
  <2> QED BY <2>1 DEF AdapterIsKnown
<1>9. CASE Restore
  <2>1. PICK key \in armed : /\ armed' = armed \ {key}
                             /\ \/ adapter' = [adapter EXCEPT ![key] = found[key]] /\ UNCHANGED restored
                                \/ restored' = FALSE /\ UNCHANGED adapter
    BY <1>9 DEF Restore, RestoreOrder
  <2>2. life = "restore" /\ UNCHANGED <<life, step, found, pairing>>
    BY <1>9 DEF Restore
  <2> QED BY <1>0, <1>00, <2>1, <2>2 DEF AdapterIsKnown
<1>10. CASE Ended
  BY <1>00, <1>10 DEF Ended, AdapterIsKnown
<1>11. CASE LinkNext
  <2>1. CASE VisibleTimeEnds
    <3>1. life = "loop" /\ armed = Keys /\ UNCHANGED <<life, step, found, armed, restored, pairing>>
      BY <1>00, <2>1 DEF VisibleTimeEnds, AdapterIsKnown
    <3> QED BY <3>1 DEF AdapterIsKnown
  <2> QED BY <1>1, <1>11, <2>1 DEF LinkNext, LinkReady, Hangup, KeyByManagement, KeyByMonitor, Accept
<1>12. CASE HandoffIdle \/ HandoffKeyless \/ Released \/ LeavingGrip \/ LeftGrip
  BY <1>1, <1>12 DEF HandoffIdle, HandoffKeyless, Released, LeavingGrip, LeftGrip
<1>13. CASE ClientNext
  BY <1>1, <1>13 DEF ClientNext, Incoming, RequestInput, RequestStop, RequestOther, ClientGone,
         RequestReconnect
<1>14. CASE UNCHANGED backendVars
  BY <1>1, <1>14 DEF backendVars
<1> QED BY <1>2, <1>5, <1>6, <1>7, <1>8, <1>9, <1>10, <1>11, <1>12, <1>13, <1>14
        DEF BackendNext, StartNext, HandoffNext, TickNext, CleanupNext

LinkTypes ==
    /\ channel \in [1 .. 2 -> Consoles \cup {NoConsole}]
    /\ peer \in Consoles \cup {NoConsole} /\ lastPeer \in Consoles \cup {NoConsole}
    /\ ready \in BOOLEAN /\ slow \in BOOLEAN /\ leaving \in BOOLEAN /\ left \in BOOLEAN

\* What a step may do to the link.
LEMMA LinkSteps ==
    ASSUME BackendTypeOK, [BackendNext]_backendVars
    PROVE  \/ UNCHANGED linkVars
           \/ NoLink /\ UNCHANGED lastPeer
           \/ \E c \in Consoles : Connected(c)
           \/ \E c \in Consoles : NotConnected(c)
           \/ \E c \in Consoles, i \in 1 .. 2 : Accept(i, c)
           \/ LinkReady \/ LeavingGrip \/ LeftGrip
<1> DEFINE Goal == \/ UNCHANGED linkVars
                   \/ NoLink /\ UNCHANGED lastPeer
                   \/ \E c \in Consoles : Connected(c)
                   \/ \E c \in Consoles : NotConnected(c)
                   \/ \E c \in Consoles, i \in 1 .. 2 : Accept(i, c)
                   \/ LinkReady \/ LeavingGrip \/ LeftGrip
<1>1. CASE StartNext
  <2>1. CASE StartConnect
    BY <2>1 DEF StartConnect
  <2> QED BY <1>1, <2>1 DEF StartNext, StartStep, StartKey, StartFails, Killed
<1>2. CASE LinkNext
  BY <1>2 DEF LinkNext, Hangup, ResetLink, VisibleTimeEnds, KeyByManagement, KeyByMonitor
<1>3. CASE HandoffNext
  <2>1. CASE HandoffIdle \/ HandoffKeyless
    BY <2>1 DEF HandoffIdle, HandoffKeyless
  <2>2. CASE HandoffConnects
    <3>1. Connected(lastPeer) /\ lastPeer \in Consoles
      BY <2>2 DEF HandoffConnects, Readable, BackendTypeOK
    <3> QED BY <3>1
  <2>3. CASE HandoffFails
    <3>1. NotConnected(lastPeer) /\ lastPeer \in Consoles
      BY <2>3 DEF HandoffFails, Readable, BackendTypeOK
    <3> QED BY <3>1
  <2> QED BY <1>3, <2>1, <2>2, <2>3 DEF HandoffNext
<1>4. CASE TickNext
  BY <1>4 DEF TickNext, Released, Quits
<1>5. CASE ClientNext
  BY <1>5 DEF ClientNext, Incoming, RequestInput, RequestStop, RequestOther, ClientGone,
         RequestReconnect
<1>6. CASE CleanupNext
  BY <1>6 DEF CleanupNext, Drained, Restore, Ended, ResetLink
<1>7. CASE UNCHANGED backendVars
  BY <1>7 DEF backendVars
<1> QED BY <1>1, <1>2, <1>3, <1>4, <1>5, <1>6, <1>7 DEF BackendNext

LEMMA LinkKept ==
    ASSUME BackendTypeOK, OneConsole, [BackendNext]_backendVars
    PROVE  LinkTypes' /\ OneConsole'
<1>0. LinkTypes /\ NoConsole \notin Consoles
  BY BackendAssumption DEF BackendTypeOK, LinkTypes
<1> DEFINE None == [i \in 1 .. 2 |-> NoConsole]
<1>1. None \in [1 .. 2 -> Consoles \cup {NoConsole}] /\ None[1] = NoConsole /\ None[2] = NoConsole
  OBVIOUS
<1>2. CASE UNCHANGED linkVars
  BY <1>0, <1>2 DEF linkVars, LinkTypes, OneConsole, Apart
<1>3. CASE NoLink /\ UNCHANGED lastPeer
  BY <1>0, <1>1, <1>3 DEF NoLink, LinkTypes, OneConsole
<1>4. ASSUME NEW c \in Consoles, Connected(c) PROVE LinkTypes' /\ OneConsole'
  <2>1. channel' = [i \in 1 .. 2 |-> c] /\ peer' = c /\ lastPeer' = c
    BY <1>4 DEF Connected
  <2>2. channel' # None
    BY <1>0, <2>1
  <2> QED BY <1>0, <1>4, <2>1, <2>2 DEF Connected, LinkTypes, OneConsole, Apart
<1>5. ASSUME NEW c \in Consoles, NotConnected(c) PROVE LinkTypes' /\ OneConsole'
  BY <1>0, <1>1, <1>5 DEF NotConnected, LinkTypes, OneConsole
<1>6. ASSUME NEW c \in Consoles, NEW i \in 1 .. 2, Accept(i, c) PROVE LinkTypes' /\ OneConsole'
  <2>1. /\ channel' = [channel EXCEPT ![i] = c] /\ peer' = c /\ lastPeer' = c
        /\ channel[i] = NoConsole /\ peer \in {NoConsole, c} /\ UNCHANGED <<ready, left>>
    BY <1>6 DEF Accept, MayJoin
  <2>2. slow' \in BOOLEAN /\ leaving' \in BOOLEAN
    BY <1>0, <1>6 DEF Accept, LinkTypes
  <2>3. channel' # None /\ channel'[i] = c
    BY <1>0, <1>1, <2>1 DEF LinkTypes
  <2> QED BY <1>0, <2>1, <2>2, <2>3 DEF LinkTypes, OneConsole, Apart
<1>7. CASE LinkReady \/ LeavingGrip \/ LeftGrip
  BY <1>0, <1>7 DEF LinkReady, LeavingGrip, LeftGrip, LinkTypes, OneConsole, Apart
<1> QED BY <1>2, <1>3, <1>4, <1>5, <1>6, <1>7, LinkSteps

LEMMA LinkStaysKnown ==
    ASSUME BackendTypeOK, LinkIsKnown, [BackendNext]_backendVars
    PROVE  LinkIsKnown'
<1>0. LinkTypes /\ NoConsole \notin Consoles
  BY BackendAssumption DEF BackendTypeOK, LinkTypes
<1> DEFINE None == [i \in 1 .. 2 |-> NoConsole]
<1>1. None[1] = NoConsole /\ None[2] = NoConsole
  OBVIOUS
<1>2. CASE UNCHANGED linkVars
  BY <1>2 DEF linkVars, LinkIsKnown, Apart, Together
<1>3. CASE NoLink /\ UNCHANGED lastPeer
  BY <1>1, <1>3 DEF NoLink, LinkIsKnown, Apart, Together
<1>4. ASSUME NEW c \in Consoles, Connected(c) PROVE LinkIsKnown'
  BY <1>0, <1>4 DEF Connected, LinkIsKnown
<1>5. ASSUME NEW c \in Consoles, NotConnected(c) PROVE LinkIsKnown'
  BY <1>1, <1>5 DEF NotConnected, LinkIsKnown, Apart, Together
<1>6. ASSUME NEW c \in Consoles, NEW i \in 1 .. 2, Accept(i, c) PROVE LinkIsKnown'
  <2>1. /\ channel' = [channel EXCEPT ![i] = c] /\ lastPeer' = c /\ ready' = ready
        /\ IF channel[3 - i] # NoConsole THEN slow' = TRUE /\ leaving' = FALSE ELSE UNCHANGED <<slow, leaving>>
    BY <1>6 DEF Accept
  <2>2. CASE i = 1
    <3>1. channel'[2] = channel[2] /\ channel[3 - i] = channel[2]
      BY <1>0, <2>1, <2>2 DEF LinkTypes
    <3> QED BY <1>0, <2>1, <3>1 DEF LinkIsKnown, Together
  <2>3. CASE i = 2
    <3>1. channel'[1] = channel[1] /\ channel[3 - i] = channel[1]
      BY <1>0, <2>1, <2>3 DEF LinkTypes
    <3> QED BY <1>0, <2>1, <3>1 DEF LinkIsKnown, Together
  <2> QED BY <2>2, <2>3
<1>7. CASE LinkReady
  BY <1>7 DEF LinkReady, LinkIsKnown, Apart
<1>8. CASE LeavingGrip \/ LeftGrip
  BY <1>8 DEF LeavingGrip, LeftGrip, GripExit, LinkIsKnown, Apart, Together
<1> QED BY <1>2, <1>3, <1>4, <1>5, <1>6, <1>7, <1>8, LinkSteps

LEMMA HandoffsStillEnd ==
    ASSUME BackendTypeOK, HandoffsEnd, [BackendNext]_backendVars
    PROVE  HandoffsEnd'
<1>0. attempts \in Nat /\ MaxHandoffs \in Nat \ {0} /\ handoff \in BOOLEAN
  BY BackendAssumption DEF BackendTypeOK
<1> USE DEF HandoffsEnd, ShuttingDown
<1>1. CASE UNCHANGED <<life, handoff, attempts>>
  BY <1>1
<1>2. CASE handoff' = FALSE
  BY <1>2
<1>3. ASSUME ResetLink, life' = life \/ life = "drain" PROVE HandoffsEnd'
  BY <1>0, <1>3 DEF ResetLink
<1>4. CASE StartNext
  <2>1. CASE life' \in {"start", "loop", "killed"} /\ UNCHANGED <<handoff, attempts>>
    BY <2>1
  <2>2. CASE StartStep \/ StartKey \/ Killed
    BY <2>1, <2>2 DEF StartStep, StartKey, Killed, pairVars
  <2>3. CASE StartFails
    BY <1>2, <2>3 DEF StartFails, BeginDrain
  <2>4. CASE StartConnect
    BY <1>2, <2>1, <2>4 DEF StartConnect, BeginDrain
  <2> QED BY <1>4, <2>2, <2>3, <2>4 DEF StartNext
<1>5. CASE LinkNext
  <2>1. CASE Hangup
    BY <1>3, <2>1 DEF Hangup, mainVars
  <2>2. CASE VisibleTimeEnds
    BY <1>1, <2>2 DEF VisibleTimeEnds
  <2> QED BY <1>1, <1>5, <2>1, <2>2 DEF LinkNext, LinkReady, KeyByManagement, KeyByMonitor, Accept,
         mainVars, pairVars
<1>6. CASE HandoffFails
  BY <1>0, <1>6 DEF HandoffFails, MoreHandoffs
<1>7. CASE HandoffIdle \/ HandoffKeyless \/ HandoffConnects \/ Quits
  BY <1>2, <1>7 DEF HandoffIdle, HandoffKeyless, HandoffConnects, Quits, BeginDrain
<1>8. CASE Released \/ LeavingGrip \/ LeftGrip
  BY <1>1, <1>8 DEF Released, LeavingGrip, LeftGrip, mainVars, pairVars
<1>9. CASE ClientNext
  BY <1>1, <1>9 DEF ClientNext, Incoming, RequestInput, RequestStop, RequestOther, ClientGone,
         RequestReconnect,
     mainVars, pairVars
<1>10. CASE Drained
  BY <1>3, <1>10 DEF Drained
<1>11. CASE Restore \/ Ended
  BY <1>11 DEF Restore, Ended, pairVars
<1>12. CASE UNCHANGED backendVars
  BY <1>1, <1>12 DEF backendVars, mainVars, pairVars
<1> QED BY <1>4, <1>5, <1>6, <1>7, <1>8, <1>9, <1>10, <1>11, <1>12
        DEF BackendNext, HandoffNext, TickNext, CleanupNext

LEMMA PairingStaysOpen ==
    ASSUME BackendTypeOK, AdapterIsKnown, LinkIsKnown, PairingIsOpen, [BackendNext]_backendVars
    PROVE  PairingIsOpen'
<1>0. /\ step \in Nat /\ pairing \in BOOLEAN /\ adapter \in [Keys -> BOOLEAN] /\ "Discoverable" \in Keys
      /\ Len(Start) \in Nat
  BY StartIsShort DEF BackendTypeOK, Keys
<1> USE DEF PairingIsOpen
<1>1. CASE life' \notin {"start", "loop"}
  BY <1>1
<1>2. CASE UNCHANGED <<life, step, adapter, pairing, handoff, byKey, excused, channel>>
  BY <1>2 DEF Apart
<1>3. CASE StartStep
  <2>1. life = "start" /\ step' = step + 1 /\ UNCHANGED pairing /\ adapter' = Done(Next1)
    BY <1>3 DEF StartStep
  <2>2. step < Len(Start)
    BY <2>1 DEF AdapterIsKnown
  <2>3. CASE pairing = FALSE
    BY <2>1, <2>3
  <2>4. CASE pairing = TRUE /\ step < 9
    <3>1. life' = "start" /\ step' < 10
      <4>1. Len(Start) = 12 /\ step + 1 # 12 /\ step + 1 < 10
        BY <1>0, <2>4, StartIsShort
      <4>2. life' = IF step + 1 = Len(Start) THEN "loop" ELSE life
        BY <1>3 DEF StartStep
      <4> QED BY <2>1, <4>1, <4>2
    <3>2. ~(step' >= 10)
      BY <1>0, <2>1, <3>1
    <3> QED BY <3>1, <3>2
  <2>5. CASE pairing = TRUE /\ step >= 9
    <3>1. step = 9 <=> Next1 = "Discoverable"
      BY <1>0, <2>2, <2>5, PairingSteps
    <3>2. adapter'["Discoverable"] = TRUE
      <4>1. CASE Next1 = "Discoverable"
        BY <1>0, <2>1, <2>5, <4>1 DEF Done, Ours
      <4>2. CASE Next1 # "Discoverable"
        <5>1. adapter["Discoverable"]
          <6>1. step >= 10
            BY <1>0, <2>5, <3>1, <4>2
          <6> QED BY <2>1, <2>5, <6>1
        <5>2. adapter'["Discoverable"] = adapter["Discoverable"]
          BY <1>0, <2>1, <4>2 DEF Done
        <5> QED BY <1>0, <5>1, <5>2
      <4> QED BY <4>1, <4>2
    <3> QED BY <3>2
  <2>6. step < 9 \/ step >= 9
    BY <1>0
  <2> QED BY <1>0, <2>3, <2>4, <2>5, <2>6
<1>4. CASE StartKey
  <2>1. pairing = FALSE
    BY <1>0, <1>4, PairingSteps DEF StartKey, AdapterIsKnown
  <2> QED BY <1>4, <2>1 DEF StartKey
<1>5. CASE StartConnect
  <2>1. pairing = FALSE /\ life = "start"
    BY <1>0, <1>5, PairingSteps DEF StartConnect, AdapterIsKnown
  <2> QED BY <1>5, <2>1 DEF StartConnect, BeginDrain
<1>6. CASE StartFails \/ Killed \/ Quits \/ Drained \/ Restore \/ Ended
  BY <1>1, <1>6 DEF StartFails, Killed, Quits, Drained, Restore, Ended, BeginDrain
<1>7. CASE Hangup
  <2>1. lastPeer # NoConsole /\ life' = life /\ UNCHANGED <<step, pairing, adapter, byKey, excused>>
    BY <1>7 DEF Hangup, LinkIsKnown, ResetLink, mainVars
  <2>2. life = "loop" /\ ~byKey => handoff'
    BY <1>7, <2>1 DEF Hangup, ResetLink, ShuttingDown
  <2>3. life # "start"
    BY <1>7 DEF Hangup, Looping
  <2> QED BY <2>1, <2>2, <2>3
<1>8. ASSUME NEW i \in 1 .. 2, NEW c \in Consoles, Accept(i, c) PROVE PairingIsOpen'
  <2>1. ~Apart'
    BY <1>8, BackendAssumption DEF Accept, Apart, BackendTypeOK
  <2>2. life' # "start"
    BY <1>8 DEF Accept, Looping, mainVars
  <2> QED BY <2>1, <2>2
<1>9. CASE LinkNext
  <2>1. CASE LinkReady
    BY <1>2, <2>1 DEF LinkReady, mainVars, pairVars
  <2>2. ASSUME NEW c \in Consoles, KeyByManagement(c) \/ KeyByMonitor(c) PROVE PairingIsOpen'
    BY <1>2, <2>2 DEF KeyByManagement, KeyByMonitor, mainVars, pairVars, linkVars
  <2>3. CASE VisibleTimeEnds
    BY <2>3 DEF VisibleTimeEnds
  <2> QED BY <1>7, <1>8, <1>9, <2>1, <2>2, <2>3 DEF LinkNext
<1>10. CASE HandoffIdle
  <2>1. UNCHANGED <<life, step, adapter, pairing, byKey, excused, channel>>
    BY <1>10 DEF HandoffIdle, mainVars, linkVars
  <2>2. life = "loop" => ~Apart
    BY <1>10 DEF HandoffIdle, ShuttingDown
  <2>3. life # "start"
    BY <1>10 DEF HandoffIdle, Looping
  <2> QED BY <2>1, <2>2, <2>3 DEF Apart
<1>11. CASE HandoffKeyless
  BY <1>11 DEF HandoffKeyless, mainVars
<1>12. CASE HandoffConnects
  BY <1>12 DEF HandoffConnects
<1>13. CASE HandoffFails
  BY <1>0, <1>13 DEF HandoffFails, GiveUpHandoff
<1>14. CASE Released \/ LeavingGrip \/ LeftGrip
  BY <1>2, <1>14 DEF Released, LeavingGrip, LeftGrip, mainVars, pairVars, linkVars
<1>15. ASSUME NEW q \in Clients, NEW c \in Consoles, RequestReconnect(q, c) PROVE PairingIsOpen'
  BY <1>15 DEF RequestReconnect, Answered, Looping, mainVars
<1>16. CASE ClientNext
  <2>1. ASSUME NEW q \in Clients, Incoming(q) \/ RequestInput(q) \/ RequestStop(q) \/ RequestOther(q) \/ ClientGone(q)
        PROVE  PairingIsOpen'
    BY <1>2, <2>1 DEF Incoming, RequestInput, RequestStop, RequestOther, ClientGone, mainVars,
           pairVars, linkVars
  <2> QED BY <1>15, <1>16, <2>1 DEF ClientNext
<1>17. CASE UNCHANGED backendVars
  BY <1>2, <1>17 DEF backendVars, mainVars, pairVars, linkVars
<1> QED BY <1>3, <1>4, <1>5, <1>6, <1>9, <1>10, <1>11, <1>12, <1>13, <1>14, <1>16, <1>17
        DEF BackendNext, StartNext, HandoffNext, TickNext, CleanupNext

LEMMA BackendStarts == BackendInit => BackendInv
<1> SUFFICES ASSUME BackendInit PROVE BackendInv
    OBVIOUS
<1> DEFINE None == [i \in 1 .. 2 |-> NoConsole]
<1>1. None[1] = NoConsole /\ None[2] = NoConsole /\ None \in [1 .. 2 -> Consoles \cup {NoConsole}]
  OBVIOUS
<1>2. BackendTypeOK
  <2>1. step \in 0 .. Len(Start) /\ attempts \in 0 .. MaxHandoffs /\ deeds \in 0 .. MaxDeeds
    BY StartIsShort, BackendAssumption DEF BackendInit
  <2>2. /\ pairing \in BOOLEAN /\ byKey \in BOOLEAN /\ channel \in [1 .. 2 -> Consoles \cup {NoConsole}]
        /\ client \in [Clients -> {"none", "reading", "writing"}] /\ keyed \subseteq Consoles
    BY <1>1 DEF BackendInit
  <2> QED BY <2>1, <2>2 DEF BackendInit, BackendTypeOK
<1>3. OneConsole
  BY <1>1 DEF BackendInit, OneConsole
<1>4. AdapterIsKnown
  BY StartIsShort DEF BackendInit, AdapterIsKnown
<1>5. LinkIsKnown
  BY <1>1 DEF BackendInit, LinkIsKnown, Apart, Together
<1>6. HandoffsEnd /\ PairingIsOpen
  BY DEF BackendInit, HandoffsEnd, PairingIsOpen, ShuttingDown
<1> QED BY <1>2, <1>3, <1>4, <1>5, <1>6 DEF BackendInv

MainTypes ==
    /\ life \in {"start", "loop", "drain", "restore", "over", "killed"} /\ step \in 0 .. Len(Start)
    /\ adapter \in [Keys -> BOOLEAN] /\ found \in [Keys -> BOOLEAN] /\ armed \subseteq Keys
    /\ restored \in BOOLEAN /\ pairing \in BOOLEAN
PairTypes ==
    /\ byKey \in BOOLEAN /\ handoff \in BOOLEAN /\ excused \in BOOLEAN /\ attempts \in 0 .. MaxHandoffs
DeskTypes ==
    /\ keyed \subseteq Consoles /\ keySeen \in BOOLEAN
    /\ hand \in {"none", "press", "exit"} /\ releaseSet \in BOOLEAN /\ stopAsked \in BOOLEAN
    /\ client \in [Clients -> {"none", "reading", "writing"}] /\ deeds \in 0 .. MaxDeeds

LEMMA TypesAreTheirs == BackendTypeOK <=> MainTypes /\ LinkTypes /\ PairTypes /\ DeskTypes
BY DEF BackendTypeOK, MainTypes, LinkTypes, PairTypes, DeskTypes

LEMMA MainTypesKept ==
    ASSUME BackendTypeOK, AdapterIsKnown, [BackendNext]_backendVars
    PROVE  MainTypes'
<1>0. MainTypes /\ Len(Start) \in Nat /\ "Timeouts" \in Keys /\ "Pairable" \in Keys /\ "Discoverable" \in Keys
  BY StartIsShort DEF BackendTypeOK, MainTypes, Keys
<1> USE DEF MainTypes
<1>1. CASE UNCHANGED mainVars
  BY <1>0, <1>1 DEF mainVars, Start
<1>2. ASSUME UNCHANGED <<step, found, pairing>>, life' \in {"start", "loop", "drain", "restore", "over", "killed"},
             adapter' \in [Keys -> BOOLEAN], armed' \subseteq Keys, restored' \in BOOLEAN
      PROVE  MainTypes'
  BY <1>0, <1>2 DEF Start
<1>3. CASE StartStep
  <2>1. life = "start" /\ step < Len(Start) /\ step' = step + 1 /\ UNCHANGED <<found, restored, pairing>>
    BY <1>3 DEF StartStep, AdapterIsKnown
  <2>2. Start' = Start
    BY <2>1 DEF Start
  <2>3. step' \in 0 .. Len(Start)
    BY <1>0, <2>1
  <2>4. adapter' \in [Keys -> BOOLEAN]
    BY <1>0, <1>3 DEF StartStep, Done, Ours
  <2>5. armed' \subseteq Keys
    BY <1>0, <1>3 DEF StartStep, Keys
  <2>6. life' \in {"start", "loop"}
    BY <1>3, <2>1 DEF StartStep
  <2> QED BY <1>0, <2>1, <2>2, <2>3, <2>4, <2>5, <2>6
<1>4. ASSUME life = "start", step' = step + 1, UNCHANGED <<life, adapter, found, armed, restored, pairing>> PROVE MainTypes'
  <2>1. Start' = Start
    BY <1>4 DEF Start
  <2>2. step' \in 0 .. Len(Start)
    BY <1>0, <1>4 DEF AdapterIsKnown
  <2> QED BY <1>0, <1>4, <2>1, <2>2
<1>5. CASE StartKey
  BY <1>4, <1>5 DEF StartKey
<1>6. CASE StartConnect
  BY <1>0, <1>2, <1>4, <1>6 DEF StartConnect, BeginDrain
<1>7. CASE StartFails \/ Killed \/ Quits \/ Drained \/ Ended
  BY <1>0, <1>2, <1>7 DEF StartFails, Killed, Quits, Drained, Ended, BeginDrain
<1>8. CASE HandoffConnects \/ HandoffFails
  <2>1. adapter' \in [Keys -> BOOLEAN]
    BY <1>0, <1>8 DEF HandoffConnects, HandoffFails, Hidden, GiveUpHandoff
  <2> QED BY <1>0, <1>2, <1>8, <2>1 DEF HandoffConnects, HandoffFails
<1>9. CASE Restore
  <2>1. PICK key \in armed : /\ armed' = armed \ {key}
                             /\ \/ adapter' = [adapter EXCEPT ![key] = found[key]] /\ UNCHANGED restored
                                \/ restored' = FALSE /\ UNCHANGED adapter
    BY <1>9 DEF Restore, RestoreOrder
  <2>2. adapter' \in [Keys -> BOOLEAN] /\ restored' \in BOOLEAN /\ armed' \subseteq Keys
    BY <1>0, <2>1
  <2> QED BY <1>0, <1>2, <1>9, <2>2 DEF Restore
<1>11. CASE LinkNext
  <2>1. CASE VisibleTimeEnds
    <3>1. adapter' \in [Keys -> BOOLEAN] /\ UNCHANGED <<life, step, found, armed, restored, pairing>>
      BY <1>0, <2>1 DEF VisibleTimeEnds
    <3> QED BY <1>0, <1>2, <3>1
  <2> QED BY <1>1, <1>11, <2>1 DEF LinkNext, LinkReady, Hangup, KeyByManagement, KeyByMonitor, Accept
<1>12. CASE HandoffIdle \/ HandoffKeyless \/ Released \/ LeavingGrip \/ LeftGrip
  BY <1>1, <1>12 DEF HandoffIdle, HandoffKeyless, Released, LeavingGrip, LeftGrip
<1>13. CASE ClientNext
  BY <1>1, <1>13 DEF ClientNext, Incoming, RequestInput, RequestStop, RequestOther, ClientGone,
         RequestReconnect
<1>14. CASE UNCHANGED backendVars
  BY <1>1, <1>14 DEF backendVars
<1> QED BY <1>3, <1>5, <1>6, <1>7, <1>8, <1>9, <1>11, <1>12, <1>13, <1>14
        DEF BackendNext, StartNext, HandoffNext, TickNext, CleanupNext

LEMMA PairTypesKept ==
    ASSUME BackendTypeOK, HandoffsEnd, [BackendNext]_backendVars
    PROVE  PairTypes'
<1>0. PairTypes /\ MaxHandoffs \in Nat \ {0} /\ attempts \in Nat
  BY BackendAssumption DEF BackendTypeOK, PairTypes
<1> USE DEF PairTypes
<1>1. CASE UNCHANGED pairVars
  BY <1>0, <1>1 DEF pairVars
<1>2. ASSUME byKey' \in BOOLEAN, handoff' \in BOOLEAN, excused' \in BOOLEAN, attempts' \in {0, attempts}
      PROVE  PairTypes'
  BY <1>0, <1>2
<1>3. ASSUME ResetLink, UNCHANGED excused PROVE PairTypes'
  BY <1>0, <1>2, <1>3 DEF ResetLink
<1>4. CASE StartNext
  <2>1. CASE StartStep \/ StartKey \/ Killed
    BY <1>1, <2>1 DEF StartStep, StartKey, Killed
  <2>2. CASE StartFails \/ StartConnect
    BY <1>0, <1>2, <2>2 DEF StartFails, StartConnect, BeginDrain
  <2> QED BY <1>4, <2>1, <2>2 DEF StartNext
<1>5. CASE LinkNext
  <2>1. CASE Hangup
    BY <1>3, <2>1 DEF Hangup
  <2>2. CASE VisibleTimeEnds
    BY <1>0, <1>2, <2>2 DEF VisibleTimeEnds
  <2> QED BY <1>1, <1>5, <2>1, <2>2 DEF LinkNext, LinkReady, KeyByManagement, KeyByMonitor, Accept
<1>6. CASE HandoffFails
  <2>1. handoff /\ attempts' = attempts + 1 /\ byKey' = FALSE /\ handoff' \in BOOLEAN
    BY <1>0, <1>6 DEF HandoffFails, MoreHandoffs
  <2>2. excused' \in BOOLEAN
    BY <1>0, <1>6 DEF HandoffFails, GiveUpHandoff
  <2>3. attempts + 1 \in 0 .. MaxHandoffs
    BY <1>0, <2>1 DEF HandoffsEnd
  <2> QED BY <2>1, <2>2, <2>3
<1>7. CASE HandoffIdle \/ HandoffKeyless \/ HandoffConnects \/ Quits
  BY <1>0, <1>2, <1>7 DEF HandoffIdle, HandoffKeyless, HandoffConnects, Quits, BeginDrain
<1>8. CASE Released \/ LeavingGrip \/ LeftGrip
  BY <1>1, <1>8 DEF Released, LeavingGrip, LeftGrip
<1>9. CASE ClientNext
  <2>1. ASSUME NEW q \in Clients, NEW c \in Consoles, RequestReconnect(q, c) PROVE PairTypes'
    BY <1>0, <1>2, <2>1 DEF RequestReconnect
  <2> QED BY <1>1, <1>9, <2>1 DEF ClientNext, Incoming, RequestInput, RequestStop, RequestOther,
         ClientGone
<1>10. CASE CleanupNext
  <2>1. CASE Drained
    BY <1>3, <2>1 DEF Drained
  <2> QED BY <1>1, <1>10, <2>1 DEF CleanupNext, Restore, Ended
<1>11. CASE UNCHANGED backendVars
  BY <1>1, <1>11 DEF backendVars
<1> QED BY <1>4, <1>5, <1>6, <1>7, <1>8, <1>9, <1>10, <1>11 DEF BackendNext, HandoffNext, TickNext

LEMMA DeskTypesKept ==
    ASSUME BackendTypeOK, [BackendNext]_backendVars
    PROVE  DeskTypes'
<1>0. DeskTypes /\ MaxDeeds \in Nat
  BY BackendAssumption DEF BackendTypeOK, DeskTypes
<1>21. Deed => deeds' \in 0 .. MaxDeeds
  BY <1>0 DEF Deed, DeskTypes
<1> USE DEF DeskTypes, handVars
<1>1. CASE UNCHANGED <<keyed, keySeen, handVars, client, stopAsked, deeds>>
  BY <1>0, <1>1
<1>2. CASE StartNext
  <2>1. CASE Killed
    BY <1>0, <1>21, <2>1 DEF Killed
  <2> QED BY <1>1, <1>2, <2>1 DEF StartNext, StartStep, StartKey, StartFails, StartConnect
<1>3. CASE LinkReady
  BY <1>1, <1>3 DEF LinkReady
<1>22. CASE VisibleTimeEnds
  BY <1>0, <1>21, <1>22 DEF VisibleTimeEnds
<1>4. CASE Hangup
  BY <1>0, <1>4 DEF Hangup, ResetLink
<1>5. ASSUME NEW c \in Consoles, KeyByManagement(c) \/ KeyByMonitor(c) PROVE DeskTypes'
  <2>1. keyed' \subseteq Consoles
    BY <1>0, <1>5 DEF KeyByManagement, KeyByMonitor, Saved
  <2> QED BY <1>0, <1>5, <1>21, <2>1 DEF KeyByManagement, KeyByMonitor
<1>6. ASSUME NEW c \in Consoles, NEW i \in 1 .. 2, Accept(i, c) PROVE DeskTypes'
  BY <1>0, <1>6 DEF Accept, Deed
<1>7. CASE HandoffNext
  BY <1>1, <1>7 DEF HandoffNext, HandoffIdle, HandoffKeyless, HandoffConnects, HandoffFails
<1>8. CASE Released
  BY <1>0, <1>8 DEF Released
<1>9. CASE LeavingGrip \/ LeftGrip
  BY <1>1, <1>9 DEF LeavingGrip, LeftGrip
<1>10. CASE Quits
  BY <1>0, <1>10 DEF Quits, Deed
<1>11. ASSUME NEW q \in Clients, Answered(q) PROVE client' \in [Clients -> {"none", "reading", "writing"}]
  BY <1>0, <1>11 DEF Answered
<1>12. ASSUME NEW q \in Clients, Incoming(q) PROVE DeskTypes'
  <2>1. client' \in [Clients -> {"none", "reading", "writing"}]
    BY <1>0, <1>12 DEF Incoming
  <2> QED BY <1>0, <1>12, <2>1 DEF Incoming, Deed
<1>13. ASSUME NEW q \in Clients, RequestInput(q) PROVE DeskTypes'
  <2>1. client' \in [Clients -> {"none", "reading", "writing"}]
    BY <1>11, <1>13 DEF RequestInput
  <2> QED BY <1>0, <1>13, <2>1 DEF RequestInput
<1>14. ASSUME NEW q \in Clients, RequestStop(q) \/ RequestOther(q) PROVE DeskTypes'
  BY <1>0, <1>11, <1>14 DEF RequestStop, RequestOther
<1>15. ASSUME NEW q \in Clients, NEW c \in Consoles, RequestReconnect(q, c) PROVE DeskTypes'
  BY <1>0, <1>11, <1>15 DEF RequestReconnect
<1>16. ASSUME NEW q \in Clients, ClientGone(q) PROVE DeskTypes'
  <2>1. client' \in [Clients -> {"none", "reading", "writing"}]
    BY <1>0, <1>16 DEF ClientGone
  <2> QED BY <1>0, <1>16, <2>1 DEF ClientGone
<1>17. CASE ClientNext
  BY <1>12, <1>13, <1>14, <1>15, <1>16, <1>17 DEF ClientNext
<1>18. CASE Drained
  BY <1>0, <1>18 DEF Drained, ResetLink
<1>19. CASE Restore \/ Ended
  BY <1>1, <1>19 DEF Restore, Ended
<1>20. CASE UNCHANGED backendVars
  BY <1>1, <1>20 DEF backendVars
<1> QED BY <1>2, <1>3, <1>4, <1>5, <1>6, <1>7, <1>8, <1>9, <1>10, <1>17, <1>18, <1>19, <1>20, <1>22
        DEF BackendNext, LinkNext, TickNext, CleanupNext

\* The backend gives the adapter back as it was found, whatever step fails or
\* ends the session, drives one console and hands over what it has to.
THEOREM BackendLendsTheAdapter ==
    BackendSpec => [](BackendTypeOK /\ OneConsole /\ AdapterGivenBack /\ HandoffsAreSafe)
<1>1. BackendInv /\ [BackendNext]_backendVars => BackendInv'
  <2> SUFFICES ASSUME BackendInv, [BackendNext]_backendVars PROVE BackendInv'
      OBVIOUS
  <2>1. BackendTypeOK'
    <3>1. MainTypes' /\ LinkTypes' /\ PairTypes' /\ DeskTypes'
      BY MainTypesKept, LinkKept, PairTypesKept, DeskTypesKept DEF BackendInv
    <3> QED BY <3>1 DEF BackendTypeOK, MainTypes, LinkTypes, PairTypes, DeskTypes
  <2>2. OneConsole' /\ AdapterIsKnown' /\ LinkIsKnown' /\ HandoffsEnd' /\ PairingIsOpen'
    BY LinkKept, AdapterKept, LinkStaysKnown, HandoffsStillEnd, PairingStaysOpen DEF BackendInv
  <2> QED BY <2>1, <2>2 DEF BackendInv
<1>2. BackendInv => BackendTypeOK /\ OneConsole /\ AdapterGivenBack /\ HandoffsAreSafe
  <2> SUFFICES ASSUME BackendInv
               PROVE  BackendTypeOK /\ OneConsole /\ AdapterGivenBack /\ HandoffsAreSafe
      OBVIOUS
  <2>1. BackendTypeOK /\ OneConsole /\ AdapterIsKnown /\ LinkIsKnown /\ HandoffsEnd /\ PairingIsOpen
    BY DEF BackendInv
  <2>2. AdapterGivenBack
    <3> SUFFICES ASSUME life = "over", restored PROVE adapter = found
        BY DEF AdapterGivenBack
    <3>1. \A key \in Keys : adapter[key] = found[key]
      BY <2>1 DEF AdapterIsKnown
    <3>2. adapter \in [Keys -> BOOLEAN] /\ found \in [Keys -> BOOLEAN]
      BY <2>1 DEF BackendTypeOK
    <3> QED BY <3>1, <3>2
  <2>3. HandoffsAreSafe
    BY <2>1 DEF LinkIsKnown, HandoffsEnd, PairingIsOpen, HandoffsAreSafe
  <2> QED BY <2>1, <2>2, <2>3
<1> QED BY <1>1, <1>2, BackendStarts, PTL DEF BackendSpec
=============================================================================
