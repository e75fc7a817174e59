------------------------------- MODULE MCHost -------------------------------
(***************************************************************************)
(* The components of the host, checked side by side: they share no state,  *)
(* so a behaviour is one of one component (part) while the others stay as  *)
(* they start.  A property of one component holds in the behaviours of the *)
(* others because it holds in its own initial states.                      *)
(***************************************************************************)
EXTENDS OutputTitan, NativeStream, WebRtcClients, WebServer, WakeHelper, CaptureDevice,
        PcbleBackend, PadSupervisor, ConsoleChain, Pace, AudioCapture, PadPicture, TLC

CONSTANTS
    Parts,  \* which of them take part
    Founds, \* how the backend may find the adapter
    a, g, c1, c2, p1, p2, yuyv, mjpeg

VARIABLE part

hostVars == <<part, titanVars, nativeVars, rtcVars, webVars, wakeVars, deviceVars,
              backendVars, supervisorVars, consoleVars, paceVars, audioVars,
              padPictureVars>>
notTitan == <<part, nativeVars, rtcVars, webVars, wakeVars, deviceVars, backendVars,
              supervisorVars, consoleVars, paceVars, audioVars, padPictureVars>>
notNative == <<part, titanVars, rtcVars, webVars, wakeVars, deviceVars, backendVars,
               supervisorVars, consoleVars, paceVars, audioVars, padPictureVars>>
notRtc == <<part, titanVars, nativeVars, webVars, wakeVars, deviceVars, backendVars,
            supervisorVars, consoleVars, paceVars, audioVars, padPictureVars>>
notWeb == <<part, titanVars, nativeVars, rtcVars, wakeVars, deviceVars, backendVars,
            supervisorVars, consoleVars, paceVars, audioVars, padPictureVars>>
notWake == <<part, titanVars, nativeVars, rtcVars, webVars, deviceVars, backendVars,
             supervisorVars, consoleVars, paceVars, audioVars, padPictureVars>>
notDevice == <<part, titanVars, nativeVars, rtcVars, webVars, wakeVars, backendVars,
               supervisorVars, consoleVars, paceVars, audioVars, padPictureVars>>
notBackend == <<part, titanVars, nativeVars, rtcVars, webVars, wakeVars, deviceVars,
                supervisorVars, consoleVars, paceVars, audioVars, padPictureVars>>
notSupervisor == <<part, titanVars, nativeVars, rtcVars, webVars, wakeVars, deviceVars,
                   backendVars, consoleVars, paceVars, audioVars, padPictureVars>>
notConsole == <<part, titanVars, nativeVars, rtcVars, webVars, wakeVars, deviceVars,
                backendVars, supervisorVars, paceVars, audioVars, padPictureVars>>
notPace == <<part, titanVars, nativeVars, rtcVars, webVars, wakeVars, deviceVars,
             backendVars, supervisorVars, consoleVars, audioVars, padPictureVars>>
notAudio == <<part, titanVars, nativeVars, rtcVars, webVars, wakeVars, deviceVars,
              backendVars, supervisorVars, consoleVars, paceVars, padPictureVars>>
notPadPicture == <<part, titanVars, nativeVars, rtcVars, webVars, wakeVars, deviceVars,
                   backendVars, supervisorVars, consoleVars, paceVars, audioVars>>

\* Three kinds of card: both formats in one size; one format refused; and, as
\* on a USB 2 port, the raw format only offered small.
OneForAll == [f \in Formats |-> "1080p"]
Small == [f \in Formats |-> IF f = mjpeg THEN "1080p" ELSE "480p"]
AllModels == {[accepted |-> {yuyv, mjpeg}, size |-> OneForAll],
              [accepted |-> {mjpeg}, size |-> OneForAll],
              [accepted |-> {yuyv, mjpeg}, size |-> Small]}

AnySetting == {setting \in [Keys -> BOOLEAN] :
                   \A key \in {"Alias", "Timeouts", "Class", "Discoverable"} : ~setting[key]}
UsualSetting == {[key \in Keys |-> FALSE]}

\* A part that does not run starts in one state only.
Init ==
    /\ part \in Parts
    /\ TitanInit /\ NativeInit /\ RtcInit /\ WebInit /\ WakeInit /\ DeviceInit /\ BackendInit
    /\ SupervisorInit /\ ConsoleInit /\ PaceInit /\ AudioInit /\ PadPictureInit
    /\ part # "titan" => protocol = 1
    /\ part # "web" => envTransport = "webrtc"
    /\ part # "device" => model = [accepted |-> {yuyv, mjpeg}, size |-> OneForAll]
    /\ part # "wake" => mode = "probe" /\ ~service
    /\ found \in Founds
    /\ part # "backend" => found \in UsualSetting /\ keyed = {} /\ pairing
    /\ part # "supervisor" => ~enabled /\ ~native /\ ~wiiuPad.built
    /\ part # "audio" => recording = "sounds" /\ ~localWanted

Next ==
    \/ part = "titan" /\ TitanNext /\ UNCHANGED notTitan
    \/ part = "native" /\ NativeNext /\ UNCHANGED notNative
    \/ part = "rtc" /\ RtcNext /\ UNCHANGED notRtc
    \/ part = "web" /\ WebNext /\ UNCHANGED notWeb
    \/ part = "wake" /\ WakeNext /\ UNCHANGED notWake
    \/ part = "device" /\ DeviceNext /\ UNCHANGED notDevice
    \/ part = "backend" /\ BackendNext /\ UNCHANGED notBackend
    \/ part = "supervisor" /\ SupervisorNext /\ UNCHANGED notSupervisor
    \/ part = "console" /\ ConsoleNext /\ UNCHANGED notConsole
    \/ part = "pace" /\ PaceNext /\ UNCHANGED notPace
    \/ part = "audio" /\ AudioNext /\ UNCHANGED notAudio
    \/ part = "padPicture" /\ PadPictureNext /\ UNCHANGED notPadPicture

Spec == Init /\ [][Next]_hostVars

\* Connections and pages are interchangeable (for the safety properties).
Symmetry == Permutations(Conns) \cup Permutations(Pages)

\* The variables of the part that runs, and the fairness of that part, with one
\* slot, one page and one connection.  The part never changes, so fairness of one
\* action of each part is fairness of every one of them.
partVars ==
    CASE part = "titan" -> titanVars
      [] part = "native" -> nativeVars
      [] part = "rtc" -> rtcVars
      [] part = "web" -> webVars
      [] part = "wake" -> wakeVars
      [] part = "device" -> deviceVars
      [] part = "supervisor" -> supervisorVars
      [] part = "audio" -> audioVars
      [] part = "padPicture" -> padPictureVars
      [] OTHER -> <<>>

Weak1 ==
    /\ UNCHANGED part
    /\ \/ part = "titan" /\ SendThread
       \/ part = "native" /\ AcceptThread
       \/ part = "rtc" /\ LoopThread
       \/ part = "web" /\ Listener
       \/ part = "wake" /\ ScriptNext
       \/ part = "device" /\ DeviceLoop
       \/ part = "supervisor" /\ MainLoop
       \/ part = "audio" /\ CaptureNext
       \/ part = "padPicture" /\ HostChanges
Weak2 ==
    /\ UNCHANGED part
    /\ \/ part = "titan" /\ LeaveCapture
       \/ part = "native" /\ KeyTick
       \/ part = "rtc" /\ OfferThread(p1)
       \/ part = "web" /\ Stopped
       \/ part = "wake" /\ ProgramNext
       \/ part = "device" /\ Second
       \/ part = "supervisor" /\ StopWaits(TRUE)
       \/ part = "audio" /\ (\E p \in PlayThreads : PlayerNext(p))
       \/ part = "padPicture" /\ PushSound
Weak3 ==
    /\ UNCHANGED part
    /\ \/ part = "titan" /\ TitanTime /\ lastFresh # lastFresh'
       \/ part = "native" /\ PeerLate(0)
       \/ part = "rtc" /\ Notice(p1)
       \/ part = "web" /\ Create
       \/ part = "device" /\ CardIn
       \/ part = "supervisor" /\ FreePad
       \/ part = "padPicture" /\ DrcTime
Weak4 ==
    /\ UNCHANGED part
    /\ \/ part = "titan" /\ TitanTime /\ realFresh # realFresh'
       \/ part = "rtc" /\ NoticeRings(p1)
       \/ part = "web" /\ LockoutEnds
       \/ part = "padPicture" /\ DeadlinePasses
Weak5 ==
    /\ UNCHANGED part
    /\ \/ part = "titan" /\ TitanTime /\ home # home'
       \/ part = "rtc" /\ ByeRings(p1)
       \/ part = "web" /\ ClientThread(c1)
       \/ part = "padPicture" /\ (\E loses \in BOOLEAN : PadReads(loses))
Weak6 ==
    /\ UNCHANGED part
    /\ part = "padPicture" /\ (\E hears \in BOOLEAN : HostHears(hears))
Strong1 ==
    /\ UNCHANGED part
    /\ \/ part = "titan" /\ Arrives
       \/ part = "native" /\ EncodeOld3ds
       \/ part = "rtc" /\ MakeOne(p1)
       \/ part = "device" /\ Reopen
       \/ part = "supervisor" /\ PollPad(TRUE)
       \/ part = "padPicture" /\ HostHears(TRUE)
Strong2 ==
    /\ UNCHANGED part
    /\ \/ part = "titan" /\ Opens
       \/ part = "native" /\ SendOld3ds
       \/ part = "rtc" /\ TearIdle
       \/ part = "padPicture" /\ wantCodec = "h264" /\ PushDrcH264(TRUE)
       \/ part = "padPicture" /\ wantCodec # "h264" /\ PushDrc(TRUE, TRUE) /\ DrcIdr
Strong3 ==
    /\ UNCHANGED part
    /\ \/ part = "native" /\ Reached(0)
       \/ part = "rtc" /\ Sweep
       \/ part = "padPicture" /\ PushDrc(TRUE, TRUE)
Strong4 ==
    /\ UNCHANGED part
    /\ part = "padPicture" /\ PadReads(FALSE) /\ Head(toPad) = "idr"
SlotFair(i) == UNCHANGED part /\ part = "rtc" /\ Silence(i) /\ slot[i].page \notin here

FairSpec ==
    /\ Spec
    /\ WF_partVars(Weak1) /\ WF_partVars(Weak2) /\ WF_partVars(Weak3)
    /\ WF_partVars(Weak4) /\ WF_partVars(Weak5) /\ WF_partVars(Weak6)
    /\ \A i \in RtcSlots : WF_partVars(SlotFair(i))
    /\ SF_partVars(Strong1) /\ SF_partVars(Strong2) /\ SF_partVars(Strong3) /\ SF_partVars(Strong4)

----------------------------------------------------------------------------
(* The properties of the parts that belong together. *)

\* The variables of every part keep their types.
HostTypes ==
    /\ TitanTypeOK /\ NativeTypeOK /\ RtcTypeOK /\ WebTypeOK /\ WakeTypeOK /\ DeviceTypeOK
    /\ BackendTypeOK /\ SupervisorTypeOK /\ ConsoleTypeOK /\ PaceTypeOK /\ AudioTypeOK
    /\ PadPictureTypeOK

\* The Bluetooth backend drives one console, gives the adapter back as it was
\* found, and hands over what it has to.
AdapterIsLent == OneConsole /\ AdapterGivenBack /\ HandoffsAreSafe

\* What two threads share is of one mind: one program for the pad, which no
\* start awaits after a stop; a scaler for the picture it scales; a playback
\* thread that is waited for before its stream goes; the pad's own encode,
\* offered when there is one; and no picture ahead of its screen time.
ThreadsAgree ==
    /\ OneChild /\ AskedToStop /\ PictureFits /\ FreedLast /\ PlayerIsKnown
    /\ OfferIsHonest /\ PaceInv /\ PaceBounded

\* Who is there sees pictures and hears.  A card whose size does not depend on
\* the format always comes back to delivering pictures, and its sound comes back
\* from a source that claimed to run while it did not; the native stream runs
\* with a keyframe behind every skip, and it counts who watches; a chain shows
\* every picture that is due; a pad sees pictures whichever encode it gets.
ViewersAreServed ==
    /\ []<>(part = "device" /\ OneSize => loopAt = "poll" /\ attached)
    /\ <>[](part = "audio" /\ appRunning /\ recording # "refused" /\ captureAt # "done")
           => []<><<\E opens \in BOOLEAN : Speakers(opens)>>_hostVars
    /\ PictureStarts /\ WatchedIsFed /\ PaceKeepsUp
    /\ <>[](part = "padPicture" /\ CanSee) => []<><<Shows>>_hostVars

\* Who left makes room: peers whose connection ended leave the native table,
\* pages the other, and a request that was given up is freed by the callback that
\* comes too late.  A peer that just says nothing any more ("gone, whatever the
\* socket thinks", SS_IDLE_TIMEOUT_MS) leaves if other clients or connections
\* make poll() return: the silence is only measured then, and one that is alone
\* keeps its place.
LeaversFreeTheirPlace ==
    /\ []<>(/\ \A i \in Slots : nativeClient[i].peer # "ended"
            /\ \A p \in Pages : request[p] # "abandoned")
    /\ []<><<TakeLock>>_nativeVars => []<>(\A i \in Slots : nativeClient[i].peer = "there")
    /\ LeaversMakeRoom

\* Whoever waits for an end gets it.  The program's end never waits for the
\* Titan adapter ("Sleeps in slices so shutdown is never made to wait",
\* interruptible_delay()); every web request ends, its socket closed or given
\* away, and a stop of the server returns; at the end of a wake the
\* Bluetooth service that ran before runs again or could not be started, also when
\* the program failed or was killed; the pad's program ends when it is stopped, and the sound with the
\* program.
WaitsEnd ==
    []<>(/\ titanRunning \/ tpc = "over"
         /\ (\A c \in Conns : fd[c] # "thread") /\ window # "wait"
         /\ wasActive => script = "unstarted" \/ (script = "over" /\ service)
         /\ (part = "supervisor" /\ lastAsk = "stop" => raced \/ Alive = {})
         /\ (part = "audio" => appRunning \/ captureAt = "done"))

\* What was asked for last is what comes: the console holds what is held, a pad
\* that is asked for runs or says why not, and a format asked of the card while
\* it is open is the one it runs, even if it is lost before the switch is done.
LatestCounts ==
    /\ SettlesOnLatest
    /\ AskedFormatRuns
    /\ part = "supervisor" => WantedRuns

=============================================================================
