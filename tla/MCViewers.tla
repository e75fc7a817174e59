----------------------------- MODULE MCViewers -----------------------------
(***************************************************************************)
(* What the clients show and say: the Switch and 3DS links and pictures,   *)
(* the Wii U GamePad's station, the Android picture, connections and       *)
(* bitrate, and the Wii U client's sound, checked side by side.  They      *)
(* share no state, so a behaviour is one of one part while the others stay *)
(* as they start.                                                          *)
(***************************************************************************)
EXTENDS SwitchLink, SwitchPictures, N3dsPictures, N3dsLink, PadStation, AndroidVideo,
        AndroidLink, AndroidBitrate, WiiuSound

CONSTANT Parts \* which of them take part

VARIABLE part

viewerVars == <<part, switchLinkVars, pictureVars, n3dsVars, n3dsLinkVars, stationVars,
                androidVideoVars, androidLinkVars, bitrateVars, soundVars>>
notLink == <<part, pictureVars, n3dsVars, n3dsLinkVars, stationVars, androidVideoVars,
             androidLinkVars, bitrateVars, soundVars>>
notPictures == <<part, switchLinkVars, n3dsVars, n3dsLinkVars, stationVars,
                 androidVideoVars, androidLinkVars, bitrateVars, soundVars>>
notN3dsPictures == <<part, switchLinkVars, pictureVars, n3dsLinkVars, stationVars,
                     androidVideoVars, androidLinkVars, bitrateVars, soundVars>>
notN3dsLink == <<part, switchLinkVars, pictureVars, n3dsVars, stationVars,
                 androidVideoVars, androidLinkVars, bitrateVars, soundVars>>
notStation == <<part, switchLinkVars, pictureVars, n3dsVars, n3dsLinkVars,
                androidVideoVars, androidLinkVars, bitrateVars, soundVars>>
notAndroidVideo == <<part, switchLinkVars, pictureVars, n3dsVars, n3dsLinkVars,
                     stationVars, androidLinkVars, bitrateVars, soundVars>>
notAndroidLink == <<part, switchLinkVars, pictureVars, n3dsVars, n3dsLinkVars,
                    stationVars, androidVideoVars, bitrateVars, soundVars>>
notBitrate == <<part, switchLinkVars, pictureVars, n3dsVars, n3dsLinkVars, stationVars,
                androidVideoVars, androidLinkVars, soundVars>>
notSound == <<part, switchLinkVars, pictureVars, n3dsVars, n3dsLinkVars, stationVars,
              androidVideoVars, androidLinkVars, bitrateVars>>

\* A part that does not run starts in one state only.
Init ==
    /\ part \in Parts
    /\ SwitchLinkInit /\ PicturesInit /\ N3dsInit /\ N3dsLinkInit
    /\ StationInit /\ AndroidVideoInit /\ AndroidLinkInit /\ AndroidBitrateInit
    /\ WiiuSoundInit
    /\ part # "link" => disk = Defaults
    /\ part # "n3dsLink" => auto /\ config = (CHOOSE c \in N3dsConfigs : TRUE)
    /\ part # "station" => ~station
    /\ part # "sound" => ~audioSock

Next ==
    \/ part = "link" /\ SwitchLinkNext /\ UNCHANGED notLink
    \/ part = "pictures" /\ PicturesNext /\ UNCHANGED notPictures
    \/ part = "n3dsPictures" /\ N3dsNext /\ UNCHANGED notN3dsPictures
    \/ part = "n3dsLink" /\ N3dsLinkNext /\ UNCHANGED notN3dsLink
    \/ part = "station" /\ StationNext /\ UNCHANGED notStation
    \/ part = "androidVideo" /\ AndroidVideoNext /\ UNCHANGED notAndroidVideo
    \/ part = "androidLink" /\ AndroidLinkNext /\ UNCHANGED notAndroidLink
    \/ part = "bitrate" /\ AndroidBitrateNext /\ UNCHANGED notBitrate
    \/ part = "sound" /\ WiiuSoundNext /\ UNCHANGED notSound

\* The variables of the part that runs, and the fairness of that part.  The part
\* never changes, so fairness of one action of each part is fairness of every one
\* of them.
partVars ==
    CASE part = "pictures" -> pictureVars
      [] part = "n3dsPictures" -> n3dsVars
      [] part = "n3dsLink" -> n3dsLinkVars
      [] part = "station" -> stationVars
      [] part = "androidVideo" -> androidVideoVars
      [] part = "androidLink" -> androidLinkVars
      [] OTHER -> <<>>

Weak1 ==
    /\ UNCHANGED part
    /\ \/ part = "pictures" /\ PassNext
       \/ part = "n3dsPictures" /\ WorkerNext
       \/ part = "n3dsLink" /\ ThreadNext
       \/ part = "station" /\ MainGoes
       \/ part = "androidVideo" /\ PumpNext
       \/ part = "androidLink" /\ HandlePost
Weak2 ==
    /\ UNCHANGED part
    /\ \/ part = "n3dsPictures" /\ PublishVideo
       \/ part = "n3dsLink" /\ MainGoesOn
       \/ part = "station" /\ RecoveryThread
       \/ part = "androidVideo" /\ Gives
       \/ part = "androidLink" /\ \E c \in Connections : ReaderNext(c)
Weak3 ==
    /\ UNCHANGED part
    /\ \/ part = "n3dsPictures" /\ Swap
       \/ part = "station" /\ InputReturns
Strong1 ==
    /\ UNCHANGED part
    /\ \/ part = "pictures" /\ KeyArrives
       \/ part = "n3dsPictures" /\ VideoComes(TRUE)
       \/ part = "station" /\ InputPoll("none")
       \/ part = "androidVideo" /\ \E p \in Pumps : PumpBuilds(p, TRUE)
Strong2 ==
    /\ UNCHANGED part
    /\ \/ part = "pictures" /\ DecodersStart
       \/ part = "n3dsPictures" /\ LooksInTime
       \/ part = "androidVideo" /\ Reads("key")
Strong3 ==
    /\ UNCHANGED part
    /\ \/ part = "n3dsPictures" /\ TakesPicture
       \/ part = "androidVideo" /\ \E builds \in BOOLEAN : Retry(FALSE, builds)
Strong4 ==
    /\ UNCHANGED part
    /\ \/ part = "n3dsPictures" /\ AsksInTime
       \/ part = "androidVideo" /\ FeedAnew

Spec == Init /\ [][Next]_viewerVars

FairSpec ==
    /\ Spec
    /\ WF_partVars(Weak1) /\ WF_partVars(Weak2) /\ WF_partVars(Weak3)
    /\ SF_partVars(Strong1) /\ SF_partVars(Strong2) /\ SF_partVars(Strong3) /\ SF_partVars(Strong4)

----------------------------------------------------------------------------
(* The properties of the parts that belong together. *)

\* The variables of every part keep their types.
ViewerTypes ==
    /\ SwitchLinkTypeOK /\ PicturesTypeOK /\ N3dsTypeOK /\ N3dsLinkTypeOK
    /\ StationTypeOK /\ AndroidVideoTypeOK /\ AndroidLinkTypeOK /\ AndroidBitrateTypeOK
    /\ WiiuSoundTypeOK

\* What a client shows and says is what is there: control needs a token and
\* settings reach the file (Switch), the status is the connection's (3DS),
\* nothing is left of a session that is over (GamePad station), the Android
\* screens, role and bitrate are those of the connection there is, and the queue
\* the Wii U client counts is what its console has not played.
ClientsAreHonest ==
    /\ LinkIsKept /\ StatusIsTrue /\ OverIsClean /\ PanelIsTrue /\ PadIsThere /\ WordsAreTheirs
    /\ RateIsBounded /\ QueueIsTrue /\ NextIsTaken

\* No decoder is given a picture that needs one it does not have (but for the 3DS
\* client's behind one too large, see ReferencesAreThere), no picture is drawn over one that is shown, no sound over sound still to be heard, nobody
\* decodes for what is gone; and what waits for one try is not tried twice.
PicturesAreRight ==
    /\ [](PicturesAreWhole /\ SwapIsAlone /\ FedFromKey /\ RetiredIsQuiet) /\ ReferencesAreThere
    /\ AskedForOnce /\ RecoveryIsAlone /\ RefusedLowers /\ NothingIsOverwritten /\ DropIsFull

\* Nobody is forgotten.  Pictures come back, whatever was lost, skipped, refused
\* or opened anew (PictureResumes, N3dsShows and AndroidShows, each of its part; on
\* the 3DS unless pass after pass is CutShort by a keyframe that is needed anew);
\* and what is let go of ends, a connection, a hold, a session whose pad is gone
\* (LinkLetsGo, StationLetsGo, GoneIsNoticed and EndIsShown, each of its part).
NobodyIsForgotten ==
    /\ <>[](\/ part = "pictures" /\ PictureDue
            \/ part = "n3dsPictures" /\ N3dsWaits
            \/ part = "androidVideo" /\ CanShow("h264"))
       => []<><<\/ part = "n3dsPictures" /\ Unlucky
                \/ part = "androidVideo" /\ FeedAnew>>_viewerVars
    /\ []<>~(\/ part = "n3dsLink" /\ StillConnected
             \/ part = "station" /\ StillPressed
             \/ part = "androidLink" /\ EndUnshown)
    /\ (\/ part = "n3dsLink" /\ main = "exit"
        \/ part = "station" /\ life = "streaming" /\ ~station)
       ~> (\/ part = "n3dsLink" /\ main = "done"
           \/ part = "station" /\ (station \/ life = "over"))

=============================================================================
