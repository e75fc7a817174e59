----------------------------- MODULE MCClients -----------------------------
(***************************************************************************)
(* The threads of the Wii U client and the touch pad of the Switch client, *)
(* checked side by side: they share no state, so a behaviour is one of one *)
(* client (part) while the other stays as it starts.                       *)
(***************************************************************************)
EXTENDS WiiuClient, SwitchPad

CONSTANT Parts \* which of them take part

VARIABLE part

clientVars == <<part, wiiuVars, padVars>>
notWiiu == <<part, padVars>>
notPad == <<part, wiiuVars>>

Init == /\ part \in Parts /\ WiiuInit /\ SwitchPadInit
        /\ part # "wiiu" => hostGeo = (CHOOSE g \in Geometries : TRUE) /\ ~asyncWanted

Next ==
    \/ part = "wiiu" /\ WiiuNext /\ UNCHANGED notWiiu
    \/ part = "pad" /\ SwitchPadNext /\ UNCHANGED notPad

\* The fairness of the client that runs.  The part never changes, so fairness
\* of one action of each part is fairness of every one of them.
Fair1 == \/ part = "wiiu" /\ RxNext /\ UNCHANGED notWiiu
         \/ part = "pad" /\ SamplerNext /\ UNCHANGED notPad
Fair2 == \/ part = "wiiu" /\ WorkNext /\ UNCHANGED notWiiu
         \/ part = "pad" /\ FrameNext /\ UNCHANGED notPad
Fair3 == part = "wiiu" /\ TakeNext /\ UNCHANGED notWiiu
Fair4 == part = "wiiu" /\ JoinNext /\ UNCHANGED notWiiu
Fair5 == part = "wiiu" /\ WiiuLinkNext /\ UNCHANGED notWiiu
Strong1 == part = "pad" /\ SendPad /\ hostHas' = state /\ UNCHANGED notPad

FairSpec ==
    /\ Init /\ [][Next]_clientVars
    /\ WF_clientVars(Fair1) /\ WF_clientVars(Fair2) /\ WF_clientVars(Fair3)
    /\ WF_clientVars(Fair4) /\ WF_clientVars(Fair5)
    /\ SF_clientVars(Strong1)

\* The variables of both clients keep their types.
ClientTypes == WiiuTypeOK /\ SwitchPadTypeOK

\* No thread of the Wii U client uses the connection while its receiver does,
\* and no press on the Switch's play screen is one on its menu.
NothingIsCrossed == ReceiverLeavesFirst /\ PlayIsNoChoice

\* No thread of the Wii U client waits for ever, and the host lets go of what the
\* Switch player lets go of.
NobodyWaits == NobodyIsStuck /\ HandsLetGo

=============================================================================
