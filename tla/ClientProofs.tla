---------------------------- MODULE ClientProofs ----------------------------
(***************************************************************************)
(* What the Wii U client and the controls of the Switch client guarantee,  *)
(* whatever the order of the steps of their threads: which thread may use  *)
(* the connection and the decoder, in which order messages and pictures    *)
(* pass, and that a press made while playing is no choice in the menu.     *)
(***************************************************************************)
EXTENDS MCClients, TLAPS

----------------------------------------------------------------------------
(* Sequences. *)

LEMMA EmptyIn == ASSUME NEW S PROVE <<>> \in Seq(S) /\ Len(<<>>) = 0
OBVIOUS

LEMMA TailIn ==
    ASSUME NEW S, NEW s \in Seq(S), s # <<>>
    PROVE  /\ Tail(s) \in Seq(S) /\ Head(s) \in S /\ Head(s) = s[1]
           /\ Len(s) \in Nat /\ Len(s) > 0 /\ Len(Tail(s)) = Len(s) - 1
           /\ \A i \in 1 .. Len(Tail(s)) : i + 1 \in 1 .. Len(s) /\ Tail(s)[i] = s[i + 1]
OBVIOUS

LEMMA AppendIn ==
    ASSUME NEW S, NEW s \in Seq(S), NEW e \in S
    PROVE  /\ Append(s, e) \in Seq(S) /\ Append(s, e) # <<>> /\ Len(s) \in Nat
           /\ Len(Append(s, e)) = Len(s) + 1
           /\ Append(s, e)[Len(s) + 1] = e
           /\ \A i \in 1 .. Len(s) : Append(s, e)[i] = s[i]
OBVIOUS

----------------------------------------------------------------------------
(* The Wii U client: types. *)

Sendable(Ts) == [t : Ts, n : Nat, after : Nat, geo : Geometries]
OnTheLine == Sendable({"key", "delta", "info", "other"})
ForMain == Sendable({"info", "other"})
Shown == Sendable({"key", "delta", "none"})

MainSteps == {"top", "poll", "take", "submit", "rebuild", "resume", "join", "away", "over"}

FlagsAreTyped ==
    /\ want \in BOOLEAN /\ linkLost \in BOOLEAN /\ askedHost \in BOOLEAN
    /\ asyncStop \in BOOLEAN /\ asyncWanted \in BOOLEAN
    /\ paused \in BOOLEAN /\ synced \in BOOLEAN /\ requested \in BOOLEAN
    /\ playing \in BOOLEAN /\ videoSynced \in BOOLEAN /\ keyRequested \in BOOLEAN
    /\ decoding \in BOOLEAN
StepsAreKnown ==
    /\ stage \in {"none", "connecting", "handshake", "up"} /\ rx \in {"none", "top", "submit"}
    /\ wiiuPc \in MainSteps
GeometriesAreKnown ==
    /\ info \in Geometries /\ hostGeo \in Geometries /\ decoder \in Geometries \cup {"clean", "none"}
LineIsTyped == line \in Seq(OnTheLine) /\ sent \in 0 .. MaxSent /\ Len(line) <= sent /\ chain \in Nat
QueueIsTyped == queued \in Seq(ForMain) /\ Len(queued) <= EventSlots
PacketsAreTyped ==
    packets \in Seq(Shown) /\ Len(packets) <= PacketSlots /\ (decoding => packets # <<>>)
MessagesAreTyped == held \in Shown /\ fed \in Shown /\ taken \in Nat

WiiuTypes ==
    /\ FlagsAreTyped /\ StepsAreKnown /\ GeometriesAreKnown
    /\ LineIsTyped /\ QueueIsTyped /\ PacketsAreTyped /\ MessagesAreTyped

LEMMA TypesSuffice == WiiuTypes => WiiuTypeOK
<1> SUFFICES ASSUME WiiuTypes PROVE WiiuTypeOK
    OBVIOUS
<1> USE DEF WiiuTypes, FlagsAreTyped, StepsAreKnown, GeometriesAreKnown, LineIsTyped, QueueIsTyped,
            PacketsAreTyped, MainSteps
<1>1. Len(line) \in 0 .. MaxSent
  BY WiiuAssumption
<1>2. Len(queued) \in 0 .. EventSlots /\ Len(packets) \in 0 .. PacketSlots
  BY WiiuAssumption
<1> QED BY <1>1, <1>2 DEF WiiuTypeOK

LEMMA NothingIsShown == Geometries # {} => Nothing \in Shown
BY DEF Nothing, Shown, Sendable

LEMMA WiiuTypesStart == WiiuInit => WiiuTypes
<1> SUFFICES ASSUME WiiuInit PROVE WiiuTypes
    OBVIOUS
<1>1. FlagsAreTyped /\ StepsAreKnown /\ GeometriesAreKnown
  BY DEF WiiuInit, FlagsAreTyped, StepsAreKnown, GeometriesAreKnown, MainSteps
<1>2. MaxSent \in Nat /\ EventSlots \in Nat /\ PacketSlots \in Nat
  BY WiiuAssumption
<1>3. /\ line = <<>> /\ queued = <<>> /\ packets = <<>>
     /\ chain = 0 /\ sent = 0 /\ taken = 0 /\ held = Nothing /\ fed = Nothing /\ ~decoding
  BY DEF WiiuInit
<1>4. LineIsTyped /\ QueueIsTyped /\ PacketsAreTyped
  BY <1>2, <1>3, EmptyIn DEF LineIsTyped, QueueIsTyped, PacketsAreTyped
<1>5. MessagesAreTyped
  BY <1>1, <1>3, NothingIsShown DEF MessagesAreTyped, GeometriesAreKnown
<1> QED BY <1>1, <1>4, <1>5 DEF WiiuTypes

\* The queue for main() keeps what the socket brought, as many as there are slots.
LEMMA QueueIn ==
    ASSUME queued \in Seq(ForMain), Len(queued) <= EventSlots, NEW m \in ForMain
    PROVE  Queue(m) \in Seq(ForMain) /\ Len(Queue(m)) <= EventSlots
<1>1. CASE Len(queued) >= EventSlots
  <2>1. queued # <<>>
    BY <1>1, WiiuAssumption
  <2>2. Tail(queued) \in Seq(ForMain) /\ Len(Tail(queued)) = Len(queued) - 1
    BY <2>1, TailIn
  <2>3. Queue(m) = Append(Tail(queued), m)
    BY <1>1 DEF Queue
  <2> QED BY <2>2, <2>3, AppendIn, WiiuAssumption
<1>2. CASE ~(Len(queued) >= EventSlots)
  <2>1. Queue(m) = Append(queued, m)
    BY <1>2 DEF Queue
  <2> QED BY <1>2, <2>1, AppendIn, WiiuAssumption
<1> QED BY <1>1, <1>2

\* What is offered to main() is an event, or a message of the line, or nothing.
LEMMA OfferedIn ==
    ASSUME WiiuTypes, Geometries # {}
    PROVE  /\ Offered = Nothing \/ Offered \in OnTheLine
           /\ FromEvents => Offered \in ForMain
<1> USE DEF WiiuTypes, LineIsTyped, QueueIsTyped
<1>1. CASE FromEvents
  <2>1. Head(queued) \in ForMain
    BY <1>1, TailIn DEF FromEvents
  <2> QED BY <1>1, <2>1 DEF Offered, ForMain, OnTheLine, Sendable
<1>2. CASE ~FromEvents /\ FromBuffer
  <2>1. Head(line) \in OnTheLine
    BY <1>2, TailIn DEF FromBuffer
  <2> QED BY <1>2, <2>1 DEF Offered
<1>3. CASE ~FromEvents /\ ~FromBuffer
  BY <1>3 DEF Offered
<1> QED BY <1>1, <1>2, <1>3
LEMMA FlagsKept == FlagsAreTyped /\ [WiiuNext]_wiiuVars => FlagsAreTyped'
<1> SUFFICES ASSUME FlagsAreTyped, [WiiuNext]_wiiuVars PROVE FlagsAreTyped'
    OBVIOUS
<1> USE DEF FlagsAreTyped, wiiuLinkVars, hostVars, rxVars, syncVars, wiiuMainVars, ownVars, workVars
<1>1. CASE HostKey
  BY <1>1 DEF HostKey, Send
<1>2. CASE HostDelta
  BY <1>2 DEF HostDelta, Send
<1>3. CASE HostOther
  BY <1>3 DEF HostOther, Send
<1>4. CASE LinkLost
  BY <1>4 DEF LinkLost, UserOrder
<1>5. CASE RxEnds
  BY <1>5 DEF RxEnds
<1>6. CASE RxFails
  BY <1>6 DEF RxFails, RxReads, CloseSocket
<1>7. CASE RxOther
  BY <1>7 DEF RxOther, RxReads
<1>8. CASE RxInfo
  BY <1>8 DEF RxInfo, RxReads
<1>9. CASE RxPicture
  BY <1>9 DEF RxPicture, RxReads, AskHost, Pictures
<1>10. CASE RxSubmits
  BY <1>10 DEF RxSubmits, Submitted
<1>11. CASE RxGivesUp
  BY <1>11 DEF RxGivesUp, AskHost
<1>12. CASE Decode
  BY <1>12 DEF Decode
<1>13. CASE Decoded
  BY <1>13 DEF Decoded
<1>14. CASE TakeNothing
  BY <1>14 DEF TakeNothing
<1>15. CASE TakeOther
  BY <1>15 DEF TakeOther, TakeOffered
<1>16. CASE TakeInfo
  BY <1>16 DEF TakeInfo, TakeOffered
<1>17. CASE TakePicture
  BY <1>17 DEF TakePicture, TakeOffered, AskHost, Pictures
<1>18. CASE MainSubmits
  BY <1>18 DEF MainSubmits, Submitted
<1>19. CASE MainGivesUp
  BY <1>19 DEF MainGivesUp, AskHost
<1>20. CASE Rebuild
  BY <1>20 DEF Rebuild, WorkerStops, WorkerStarts
<1>21. CASE Resume
  BY <1>21 DEF Resume, AskHost
<1>22. CASE ConnectAsked
  BY <1>22 DEF ConnectAsked, Joined, CloseSocket, RxStart
<1>23. CASE ConnectRefused
  BY <1>23 DEF ConnectRefused, Joined
<1>24. CASE AsyncToggled
  BY <1>24 DEF AsyncToggled, Joined, RxStart
<1>25. CASE ReleaseAll
  BY <1>25 DEF ReleaseAll, WorkerStops, Joined, CloseSocket
<1>26. CASE ComesBack
  BY <1>26 DEF ComesBack, WorkerStarts
<1>27. CASE EndsAway
  BY <1>27 DEF EndsAway
<1>28. CASE BeginConnect
  BY <1>28 DEF BeginConnect, Turn
<1>29. CASE FinishConnect
  BY <1>29 DEF FinishConnect, Turn
<1>30. CASE HandshakeReply
  BY <1>30 DEF HandshakeReply, Turn
<1>31. CASE ConnectFails
  BY <1>31 DEF ConnectFails, Turn, CloseSocket
<1>32. CASE PollHost
  BY <1>32 DEF PollHost, Turn, CloseSocket
<1>33. ASSUME NEW g \in Geometries, HostGeometry(g) PROVE FlagsAreTyped'
  BY <1>33 DEF HostGeometry, Send, UserOrder
<1>34. ASSUME NEW what \in {"connect", "toggle", "home", "exit"}, Join(what)
      PROVE  FlagsAreTyped'
  BY <1>34 DEF Join, UserOrder
<1>35. CASE UNCHANGED wiiuVars
  BY <1>35 DEF wiiuVars
<1> QED BY <1>1, <1>2, <1>3, <1>4, <1>5, <1>6, <1>7, <1>8, <1>9, <1>10, <1>11, <1>12, <1>13, <1>14,
    <1>15, <1>16, <1>17, <1>18, <1>19, <1>20, <1>21, <1>22, <1>23, <1>24, <1>25, <1>26, <1>27,
    <1>28, <1>29, <1>30, <1>31, <1>32, <1>33, <1>34, <1>35 DEF WiiuNext, HostNext, RxNext,
    WorkNext, TakeNext, JoinNext, WiiuLinkNext, MenuNext

LEMMA StepsKept == StepsAreKnown /\ [WiiuNext]_wiiuVars => StepsAreKnown'
<1> SUFFICES ASSUME StepsAreKnown, [WiiuNext]_wiiuVars PROVE StepsAreKnown'
    OBVIOUS
<1> USE DEF StepsAreKnown, MainSteps, wiiuLinkVars, hostVars, rxVars, syncVars, wiiuMainVars,
    ownVars, workVars
<1>1. CASE HostKey
  BY <1>1 DEF HostKey, Send
<1>2. CASE HostDelta
  BY <1>2 DEF HostDelta, Send
<1>3. CASE HostOther
  BY <1>3 DEF HostOther, Send
<1>4. CASE LinkLost
  BY <1>4 DEF LinkLost, UserOrder
<1>5. CASE RxEnds
  BY <1>5 DEF RxEnds
<1>6. CASE RxFails
  BY <1>6 DEF RxFails, RxReads, CloseSocket
<1>7. CASE RxOther
  BY <1>7 DEF RxOther, RxReads
<1>8. CASE RxInfo
  BY <1>8 DEF RxInfo, RxReads
<1>9. CASE RxPicture
  BY <1>9 DEF RxPicture, RxReads, AskHost, Pictures
<1>10. CASE RxSubmits
  BY <1>10 DEF RxSubmits, Submitted
<1>11. CASE RxGivesUp
  BY <1>11 DEF RxGivesUp, AskHost
<1>12. CASE Decode
  BY <1>12 DEF Decode
<1>13. CASE Decoded
  BY <1>13 DEF Decoded
<1>14. CASE TakeNothing
  BY <1>14 DEF TakeNothing
<1>15. CASE TakeOther
  BY <1>15 DEF TakeOther, TakeOffered
<1>16. CASE TakeInfo
  BY <1>16 DEF TakeInfo, TakeOffered
<1>17. CASE TakePicture
  BY <1>17 DEF TakePicture, TakeOffered, AskHost, Pictures
<1>18. CASE MainSubmits
  BY <1>18 DEF MainSubmits, Submitted
<1>19. CASE MainGivesUp
  BY <1>19 DEF MainGivesUp, AskHost
<1>20. CASE Rebuild
  BY <1>20 DEF Rebuild, WorkerStops, WorkerStarts
<1>21. CASE Resume
  BY <1>21 DEF Resume, AskHost
<1>22. CASE ConnectAsked
  BY <1>22 DEF ConnectAsked, Joined, CloseSocket, RxStart
<1>23. CASE ConnectRefused
  BY <1>23 DEF ConnectRefused, Joined
<1>24. CASE AsyncToggled
  BY <1>24 DEF AsyncToggled, Joined, RxStart
<1>25. CASE ReleaseAll
  BY <1>25 DEF ReleaseAll, WorkerStops, Joined, CloseSocket
<1>26. CASE ComesBack
  BY <1>26 DEF ComesBack, WorkerStarts
<1>27. CASE EndsAway
  BY <1>27 DEF EndsAway
<1>28. CASE BeginConnect
  BY <1>28 DEF BeginConnect, Turn
<1>29. CASE FinishConnect
  BY <1>29 DEF FinishConnect, Turn
<1>30. CASE HandshakeReply
  BY <1>30 DEF HandshakeReply, Turn
<1>31. CASE ConnectFails
  BY <1>31 DEF ConnectFails, Turn, CloseSocket
<1>32. CASE PollHost
  BY <1>32 DEF PollHost, Turn, CloseSocket
<1>33. ASSUME NEW g \in Geometries, HostGeometry(g) PROVE StepsAreKnown'
  BY <1>33 DEF HostGeometry, Send, UserOrder
<1>34. ASSUME NEW what \in {"connect", "toggle", "home", "exit"}, Join(what)
      PROVE  StepsAreKnown'
  BY <1>34 DEF Join, UserOrder
<1>35. CASE UNCHANGED wiiuVars
  BY <1>35 DEF wiiuVars
<1> QED BY <1>1, <1>2, <1>3, <1>4, <1>5, <1>6, <1>7, <1>8, <1>9, <1>10, <1>11, <1>12, <1>13, <1>14,
    <1>15, <1>16, <1>17, <1>18, <1>19, <1>20, <1>21, <1>22, <1>23, <1>24, <1>25, <1>26, <1>27,
    <1>28, <1>29, <1>30, <1>31, <1>32, <1>33, <1>34, <1>35 DEF WiiuNext, HostNext, RxNext,
    WorkNext, TakeNext, JoinNext, WiiuLinkNext, MenuNext

LEMMA GeometriesKept == WiiuTypes /\ [WiiuNext]_wiiuVars => GeometriesAreKnown'
<1> SUFFICES ASSUME WiiuTypes, [WiiuNext]_wiiuVars PROVE GeometriesAreKnown'
    OBVIOUS
<1> USE DEF GeometriesAreKnown, wiiuLinkVars, hostVars, rxVars, syncVars, wiiuMainVars, ownVars,
    workVars
<1>0. GeometriesAreKnown
  BY DEF WiiuTypes
<1>1. CASE HostKey
  BY <1>1, <1>0 DEF HostKey, Send
<1>2. CASE HostDelta
  BY <1>2, <1>0 DEF HostDelta, Send
<1>3. CASE HostOther
  BY <1>3, <1>0 DEF HostOther, Send
<1>4. CASE LinkLost
  BY <1>4, <1>0 DEF LinkLost, UserOrder
<1>5. CASE RxEnds
  BY <1>5, <1>0 DEF RxEnds
<1>6. CASE RxFails
  BY <1>6, <1>0 DEF RxFails, RxReads, CloseSocket
<1>7. CASE RxOther
  BY <1>7, <1>0 DEF RxOther, RxReads
<1>8. CASE RxInfo
  BY <1>8, <1>0 DEF RxInfo, RxReads
<1>9. CASE RxPicture
  BY <1>9, <1>0 DEF RxPicture, RxReads, AskHost, Pictures
<1>10. CASE RxSubmits
  BY <1>10, <1>0 DEF RxSubmits, Submitted
<1>11. CASE RxGivesUp
  BY <1>11, <1>0 DEF RxGivesUp, AskHost
<1>12. CASE Decode
  BY <1>12, <1>0 DEF Decode
<1>13. CASE Decoded
  <2>1. packets \in Seq(Shown) /\ packets # <<>>
    BY <1>13 DEF WiiuTypes, PacketsAreTyped, Decoded
  <2>2. Head(packets) \in Shown
    BY <2>1, TailIn
  <2>3. Head(packets).geo \in Geometries
    BY <2>2 DEF Shown, Sendable
  <2>4. info' = info /\ hostGeo' = hostGeo /\ decoder' \in {decoder, Head(packets).geo}
    BY <1>13 DEF Decoded
  <2> QED BY <1>0, <2>3, <2>4
<1>14. CASE TakeNothing
  BY <1>14, <1>0 DEF TakeNothing
<1>15. CASE TakeOther
  BY <1>15, <1>0 DEF TakeOther, TakeOffered
<1>16. CASE TakeInfo
  <2>1. Offered # Nothing /\ info' = Offered.geo /\ hostGeo' = hostGeo /\ decoder' = decoder
    BY <1>16 DEF TakeInfo, TakeOffered
  <2>2. Offered \in OnTheLine
    BY <1>0, <2>1, OfferedIn
  <2>3. Offered.geo \in Geometries
    BY <2>2 DEF OnTheLine, Sendable
  <2> QED BY <1>0, <2>1, <2>3
<1>17. CASE TakePicture
  BY <1>17, <1>0 DEF TakePicture, TakeOffered, AskHost, Pictures
<1>18. CASE MainSubmits
  BY <1>18, <1>0 DEF MainSubmits, Submitted
<1>19. CASE MainGivesUp
  BY <1>19, <1>0 DEF MainGivesUp, AskHost
<1>20. CASE Rebuild
  BY <1>20, <1>0 DEF Rebuild, WorkerStops, WorkerStarts
<1>21. CASE Resume
  BY <1>21, <1>0 DEF Resume, AskHost
<1>22. CASE ConnectAsked
  BY <1>22, <1>0 DEF ConnectAsked, Joined, CloseSocket, RxStart
<1>23. CASE ConnectRefused
  BY <1>23, <1>0 DEF ConnectRefused, Joined
<1>24. CASE AsyncToggled
  BY <1>24, <1>0 DEF AsyncToggled, Joined, RxStart
<1>25. CASE ReleaseAll
  BY <1>25, <1>0 DEF ReleaseAll, WorkerStops, Joined, CloseSocket
<1>26. CASE ComesBack
  BY <1>26, <1>0 DEF ComesBack, WorkerStarts
<1>27. CASE EndsAway
  BY <1>27, <1>0 DEF EndsAway
<1>28. CASE BeginConnect
  BY <1>28, <1>0 DEF BeginConnect, Turn
<1>29. CASE FinishConnect
  BY <1>29, <1>0 DEF FinishConnect, Turn
<1>30. CASE HandshakeReply
  BY <1>30, <1>0 DEF HandshakeReply, Turn
<1>31. CASE ConnectFails
  BY <1>31, <1>0 DEF ConnectFails, Turn, CloseSocket
<1>32. CASE PollHost
  BY <1>32, <1>0 DEF PollHost, Turn, CloseSocket
<1>33. ASSUME NEW g \in Geometries, HostGeometry(g) PROVE GeometriesAreKnown'
  BY <1>33, <1>0 DEF HostGeometry, Send, UserOrder
<1>34. ASSUME NEW what \in {"connect", "toggle", "home", "exit"}, Join(what)
      PROVE  GeometriesAreKnown'
  BY <1>34, <1>0 DEF Join, UserOrder
<1>35. CASE UNCHANGED wiiuVars
  BY <1>35, <1>0 DEF wiiuVars
<1> QED BY <1>1, <1>2, <1>3, <1>4, <1>5, <1>6, <1>7, <1>8, <1>9, <1>10, <1>11, <1>12, <1>13, <1>14,
    <1>15, <1>16, <1>17, <1>18, <1>19, <1>20, <1>21, <1>22, <1>23, <1>24, <1>25, <1>26, <1>27,
    <1>28, <1>29, <1>30, <1>31, <1>32, <1>33, <1>34, <1>35 DEF WiiuNext, HostNext, RxNext,
    WorkNext, TakeNext, JoinNext, WiiuLinkNext, MenuNext

\* What a step does to the messages on their way: nothing; all of the line goes; one is
\* sent; the receiver takes the first of the line and may queue it; main() takes the first
\* event, or without one the first of the line.
Stay == queued' = queued /\ line' = line /\ taken' = taken /\ sent' = sent
Cleared == queued' \in {queued, <<>>} /\ line' = <<>> /\ taken' = taken /\ sent' = sent
OneIsSent ==
    /\ queued' = queued /\ taken' = taken /\ sent < MaxSent /\ sent' = sent + 1
    /\ \E m \in OnTheLine : m.n = sent + 1 /\ line' = Append(line, m)
OneIsRead ==
    /\ line # <<>> /\ line' = Tail(line) /\ taken' = taken /\ sent' = sent
    /\ queued' = queued \/ (Head(line).t \in {"info", "other"} /\ queued' = Queue(Head(line)))
EventIsTaken ==
    /\ queued # <<>> /\ queued' = Tail(queued) /\ line' = line
    /\ taken' = Head(queued).n /\ sent' = sent
MessageIsTaken ==
    /\ queued = <<>> /\ queued' = queued /\ line # <<>> /\ line' = Tail(line)
    /\ taken' = Head(line).n /\ sent' = sent
Passing == Stay \/ Cleared \/ OneIsSent \/ OneIsRead \/ EventIsTaken \/ MessageIsTaken

LEMMA MessagesPass == WiiuTypes /\ [WiiuNext]_wiiuVars => Passing
<1> SUFFICES ASSUME WiiuTypes, [WiiuNext]_wiiuVars PROVE Passing
    OBVIOUS
<1> USE DEF Passing, Stay, Cleared, wiiuLinkVars, hostVars, rxVars, syncVars, wiiuMainVars,
    ownVars, workVars
<1>0. /\ sent \in Nat /\ chain \in Nat /\ hostGeo \in Geometries
      /\ [t |-> "key", n |-> sent + 1, after |-> 0, geo |-> hostGeo] \in OnTheLine
      /\ [t |-> "other", n |-> sent + 1, after |-> 0, geo |-> hostGeo] \in OnTheLine
      /\ [t |-> "delta", n |-> sent + 1, after |-> chain, geo |-> hostGeo] \in OnTheLine
      /\ \A g \in Geometries : [t |-> "info", n |-> sent + 1, after |-> 0, geo |-> g] \in OnTheLine
  BY WiiuAssumption DEF WiiuTypes, LineIsTyped, GeometriesAreKnown, OnTheLine, Sendable
<1>1. CASE HostKey
  BY <1>1, <1>0 DEF HostKey, Send, OneIsSent
<1>2. CASE HostDelta
  BY <1>2, <1>0 DEF HostDelta, Send, OneIsSent
<1>3. CASE HostOther
  BY <1>3, <1>0 DEF HostOther, Send, OneIsSent
<1>4. CASE LinkLost
  BY <1>4 DEF LinkLost, UserOrder
<1>5. CASE RxEnds
  BY <1>5 DEF RxEnds
<1>6. CASE RxFails
  BY <1>6 DEF RxFails, RxReads, CloseSocket
<1>7. CASE RxOther
  BY <1>7 DEF RxOther, RxReads, OneIsRead
<1>8. CASE RxInfo
  BY <1>8 DEF RxInfo, RxReads, OneIsRead
<1>9. CASE RxPicture
  BY <1>9 DEF RxPicture, RxReads, AskHost, Pictures, OneIsRead
<1>10. CASE RxSubmits
  BY <1>10 DEF RxSubmits, Submitted
<1>11. CASE RxGivesUp
  BY <1>11 DEF RxGivesUp, AskHost
<1>12. CASE Decode
  BY <1>12 DEF Decode
<1>13. CASE Decoded
  BY <1>13 DEF Decoded
<1>14. CASE TakeNothing
  BY <1>14 DEF TakeNothing
<1>15. CASE TakeOther
  BY <1>15 DEF TakeOther, TakeOffered, Offered, FromBuffer, FromEvents, EventIsTaken, MessageIsTaken
<1>16. CASE TakeInfo
  BY <1>16 DEF TakeInfo, TakeOffered, Offered, FromBuffer, FromEvents, EventIsTaken, MessageIsTaken
<1>17. CASE TakePicture
  BY <1>17 DEF TakePicture, TakeOffered, Offered, FromBuffer, FromEvents, EventIsTaken, MessageIsTaken
<1>18. CASE MainSubmits
  BY <1>18 DEF MainSubmits, Submitted
<1>19. CASE MainGivesUp
  BY <1>19 DEF MainGivesUp, AskHost
<1>20. CASE Rebuild
  BY <1>20 DEF Rebuild, WorkerStops, WorkerStarts
<1>21. CASE Resume
  BY <1>21 DEF Resume, AskHost
<1>22. CASE ConnectAsked
  BY <1>22 DEF ConnectAsked, Joined, CloseSocket, RxStart
<1>23. CASE ConnectRefused
  BY <1>23 DEF ConnectRefused, Joined
<1>24. CASE AsyncToggled
  BY <1>24 DEF AsyncToggled, Joined, RxStart
<1>25. CASE ReleaseAll
  BY <1>25 DEF ReleaseAll, WorkerStops, Joined, CloseSocket
<1>26. CASE ComesBack
  BY <1>26 DEF ComesBack, WorkerStarts
<1>27. CASE EndsAway
  BY <1>27 DEF EndsAway
<1>28. CASE BeginConnect
  BY <1>28 DEF BeginConnect, Turn
<1>29. CASE FinishConnect
  BY <1>29 DEF FinishConnect, Turn
<1>30. CASE HandshakeReply
  BY <1>30 DEF HandshakeReply, Turn
<1>31. CASE ConnectFails
  BY <1>31 DEF ConnectFails, Turn, CloseSocket
<1>32. CASE PollHost
  BY <1>32 DEF PollHost, Turn, CloseSocket
<1>33. ASSUME NEW g \in Geometries, HostGeometry(g) PROVE Passing
  BY <1>33, <1>0 DEF HostGeometry, Send, UserOrder, OneIsSent
<1>34. ASSUME NEW what \in {"connect", "toggle", "home", "exit"}, Join(what)
      PROVE  Passing
  BY <1>34 DEF Join, UserOrder
<1>35. CASE UNCHANGED wiiuVars
  BY <1>35 DEF wiiuVars
<1> QED BY <1>1, <1>2, <1>3, <1>4, <1>5, <1>6, <1>7, <1>8, <1>9, <1>10, <1>11, <1>12, <1>13, <1>14,
    <1>15, <1>16, <1>17, <1>18, <1>19, <1>20, <1>21, <1>22, <1>23, <1>24, <1>25, <1>26, <1>27,
    <1>28, <1>29, <1>30, <1>31, <1>32, <1>33, <1>34, <1>35 DEF WiiuNext, HostNext, RxNext,
    WorkNext, TakeNext, JoinNext, WiiuLinkNext, MenuNext
LEMMA ChainNumbers == [WiiuNext]_wiiuVars => chain' \in {chain, 0, sent + 1}
<1> SUFFICES ASSUME [WiiuNext]_wiiuVars PROVE chain' \in {chain, 0, sent + 1}
    OBVIOUS
<1> USE DEF wiiuLinkVars, hostVars, rxVars, syncVars, wiiuMainVars, ownVars, workVars
<1>1. CASE HostKey
  BY <1>1 DEF HostKey, Send
<1>2. CASE HostDelta
  BY <1>2 DEF HostDelta, Send
<1>3. CASE HostOther
  BY <1>3 DEF HostOther, Send
<1>4. CASE LinkLost
  BY <1>4 DEF LinkLost, UserOrder
<1>5. CASE RxEnds
  BY <1>5 DEF RxEnds
<1>6. CASE RxFails
  BY <1>6 DEF RxFails, RxReads, CloseSocket
<1>7. CASE RxOther
  BY <1>7 DEF RxOther, RxReads
<1>8. CASE RxInfo
  BY <1>8 DEF RxInfo, RxReads
<1>9. CASE RxPicture
  BY <1>9 DEF RxPicture, RxReads, AskHost, Pictures
<1>10. CASE RxSubmits
  BY <1>10 DEF RxSubmits, Submitted
<1>11. CASE RxGivesUp
  BY <1>11 DEF RxGivesUp, AskHost
<1>12. CASE Decode
  BY <1>12 DEF Decode
<1>13. CASE Decoded
  BY <1>13 DEF Decoded
<1>14. CASE TakeNothing
  BY <1>14 DEF TakeNothing
<1>15. CASE TakeOther
  BY <1>15 DEF TakeOther, TakeOffered
<1>16. CASE TakeInfo
  BY <1>16 DEF TakeInfo, TakeOffered
<1>17. CASE TakePicture
  BY <1>17 DEF TakePicture, TakeOffered, AskHost, Pictures
<1>18. CASE MainSubmits
  BY <1>18 DEF MainSubmits, Submitted
<1>19. CASE MainGivesUp
  BY <1>19 DEF MainGivesUp, AskHost
<1>20. CASE Rebuild
  BY <1>20 DEF Rebuild, WorkerStops, WorkerStarts
<1>21. CASE Resume
  BY <1>21 DEF Resume, AskHost
<1>22. CASE ConnectAsked
  BY <1>22 DEF ConnectAsked, Joined, CloseSocket, RxStart
<1>23. CASE ConnectRefused
  BY <1>23 DEF ConnectRefused, Joined
<1>24. CASE AsyncToggled
  BY <1>24 DEF AsyncToggled, Joined, RxStart
<1>25. CASE ReleaseAll
  BY <1>25 DEF ReleaseAll, WorkerStops, Joined, CloseSocket
<1>26. CASE ComesBack
  BY <1>26 DEF ComesBack, WorkerStarts
<1>27. CASE EndsAway
  BY <1>27 DEF EndsAway
<1>28. CASE BeginConnect
  BY <1>28 DEF BeginConnect, Turn
<1>29. CASE FinishConnect
  BY <1>29 DEF FinishConnect, Turn
<1>30. CASE HandshakeReply
  BY <1>30 DEF HandshakeReply, Turn
<1>31. CASE ConnectFails
  BY <1>31 DEF ConnectFails, Turn, CloseSocket
<1>32. CASE PollHost
  BY <1>32 DEF PollHost, Turn, CloseSocket
<1>33. ASSUME NEW g \in Geometries, HostGeometry(g) PROVE chain' \in {chain, 0, sent + 1}
  BY <1>33 DEF HostGeometry, Send, UserOrder
<1>34. ASSUME NEW what \in {"connect", "toggle", "home", "exit"}, Join(what)
      PROVE  chain' \in {chain, 0, sent + 1}
  BY <1>34 DEF Join, UserOrder
<1>35. CASE UNCHANGED wiiuVars
  BY <1>35 DEF wiiuVars
<1> QED BY <1>1, <1>2, <1>3, <1>4, <1>5, <1>6, <1>7, <1>8, <1>9, <1>10, <1>11, <1>12, <1>13, <1>14,
    <1>15, <1>16, <1>17, <1>18, <1>19, <1>20, <1>21, <1>22, <1>23, <1>24, <1>25, <1>26, <1>27,
    <1>28, <1>29, <1>30, <1>31, <1>32, <1>33, <1>34, <1>35 DEF WiiuNext, HostNext, RxNext,
    WorkNext, TakeNext, JoinNext, WiiuLinkNext, MenuNext

LEMMA LineKept == WiiuTypes /\ [WiiuNext]_wiiuVars => LineIsTyped'
<1> SUFFICES ASSUME WiiuTypes, [WiiuNext]_wiiuVars PROVE LineIsTyped'
    OBVIOUS
<1>1. /\ line \in Seq(OnTheLine) /\ sent \in Nat /\ sent <= MaxSent /\ MaxSent \in Nat
      /\ Len(line) \in Nat /\ Len(line) <= sent /\ chain \in Nat
  BY WiiuAssumption DEF WiiuTypes, LineIsTyped
<1>2. chain' \in Nat
  BY <1>1, ChainNumbers
<1>3. CASE line' = line /\ sent' = sent
  BY <1>1, <1>2, <1>3 DEF LineIsTyped
<1>4. CASE line # <<>> /\ line' = Tail(line) /\ sent' = sent
  <2>1. Tail(line) \in Seq(OnTheLine) /\ Len(Tail(line)) = Len(line) - 1
    BY <1>1, <1>4, TailIn
  <2> QED BY <1>1, <1>2, <1>4, <2>1 DEF LineIsTyped
<1>5. CASE line' = <<>> /\ sent' = sent
  BY <1>1, <1>2, <1>5, EmptyIn DEF LineIsTyped
<1>6. CASE OneIsSent
  <2>1. PICK m \in OnTheLine : line' = Append(line, m)
    BY <1>6 DEF OneIsSent
  <2>2. line' \in Seq(OnTheLine) /\ Len(line') = Len(line) + 1
    BY <1>1, <2>1, AppendIn
  <2>3. sent < MaxSent /\ sent' = sent + 1
    BY <1>6 DEF OneIsSent
  <2> QED BY <1>1, <1>2, <2>2, <2>3 DEF LineIsTyped
<1> QED BY <1>3, <1>4, <1>5, <1>6, MessagesPass
      DEF Passing, Stay, Cleared, OneIsRead, EventIsTaken, MessageIsTaken

LEMMA QueueKept == WiiuTypes /\ [WiiuNext]_wiiuVars => QueueIsTyped'
<1> SUFFICES ASSUME WiiuTypes, [WiiuNext]_wiiuVars PROVE QueueIsTyped'
    OBVIOUS
<1>1. /\ queued \in Seq(ForMain) /\ Len(queued) \in Nat /\ Len(queued) <= EventSlots
      /\ EventSlots \in Nat /\ line \in Seq(OnTheLine)
  BY WiiuAssumption DEF WiiuTypes, QueueIsTyped, LineIsTyped
<1>2. CASE queued' = queued
  BY <1>1, <1>2 DEF QueueIsTyped
<1>3. CASE queued # <<>> /\ queued' = Tail(queued)
  <2>1. Tail(queued) \in Seq(ForMain) /\ Len(Tail(queued)) = Len(queued) - 1
    BY <1>1, <1>3, TailIn
  <2> QED BY <1>1, <1>3, <2>1 DEF QueueIsTyped
<1>4. CASE queued' = <<>>
  BY <1>1, <1>4, EmptyIn DEF QueueIsTyped
<1>5. CASE line # <<>> /\ Head(line).t \in {"info", "other"} /\ queued' = Queue(Head(line))
  <2>1. Head(line) \in OnTheLine
    BY <1>1, <1>5, TailIn
  <2>2. Head(line) \in ForMain
    BY <1>5, <2>1 DEF OnTheLine, ForMain, Sendable
  <2>3. Queue(Head(line)) \in Seq(ForMain) /\ Len(Queue(Head(line))) <= EventSlots
    BY <1>1, <2>2, QueueIn
  <2> QED BY <1>5, <2>3 DEF QueueIsTyped
<1> QED BY <1>2, <1>3, <1>4, <1>5, MessagesPass
      DEF Passing, Stay, Cleared, OneIsSent, OneIsRead, EventIsTaken, MessageIsTaken

\* What a step does to the packets of the worker: the held one is added, the decoded one
\* goes, or all do, when none is being decoded.
PacketMoves ==
    \/ packets' = packets /\ (decoding' => decoding \/ packets # <<>>)
    \/ Len(packets) < PacketSlots /\ packets' = Append(packets, held)
    \/ packets # <<>> /\ packets' = Tail(packets) /\ ~decoding'
    \/ packets' = <<>> /\ ~decoding'

LEMMA PacketSteps == PacketsAreTyped /\ [WiiuNext]_wiiuVars => PacketMoves
<1> SUFFICES ASSUME PacketsAreTyped, [WiiuNext]_wiiuVars PROVE PacketMoves
    OBVIOUS
<1> USE DEF PacketMoves, wiiuLinkVars, hostVars, rxVars, syncVars, wiiuMainVars, ownVars, workVars
<1>1. CASE HostKey
  BY <1>1 DEF HostKey, Send
<1>2. CASE HostDelta
  BY <1>2 DEF HostDelta, Send
<1>3. CASE HostOther
  BY <1>3 DEF HostOther, Send
<1>4. CASE LinkLost
  BY <1>4 DEF LinkLost, UserOrder
<1>5. CASE RxEnds
  BY <1>5 DEF RxEnds
<1>6. CASE RxFails
  BY <1>6 DEF RxFails, RxReads, CloseSocket
<1>7. CASE RxOther
  BY <1>7 DEF RxOther, RxReads
<1>8. CASE RxInfo
  BY <1>8 DEF RxInfo, RxReads
<1>9. CASE RxPicture
  BY <1>9 DEF RxPicture, RxReads, AskHost, Pictures
<1>10. CASE RxSubmits
  BY <1>10 DEF RxSubmits, Submitted
<1>11. CASE RxGivesUp
  BY <1>11 DEF RxGivesUp, AskHost
<1>12. CASE Decode
  BY <1>12 DEF Decode
<1>13. CASE Decoded
  BY <1>13 DEF Decoded, PacketsAreTyped
<1>14. CASE TakeNothing
  BY <1>14 DEF TakeNothing
<1>15. CASE TakeOther
  BY <1>15 DEF TakeOther, TakeOffered
<1>16. CASE TakeInfo
  BY <1>16 DEF TakeInfo, TakeOffered
<1>17. CASE TakePicture
  BY <1>17 DEF TakePicture, TakeOffered, AskHost, Pictures
<1>18. CASE MainSubmits
  BY <1>18 DEF MainSubmits, Submitted
<1>19. CASE MainGivesUp
  BY <1>19 DEF MainGivesUp, AskHost
<1>20. CASE Rebuild
  BY <1>20 DEF Rebuild, WorkerStops, WorkerStarts
<1>21. CASE Resume
  BY <1>21 DEF Resume, AskHost
<1>22. CASE ConnectAsked
  BY <1>22 DEF ConnectAsked, Joined, CloseSocket, RxStart
<1>23. CASE ConnectRefused
  BY <1>23 DEF ConnectRefused, Joined
<1>24. CASE AsyncToggled
  BY <1>24 DEF AsyncToggled, Joined, RxStart
<1>25. CASE ReleaseAll
  BY <1>25 DEF ReleaseAll, WorkerStops, Joined, CloseSocket
<1>26. CASE ComesBack
  BY <1>26 DEF ComesBack, WorkerStarts
<1>27. CASE EndsAway
  BY <1>27 DEF EndsAway
<1>28. CASE BeginConnect
  BY <1>28 DEF BeginConnect, Turn
<1>29. CASE FinishConnect
  BY <1>29 DEF FinishConnect, Turn
<1>30. CASE HandshakeReply
  BY <1>30 DEF HandshakeReply, Turn
<1>31. CASE ConnectFails
  BY <1>31 DEF ConnectFails, Turn, CloseSocket
<1>32. CASE PollHost
  BY <1>32 DEF PollHost, Turn, CloseSocket
<1>33. ASSUME NEW g \in Geometries, HostGeometry(g) PROVE PacketMoves
  BY <1>33 DEF HostGeometry, Send, UserOrder
<1>34. ASSUME NEW what \in {"connect", "toggle", "home", "exit"}, Join(what)
      PROVE  PacketMoves
  BY <1>34 DEF Join, UserOrder
<1>35. CASE UNCHANGED wiiuVars
  BY <1>35 DEF wiiuVars
<1> QED BY <1>1, <1>2, <1>3, <1>4, <1>5, <1>6, <1>7, <1>8, <1>9, <1>10, <1>11, <1>12, <1>13, <1>14,
    <1>15, <1>16, <1>17, <1>18, <1>19, <1>20, <1>21, <1>22, <1>23, <1>24, <1>25, <1>26, <1>27,
    <1>28, <1>29, <1>30, <1>31, <1>32, <1>33, <1>34, <1>35 DEF WiiuNext, HostNext, RxNext,
    WorkNext, TakeNext, JoinNext, WiiuLinkNext, MenuNext

LEMMA PacketsKept == WiiuTypes /\ [WiiuNext]_wiiuVars => PacketsAreTyped'
<1> SUFFICES ASSUME WiiuTypes, [WiiuNext]_wiiuVars PROVE PacketsAreTyped'
    OBVIOUS
<1>1. /\ packets \in Seq(Shown) /\ Len(packets) \in Nat /\ Len(packets) <= PacketSlots
      /\ (decoding => packets # <<>>) /\ PacketSlots \in Nat /\ held \in Shown
  BY WiiuAssumption DEF WiiuTypes, PacketsAreTyped, MessagesAreTyped
<1>2. CASE packets' = packets /\ (decoding' => decoding \/ packets # <<>>)
  BY <1>1, <1>2 DEF PacketsAreTyped
<1>3. CASE Len(packets) < PacketSlots /\ packets' = Append(packets, held)
  <2>1. packets' \in Seq(Shown) /\ packets' # <<>> /\ Len(packets') = Len(packets) + 1
    BY <1>1, <1>3, AppendIn
  <2> QED BY <1>1, <1>3, <2>1 DEF PacketsAreTyped
<1>4. CASE packets # <<>> /\ packets' = Tail(packets) /\ ~decoding'
  <2>1. packets' \in Seq(Shown) /\ Len(packets') = Len(packets) - 1
    BY <1>1, <1>4, TailIn
  <2> QED BY <1>1, <1>4, <2>1 DEF PacketsAreTyped
<1>5. CASE packets' = <<>> /\ ~decoding'
  BY <1>1, <1>5, EmptyIn DEF PacketsAreTyped
<1> QED BY <1>1, <1>2, <1>3, <1>4, <1>5, PacketSteps DEF PacketMoves, WiiuTypes

\* What a step does to the held picture, the last submitted and the last taken message.
HeldMoves ==
    /\ \/ held' \in {held, Nothing}
       \/ line # <<>> /\ Head(line).t \in Pictures /\ held' = Head(line)
       \/ Offered.t \in Pictures /\ held' = Offered
    /\ fed' \in {fed, held, Nothing}
    /\ taken' = taken \/ (Offered # Nothing /\ taken' = Offered.n)

LEMMA HeldSteps == [WiiuNext]_wiiuVars => HeldMoves
<1> SUFFICES ASSUME [WiiuNext]_wiiuVars PROVE HeldMoves
    OBVIOUS
<1> USE DEF HeldMoves, wiiuLinkVars, hostVars, rxVars, syncVars, wiiuMainVars, ownVars, workVars
<1>1. CASE HostKey
  BY <1>1 DEF HostKey, Send
<1>2. CASE HostDelta
  BY <1>2 DEF HostDelta, Send
<1>3. CASE HostOther
  BY <1>3 DEF HostOther, Send
<1>4. CASE LinkLost
  BY <1>4 DEF LinkLost, UserOrder
<1>5. CASE RxEnds
  BY <1>5 DEF RxEnds
<1>6. CASE RxFails
  BY <1>6 DEF RxFails, RxReads, CloseSocket
<1>7. CASE RxOther
  BY <1>7 DEF RxOther, RxReads
<1>8. CASE RxInfo
  BY <1>8 DEF RxInfo, RxReads
<1>9. CASE RxPicture
  BY <1>9 DEF RxPicture, RxReads, AskHost, Pictures
<1>10. CASE RxSubmits
  BY <1>10 DEF RxSubmits, Submitted
<1>11. CASE RxGivesUp
  BY <1>11 DEF RxGivesUp, AskHost
<1>12. CASE Decode
  BY <1>12 DEF Decode
<1>13. CASE Decoded
  BY <1>13 DEF Decoded
<1>14. CASE TakeNothing
  BY <1>14 DEF TakeNothing
<1>15. CASE TakeOther
  BY <1>15 DEF TakeOther, TakeOffered
<1>16. CASE TakeInfo
  BY <1>16 DEF TakeInfo, TakeOffered
<1>17. CASE TakePicture
  BY <1>17 DEF TakePicture, TakeOffered, AskHost, Pictures
<1>18. CASE MainSubmits
  BY <1>18 DEF MainSubmits, Submitted
<1>19. CASE MainGivesUp
  BY <1>19 DEF MainGivesUp, AskHost
<1>20. CASE Rebuild
  BY <1>20 DEF Rebuild, WorkerStops, WorkerStarts
<1>21. CASE Resume
  BY <1>21 DEF Resume, AskHost
<1>22. CASE ConnectAsked
  BY <1>22 DEF ConnectAsked, Joined, CloseSocket, RxStart
<1>23. CASE ConnectRefused
  BY <1>23 DEF ConnectRefused, Joined
<1>24. CASE AsyncToggled
  BY <1>24 DEF AsyncToggled, Joined, RxStart
<1>25. CASE ReleaseAll
  BY <1>25 DEF ReleaseAll, WorkerStops, Joined, CloseSocket
<1>26. CASE ComesBack
  BY <1>26 DEF ComesBack, WorkerStarts
<1>27. CASE EndsAway
  BY <1>27 DEF EndsAway
<1>28. CASE BeginConnect
  BY <1>28 DEF BeginConnect, Turn
<1>29. CASE FinishConnect
  BY <1>29 DEF FinishConnect, Turn
<1>30. CASE HandshakeReply
  BY <1>30 DEF HandshakeReply, Turn
<1>31. CASE ConnectFails
  BY <1>31 DEF ConnectFails, Turn, CloseSocket
<1>32. CASE PollHost
  BY <1>32 DEF PollHost, Turn, CloseSocket
<1>33. ASSUME NEW g \in Geometries, HostGeometry(g) PROVE HeldMoves
  BY <1>33 DEF HostGeometry, Send, UserOrder
<1>34. ASSUME NEW what \in {"connect", "toggle", "home", "exit"}, Join(what)
      PROVE  HeldMoves
  BY <1>34 DEF Join, UserOrder
<1>35. CASE UNCHANGED wiiuVars
  BY <1>35 DEF wiiuVars
<1> QED BY <1>1, <1>2, <1>3, <1>4, <1>5, <1>6, <1>7, <1>8, <1>9, <1>10, <1>11, <1>12, <1>13, <1>14,
    <1>15, <1>16, <1>17, <1>18, <1>19, <1>20, <1>21, <1>22, <1>23, <1>24, <1>25, <1>26, <1>27,
    <1>28, <1>29, <1>30, <1>31, <1>32, <1>33, <1>34, <1>35 DEF WiiuNext, HostNext, RxNext,
    WorkNext, TakeNext, JoinNext, WiiuLinkNext, MenuNext

LEMMA MessagesKept == WiiuTypes /\ [WiiuNext]_wiiuVars => MessagesAreTyped'
<1> SUFFICES ASSUME WiiuTypes, [WiiuNext]_wiiuVars PROVE MessagesAreTyped'
    OBVIOUS
<1>1. /\ line \in Seq(OnTheLine) /\ held \in Shown /\ fed \in Shown /\ taken \in Nat
      /\ Geometries # {}
  BY DEF WiiuTypes, LineIsTyped, MessagesAreTyped, GeometriesAreKnown
<1>2. Nothing \in Shown /\ Nothing.t = "none"
  BY <1>1, NothingIsShown DEF Nothing
<1>3. \A m \in OnTheLine : m.n \in Nat /\ (m.t \in Pictures => m \in Shown)
  BY DEF OnTheLine, Shown, Sendable, Pictures
<1>4. line # <<>> => Head(line) \in OnTheLine
  BY <1>1, TailIn
<1>5. Offered # Nothing => Offered \in OnTheLine
  BY <1>1, OfferedIn
<1>6. Offered.t \in Pictures => Offered # Nothing
  BY <1>2 DEF Pictures
<1>7. held' \in Shown
  BY <1>1, <1>2, <1>3, <1>4, <1>5, <1>6, HeldSteps DEF HeldMoves
<1>8. fed' \in Shown
  BY <1>1, <1>2, HeldSteps DEF HeldMoves
<1>9. taken' \in Nat
  BY <1>1, <1>3, <1>5, HeldSteps DEF HeldMoves
<1> QED BY <1>7, <1>8, <1>9 DEF MessagesAreTyped

LEMMA WiiuKeepsTypes == WiiuTypes /\ [WiiuNext]_wiiuVars => WiiuTypes'
BY FlagsKept, StepsKept, GeometriesKept, LineKept, QueueKept, PacketsKept, MessagesKept DEF WiiuTypes

----------------------------------------------------------------------------
(* The Wii U client: the receiver leaves before main() does what both do.  *)
(* A receiver that read of another geometry is paused until main() has     *)
(* taken that message, made the decoder again and let it go on.            *)

NoInfo(s) == \A i \in 1 .. Len(s) : s[i].t # "info"
OneInfo(s) == \A i, j \in 1 .. Len(s) : s[i].t = "info" /\ s[j].t = "info" => i = j

ReceiverIsApart ==
    /\ ~playing => queued = <<>> /\ rx = "none"
    /\ wiiuPc \in {"away", "over"} => ~playing
    /\ ~asyncWanted => rx = "none" /\ (wiiuPc \in {"top", "join"} => queued = <<>>)
    /\ wiiuPc = "submit" => rx = "none"
    /\ rx = "submit" => ~paused
    /\ rx # "none" /\ ~paused => NoInfo(queued) /\ wiiuPc \notin {"rebuild", "resume"}
    /\ rx # "none" /\ wiiuPc \in {"rebuild", "resume"} => NoInfo(queued)
    /\ rx # "none" => OneInfo(queued)

LEMMA InfoLessTail ==
    ASSUME NEW S, NEW s \in Seq(S), s # <<>>
    PROVE  /\ NoInfo(s) => NoInfo(Tail(s)) /\ Head(s).t # "info"
           /\ OneInfo(s) => OneInfo(Tail(s)) /\ (Head(s).t = "info" => NoInfo(Tail(s)))
<1>1. /\ Head(s) = s[1] /\ Len(s) \in Nat /\ Len(s) > 0 /\ Len(Tail(s)) = Len(s) - 1
      /\ \A i \in 1 .. Len(Tail(s)) : i + 1 \in 1 .. Len(s) /\ Tail(s)[i] = s[i + 1]
  BY TailIn
<1>2. 1 \in 1 .. Len(s)
  BY <1>1
<1>3. NoInfo(s) => NoInfo(Tail(s)) /\ Head(s).t # "info"
  BY <1>1, <1>2 DEF NoInfo
<1>4. ASSUME OneInfo(s) PROVE OneInfo(Tail(s))
  <2>1. SUFFICES ASSUME NEW i \in 1 .. Len(Tail(s)), NEW j \in 1 .. Len(Tail(s)),
                        Tail(s)[i].t = "info", Tail(s)[j].t = "info"
                 PROVE  i = j
    BY DEF OneInfo
  <2>2. i + 1 = j + 1
    BY <1>1, <1>4, <2>1 DEF OneInfo
  <2> QED BY <1>1, <2>2
<1>5. ASSUME OneInfo(s), Head(s).t = "info", NEW i \in 1 .. Len(Tail(s)) PROVE Tail(s)[i].t # "info"
  <2>1. Tail(s)[i].t = "info" => 1 = i + 1
    BY <1>1, <1>2, <1>5 DEF OneInfo
  <2>2. i \in Nat /\ i > 0
    BY <1>1
  <2> QED BY <2>1, <2>2
<1> QED BY <1>3, <1>4, <1>5 DEF NoInfo

LEMMA InfoMoreLast ==
    ASSUME NEW S, NEW s \in Seq(S), NEW e \in S
    PROVE  /\ NoInfo(s) /\ e.t # "info" => NoInfo(Append(s, e))
           /\ OneInfo(s) /\ e.t # "info" => OneInfo(Append(s, e))
           /\ NoInfo(s) => OneInfo(Append(s, e))
<1>1. /\ Len(s) \in Nat /\ Len(Append(s, e)) = Len(s) + 1 /\ Append(s, e)[Len(s) + 1] = e
      /\ \A i \in 1 .. Len(s) : Append(s, e)[i] = s[i]
  BY AppendIn
<1>2. \A i \in 1 .. Len(Append(s, e)) : i \in 1 .. Len(s) \/ i = Len(s) + 1
  BY <1>1
<1> QED BY <1>1, <1>2 DEF NoInfo, OneInfo

LEMMA InfoQueued ==
    ASSUME QueueIsTyped, NEW m \in ForMain
    PROVE  /\ NoInfo(queued) /\ m.t # "info" => NoInfo(Queue(m))
           /\ OneInfo(queued) /\ m.t # "info" => OneInfo(Queue(m))
           /\ NoInfo(queued) => OneInfo(Queue(m))
<1>1. queued \in Seq(ForMain)
  BY DEF QueueIsTyped
<1>2. CASE Len(queued) >= EventSlots
  <2>1. queued # <<>>
    BY <1>1, <1>2, WiiuAssumption
  <2>2. Tail(queued) \in Seq(ForMain)
    BY <1>1, <2>1, TailIn
  <2>3. (NoInfo(queued) => NoInfo(Tail(queued))) /\ (OneInfo(queued) => OneInfo(Tail(queued)))
    BY <1>1, <2>1, InfoLessTail
  <2> QED BY <1>2, <2>2, <2>3, InfoMoreLast DEF Queue
<1>3. CASE ~(Len(queued) >= EventSlots)
  BY <1>1, <1>3, InfoMoreLast DEF Queue
<1> QED BY <1>2, <1>3

LEMMA ReceiverStaysApart ==
    WiiuTypes /\ ReceiverIsApart /\ [WiiuNext]_wiiuVars => ReceiverIsApart'
<1> SUFFICES ASSUME WiiuTypes, ReceiverIsApart, [WiiuNext]_wiiuVars PROVE ReceiverIsApart'
    OBVIOUS
<1> USE DEF ReceiverIsApart, wiiuLinkVars, hostVars, rxVars, syncVars, wiiuMainVars, ownVars,
    workVars
<1>0. /\ FlagsAreTyped /\ StepsAreKnown
      /\ NoInfo(<<>>) /\ OneInfo(<<>>)
      /\ queued # <<>> => /\ Head(queued).t \in {"info", "other"}
                          /\ NoInfo(queued) => NoInfo(Tail(queued)) /\ Head(queued).t # "info"
                          /\ OneInfo(queued) => /\ OneInfo(Tail(queued))
                                                /\ Head(queued).t = "info" => NoInfo(Tail(queued))
      /\ line # <<>> /\ Head(line).t \in {"info", "other"}
            => /\ Head(line).t # "info" /\ NoInfo(queued) => NoInfo(Queue(Head(line)))
               /\ Head(line).t # "info" /\ OneInfo(queued) => OneInfo(Queue(Head(line)))
               /\ NoInfo(queued) => OneInfo(Queue(Head(line)))
  <2>1. queued \in Seq(ForMain) /\ line \in Seq(OnTheLine) /\ QueueIsTyped /\ FlagsAreTyped /\ StepsAreKnown
    BY DEF WiiuTypes, QueueIsTyped, LineIsTyped
  <2>2. NoInfo(<<>>) /\ OneInfo(<<>>)
    BY EmptyIn DEF NoInfo, OneInfo
  <2>3. queued # <<>> => Head(queued).t \in {"info", "other"}
    <3>1. queued # <<>> => Head(queued) \in ForMain
      BY <2>1, TailIn
    <3> QED BY <3>1 DEF ForMain, Sendable
  <2>4. line # <<>> /\ Head(line).t \in {"info", "other"} => Head(line) \in ForMain
    <3>1. line # <<>> => Head(line) \in OnTheLine
      BY <2>1, TailIn
    <3> QED BY <3>1 DEF OnTheLine, ForMain, Sendable
  <2> QED BY <2>1, <2>2, <2>3, <2>4, InfoLessTail, InfoQueued
<1>1. CASE HostKey
  BY <1>1, <1>0 DEF HostKey, Send
<1>2. CASE HostDelta
  BY <1>2, <1>0 DEF HostDelta, Send
<1>3. CASE HostOther
  BY <1>3, <1>0 DEF HostOther, Send
<1>4. CASE LinkLost
  BY <1>4, <1>0 DEF LinkLost, UserOrder
<1>5. CASE RxEnds
  BY <1>5, <1>0 DEF RxEnds
<1>6. CASE RxFails
  BY <1>6, <1>0 DEF RxFails, RxReads, CloseSocket
<1>7. CASE RxOther
  BY <1>7, <1>0 DEF RxOther, RxReads
<1>8. CASE RxInfo
  BY <1>8, <1>0 DEF RxInfo, RxReads
<1>9. CASE RxPicture
  BY <1>9, <1>0 DEF RxPicture, RxReads, AskHost, Pictures, FlagsAreTyped
<1>10. CASE RxSubmits
  BY <1>10, <1>0 DEF RxSubmits, Submitted
<1>11. CASE RxGivesUp
  BY <1>11, <1>0 DEF RxGivesUp, AskHost
<1>12. CASE Decode
  BY <1>12, <1>0 DEF Decode
<1>13. CASE Decoded
  BY <1>13, <1>0 DEF Decoded
<1>14. CASE TakeNothing
  BY <1>14, <1>0 DEF TakeNothing, FromEvents, FromBuffer, DirectRead, Nothing, Offered
<1>15. CASE TakeOther
  BY <1>15, <1>0 DEF TakeOther, TakeOffered, FromEvents, FromBuffer, DirectRead, Nothing, Offered
<1>16. CASE TakeInfo
  BY <1>16, <1>0 DEF TakeInfo, TakeOffered, FromEvents, FromBuffer, DirectRead, Nothing, Offered
<1>17. CASE TakePicture
  BY <1>17, <1>0 DEF TakePicture, TakeOffered, AskHost, Pictures, FromEvents, FromBuffer,
      DirectRead, Nothing, Offered
<1>18. CASE MainSubmits
  BY <1>18, <1>0 DEF MainSubmits, Submitted
<1>19. CASE MainGivesUp
  BY <1>19, <1>0 DEF MainGivesUp, AskHost
<1>20. CASE Rebuild
  BY <1>20, <1>0 DEF Rebuild, WorkerStops, WorkerStarts
<1>21. CASE Resume
  BY <1>21, <1>0 DEF Resume, AskHost
<1>22. CASE ConnectAsked
  BY <1>22, <1>0 DEF ConnectAsked, Joined, CloseSocket, RxStart
<1>23. CASE ConnectRefused
  BY <1>23, <1>0 DEF ConnectRefused, Joined
<1>24. CASE AsyncToggled
  BY <1>24, <1>0 DEF AsyncToggled, Joined, RxStart
<1>25. CASE ReleaseAll
  BY <1>25, <1>0 DEF ReleaseAll, WorkerStops, Joined, CloseSocket
<1>26. CASE ComesBack
  BY <1>26, <1>0 DEF ComesBack, WorkerStarts
<1>27. CASE EndsAway
  BY <1>27, <1>0 DEF EndsAway
<1>28. CASE BeginConnect
  BY <1>28, <1>0 DEF BeginConnect, Turn
<1>29. CASE FinishConnect
  BY <1>29, <1>0 DEF FinishConnect, Turn
<1>30. CASE HandshakeReply
  BY <1>30, <1>0 DEF HandshakeReply, Turn
<1>31. CASE ConnectFails
  BY <1>31, <1>0 DEF ConnectFails, Turn, CloseSocket
<1>32. CASE PollHost
  BY <1>32, <1>0 DEF PollHost, Turn, CloseSocket
<1>33. ASSUME NEW g \in Geometries, HostGeometry(g) PROVE ReceiverIsApart'
  BY <1>33, <1>0 DEF HostGeometry, Send, UserOrder
<1>34. ASSUME NEW what \in {"connect", "toggle", "home", "exit"}, Join(what)
      PROVE  ReceiverIsApart'
  BY <1>34, <1>0 DEF Join, UserOrder
<1>35. CASE UNCHANGED wiiuVars
  BY <1>35, <1>0 DEF wiiuVars
<1> QED BY <1>1, <1>2, <1>3, <1>4, <1>5, <1>6, <1>7, <1>8, <1>9, <1>10, <1>11, <1>12, <1>13, <1>14,
    <1>15, <1>16, <1>17, <1>18, <1>19, <1>20, <1>21, <1>22, <1>23, <1>24, <1>25, <1>26, <1>27,
    <1>28, <1>29, <1>30, <1>31, <1>32, <1>33, <1>34, <1>35 DEF WiiuNext, HostNext, RxNext,
    WorkNext, TakeNext, JoinNext, WiiuLinkNext, MenuNext

\* The receiver has let go of the connection and the decoder when main() takes either
\* down, and is gone when main() leaves.
THEOREM ReceiverLeaves == WiiuSpec => [](WiiuTypeOK /\ ReceiverLeavesFirst)
<1>1. WiiuInit => WiiuTypes /\ ReceiverIsApart
  <2> SUFFICES ASSUME WiiuInit PROVE WiiuTypes /\ ReceiverIsApart
      OBVIOUS
  <2>1. \A i \in 1 .. Len(queued) : FALSE
    <3>1. Len(queued) = 0
      BY EmptyIn DEF WiiuInit
    <3> QED BY <3>1
  <2> QED BY <2>1, WiiuTypesStart DEF WiiuInit, ReceiverIsApart, NoInfo, OneInfo
<1>2. (WiiuTypes /\ ReceiverIsApart) /\ [WiiuNext]_wiiuVars => (WiiuTypes /\ ReceiverIsApart)'
  BY WiiuKeepsTypes, ReceiverStaysApart
<1>3. WiiuTypes /\ ReceiverIsApart => WiiuTypeOK /\ ReceiverLeavesFirst
  BY TypesSuffice DEF ReceiverIsApart, ReceiverLeavesFirst, WiiuTypes, StepsAreKnown, FlagsAreTyped
<1> QED BY <1>1, <1>2, <1>3, PTL DEF WiiuSpec

----------------------------------------------------------------------------
(* The Wii U client: in order.  The events and the line are one sequence,  *)
(* numbered as the host sent it, from the last message main() took.        *)

Ascending(s) == \A i, j \in 1 .. Len(s) : i < j => s[i].n < s[j].n
Within(s, low, high) == \A i \in 1 .. Len(s) : low <= s[i].n /\ s[i].n <= high
Precede(q, l) == \A i \in 1 .. Len(q), j \in 1 .. Len(l) : q[i].n < l[j].n

InSequence(q, l, low, high) ==
    /\ Ascending(q) /\ Ascending(l) /\ Precede(q, l)
    /\ Within(q, low, high) /\ Within(l, low, high) /\ low <= high

LEMMA SequenceEmptied ==
    ASSUME NEW q, NEW l, NEW low, NEW high, InSequence(q, l, low, high)
    PROVE  InSequence(q, <<>>, low, high) /\ InSequence(<<>>, <<>>, low, high)
<1>1. \A i \in 1 .. Len(<<>>) : FALSE
  BY EmptyIn
<1> QED BY <1>1 DEF InSequence, Ascending, Within, Precede

LEMMA SequenceSent ==
    ASSUME NEW q \in Seq(OnTheLine), NEW l \in Seq(OnTheLine), NEW low \in Nat, NEW high \in Nat,
           InSequence(q, l, low, high), NEW m \in OnTheLine, m.n = high + 1
    PROVE  InSequence(q, Append(l, m), low, high + 1)
<1> DEFINE s == Append(l, m)
<1>1. /\ Len(l) \in Nat /\ Len(s) = Len(l) + 1 /\ s[Len(l) + 1] = m
      /\ \A i \in 1 .. Len(l) : s[i] = l[i]
  BY AppendIn
<1>2. \A i \in 1 .. Len(s) : i \in 1 .. Len(l) \/ i = Len(l) + 1
  BY <1>1
<1>3. /\ \A i \in 1 .. Len(q) : q[i].n \in Nat
      /\ \A i \in 1 .. Len(l) : l[i].n \in Nat
  <2>1. \A e \in OnTheLine : e.n \in Nat
    BY DEF OnTheLine, Sendable
  <2>2. (\A i \in 1 .. Len(q) : q[i] \in OnTheLine) /\ (\A i \in 1 .. Len(l) : l[i] \in OnTheLine)
    OBVIOUS
  <2> QED BY <2>1, <2>2
<1> HIDE DEF s
<1>4. Ascending(s)
  BY <1>1, <1>2, <1>3 DEF InSequence, Ascending, Within
<1>5. Precede(q, s)
  BY <1>1, <1>2, <1>3 DEF InSequence, Precede, Within
<1>6. Within(q, low, high + 1) /\ Within(s, low, high + 1) /\ low <= high + 1
  BY <1>1, <1>2, <1>3 DEF InSequence, Within
<1> QED BY <1>4, <1>5, <1>6 DEF InSequence, s

LEMMA SequenceTaken ==
    ASSUME NEW q \in Seq(OnTheLine), NEW l \in Seq(OnTheLine), NEW low \in Nat, NEW high \in Nat,
           InSequence(q, l, low, high), q # <<>>
    PROVE  /\ InSequence(Tail(q), l, low, high)
           /\ InSequence(Tail(q), l, Head(q).n, high) /\ low <= Head(q).n
<1> DEFINE s == Tail(q)
<1>1. /\ Head(q) = q[1] /\ Len(q) \in Nat /\ Len(q) > 0 /\ Len(s) = Len(q) - 1
      /\ \A i \in 1 .. Len(s) : i + 1 \in 1 .. Len(q) /\ s[i] = q[i + 1]
  BY TailIn
<1>2. /\ \A i \in 1 .. Len(q) : q[i].n \in Nat
      /\ \A i \in 1 .. Len(l) : l[i].n \in Nat
  <2>1. \A e \in OnTheLine : e.n \in Nat
    BY DEF OnTheLine, Sendable
  <2>2. (\A i \in 1 .. Len(q) : q[i] \in OnTheLine) /\ (\A i \in 1 .. Len(l) : l[i] \in OnTheLine)
    OBVIOUS
  <2> QED BY <2>1, <2>2
<1>3. 1 \in 1 .. Len(q) /\ \A i \in 1 .. Len(s) : 1 < i + 1
  BY <1>1
<1> HIDE DEF s
<1>4. Ascending(s)
  <2> SUFFICES ASSUME NEW i \in 1 .. Len(s), NEW j \in 1 .. Len(s), i < j PROVE s[i].n < s[j].n
      BY DEF Ascending
  <2>1. i + 1 < j + 1 /\ i + 1 \in 1 .. Len(q) /\ j + 1 \in 1 .. Len(q)
    BY <1>1
  <2>2. q[i + 1].n < q[j + 1].n
    BY <2>1 DEF InSequence, Ascending
  <2> QED BY <1>1, <2>2
<1>5. Precede(s, l)
  BY <1>1 DEF InSequence, Precede
<1>6. Within(s, low, high) /\ Within(s, Head(q).n, high)
  <2> SUFFICES ASSUME NEW i \in 1 .. Len(s)
               PROVE  low <= s[i].n /\ s[i].n <= high /\ Head(q).n <= s[i].n
      BY DEF Within
  <2>1. q[1].n < q[i + 1].n
    BY <1>1, <1>3 DEF InSequence, Ascending
  <2>2. /\ s[i] = q[i + 1] /\ Head(q) = q[1] /\ q[1].n \in Nat /\ q[i + 1].n \in Nat
        /\ low <= q[i + 1].n /\ q[i + 1].n <= high
    BY <1>1, <1>2, <1>3 DEF InSequence, Within
  <2> QED BY <2>1, <2>2
<1>7. Within(l, Head(q).n, high)
  BY <1>1, <1>2, <1>3 DEF InSequence, Within, Precede
<1>8. low <= Head(q).n /\ Head(q).n <= high
  BY <1>1, <1>2, <1>3 DEF InSequence, Within
<1> QED BY <1>4, <1>5, <1>6, <1>7, <1>8 DEF InSequence, s

LEMMA SequenceRead ==
    ASSUME NEW q \in Seq(OnTheLine), NEW l \in Seq(OnTheLine), NEW low \in Nat, NEW high \in Nat,
           InSequence(q, l, low, high), l # <<>>
    PROVE  /\ InSequence(q, Tail(l), low, high)
           /\ InSequence(Append(q, Head(l)), Tail(l), low, high)
           /\ q = <<>> => InSequence(q, Tail(l), Head(l).n, high)
           /\ low <= Head(l).n
<1> DEFINE s == Tail(l)
           r == Append(q, Head(l))
<1>1. /\ Head(l) = l[1] /\ Head(l) \in OnTheLine /\ Len(l) \in Nat /\ Len(l) > 0 /\ Len(s) = Len(l) - 1
      /\ \A i \in 1 .. Len(s) : i + 1 \in 1 .. Len(l) /\ s[i] = l[i + 1]
  BY TailIn
<1>2. /\ \A i \in 1 .. Len(q) : q[i].n \in Nat
      /\ \A i \in 1 .. Len(l) : l[i].n \in Nat
  <2>1. \A e \in OnTheLine : e.n \in Nat
    BY DEF OnTheLine, Sendable
  <2>2. (\A i \in 1 .. Len(q) : q[i] \in OnTheLine) /\ (\A i \in 1 .. Len(l) : l[i] \in OnTheLine)
    OBVIOUS
  <2> QED BY <2>1, <2>2
<1>3. 1 \in 1 .. Len(l) /\ \A i \in 1 .. Len(s) : 1 < i + 1
  BY <1>1
<1>4. /\ Len(q) \in Nat /\ Len(r) = Len(q) + 1 /\ r[Len(q) + 1] = l[1]
      /\ \A i \in 1 .. Len(q) : r[i] = q[i]
  BY <1>1, AppendIn
<1>5. \A i \in 1 .. Len(r) : i \in 1 .. Len(q) \/ i = Len(q) + 1
  BY <1>4
<1> HIDE DEF s, r
<1>6. Ascending(s) /\ Precede(q, s)
  <2>1. ASSUME NEW i \in 1 .. Len(s), NEW j \in 1 .. Len(s), i < j PROVE s[i].n < s[j].n
    <3>1. i + 1 < j + 1 /\ i + 1 \in 1 .. Len(l) /\ j + 1 \in 1 .. Len(l)
      BY <1>1, <2>1
    <3>2. l[i + 1].n < l[j + 1].n
      BY <3>1 DEF InSequence, Ascending
    <3> QED BY <1>1, <3>2
  <2>2. Precede(q, s)
    BY <1>1 DEF InSequence, Precede
  <2> QED BY <2>1, <2>2 DEF Ascending
<1>7. Within(s, low, high) /\ Within(s, Head(l).n, high)
  <2> SUFFICES ASSUME NEW i \in 1 .. Len(s)
               PROVE  low <= s[i].n /\ s[i].n <= high /\ Head(l).n <= s[i].n
      BY DEF Within
  <2>1. l[1].n < l[i + 1].n
    BY <1>1, <1>3 DEF InSequence, Ascending
  <2> QED BY <1>1, <1>2, <1>3, <2>1 DEF InSequence, Within
<1>8. low <= Head(l).n /\ Head(l).n <= high
  BY <1>1, <1>2, <1>3 DEF InSequence, Within
<1>9. Ascending(r)
  BY <1>2, <1>3, <1>4, <1>5 DEF InSequence, Ascending, Precede
<1>10. Precede(r, s)
  BY <1>1, <1>2, <1>3, <1>4, <1>5 DEF InSequence, Ascending, Precede
<1>11. Within(r, low, high)
  BY <1>2, <1>3, <1>4, <1>5 DEF InSequence, Within
<1>12. q = <<>> => Within(q, Head(l).n, high)
  <2>1. \A i \in 1 .. Len(<<>>) : FALSE
    BY EmptyIn
  <2> QED BY <2>1 DEF Within
<1> QED BY <1>6, <1>7, <1>8, <1>9, <1>10, <1>11, <1>12 DEF InSequence, s, r

MessagesInOrder == InSequence(queued, line, taken, sent)

LEMMA MessagesStayInOrder ==
    WiiuTypes /\ MessagesInOrder /\ [WiiuNext]_wiiuVars => MessagesInOrder' /\ taken' >= taken
<1> SUFFICES ASSUME WiiuTypes, MessagesInOrder, [WiiuNext]_wiiuVars
             PROVE  MessagesInOrder' /\ taken' >= taken
    OBVIOUS
<1> USE DEF MessagesInOrder
<1>1. /\ queued \in Seq(ForMain) /\ line \in Seq(OnTheLine) /\ taken \in Nat /\ sent \in Nat
  BY WiiuAssumption DEF WiiuTypes, QueueIsTyped, LineIsTyped, MessagesAreTyped
<1>2. queued \in Seq(OnTheLine) /\ \A e \in OnTheLine : e.n \in Nat
  <2>1. ForMain \subseteq OnTheLine /\ \A e \in OnTheLine : e.n \in Nat
    BY DEF ForMain, OnTheLine, Sendable
  <2> QED BY <1>1, <2>1
<1>3. CASE Stay
  BY <1>1, <1>3 DEF Stay
<1>4. CASE Cleared
  BY <1>1, <1>4, SequenceEmptied DEF Cleared
<1>5. CASE OneIsSent
  <2>1. PICK m \in OnTheLine : m.n = sent + 1 /\ line' = Append(line, m)
    BY <1>5 DEF OneIsSent
  <2>2. InSequence(queued, Append(line, m), taken, sent + 1)
    BY <1>1, <1>2, <2>1, SequenceSent
  <2> QED BY <1>1, <1>5, <2>1, <2>2 DEF OneIsSent
<1>6. CASE OneIsRead
  <2>1. InSequence(queued, Tail(line), taken, sent)
    BY <1>1, <1>2, <1>6, SequenceRead DEF OneIsRead
  <2>2. InSequence(Queue(Head(line)), Tail(line), taken, sent)
    <3>1. CASE Len(queued) >= EventSlots
      <4>1. queued # <<>>
        BY <1>1, <3>1, WiiuAssumption
      <4>2. Tail(queued) \in Seq(OnTheLine) /\ InSequence(Tail(queued), line, taken, sent)
        BY <1>1, <1>2, <4>1, TailIn, SequenceTaken
      <4> QED BY <1>1, <1>6, <3>1, <4>2, SequenceRead DEF OneIsRead, Queue
    <3>2. CASE ~(Len(queued) >= EventSlots)
      BY <1>1, <1>2, <1>6, <3>2, SequenceRead DEF OneIsRead, Queue
    <3> QED BY <3>1, <3>2
  <2> QED BY <1>1, <1>6, <2>1, <2>2 DEF OneIsRead
<1>7. CASE EventIsTaken
  <2>1. InSequence(Tail(queued), line, Head(queued).n, sent) /\ taken <= Head(queued).n
    BY <1>1, <1>2, <1>7, SequenceTaken DEF EventIsTaken
  <2>2. Head(queued).n \in Nat
    BY <1>2, <1>7, TailIn DEF EventIsTaken
  <2> QED BY <1>1, <1>7, <2>1, <2>2 DEF EventIsTaken
<1>8. CASE MessageIsTaken
  <2>1. InSequence(queued, Tail(line), Head(line).n, sent) /\ taken <= Head(line).n
    BY <1>1, <1>2, <1>8, SequenceRead DEF MessageIsTaken
  <2>2. Head(line).n \in Nat
    BY <1>1, <1>2, <1>8, TailIn DEF MessageIsTaken
  <2> QED BY <1>1, <1>8, <2>1, <2>2 DEF MessageIsTaken
<1> QED BY <1>3, <1>4, <1>5, <1>6, <1>7, <1>8, MessagesPass DEF Passing

----------------------------------------------------------------------------
(* The Wii U client: no picture without the one it needs.  On the line     *)
(* every such picture follows the one it needs; so whoever reads the line  *)
(* after that one, with every picture since shown, misses none.            *)

\* n is the number of the last picture of s before position k; p stands for the last
\* before s.
Follows(s, k, p, n) ==
    \/ n = p /\ \A i \in 1 .. k - 1 : s[i].t \notin Pictures
    \/ \E i \in 1 .. k - 1 : /\ s[i].t \in Pictures /\ n = s[i].n
                             /\ \A j \in i + 1 .. k - 1 : s[j].t \notin Pictures

\* The pictures of s, and the next the host makes, need those before them.
ChainFrom(s, c, p) ==
    /\ \A k \in 1 .. Len(s) : s[k].t = "delta" => Follows(s, k, p, s[k].after)
    /\ c # 0 => Follows(s, Len(s) + 1, p, c)

LEMMA FollowsAfterHead ==
    ASSUME NEW S, NEW s \in Seq(S), s # <<>>, NEW k \in 1 .. Len(s), NEW p, NEW n,
           Follows(s, k + 1, p, n)
    PROVE  Follows(Tail(s), k, IF Head(s).t \in Pictures THEN Head(s).n ELSE p, n)
<1> DEFINE r == Tail(s)
<1>1. /\ Head(s) = s[1] /\ Len(s) \in Nat /\ Len(s) > 0 /\ Len(r) = Len(s) - 1
      /\ \A i \in 1 .. Len(r) : i + 1 \in 1 .. Len(s) /\ r[i] = s[i + 1]
  BY TailIn
<1> HIDE DEF r
<1>2. k \in Nat /\ k >= 1 /\ k <= Len(s) /\ (k + 1) - 1 = k
  BY <1>1
<1>3. \A i \in 1 .. k - 1 : i + 1 \in 1 .. k /\ r[i] = s[i + 1]
  BY <1>1, <1>2
<1>4. CASE n = p /\ \A i \in 1 .. (k + 1) - 1 : s[i].t \notin Pictures
  <2>1. s[1].t \notin Pictures
    BY <1>2, <1>4
  <2>2. \A i \in 1 .. k - 1 : r[i].t \notin Pictures
    BY <1>2, <1>3, <1>4
  <2> QED BY <1>1, <1>4, <2>1, <2>2 DEF Follows, r
<1>5. ASSUME NEW i \in 1 .. (k + 1) - 1, s[i].t \in Pictures, n = s[i].n,
             \A j \in i + 1 .. (k + 1) - 1 : s[j].t \notin Pictures
      PROVE  Follows(r, k, IF Head(s).t \in Pictures THEN Head(s).n ELSE p, n)
  <2>1. CASE i = 1
    <3>1. \A j \in 1 .. k - 1 : j + 1 \in i + 1 .. (k + 1) - 1
      BY <1>2, <2>1
    <3>2. \A j \in 1 .. k - 1 : r[j].t \notin Pictures
      BY <1>3, <1>5, <3>1
    <3> QED BY <1>1, <1>5, <2>1, <3>2 DEF Follows
  <2>2. CASE i # 1
    <3>1. i - 1 \in 1 .. k - 1 /\ (i - 1) + 1 = i
      BY <1>2, <2>2
    <3>2. r[i - 1].t \in Pictures /\ n = r[i - 1].n
      BY <1>3, <1>5, <3>1
    <3>3. \A j \in (i - 1) + 1 .. k - 1 : j \in 1 .. k - 1 /\ j + 1 \in i + 1 .. (k + 1) - 1
      BY <1>2, <2>2
    <3>4. \A j \in (i - 1) + 1 .. k - 1 : r[j].t \notin Pictures
      BY <1>3, <1>5, <3>3
    <3> QED BY <3>1, <3>2, <3>4 DEF Follows
  <2> QED BY <2>1, <2>2
<1> QED BY <1>4, <1>5 DEF Follows, r

LEMMA FollowsBeforeLast ==
    ASSUME NEW S, NEW s \in Seq(S), NEW m \in S, NEW k \in 1 .. Len(s) + 1, NEW p, NEW n,
           Follows(s, k, p, n)
    PROVE  Follows(Append(s, m), k, p, n)
<1>1. Len(s) \in Nat /\ \A i \in 1 .. Len(s) : Append(s, m)[i] = s[i]
  BY AppendIn
<1>2. \A i \in 1 .. k - 1 : i \in 1 .. Len(s) /\ \A j \in i + 1 .. k - 1 : j \in 1 .. Len(s)
  BY <1>1
<1> QED BY <1>1, <1>2 DEF Follows

LEMMA FollowsLast ==
    ASSUME NEW S, NEW s \in Seq(S), NEW m \in S, NEW p
    PROVE  /\ m.t \in Pictures => Follows(Append(s, m), Len(s) + 2, p, m.n)
           /\ \A n : m.t \notin Pictures /\ Follows(s, Len(s) + 1, p, n)
                        => Follows(Append(s, m), Len(s) + 2, p, n)
<1> DEFINE r == Append(s, m)
<1>1. /\ Len(s) \in Nat /\ Len(r) = Len(s) + 1 /\ r[Len(s) + 1] = m
      /\ \A i \in 1 .. Len(s) : r[i] = s[i]
  BY AppendIn
<1> HIDE DEF r
<1>2. (Len(s) + 1) - 1 = Len(s) /\ (Len(s) + 2) - 1 = Len(s) + 1
  BY <1>1
<1>3. ASSUME m.t \in Pictures PROVE Follows(r, Len(s) + 2, p, m.n)
  <2>1. Len(s) + 1 \in 1 .. (Len(s) + 2) - 1 /\ \A j \in (Len(s) + 1) + 1 .. (Len(s) + 2) - 1 : FALSE
    BY <1>1
  <2> QED BY <1>1, <1>3, <2>1 DEF Follows
<1>4. ASSUME NEW n, m.t \notin Pictures, Follows(s, Len(s) + 1, p, n)
      PROVE  Follows(r, Len(s) + 2, p, n)
  <2>1. \A i \in 1 .. Len(s) + 1 : i \in 1 .. Len(s) \/ i = Len(s) + 1
    BY <1>1
  <2>2. CASE n = p /\ \A i \in 1 .. Len(s) : s[i].t \notin Pictures
    <3>1. \A i \in 1 .. Len(s) + 1 : r[i].t \notin Pictures
      BY <1>1, <1>4, <2>1, <2>2
    <3> QED BY <1>2, <2>2, <3>1 DEF Follows
  <2>3. ASSUME NEW i \in 1 .. Len(s), s[i].t \in Pictures, n = s[i].n,
               \A j \in i + 1 .. Len(s) : s[j].t \notin Pictures
        PROVE  Follows(r, Len(s) + 2, p, n)
    <3>1. i \in 1 .. Len(s) + 1 /\ r[i] = s[i]
      BY <1>1
    <3>2. \A j \in i + 1 .. Len(s) + 1 : (j \in i + 1 .. Len(s) /\ j \in 1 .. Len(s)) \/ j = Len(s) + 1
      BY <1>1
    <3>3. \A j \in i + 1 .. Len(s) + 1 : r[j].t \notin Pictures
      BY <1>1, <1>4, <2>3, <3>2
    <3> QED BY <1>2, <2>3, <3>1, <3>3 DEF Follows
  <2> QED BY <1>2, <1>4, <2>2, <2>3 DEF Follows
<1> QED BY <1>3, <1>4 DEF r

LEMMA ChainCleared == ASSUME NEW p PROVE ChainFrom(<<>>, 0, p)
<1>1. \A k \in 1 .. Len(<<>>) : FALSE
  BY EmptyIn
<1> QED BY <1>1 DEF ChainFrom

LEMMA ChainSent ==
    ASSUME NEW s \in Seq(OnTheLine), NEW c \in Nat, NEW p, ChainFrom(s, c, p), NEW m \in OnTheLine
    PROVE  /\ m.t = "key" => ChainFrom(Append(s, m), m.n, p)
           /\ m.t = "delta" /\ c # 0 /\ m.after = c => ChainFrom(Append(s, m), m.n, p)
           /\ m.t = "other" => ChainFrom(Append(s, m), c, p)
           /\ m.t = "info" => ChainFrom(Append(s, m), 0, p)
<1> DEFINE r == Append(s, m)
<1>1. /\ Len(s) \in Nat /\ Len(r) = Len(s) + 1 /\ r[Len(s) + 1] = m
      /\ \A i \in 1 .. Len(s) : r[i] = s[i]
  BY AppendIn
<1>2. \A k, n : k \in 1 .. Len(s) + 1 /\ Follows(s, k, p, n) => Follows(r, k, p, n)
  BY FollowsBeforeLast
<1>3. /\ m.t \in Pictures => Follows(r, Len(s) + 2, p, m.n)
      /\ \A n : m.t \notin Pictures /\ Follows(s, Len(s) + 1, p, n) => Follows(r, Len(s) + 2, p, n)
  BY FollowsLast
<1> HIDE DEF r
<1>4. /\ \A k \in 1 .. Len(r) : k \in 1 .. Len(s) \/ k = Len(s) + 1
      /\ \A k \in 1 .. Len(s) : k \in 1 .. Len(s) + 1
      /\ Len(r) + 1 = Len(s) + 2 /\ Len(s) + 1 \in 1 .. Len(s) + 1
  BY <1>1
<1>5. ASSUME m.t = "delta" => Follows(s, Len(s) + 1, p, m.after)
      PROVE  \A k \in 1 .. Len(r) : r[k].t = "delta" => Follows(r, k, p, r[k].after)
  <2> SUFFICES ASSUME NEW k \in 1 .. Len(r), r[k].t = "delta" PROVE Follows(r, k, p, r[k].after)
      OBVIOUS
  <2>1. CASE k \in 1 .. Len(s)
    BY <1>1, <1>2, <1>4, <2>1 DEF ChainFrom
  <2>2. CASE k = Len(s) + 1
    BY <1>1, <1>2, <1>4, <1>5, <2>2
  <2> QED BY <1>4, <2>1, <2>2
<1>6. (m.t = "key" => m.t \in Pictures /\ m.t # "delta") /\ (m.t = "delta" => m.t \in Pictures)
  BY DEF Pictures
<1>7. m.t \in {"other", "info"} => m.t \notin Pictures /\ m.t # "delta"
  BY DEF Pictures
<1>8. m.t = "key" => ChainFrom(r, m.n, p)
  BY <1>3, <1>4, <1>5, <1>6 DEF ChainFrom
<1>9. m.t = "delta" /\ c # 0 /\ m.after = c => ChainFrom(r, m.n, p)
  BY <1>3, <1>4, <1>5, <1>6 DEF ChainFrom
<1>10. m.t = "other" => ChainFrom(r, c, p)
  BY <1>3, <1>4, <1>5, <1>7 DEF ChainFrom
<1>11. m.t = "info" => ChainFrom(r, 0, p)
  BY <1>4, <1>5, <1>7 DEF ChainFrom
<1> QED BY <1>8, <1>9, <1>10, <1>11 DEF r

LEMMA ChainRead ==
    ASSUME NEW s \in Seq(OnTheLine), NEW c \in Nat, NEW p, ChainFrom(s, c, p), s # <<>>
    PROVE  /\ Head(s).t \notin Pictures => ChainFrom(Tail(s), c, p)
           /\ Head(s).t \in Pictures => ChainFrom(Tail(s), c, Head(s).n)
           /\ Head(s).t = "delta" => Head(s).after = p
<1> DEFINE r == Tail(s)
           q == IF Head(s).t \in Pictures THEN Head(s).n ELSE p
<1>1. /\ Head(s) = s[1] /\ Len(s) \in Nat /\ Len(s) > 0 /\ Len(r) = Len(s) - 1
      /\ \A i \in 1 .. Len(r) : i + 1 \in 1 .. Len(s) /\ r[i] = s[i + 1]
  BY TailIn
<1>2. \A k, n : k \in 1 .. Len(s) /\ Follows(s, k + 1, p, n) => Follows(r, k, q, n)
  BY FollowsAfterHead
<1> HIDE DEF r, q
<1>3. \A k \in 1 .. Len(r) : r[k].t = "delta" => Follows(r, k, q, r[k].after)
  <2> SUFFICES ASSUME NEW k \in 1 .. Len(r), r[k].t = "delta" PROVE Follows(r, k, q, r[k].after)
      OBVIOUS
  <2>1. k \in 1 .. Len(s) /\ k + 1 \in 1 .. Len(s) /\ r[k] = s[k + 1]
    BY <1>1
  <2> QED BY <1>2, <2>1 DEF ChainFrom
<1>4. c # 0 => Follows(r, Len(r) + 1, q, c)
  <2>1. Len(r) + 1 = Len(s) /\ Len(s) \in 1 .. Len(s)
    BY <1>1
  <2> QED BY <1>2, <2>1 DEF ChainFrom
<1>5. ChainFrom(r, c, q)
  BY <1>3, <1>4 DEF ChainFrom
<1>6. Head(s).t = "delta" => Head(s).after = p
  <2>1. 1 \in 1 .. Len(s) /\ \A i \in 1 .. 1 - 1 : FALSE
    BY <1>1
  <2> QED BY <1>1, <2>1 DEF ChainFrom, Follows
<1> QED BY <1>5, <1>6 DEF r, q

\* A step that takes no picture off the line leaves what the pictures on it need.
Survives == \A p \in Nat : ChainFrom(line, chain, p) => ChainFrom(line', chain', p)
PictureIsRead ==
    line # <<>> /\ Head(line).t \in Pictures /\ line' = Tail(line) /\ chain' = chain

LEMMA PictureSteps == WiiuTypes /\ (RxPicture \/ TakePicture) => PictureIsRead
<1> SUFFICES ASSUME WiiuTypes, RxPicture \/ TakePicture PROVE PictureIsRead
    OBVIOUS
<1>1. CASE RxPicture
  BY <1>1 DEF RxPicture, PictureIsRead
<1>2. CASE TakePicture
  <2>1. Offered.t \in Pictures /\ TakeOffered /\ chain' = chain
    BY <1>2 DEF TakePicture
  <2>2. ~FromEvents
    <3>1. FromEvents => Offered \in ForMain
      BY OfferedIn DEF WiiuTypes, GeometriesAreKnown
    <3> QED BY <2>1, <3>1 DEF ForMain, Sendable, Pictures
  <2>3. FromBuffer
    BY <2>1, <2>2 DEF Offered, Nothing, Pictures
  <2> QED BY <2>1, <2>2, <2>3 DEF TakeOffered, Offered, FromBuffer, PictureIsRead
<1> QED BY <1>1, <1>2

LEMMA ChainSteps ==
    WiiuTypes /\ [WiiuNext]_wiiuVars => Survives \/ RxPicture \/ TakePicture
<1> SUFFICES ASSUME WiiuTypes, [WiiuNext]_wiiuVars, ~RxPicture, ~TakePicture PROVE Survives
    OBVIOUS
<1> USE DEF Survives, wiiuLinkVars, hostVars, rxVars, syncVars, wiiuMainVars, ownVars, workVars
<1>0. /\ line \in Seq(OnTheLine) /\ chain \in Nat /\ sent \in Nat /\ hostGeo \in Geometries
      /\ \A p \in Nat : ChainFrom(<<>>, 0, p)
      /\ \A p \in Nat : ChainFrom(line, chain, p) => ChainFrom(line, 0, p)
      /\ \A p \in Nat : line # <<>> /\ Head(line).t \notin Pictures /\ ChainFrom(line, chain, p)
                            => ChainFrom(Tail(line), chain, p)
  <2>1. /\ line \in Seq(OnTheLine) /\ chain \in Nat /\ sent \in Nat /\ hostGeo \in Geometries
    BY WiiuAssumption DEF WiiuTypes, LineIsTyped, GeometriesAreKnown
  <2>2. \A p \in Nat : ChainFrom(<<>>, 0, p)
    BY ChainCleared
  <2>3. \A p \in Nat : ChainFrom(line, chain, p) => ChainFrom(line, 0, p)
    BY DEF ChainFrom
  <2> QED BY <2>1, <2>2, <2>3, ChainRead
<1>1. CASE HostKey
  <2> DEFINE m == [t |-> "key", n |-> sent + 1, after |-> 0, geo |-> hostGeo]
  <2>1. m \in OnTheLine /\ m.t = "key" /\ m.after = 0 /\ m.n = sent + 1
    BY <1>0 DEF OnTheLine, Sendable
  <2>2. line' = Append(line, m) /\ chain' = sent + 1
    BY <1>1 DEF HostKey, Send
  <2> HIDE DEF m
  <2> QED BY <1>0, <2>1, <2>2, ChainSent
<1>2. CASE HostDelta
  <2> DEFINE m == [t |-> "delta", n |-> sent + 1, after |-> chain, geo |-> hostGeo]
  <2>1. m \in OnTheLine /\ m.t = "delta" /\ m.after = chain /\ m.n = sent + 1
    BY <1>0 DEF OnTheLine, Sendable
  <2>2. line' = Append(line, m) /\ chain' = sent + 1 /\ chain # 0
    BY <1>2 DEF HostDelta, Send
  <2> HIDE DEF m
  <2> QED BY <1>0, <2>1, <2>2, ChainSent
<1>3. CASE HostOther
  <2> DEFINE m == [t |-> "other", n |-> sent + 1, after |-> 0, geo |-> hostGeo]
  <2>1. m \in OnTheLine /\ m.t = "other" /\ m.after = 0 /\ m.n = sent + 1
    BY <1>0 DEF OnTheLine, Sendable
  <2>2. line' = Append(line, m) /\ chain' = chain
    BY <1>3 DEF HostOther, Send
  <2> HIDE DEF m
  <2> QED BY <1>0, <2>1, <2>2, ChainSent
<1>4. CASE LinkLost
  BY <1>4, <1>0 DEF LinkLost, UserOrder
<1>5. CASE RxEnds
  BY <1>5, <1>0 DEF RxEnds
<1>6. CASE RxFails
  BY <1>6, <1>0 DEF RxFails, RxReads, CloseSocket
<1>7. CASE RxOther
  BY <1>7, <1>0 DEF RxOther, RxReads, Pictures
<1>8. CASE RxInfo
  BY <1>8, <1>0 DEF RxInfo, RxReads, Pictures
<1>9. CASE RxPicture
  BY <1>9
<1>10. CASE RxSubmits
  BY <1>10, <1>0 DEF RxSubmits, Submitted
<1>11. CASE RxGivesUp
  BY <1>11, <1>0 DEF RxGivesUp, AskHost
<1>12. CASE Decode
  BY <1>12, <1>0 DEF Decode
<1>13. CASE Decoded
  BY <1>13, <1>0 DEF Decoded
<1>14. CASE TakeNothing
  BY <1>14, <1>0 DEF TakeNothing
<1>15. CASE TakeOther
  <2>1. Offered.t = "other" /\ TakeOffered /\ chain' = chain
    BY <1>15 DEF TakeOther
  <2>2. line' = line \/ (line # <<>> /\ line' = Tail(line) /\ Head(line).t \notin Pictures)
    BY <2>1 DEF TakeOffered, Offered, FromBuffer, FromEvents, Nothing, Pictures
  <2> QED BY <1>0, <2>1, <2>2
<1>16. CASE TakeInfo
  <2>1. Offered.t = "info" /\ TakeOffered /\ chain' = chain
    BY <1>16 DEF TakeInfo
  <2>2. line' = line \/ (line # <<>> /\ line' = Tail(line) /\ Head(line).t \notin Pictures)
    BY <2>1 DEF TakeOffered, Offered, FromBuffer, FromEvents, Nothing, Pictures
  <2> QED BY <1>0, <2>1, <2>2
<1>17. CASE TakePicture
  BY <1>17
<1>18. CASE MainSubmits
  BY <1>18, <1>0 DEF MainSubmits, Submitted
<1>19. CASE MainGivesUp
  BY <1>19, <1>0 DEF MainGivesUp, AskHost
<1>20. CASE Rebuild
  BY <1>20, <1>0 DEF Rebuild, WorkerStops, WorkerStarts
<1>21. CASE Resume
  BY <1>21, <1>0 DEF Resume, AskHost
<1>22. CASE ConnectAsked
  BY <1>22, <1>0 DEF ConnectAsked, Joined, CloseSocket, RxStart
<1>23. CASE ConnectRefused
  BY <1>23, <1>0 DEF ConnectRefused, Joined
<1>24. CASE AsyncToggled
  BY <1>24, <1>0 DEF AsyncToggled, Joined, RxStart
<1>25. CASE ReleaseAll
  BY <1>25, <1>0 DEF ReleaseAll, WorkerStops, Joined, CloseSocket
<1>26. CASE ComesBack
  BY <1>26, <1>0 DEF ComesBack, WorkerStarts
<1>27. CASE EndsAway
  BY <1>27, <1>0 DEF EndsAway
<1>28. CASE BeginConnect
  BY <1>28, <1>0 DEF BeginConnect, Turn
<1>29. CASE FinishConnect
  BY <1>29, <1>0 DEF FinishConnect, Turn
<1>30. CASE HandshakeReply
  BY <1>30, <1>0 DEF HandshakeReply, Turn
<1>31. CASE ConnectFails
  BY <1>31, <1>0 DEF ConnectFails, Turn, CloseSocket
<1>32. CASE PollHost
  BY <1>32, <1>0 DEF PollHost, Turn, CloseSocket
<1>33. ASSUME NEW g \in Geometries, HostGeometry(g) PROVE Survives
  <2> DEFINE m == [t |-> "info", n |-> sent + 1, after |-> 0, geo |-> g]
  <2>1. m \in OnTheLine /\ m.t = "info"
    BY <1>0 DEF OnTheLine, Sendable
  <2>2. line' \in {line, Append(line, m)} /\ chain' = 0
    BY <1>33 DEF HostGeometry, Send, UserOrder
  <2> HIDE DEF m
  <2> QED BY <1>0, <2>1, <2>2, ChainSent
<1>34. ASSUME NEW what \in {"connect", "toggle", "home", "exit"}, Join(what)
      PROVE  Survives
  BY <1>34, <1>0 DEF Join, UserOrder
<1>35. CASE UNCHANGED wiiuVars
  BY <1>35, <1>0 DEF wiiuVars
<1> QED BY <1>1, <1>2, <1>3, <1>4, <1>5, <1>6, <1>7, <1>8, <1>9, <1>10, <1>11, <1>12, <1>13, <1>14,
    <1>15, <1>16, <1>17, <1>18, <1>19, <1>20, <1>21, <1>22, <1>23, <1>24, <1>25, <1>26, <1>27,
    <1>28, <1>29, <1>30, <1>31, <1>32, <1>33, <1>34, <1>35 DEF WiiuNext, HostNext, RxNext,
    WorkNext, TakeNext, JoinNext, WiiuLinkNext, MenuNext

Shows == held.t = "delta" => held.after = fed.n

PicturesAreWhole ==
    /\ \E p \in Nat : ChainFrom(line, chain, p)
    /\ rx = "top" /\ synced => ChainFrom(line, chain, fed.n)
    /\ rx = "submit" => synced /\ ChainFrom(line, chain, held.n) /\ Shows
    /\ rx # "none" /\ paused => ~synced
    /\ rx # "none" => ~videoSynced
    /\ wiiuPc = "submit" => videoSynced /\ ChainFrom(line, chain, held.n) /\ Shows
    /\ videoSynced /\ wiiuPc \notin {"submit", "rebuild", "resume", "away", "over"}
           => ChainFrom(line, chain, fed.n)

NoneIsMissed == fed' # fed /\ fed'.t = "delta" => fed'.after = fed.n

LEMMA PicturesStayWhole ==
    WiiuTypes /\ ReceiverIsApart /\ PicturesAreWhole /\ [WiiuNext]_wiiuVars
        => PicturesAreWhole' /\ NoneIsMissed
<1> SUFFICES ASSUME WiiuTypes, ReceiverIsApart, PicturesAreWhole, [WiiuNext]_wiiuVars
             PROVE  PicturesAreWhole' /\ NoneIsMissed
    OBVIOUS
<1> USE DEF PicturesAreWhole, NoneIsMissed, Shows, ReceiverIsApart, wiiuLinkVars, hostVars, rxVars,
    syncVars, wiiuMainVars, ownVars, workVars
<1>1. FlagsAreTyped /\ StepsAreKnown /\ fed.n \in Nat /\ held.n \in Nat /\ Nothing.t = "none"
  BY DEF WiiuTypes, MessagesAreTyped, Shown, Sendable, Nothing
<1>2. ASSUME RxPicture \/ TakePicture
      PROVE  /\ line # <<>> /\ Head(line).t \in Pictures /\ line' = Tail(line)
             /\ Head(line).n \in Nat /\ ChainFrom(line', chain', Head(line).n)
             /\ ChainFrom(line, chain, fed.n) /\ Head(line).t = "delta" => Head(line).after = fed.n
  <2>1. PictureIsRead /\ line \in Seq(OnTheLine) /\ chain \in Nat
    BY <1>2, PictureSteps DEF WiiuTypes, LineIsTyped
  <2>2. Head(line) \in OnTheLine
    BY <2>1, TailIn DEF PictureIsRead
  <2>3. Head(line).n \in Nat
    BY <2>2 DEF OnTheLine, Sendable
  <2>4. PICK p \in Nat : ChainFrom(line, chain, p)
    OBVIOUS
  <2>5. ChainFrom(Tail(line), chain, Head(line).n)
    BY <2>1, <2>4, ChainRead DEF PictureIsRead
  <2>6. ChainFrom(line, chain, fed.n) /\ Head(line).t = "delta" => Head(line).after = fed.n
    BY <1>1, <2>1, ChainRead DEF PictureIsRead
  <2> QED BY <2>1, <2>3, <2>5, <2>6 DEF PictureIsRead
<1>3. CASE RxPicture
  BY <1>1, <1>2, <1>3 DEF RxPicture, RxReads, AskHost, Pictures, FlagsAreTyped
<1>4. CASE TakePicture
  <2>1. stage = "up" /\ rx = "none" /\ Offered = Head(line)
    <3>1. ~FromEvents /\ Offered.t \in Pictures
      <4>1. FromEvents => Offered \in ForMain
        BY OfferedIn DEF WiiuTypes, GeometriesAreKnown
      <4> QED BY <1>4, <4>1 DEF ForMain, Sendable, Pictures, TakePicture
    <3>2. FromBuffer
      BY <3>1 DEF Offered, Nothing, Pictures
    <3> QED BY <3>1, <3>2 DEF FromBuffer, DirectRead, Offered
  <2> QED BY <1>1, <1>2, <1>4, <2>1 DEF TakePicture, AskHost, Pictures, FlagsAreTyped
<1>5. ASSUME Survives, ~RxPicture, ~TakePicture PROVE PicturesAreWhole' /\ NoneIsMissed
  <2>0. /\ ChainFrom(line, chain, fed.n) => ChainFrom(line', chain', fed.n)
        /\ ChainFrom(line, chain, held.n) => ChainFrom(line', chain', held.n)
        /\ \E p \in Nat : ChainFrom(line', chain', p)
    BY <1>1, <1>5 DEF Survives

  <2>1. CASE HostKey
    BY <2>1, <1>1, <2>0 DEF HostKey, Send
  <2>2. CASE HostDelta
    BY <2>2, <1>1, <2>0 DEF HostDelta, Send
  <2>3. CASE HostOther
    BY <2>3, <1>1, <2>0 DEF HostOther, Send
  <2>4. CASE LinkLost
    BY <2>4, <1>1, <2>0 DEF LinkLost, UserOrder
  <2>5. CASE RxEnds
    BY <2>5, <1>1, <2>0 DEF RxEnds
  <2>6. CASE RxFails
    BY <2>6, <1>1, <2>0 DEF RxFails, RxReads, CloseSocket
  <2>7. CASE RxOther
    BY <2>7, <1>1, <2>0 DEF RxOther, RxReads
  <2>8. CASE RxInfo
    BY <2>8, <1>1, <2>0 DEF RxInfo, RxReads
  <2>9. CASE RxPicture
    BY <2>9, <1>5
  <2>10. CASE RxSubmits
    BY <2>10, <1>1, <2>0 DEF RxSubmits, Submitted
  <2>11. CASE RxGivesUp
    BY <2>11, <1>1, <2>0 DEF RxGivesUp, AskHost
  <2>12. CASE Decode
    BY <2>12, <1>1, <2>0 DEF Decode
  <2>13. CASE Decoded
    BY <2>13, <1>1, <2>0 DEF Decoded
  <2>14. CASE TakeNothing
    BY <2>14, <1>1, <2>0 DEF TakeNothing
  <2>15. CASE TakeOther
    BY <2>15, <1>1, <2>0 DEF TakeOther, TakeOffered
  <2>16. CASE TakeInfo
    BY <2>16, <1>1, <2>0 DEF TakeInfo, TakeOffered
  <2>17. CASE TakePicture
    BY <2>17, <1>5
  <2>18. CASE MainSubmits
    BY <2>18, <1>1, <2>0 DEF MainSubmits, Submitted
  <2>19. CASE MainGivesUp
    BY <2>19, <1>1, <2>0 DEF MainGivesUp, AskHost
  <2>20. CASE Rebuild
    BY <2>20, <1>1, <2>0 DEF Rebuild, WorkerStops, WorkerStarts
  <2>21. CASE Resume
    BY <2>21, <1>1, <2>0 DEF Resume, AskHost
  <2>22. CASE ConnectAsked
    BY <2>22, <1>1, <2>0 DEF ConnectAsked, Joined, CloseSocket, RxStart
  <2>23. CASE ConnectRefused
    BY <2>23, <1>1, <2>0 DEF ConnectRefused, Joined
  <2>24. CASE AsyncToggled
    BY <2>24, <1>1, <2>0 DEF AsyncToggled, Joined, RxStart
  <2>25. CASE ReleaseAll
    BY <2>25, <1>1, <2>0 DEF ReleaseAll, WorkerStops, Joined, CloseSocket
  <2>26. CASE ComesBack
    BY <2>26, <1>1, <2>0 DEF ComesBack, WorkerStarts
  <2>27. CASE EndsAway
    BY <2>27, <1>1, <2>0 DEF EndsAway
  <2>28. CASE BeginConnect
    BY <2>28, <1>1, <2>0 DEF BeginConnect, Turn
  <2>29. CASE FinishConnect
    BY <2>29, <1>1, <2>0 DEF FinishConnect, Turn
  <2>30. CASE HandshakeReply
    BY <2>30, <1>1, <2>0 DEF HandshakeReply, Turn
  <2>31. CASE ConnectFails
    BY <2>31, <1>1, <2>0 DEF ConnectFails, Turn, CloseSocket
  <2>32. CASE PollHost
    BY <2>32, <1>1, <2>0 DEF PollHost, Turn, CloseSocket
  <2>33. ASSUME NEW g \in Geometries, HostGeometry(g) PROVE PicturesAreWhole' /\ NoneIsMissed
    BY <2>33, <1>1, <2>0 DEF HostGeometry, Send, UserOrder
  <2>34. ASSUME NEW what \in {"connect", "toggle", "home", "exit"}, Join(what)
        PROVE  PicturesAreWhole' /\ NoneIsMissed
    BY <2>34, <1>1, <2>0 DEF Join, UserOrder
  <2>35. CASE UNCHANGED wiiuVars
    BY <2>35, <1>1, <2>0 DEF wiiuVars
  <2> QED BY <2>1, <2>2, <2>3, <2>4, <2>5, <2>6, <2>7, <2>8, <2>9, <2>10, <2>11, <2>12, <2>13, <2>14,
      <2>15, <2>16, <2>17, <2>18, <2>19, <2>20, <2>21, <2>22, <2>23, <2>24, <2>25, <2>26, <2>27,
      <2>28, <2>29, <2>30, <2>31, <2>32, <2>33, <2>34, <2>35 DEF WiiuNext, HostNext, RxNext,
      WorkNext, TakeNext, JoinNext, WiiuLinkNext, MenuNext
<1> QED BY <1>3, <1>4, <1>5, ChainSteps

\* All of it together.
WiiuInv == WiiuTypes /\ ReceiverIsApart /\ MessagesInOrder /\ PicturesAreWhole

LEMMA WiiuStarts == WiiuInit => WiiuInv
<1> SUFFICES ASSUME WiiuInit PROVE WiiuInv
    OBVIOUS
<1>1. \A i \in 1 .. Len(<<>>) : FALSE
  BY EmptyIn
<1>2. line = <<>> /\ queued = <<>> /\ chain = 0 /\ taken = 0 /\ sent = 0 /\ rx = "none"
      /\ wiiuPc = "top" /\ ~videoSynced /\ ~playing
  BY DEF WiiuInit
<1>3. WiiuTypes
  BY WiiuTypesStart
<1>4. ReceiverIsApart
  BY <1>2 DEF ReceiverIsApart
<1>5. MessagesInOrder
  BY <1>1, <1>2 DEF MessagesInOrder, InSequence, Ascending, Within, Precede
<1>6. 0 \in Nat /\ ChainFrom(line, chain, 0)
  BY <1>2, ChainCleared
<1>7. PicturesAreWhole
  BY <1>2, <1>6 DEF PicturesAreWhole
<1> QED BY <1>3, <1>4, <1>5, <1>7 DEF WiiuInv

LEMMA WiiuKept == WiiuInv /\ [WiiuNext]_wiiuVars => WiiuInv' /\ taken' >= taken /\ NoneIsMissed
BY WiiuKeepsTypes, ReceiverStaysApart, MessagesStayInOrder, PicturesStayWhole DEF WiiuInv

\* The Wii U client takes and decodes in order, whatever is dropped, paused, joined or
\* reconnected: the messages taken are those of the host in its order, and a picture that
\* needs another is submitted after that one.
THEOREM WiiuInOrder == WiiuSpec => PicturesInOrder
<1>1. WiiuInit => WiiuInv
  BY WiiuStarts
<1>2. WiiuInv /\ [WiiuNext]_wiiuVars => WiiuInv'
  BY WiiuKept
<1>3. WiiuInv /\ [WiiuNext]_wiiuVars => [taken' >= taken]_wiiuVars
  BY WiiuKept
<1>4. WiiuInv /\ [WiiuNext]_wiiuVars => [fed' # fed /\ fed'.t = "delta" => fed'.after = fed.n]_wiiuVars
  BY WiiuKept DEF NoneIsMissed
<1> QED BY <1>1, <1>2, <1>3, <1>4, PTL DEF WiiuSpec, PicturesInOrder, InOrder, NothingMissing

----------------------------------------------------------------------------
(* The controls of the Switch client.  Outside the stream no press made    *)
(* while playing is left, but for the moment before the menu opens.        *)

LEMMA PadKeepsTypes == SwitchPadTypeOK /\ [SwitchPadNext]_padVars => SwitchPadTypeOK'
<1> SUFFICES ASSUME SwitchPadTypeOK, [SwitchPadNext]_padVars PROVE SwitchPadTypeOK'
    OBVIOUS
<1> USE SwitchPadAssumption DEF SwitchPadTypeOK, Controls, Choosing, Free, NoPress, bodyVars,
    glassVars, samplerVars, pendingVars, pressVars, frameVars
<1>1. CASE Sample
  BY <1>1 DEF Sample
<1>2. CASE PollTouches
  BY <1>2 DEF PollTouches
<1>3. CASE Merge
  BY <1>3 DEF Merge, OnGlass
<1>4. CASE Count
  <2>1. /\ state' = state \ {"sticks", "combo"} /\ snapshot' = state'
        /\ UNCHANGED <<physical, glass, touches, glassVars, lastSent, hostHas, touchPending, frameVars>>
    BY <1>4 DEF Count
  <2>2. sampler' = "send" /\ hold' \in {"none", "short", "home"}
    BY <1>4 DEF Count
  <2>3. sticksDown' \in BOOLEAN /\ menuPending' \in BOOLEAN
    BY <1>4 DEF Count
  <2>4. homePending' \in BOOLEAN /\ quitPending' \in BOOLEAN
    <3>1. homePending \in BOOLEAN /\ quitPending \in BOOLEAN
      OBVIOUS
    <3>2. /\ homePending' \in {homePending, homePending \/ hold = "home"}
          /\ quitPending' \in {quitPending, TRUE}
      BY <1>4 DEF Count
    <3> QED BY <3>1, <3>2
  <2>5. presses' \in [Choosing -> 0 .. MaxPresses]
    <3>1. \A n \in 0 .. MaxPresses : n < MaxPresses => n + 1 \in 0 .. MaxPresses
      OBVIOUS
    <3>2. ASSUME NEW b \in Choosing
          PROVE  Counted(b) \in 0 .. MaxPresses /\ presses[b] \in 0 .. MaxPresses
      <4>1. presses[b] \in 0 .. MaxPresses /\ MaxPresses \in Nat
        OBVIOUS
      <4> QED BY <3>1, <4>1 DEF Counted
    <3> DEFINE new == (state' \cap Choosing) \ snapshot
    <3>3. presses' = [b \in Choosing |-> IF b \in new THEN Counted(b) ELSE presses[b]]
      BY <1>4 DEF Count
    <3> HIDE DEF Choosing, new
    <3> QED BY <3>2, <3>3
  <2> QED BY <2>1, <2>2, <2>3, <2>4, <2>5
<1>5. CASE SendPad
  BY <1>5 DEF SendPad
<1>6. CASE SetAccepting
  BY <1>6 DEF SetAccepting
<1>7. CASE Refuse
  BY <1>7 DEF Refuse
<1>8. CASE TakeMenu
  BY <1>8 DEF TakeMenu
<1>9. CASE Opening
  BY <1>9 DEF Opening
<1>10. CASE TakeHome
  BY <1>10 DEF TakeHome
<1>11. CASE TakePresses
  BY <1>11 DEF TakePresses
<1>12. CASE Enter
  BY <1>12 DEF Enter, MenuEnter
<1>13. CASE EnterNothing
  BY <1>13 DEF EnterNothing
<1>14. CASE Leave
  BY <1>14 DEF Leave, MenuBack
<1>15. CASE Show
  BY <1>15 DEF Show
<1>16. CASE TapMenu
  <2>1. /\ UNCHANGED <<physical, glass, accepting, samplerVars, pendingVars, pressVars, got, forward>>
        /\ touches' \in 0 .. MaxTouches
    BY <1>16 DEF TapMenu
  <2>2. CASE MenuEnter
    BY <2>1, <2>2 DEF MenuEnter
  <2>3. CASE MenuBack /\ UNCHANGED <<enabled, editing, bound>>
    BY <2>1, <2>3 DEF MenuBack
  <2> QED BY <1>16, <2>2, <2>3 DEF TapMenu
<1>17. CASE TapTop
  BY <1>17 DEF TapTop
<1>18. ASSUME NEW s \in Holds, Hold(s) PROVE SwitchPadTypeOK'
  BY <1>18 DEF Hold
<1>19. ASSUME NEW f \in Fingers, NEW c \in Controls \cup {"off", "blank"}, Touch(f, c)
      PROVE  SwitchPadTypeOK'
  BY <1>19 DEF Touch
<1>20. CASE UNCHANGED padVars
  BY <1>20 DEF padVars
<1> QED BY <1>1, <1>2, <1>3, <1>4, <1>5, <1>6, <1>7, <1>8, <1>9, <1>10, <1>11, <1>12, <1>13, <1>14,
    <1>15, <1>16, <1>17, <1>18, <1>19, <1>20 DEF SwitchPadNext, PlayerNext, SamplerNext, FrameNext,
    TapNext

NoPlayPress == screen # "stream" /\ frame # "opening" => playPressed = {}

LEMMA NoPlayPressStays == SwitchPadTypeOK /\ NoPlayPress /\ [SwitchPadNext]_padVars => NoPlayPress'
<1> SUFFICES ASSUME SwitchPadTypeOK, NoPlayPress, [SwitchPadNext]_padVars PROVE NoPlayPress'
    OBVIOUS
<1> USE DEF NoPlayPress, bodyVars, glassVars, samplerVars, pendingVars, pressVars, frameVars
<1>1. CASE Sample
  BY <1>1 DEF Sample
<1>2. CASE PollTouches
  BY <1>2 DEF PollTouches
<1>3. CASE Merge
  BY <1>3 DEF Merge, OnGlass
<1>4. CASE Count
  BY <1>4 DEF Count, Counted
<1>5. CASE SendPad
  BY <1>5 DEF SendPad
<1>6. CASE SetAccepting
  BY <1>6 DEF SetAccepting
<1>7. CASE Refuse
  BY <1>7 DEF Refuse
<1>8. CASE TakeMenu
  BY <1>8 DEF TakeMenu
<1>9. CASE Opening
  BY <1>9 DEF Opening
<1>10. CASE TakeHome
  BY <1>10 DEF TakeHome
<1>11. CASE TakePresses
  BY <1>11 DEF TakePresses
<1>12. CASE Enter
  BY <1>12 DEF Enter, MenuEnter
<1>13. CASE EnterNothing
  BY <1>13 DEF EnterNothing
<1>14. CASE Leave
  BY <1>14 DEF Leave, MenuBack
<1>15. CASE Show
  BY <1>15 DEF Show
<1>16. CASE TapMenu
  BY <1>16 DEF TapMenu, MenuEnter, MenuBack
<1>17. CASE TapTop
  BY <1>17 DEF TapTop
<1>18. ASSUME NEW s \in Holds, Hold(s) PROVE NoPlayPress'
  BY <1>18 DEF Hold
<1>19. ASSUME NEW f \in Fingers, NEW c \in Controls \cup {"off", "blank"}, Touch(f, c)
      PROVE  NoPlayPress'
  BY <1>19 DEF Touch
<1>20. CASE UNCHANGED padVars
  BY <1>20 DEF padVars
<1> QED BY <1>1, <1>2, <1>3, <1>4, <1>5, <1>6, <1>7, <1>8, <1>9, <1>10, <1>11, <1>12, <1>13, <1>14,
    <1>15, <1>16, <1>17, <1>18, <1>19, <1>20 DEF SwitchPadNext, PlayerNext, SamplerNext, FrameNext,
    TapNext

LEMMA PadStarts == SwitchPadInit => SwitchPadTypeOK /\ NoPlayPress
<1> SUFFICES ASSUME SwitchPadInit PROVE SwitchPadTypeOK /\ NoPlayPress
    OBVIOUS
<1>1. presses \in [Choosing -> 0 .. MaxPresses]
  BY SwitchPadAssumption DEF SwitchPadInit, NoPress
<1>2. touches \in 0 .. MaxTouches
  BY SwitchPadAssumption DEF SwitchPadInit
<1>3. glass \in [Fingers -> Controls \cup {"off", "blank"}] /\ bound \in [Fingers -> Controls \cup {"free"}]
  BY DEF SwitchPadInit, Free
<1>4. {enabled, editing, accepting, sticksDown, menuPending, touchPending, homePending, quitPending,
       forward, inCategory} \subseteq BOOLEAN
  BY DEF SwitchPadInit
<1> QED BY <1>1, <1>2, <1>3, <1>4 DEF SwitchPadTypeOK, SwitchPadInit, NoPlayPress

\* A press the player made while playing is no choice in the menu.
THEOREM PlayChoosesNothing == SwitchPadSpec => [](SwitchPadTypeOK /\ PlayIsNoChoice)
<1>1. SwitchPadInit => SwitchPadTypeOK /\ NoPlayPress
  BY PadStarts
<1>2. (SwitchPadTypeOK /\ NoPlayPress) /\ [SwitchPadNext]_padVars => (SwitchPadTypeOK /\ NoPlayPress)'
  BY PadKeepsTypes, NoPlayPressStays
<1>3. SwitchPadTypeOK /\ NoPlayPress => SwitchPadTypeOK /\ PlayIsNoChoice
  BY DEF NoPlayPress, PlayIsNoChoice
<1> QED BY <1>1, <1>2, <1>3, PTL DEF SwitchPadSpec

----------------------------------------------------------------------------
(* Both clients side by side, as they are checked.                         *)

ClientSpec == Init /\ [][Next]_clientVars

\* A behaviour of both is a behaviour of each.
THEOREM ClientsAreTheirParts == ClientSpec => WiiuSpec /\ SwitchPadSpec
<1>1. Init => WiiuInit /\ SwitchPadInit
  BY DEF Init
<1>2. [Next]_clientVars => [WiiuNext]_wiiuVars
  BY DEF Next, notWiiu, notPad, clientVars
<1>3. [Next]_clientVars => [SwitchPadNext]_padVars
  BY DEF Next, notWiiu, notPad, clientVars
<1> QED BY <1>1, <1>2, <1>3, PTL DEF ClientSpec, WiiuSpec, SwitchPadSpec

\* The variables of both clients keep their types.
THEOREM ClientsKeepTypes == ClientSpec => []ClientTypes
BY ClientsAreTheirParts, ReceiverLeaves, PlayChoosesNothing, PTL DEF ClientTypes

\* No thread of the Wii U client uses the connection or the decoder while its receiver
\* does, and no press on the Switch's play screen is one on its menu.
THEOREM ClientsCrossNothing == ClientSpec => []NothingIsCrossed
BY ClientsAreTheirParts, ReceiverLeaves, PlayChoosesNothing, PTL DEF NothingIsCrossed

\* Whatever else goes on, the Wii U client takes and decodes in order.
THEOREM ClientsShowInOrder == ClientSpec => PicturesInOrder
BY ClientsAreTheirParts, WiiuInOrder

=============================================================================
