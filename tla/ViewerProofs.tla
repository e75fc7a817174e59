---------------------------- MODULE ViewerProofs ----------------------------
(***************************************************************************)
(* What the viewers guarantee, whatever the order of their threads and of  *)
(* what the network does: the Switch, 3DS and Android clients, the station *)
(* of the Wii U GamePad and the Wii U client's sound, each by an inductive *)
(* invariant of its own, and then all of them side by side.                *)
(***************************************************************************)
EXTENDS MCViewers, TLAPS, FiniteSetTheorems, SequenceTheorems, WellFoundedInduction

----------------------------------------------------------------------------
(* The sound of the Wii U client. *)

\* How far position x lies behind position p, in the direction of play.
Ahead(p, x) == Wrap(x + Ring - p)

LEMMA AheadFacts ==
  ASSUME NEW p \in Position, NEW x \in Position
  PROVE  Ahead(p, x) \in Position /\ Wrap(p + Ahead(p, x)) = x
BY WiiuSoundAssumption DEF Ahead, Position, Wrap

LEMMA AheadIsDistance ==
  ASSUME NEW p \in Position, NEW i \in Position
  PROVE  Wrap(p + i) \in Position /\ Ahead(p, Wrap(p + i)) = i
BY WiiuSoundAssumption DEF Ahead, Position, Wrap

\* Seen from a position i further on.
LEMMA AheadShifts ==
  ASSUME NEW p \in Position, NEW i \in Position, NEW x \in Position
  PROVE  Ahead(Wrap(p + i), x) = IF Ahead(p, x) >= i THEN Ahead(p, x) - i
                                                     ELSE Ahead(p, x) + Ring - i
BY WiiuSoundAssumption DEF Ahead, Position, Wrap

LEMMA AheadMoves ==
  ASSUME NEW p \in Position, NEW s \in Position
  PROVE  /\ Wrap(s + 1) \in Position
         /\ Wrap(s + 1) = p => Ahead(p, s) = Ring - 1
         /\ Wrap(s + 1) # p => Ahead(p, Wrap(s + 1)) = Ahead(p, s) + 1
BY WiiuSoundAssumption DEF Ahead, Position, Wrap

LEMMA InAfter ==
  ASSUME NEW p \in Position, NEW a \in Nat, NEW b \in Int, b < Ring, NEW x
  PROVE  x \in After(p, a..b) <=> x \in Position /\ a <= Ahead(p, x) /\ Ahead(p, x) <= b
<1>1. ASSUME x \in After(p, a..b)
      PROVE  x \in Position /\ a <= Ahead(p, x) /\ Ahead(p, x) <= b
  <2>1. PICK i \in a..b : x = Wrap(p + i)
    BY <1>1 DEF After
  <2>2. i \in Position
    BY <2>1, WiiuSoundAssumption DEF Position
  <2> QED BY <2>1, <2>2, AheadIsDistance
<1>2. ASSUME x \in Position, a <= Ahead(p, x), Ahead(p, x) <= b
      PROVE  x \in After(p, a..b)
  <2>1. Ahead(p, x) \in a..b /\ Wrap(p + Ahead(p, x)) = x
    BY <1>2, AheadFacts, WiiuSoundAssumption DEF Position
  <2> QED BY <2>1 DEF After
<1> QED BY <1>1, <1>2

\* The ring: the queue ends where it is written next, and what AX has not played
\* lies in it.
RingInv ==
    /\ WiiuSoundTypeOK
    /\ writePos = Wrap(lastRead + soundCount)
    /\ ~playing => ~turned /\ ~missed
    /\ \A x \in fresh : ~turned /\ Consumed <= Ahead(lastRead, x) /\ Ahead(lastRead, x) < soundCount
    /\ ~missed /\ ~turned => \A x \in Position :
          Consumed <= Ahead(lastRead, x) /\ Ahead(lastRead, x) < soundCount => x \in fresh

\* What audio_sync_position() makes of the queue: it begins with what AX plays
\* next, and all that is still to be heard is in it.
LEMMA SyncIsTrue ==
  ASSUME RingInv
  PROVE  /\ SyncedRead \in Position /\ SyncedCount \in 0..Ring
         /\ SyncedWrite = Wrap(SyncedRead + SyncedCount)
         /\ SyncedPlaying => spot = SyncedRead
         /\ \A x \in fresh : Ahead(SyncedRead, x) < SyncedCount
         /\ ~(SyncedPlaying /\ (missed \/ turned)) => \A x \in Position :
               Ahead(SyncedRead, x) < SyncedCount => x \in fresh
<1> USE WiiuSoundAssumption
<1>1. /\ lastRead \in Position /\ spot \in Position /\ soundCount \in 0..Ring /\ fresh \subseteq Position
      /\ playing \in BOOLEAN /\ turned \in BOOLEAN /\ missed \in BOOLEAN
      /\ writePos = Wrap(lastRead + soundCount)
      /\ ~playing => ~turned /\ ~missed
      /\ \A x \in fresh : ~turned /\ Consumed <= Ahead(lastRead, x) /\ Ahead(lastRead, x) < soundCount
      /\ ~missed /\ ~turned => \A x \in Position :
            Consumed <= Ahead(lastRead, x) /\ Ahead(lastRead, x) < soundCount => x \in fresh
  BY DEF RingInv, WiiuSoundTypeOK
<1>2. Consumed \in Position /\ SyncedRead \in Position /\ SyncedRead = Wrap(lastRead + Consumed)
  <2>1. CASE playing
    BY <2>1, <1>1, AheadFacts DEF Consumed, SyncedRead, Ahead
  <2>2. CASE ~playing
    BY <2>2, <1>1 DEF Consumed, SyncedRead, Wrap, Position
  <2> QED BY <2>1, <2>2
<1>3. CASE Underrun
  <2>1. fresh = {}
    BY <1>1, <1>2, <1>3, AheadFacts DEF Underrun, Position
  <2>2. SyncedRead = spot /\ SyncedWrite = spot /\ SyncedCount = 0 /\ ~SyncedPlaying
    BY <1>3 DEF Underrun, SyncedRead, SyncedWrite, SyncedCount, SyncedPlaying, Consumed
  <2>3. spot = Wrap(spot + 0)
    BY <1>1 DEF Wrap, Position
  <2>4. \A x \in Position : ~(Ahead(spot, x) < 0)
    BY <1>1, AheadFacts DEF Position
  <2> QED BY <1>1, <2>1, <2>2, <2>3, <2>4
<1>4. CASE ~Underrun
  <2>1. /\ SyncedCount = soundCount - Consumed /\ SyncedWrite = writePos /\ SyncedPlaying = playing
        /\ Consumed <= soundCount
    BY <1>1, <1>2, <1>4 DEF Underrun, SyncedWrite, SyncedCount, SyncedPlaying, Position
  <2>2. SyncedCount \in 0..Ring
    BY <1>1, <1>2, <2>1 DEF Position
  <2>3. Wrap(Wrap(lastRead + Consumed) + (soundCount - Consumed)) = Wrap(lastRead + soundCount)
    BY <1>1, <1>2, <2>1 DEF Wrap, Position
  <2>4. \A x \in Position : /\ Ahead(lastRead, x) \in Position /\ Ahead(SyncedRead, x) \in Position
                            /\ Ahead(SyncedRead, x) = IF Ahead(lastRead, x) >= Consumed
                                                      THEN Ahead(lastRead, x) - Consumed
                                                      ELSE Ahead(lastRead, x) + Ring - Consumed
    BY <1>1, <1>2, AheadShifts, AheadFacts
  <2>5. \A x \in fresh : Ahead(SyncedRead, x) < SyncedCount
    BY <1>1, <1>2, <2>1, <2>4 DEF Position
  <2>6. ASSUME ~(SyncedPlaying /\ (missed \/ turned)), NEW x \in Position,
               Ahead(SyncedRead, x) < SyncedCount
        PROVE  x \in fresh
    <3>1. ~missed /\ ~turned
      BY <1>1, <2>1, <2>6
    <3>2. Consumed <= Ahead(lastRead, x) /\ Ahead(lastRead, x) < soundCount
      BY <1>1, <1>2, <2>1, <2>4, <2>6 DEF Position
    <3> QED BY <1>1, <3>1, <3>2
  <2>7. SyncedPlaying => spot = SyncedRead
    BY <1>1, <2>1 DEF SyncedRead
  <2> QED BY <1>1, <1>2, <2>1, <2>2, <2>3, <2>5, <2>6, <2>7
<1> QED BY <1>3, <1>4

\* A piece is written where nothing is left to be heard.
LEMMA PieceIsBehind ==
  ASSUME NEW q \in Position, NEW n \in 0..Ring, NEW size \in 1..Ring, size <= Ring - n,
         NEW x
  PROVE  x \in After(Wrap(q + n), 0..(size - 1))
         <=> x \in Position /\ n <= Ahead(q, x) /\ Ahead(q, x) < n + size
<1>0. n \in Position /\ 0 \in Nat /\ size - 1 \in Int /\ size - 1 < Ring
  BY WiiuSoundAssumption DEF Position
<1>1. n \in Position /\ Wrap(q + n) \in Position
  BY <1>0, AheadIsDistance
<1>2. x \in After(Wrap(q + n), 0..(size - 1))
      <=> x \in Position /\ 0 <= Ahead(Wrap(q + n), x) /\ Ahead(Wrap(q + n), x) <= size - 1
  BY <1>0, <1>1, InAfter
<1>3. x \in Position => /\ Ahead(q, x) \in Position
                        /\ Ahead(Wrap(q + n), x) = IF Ahead(q, x) >= n THEN Ahead(q, x) - n
                                                   ELSE Ahead(q, x) + Ring - n
  BY <1>1, AheadShifts, AheadFacts
<1> QED BY <1>2, <1>3, WiiuSoundAssumption DEF Position

LEMMA PushKeepsRing ==
  ASSUME RingInv, NEW size \in Pieces, PushPcm(size), WiiuSoundTypeOK'
  PROVE  RingInv'
<1> USE WiiuSoundAssumption
<1> DEFINE q == SyncedRead  n == SyncedCount
<1>1. /\ q \in Position /\ n \in 0..Ring /\ SyncedWrite = Wrap(q + n)
      /\ SyncedPlaying => spot = q
      /\ \A x \in fresh : Ahead(q, x) < n
      /\ ~(SyncedPlaying /\ (missed \/ turned)) => \A x \in Position : Ahead(q, x) < n => x \in fresh
  BY SyncIsTrue
<1>2. turned' = FALSE /\ missed' = (SyncedPlaying /\ (missed \/ turned)) /\ size \in 1..Ring
  BY DEF PushPcm, PushDrops, PushWrites, Synced
<1>3. fresh \subseteq Position /\ \A x \in Position : Ahead(q, x) \in Position
  BY <1>1, AheadFacts DEF RingInv, WiiuSoundTypeOK
<1>4. SyncedPlaying \in BOOLEAN
  BY DEF SyncedPlaying, RingInv, WiiuSoundTypeOK
<1> HIDE DEF q, n
<1>5. CASE PushDrops(size)
  <2>1. /\ playing' = SyncedPlaying /\ soundCount' = n /\ writePos' = Wrap(q + n) /\ lastRead' = q
        /\ spot' = spot /\ fresh' = fresh
    BY <1>1, <1>5 DEF PushDrops, q, n
  <2>2. Consumed' = 0
    BY <1>1, <2>1 DEF Consumed, Wrap, Position
  <2>3. \A x \in fresh' : ~turned' /\ Consumed' <= Ahead(lastRead', x) /\ Ahead(lastRead', x) < soundCount'
    BY <1>1, <1>2, <1>3, <2>1, <2>2 DEF Position
  <2>4. ~missed' => \A x \in Position :
          Consumed' <= Ahead(lastRead', x) /\ Ahead(lastRead', x) < soundCount' => x \in fresh'
    BY <1>1, <1>2, <1>3, <2>1, <2>2
  <2>5. ~playing' => ~turned' /\ ~missed'
    BY <1>2, <2>1
  <2> QED BY <2>1, <2>3, <2>4, <2>5 DEF RingInv, Ahead
<1>6. CASE PushWrites(size)
  <2>1. /\ size <= Ring - n /\ soundCount' = n + size /\ writePos' = Wrap(Wrap(q + n) + size)
        /\ fresh' = fresh \cup After(Wrap(q + n), 0..(size - 1))
        /\ playing' = (SyncedPlaying \/ Starts(n + size))
        /\ lastRead' = IF Starts(n + size) THEN Oldest(Wrap(Wrap(q + n) + size), n + size) ELSE q
        /\ spot' = IF Starts(n + size) THEN Oldest(Wrap(Wrap(q + n) + size), n + size) ELSE spot
    BY <1>1, <1>6 DEF PushWrites, q, n, Room
  <2>2. /\ Oldest(Wrap(Wrap(q + n) + size), n + size) = q
        /\ Wrap(Wrap(q + n) + size) = Wrap(q + (n + size))
    BY <1>1, <1>2, <2>1 DEF Oldest, Wrap, Position
  <2>3. lastRead' = q /\ writePos' = Wrap(lastRead' + soundCount')
    BY <2>1, <2>2
  <2>4. playing' => spot' = q
    BY <1>1, <1>4, <2>1, <2>2 DEF Starts
  <2>5. Consumed' = 0
    BY <1>1, <2>3, <2>4 DEF Consumed, Wrap, Position
  <2>6. \A x \in Position : x \in fresh' <=> x \in fresh \/ (n <= Ahead(q, x) /\ Ahead(q, x) < n + size)
    BY <1>1, <1>2, <2>1, PieceIsBehind
  <2>7. fresh' \subseteq Position
    BY DEF WiiuSoundTypeOK
  <2>8. ASSUME NEW x \in fresh'
        PROVE  ~turned' /\ Consumed' <= Ahead(lastRead', x) /\ Ahead(lastRead', x) < soundCount'
    <3>1. x \in Position /\ Ahead(q, x) \in Nat /\ n \in Nat /\ size \in Nat \ {0}
      BY <1>1, <1>2, <1>3, <2>7 DEF Position
    <3>2. Ahead(q, x) < n \/ Ahead(q, x) < n + size
      BY <1>1, <2>6, <3>1
    <3> QED BY <1>2, <2>1, <2>3, <2>5, <3>1, <3>2
  <2>9. ASSUME ~missed', NEW x \in Position, Ahead(lastRead', x) < soundCount'
        PROVE  x \in fresh'
    <3>1. Ahead(q, x) \in Nat /\ n \in Nat
      BY <1>1, <1>3 DEF Position
    <3>2. lastRead' = q /\ soundCount' = n + size
      BY <2>1, <2>3
    <3>3. Ahead(q, x) < n + size
      BY <2>9, <3>2
    <3>4. Ahead(q, x) < n => x \in fresh
      BY <1>1, <1>2, <2>9
    <3> QED BY <2>6, <3>1, <3>3, <3>4
  <2>10. ~playing' => ~turned' /\ ~missed'
    BY <1>2, <1>4, <2>1
  <2> QED BY <2>3, <2>8, <2>9, <2>10 DEF RingInv, Ahead
<1> QED BY <1>5, <1>6 DEF PushPcm

LEMMA PushKeepsTypes ==
  ASSUME RingInv, NEW size \in Pieces, PushPcm(size)
  PROVE  /\ voicesAlive' = voicesAlive /\ playing' \in BOOLEAN
         /\ writePos' \in Position /\ lastRead' \in Position /\ soundCount' \in 0..Ring
         /\ spot' \in Position /\ fresh' \subseteq Position /\ turned' \in BOOLEAN
         /\ missed' \in BOOLEAN
<1> USE WiiuSoundAssumption
<1>1. /\ SyncedRead \in Position /\ SyncedCount \in 0..Ring /\ SyncedWrite = Wrap(SyncedRead + SyncedCount)
      /\ SyncedWrite \in Position /\ spot \in Position /\ fresh \subseteq Position /\ size \in 1..Ring
      /\ SyncedPlaying \in BOOLEAN /\ missed \in BOOLEAN /\ turned \in BOOLEAN
  BY SyncIsTrue DEF RingInv, WiiuSoundTypeOK, SyncedPlaying, SyncedWrite
<1>2. CASE PushDrops(size)
  BY <1>1, <1>2 DEF PushDrops, Synced
<1>3. CASE PushWrites(size)
  <2>1. /\ size <= Ring - SyncedCount /\ soundCount' = SyncedCount + size
        /\ writePos' = Wrap(SyncedWrite + size)
        /\ fresh' = fresh \cup After(SyncedWrite, 0..(size - 1))
        /\ playing' = (SyncedPlaying \/ Starts(SyncedCount + size))
        /\ lastRead' = IF Starts(SyncedCount + size)
                       THEN Oldest(writePos', SyncedCount + size) ELSE SyncedRead
        /\ spot' = IF Starts(SyncedCount + size) THEN Oldest(writePos', SyncedCount + size) ELSE spot
        /\ voicesAlive' = voicesAlive /\ turned' = FALSE /\ missed' = (SyncedPlaying /\ (missed \/ turned))
    BY <1>3 DEF PushWrites, Room, Synced
  <2>2. soundCount' \in 0..Ring /\ writePos' \in Position
    BY <1>1, <2>1 DEF Wrap, Position
  <2>3. Oldest(writePos', SyncedCount + size) \in Position
    BY <1>1, <2>1, <2>2 DEF Oldest, Wrap, Position
  <2>4. fresh' \subseteq Position
    <3>0. \A i \in 0..(size - 1) : i \in Position
      BY <1>1 DEF Position
    <3>1. \A i \in 0..(size - 1) : Wrap(SyncedWrite + i) \in Position
      BY <1>1, <3>0, AheadIsDistance
    <3>2. After(SyncedWrite, 0..(size - 1)) \subseteq Position
      BY <3>1 DEF After
    <3>3. fresh' = fresh \cup After(SyncedWrite, 0..(size - 1)) /\ fresh \subseteq Position
      BY <1>1, <2>1
    <3> QED BY <3>2, <3>3
  <2>5. playing' \in BOOLEAN /\ missed' \in BOOLEAN /\ turned' \in BOOLEAN
    BY <1>1, <2>1 DEF Starts
  <2> QED BY <1>1, <2>1, <2>2, <2>3, <2>4, <2>5
<1> QED BY <1>2, <1>3 DEF PushPcm

LEMMA AxKeepsRing == RingInv /\ AxPlays => RingInv'
<1> SUFFICES ASSUME RingInv, AxPlays
             PROVE  RingInv'
  OBVIOUS
<1> USE WiiuSoundAssumption
<1>1. /\ lastRead \in Position /\ spot \in Position /\ soundCount \in 0..Ring /\ fresh \subseteq Position
      /\ \A x \in fresh : ~turned /\ Consumed <= Ahead(lastRead, x) /\ Ahead(lastRead, x) < soundCount
      /\ ~missed /\ ~turned => \A x \in Position :
            Consumed <= Ahead(lastRead, x) /\ Ahead(lastRead, x) < soundCount => x \in fresh
      /\ writePos = Wrap(lastRead + soundCount) /\ turned \in BOOLEAN
  BY DEF RingInv, WiiuSoundTypeOK
<1>2. /\ playing /\ playing' = playing /\ spot' = Wrap(spot + 1) /\ fresh' = fresh \ {spot}
      /\ turned' = (turned \/ Wrap(spot + 1) = lastRead)
      /\ UNCHANGED <<lastRead, soundCount, writePos, missed>>
  BY DEF AxPlays
<1>3. /\ Consumed = Ahead(lastRead, spot) /\ Consumed' = Ahead(lastRead, Wrap(spot + 1))
      /\ Consumed \in Position
  BY <1>1, <1>2, AheadFacts DEF Consumed, Ahead
<1>4. WiiuSoundTypeOK'
  <2>1. spot' \in Position /\ fresh' \subseteq Position /\ turned' \in BOOLEAN
    BY <1>1, <1>2, AheadMoves
  <2> QED BY <1>2, <2>1 DEF AxPlays, RingInv, WiiuSoundTypeOK, soundLinkVars, soundHostVars
<1>5. \A x \in Position : /\ Ahead(lastRead, x) \in Position
                          /\ Ahead(lastRead, x) = Ahead(lastRead, spot) => x = spot
  BY <1>1, AheadFacts
<1>6. CASE Wrap(spot + 1) = lastRead
  <2>1. Ahead(lastRead, spot) = Ring - 1
    BY <1>1, <1>6, AheadMoves
  <2>2. fresh' = {}
    BY <1>1, <1>2, <1>3, <1>5, <2>1 DEF Position
  <2>3. turned' /\ playing'
    BY <1>2, <1>6
  <2> QED BY <1>1, <1>2, <1>4, <2>2, <2>3 DEF RingInv
<1>7. CASE Wrap(spot + 1) # lastRead
  <2>1. Consumed' = Consumed + 1 /\ turned' = turned
    BY <1>1, <1>2, <1>3, <1>7, AheadMoves
  <2>2. \A x \in fresh' : ~turned' /\ Consumed' <= Ahead(lastRead', x) /\ Ahead(lastRead', x) < soundCount'
    BY <1>1, <1>2, <1>3, <1>5, <2>1 DEF Position
  <2>3. ~missed' /\ ~turned' => \A x \in Position :
          Consumed' <= Ahead(lastRead', x) /\ Ahead(lastRead', x) < soundCount' => x \in fresh'
    BY <1>1, <1>2, <1>3, <1>5, <2>1 DEF Position
  <2> QED BY <1>1, <1>2, <1>4, <2>2, <2>3 DEF RingInv, Ahead
<1> QED BY <1>6, <1>7

\* The connection: what waits in the socket was sent, and what is expected was
\* taken.
SocketInv ==
    /\ \A i \in 1..Len(datagrams) : /\ datagrams[i].host <= hostNow
                                    /\ datagrams[i].host = hostNow => datagrams[i].n < hostSent
    /\ taken \subseteq 1..hostNow
    /\ soundUp /\ haveSequence => taken # {}
    /\ NextIsTaken

SoundInv == RingInv /\ SocketInv

LEMMA TailsAreKept ==
  ASSUME NEW S, NEW s \in Seq(S), s # <<>>
  PROVE  /\ Head(s) = s[1] /\ Len(s) \in Nat \ {0} /\ Head(s) \in S
         /\ Tail(s) \in Seq(S) /\ Len(Tail(s)) = Len(s) - 1
         /\ \A i \in 1..Len(Tail(s)) : Tail(s)[i] = s[i + 1] /\ i + 1 \in 1..Len(s)
OBVIOUS

LEMMA RingIsKept ==
  ASSUME RingInv, UNCHANGED ringVars, WiiuSoundTypeOK'
  PROVE  RingInv'
BY DEF RingInv, ringVars, Consumed, Ahead

\* A ring that was just filled with silence.
LEMMA RingIsSilent ==
  ASSUME RingIsEmpty, WiiuSoundTypeOK'
  PROVE  RingInv'
<1>1. /\ playing' = FALSE /\ writePos' = 0 /\ lastRead' = 0 /\ soundCount' = 0
      /\ fresh' = {} /\ turned' = FALSE /\ missed' = FALSE
  BY DEF RingIsEmpty
<1>2. Wrap(0 + 0) = 0 /\ Consumed' = 0
  BY <1>1, WiiuSoundAssumption DEF Wrap, Consumed
<1>3. \A x \in Position : ~(Ahead(0, x) < 0)
  BY AheadFacts, WiiuSoundAssumption DEF Position
<1> QED BY <1>1, <1>2, <1>3 DEF RingInv

\* The types of what the sound consists of.
SoundFlags ==
    /\ voicesAlive \in BOOLEAN /\ playing \in BOOLEAN /\ turned \in BOOLEAN /\ missed \in BOOLEAN
    /\ streaming \in BOOLEAN /\ soundUp \in BOOLEAN /\ pcmUdp \in BOOLEAN
    /\ audioSock \in BOOLEAN /\ haveSequence \in BOOLEAN
RingPlaces ==
    /\ writePos \in Position /\ lastRead \in Position /\ soundCount \in 0..Ring
    /\ spot \in Position /\ fresh \subseteq Position
SocketPlaces ==
    /\ expected \in 0..MaxSent /\ datagrams \in Seq(Datagram) /\ Len(datagrams) <= SocketHolds
    /\ hostNow \in 1..MaxHosts /\ hostSent \in 0..MaxSent
    /\ peer \in 1..MaxHosts /\ taken \subseteq 1..MaxHosts

LEMMA SoundTypes == WiiuSoundTypeOK <=> SoundFlags /\ RingPlaces /\ SocketPlaces
BY DEF WiiuSoundTypeOK, SoundFlags, RingPlaces, SocketPlaces

LEMMA TakenIsDatagram ==
  ASSUME SocketPlaces, datagrams # <<>>
  PROVE  /\ Head(datagrams).host \in 1..MaxHosts /\ Head(datagrams).n + 1 \in 0..MaxSent
         /\ Head(datagrams).size \in Pieces
         /\ Tail(datagrams) \in Seq(Datagram) /\ Len(Tail(datagrams)) <= SocketHolds
<1>1. datagrams \in Seq(Datagram) /\ Len(datagrams) <= SocketHolds
  BY DEF SocketPlaces
<1>2. /\ Head(datagrams) \in Datagram /\ Tail(datagrams) \in Seq(Datagram)
      /\ Len(Tail(datagrams)) <= SocketHolds
  BY <1>1, TailsAreKept, WiiuSoundAssumption
<1>3. /\ Head(datagrams).host \in 1..MaxHosts /\ Head(datagrams).n \in 0..(MaxSent - 1)
      /\ Head(datagrams).size \in Pieces
  BY <1>2 DEF Datagram
<1> QED BY <1>2, <1>3, WiiuSoundAssumption

\* What a step does to the ring: nothing, a push, silence, or it plays.
LEMMA RingSteps ==
  ASSUME SocketPlaces, [WiiuSoundNext]_soundVars
  PROVE  \/ AxPlays \/ UNCHANGED ringVars
         \/ (voicesAlive' \in BOOLEAN /\ RingIsEmpty)
         \/ \E size \in Pieces : PushPcm(size)
<1>1. CASE TakeAudio
  BY <1>1, TakenIsDatagram DEF TakeAudio, Play, ringVars
<1>2. CASE \E size \in Pieces : TakeMessage(size)
  BY <1>2 DEF TakeMessage, Play
<1>3. CASE \E sounds \in BOOLEAN, opens \in BOOLEAN : SoundConnects(sounds, opens)
  BY <1>3 DEF SoundConnects, AudioInit
<1>4. CASE Suspend
  BY <1>4 DEF Suspend, AudioExit
<1>5. CASE \/ \E opens \in BOOLEAN : SoundReconnects(opens)
           \/ \E udp \in BOOLEAN : HandshakeReply(udp)
           \/ LinkFails \/ HostSends \/ HostIsAnother
           \/ \E d \in Datagram : DatagramComes(d)
           \/ UNCHANGED soundVars
  BY <1>5 DEF SoundReconnects, HandshakeReply, LinkFails, HostSends, HostIsAnother,
              DatagramComes, soundVars
<1> QED BY <1>1, <1>2, <1>3, <1>4, <1>5 DEF WiiuSoundNext

\* What a step does to the connection's flags.
LEMMA SoundKeepsLinkFlags ==
  ASSUME SoundFlags, [WiiuSoundNext]_soundVars
  PROVE  /\ streaming' \in BOOLEAN /\ soundUp' \in BOOLEAN /\ pcmUdp' \in BOOLEAN
         /\ audioSock' \in BOOLEAN /\ haveSequence' \in BOOLEAN
<1> USE DEF SoundFlags, soundLinkVars, soundHostVars
<1>1. CASE AxPlays
  BY <1>1 DEF AxPlays
<1>2. ASSUME NEW sounds \in BOOLEAN, NEW opens \in BOOLEAN, SoundConnects(sounds, opens)
      PROVE  /\ streaming' \in BOOLEAN /\ soundUp' \in BOOLEAN /\ pcmUdp' \in BOOLEAN
             /\ audioSock' \in BOOLEAN /\ haveSequence' \in BOOLEAN
  BY <1>2 DEF SoundConnects, OpenAudioSocket
<1>3. ASSUME NEW opens \in BOOLEAN, SoundReconnects(opens)
      PROVE  /\ streaming' \in BOOLEAN /\ soundUp' \in BOOLEAN /\ pcmUdp' \in BOOLEAN
             /\ audioSock' \in BOOLEAN /\ haveSequence' \in BOOLEAN
  BY <1>3 DEF SoundReconnects, CloseAudioSocket
<1>4. CASE Suspend
  BY <1>4 DEF Suspend, CloseAudioSocket
<1>5. ASSUME NEW udp \in BOOLEAN, HandshakeReply(udp)
      PROVE  /\ streaming' \in BOOLEAN /\ soundUp' \in BOOLEAN /\ pcmUdp' \in BOOLEAN
             /\ audioSock' \in BOOLEAN /\ haveSequence' \in BOOLEAN
  BY <1>5 DEF HandshakeReply
<1>6. CASE LinkFails
  BY <1>6 DEF LinkFails
<1>7. CASE TakeAudio
  <2>1. UNCHANGED <<streaming, soundUp, pcmUdp, audioSock>> /\ haveSequence' \in {haveSequence, TRUE}
    BY <1>7 DEF TakeAudio
  <2> QED BY <2>1
<1>8. ASSUME NEW size \in Pieces, TakeMessage(size)
      PROVE  /\ streaming' \in BOOLEAN /\ soundUp' \in BOOLEAN /\ pcmUdp' \in BOOLEAN
             /\ audioSock' \in BOOLEAN /\ haveSequence' \in BOOLEAN
  BY <1>8 DEF TakeMessage
<1>9. ASSUME NEW d \in Datagram, DatagramComes(d)
      PROVE  /\ streaming' \in BOOLEAN /\ soundUp' \in BOOLEAN /\ pcmUdp' \in BOOLEAN
             /\ audioSock' \in BOOLEAN /\ haveSequence' \in BOOLEAN
  BY <1>9 DEF DatagramComes
<1>10. CASE HostSends \/ HostIsAnother \/ UNCHANGED soundVars
  BY <1>10 DEF HostSends, HostIsAnother, soundVars
<1> QED BY <1>1, <1>2, <1>3, <1>4, <1>5, <1>6, <1>7, <1>8, <1>9, <1>10 DEF WiiuSoundNext

LEMMA SoundKeepsSocketPlaces ==
  ASSUME SocketPlaces, [WiiuSoundNext]_soundVars
  PROVE  SocketPlaces'
<1> USE WiiuSoundAssumption DEF SocketPlaces, soundLinkVars, soundHostVars
<1>0. <<>> \in Seq(Datagram) /\ Len(<<>>) <= SocketHolds
  OBVIOUS
<1>1. CASE AxPlays \/ LinkFails \/ (\E size \in Pieces : TakeMessage(size)) \/ UNCHANGED soundVars
  BY <1>1 DEF AxPlays, LinkFails, TakeMessage, soundVars
<1>2. ASSUME NEW sounds \in BOOLEAN, NEW opens \in BOOLEAN, SoundConnects(sounds, opens)
      PROVE  SocketPlaces'
  <2>1. UNCHANGED <<expected, datagrams, hostNow, hostSent, peer, taken>>
    BY <1>2 DEF SoundConnects
  <2> QED BY <2>1
<1>3. CASE (\E opens \in BOOLEAN : SoundReconnects(opens)) \/ Suspend
  <2>1. datagrams' = <<>> /\ expected' = 0 /\ UNCHANGED <<hostNow, hostSent, peer, taken>>
    BY <1>3 DEF SoundReconnects, Suspend, CloseAudioSocket
  <2>2. expected' \in 0..MaxSent
    BY <2>1
  <2> QED BY <1>0, <2>1, <2>2
<1>4. ASSUME NEW udp \in BOOLEAN, HandshakeReply(udp)
      PROVE  SocketPlaces'
  BY <1>4 DEF HandshakeReply
<1>5. CASE HostSends
  BY <1>5 DEF HostSends
<1>6. CASE HostIsAnother
  BY <1>6 DEF HostIsAnother
<1>7. CASE TakeAudio
  <2>1. /\ datagrams' = Tail(datagrams) /\ datagrams # <<>> /\ UNCHANGED <<hostNow, hostSent, peer>>
        /\ \/ expected' = Head(datagrams).n + 1 /\ taken' = taken \cup {Head(datagrams).host}
           \/ UNCHANGED <<expected, taken>>
    BY <1>7 DEF TakeAudio
  <2> QED BY <2>1, TakenIsDatagram
<1>8. ASSUME NEW d \in Datagram, DatagramComes(d)
      PROVE  SocketPlaces'
  <2>1. datagrams' \in Seq(Datagram) /\ Len(datagrams') <= SocketHolds
    BY <1>8 DEF DatagramComes
  <2> QED BY <1>8, <2>1 DEF DatagramComes
<1> QED BY <1>1, <1>2, <1>3, <1>4, <1>5, <1>6, <1>7, <1>8 DEF WiiuSoundNext

LEMMA SoundKeepsTypes == SoundInv /\ [WiiuSoundNext]_soundVars => WiiuSoundTypeOK'
<1> SUFFICES ASSUME SoundInv, [WiiuSoundNext]_soundVars
             PROVE  WiiuSoundTypeOK'
  OBVIOUS
<1>0. RingInv /\ SoundFlags /\ RingPlaces /\ SocketPlaces
  BY SoundTypes DEF SoundInv, RingInv
<1>1. SocketPlaces'
  BY <1>0, SoundKeepsSocketPlaces
<1>2. RingPlaces' /\ voicesAlive' \in BOOLEAN /\ playing' \in BOOLEAN /\ turned' \in BOOLEAN
      /\ missed' \in BOOLEAN
  <2>1. CASE AxPlays
    <3>1. WiiuSoundTypeOK'
      BY <1>0, <2>1, AxKeepsRing DEF RingInv
    <3> QED BY <3>1 DEF WiiuSoundTypeOK, RingPlaces
  <2>2. CASE UNCHANGED ringVars
    BY <1>0, <2>2 DEF ringVars, SoundFlags, RingPlaces
  <2>3. CASE voicesAlive' \in BOOLEAN /\ RingIsEmpty
    <3>1. 0 \in Position /\ 0 \in 0..Ring
      BY WiiuSoundAssumption DEF Position
    <3>2. RingPlaces'
      BY <1>0, <2>3, <3>1 DEF RingIsEmpty, RingPlaces
    <3> QED BY <2>3, <3>2 DEF RingIsEmpty
  <2>4. ASSUME NEW size \in Pieces, PushPcm(size)
        PROVE  RingPlaces' /\ voicesAlive' \in BOOLEAN /\ playing' \in BOOLEAN /\ turned' \in BOOLEAN
               /\ missed' \in BOOLEAN
    BY <1>0, <2>4, PushKeepsTypes DEF RingPlaces, SoundFlags
  <2> QED BY <1>0, <2>1, <2>2, <2>3, <2>4, RingSteps
<1>3. SoundFlags'
  BY <1>0, <1>2, SoundKeepsLinkFlags DEF SoundFlags
<1> QED BY <1>1, <1>2, <1>3, SoundTypes DEF WiiuSoundTypeOK, SoundFlags, RingPlaces, SocketPlaces

LEMMA SoundKeepsRing == SoundInv /\ [WiiuSoundNext]_soundVars => RingInv'
<1> SUFFICES ASSUME SoundInv, [WiiuSoundNext]_soundVars
             PROVE  RingInv'
  OBVIOUS
<1>0. RingInv /\ WiiuSoundTypeOK' /\ SocketPlaces
  BY SoundKeepsTypes, SoundTypes DEF SoundInv, RingInv
<1>1. CASE AxPlays
  BY <1>0, <1>1, AxKeepsRing
<1>2. CASE UNCHANGED ringVars
  BY <1>0, <1>2, RingIsKept
<1>3. CASE RingIsEmpty
  BY <1>0, <1>3, RingIsSilent
<1>4. ASSUME NEW size \in Pieces, PushPcm(size)
      PROVE  RingInv'
  BY <1>0, <1>4, PushKeepsRing
<1> QED BY <1>0, <1>1, <1>2, <1>3, <1>4, RingSteps

LEMMA SoundKeepsSocket == SoundInv /\ [WiiuSoundNext]_soundVars => SocketInv'
<1> SUFFICES ASSUME SoundInv, [WiiuSoundNext]_soundVars
             PROVE  SocketInv'
  OBVIOUS
<1> USE WiiuSoundAssumption
<1>0. /\ WiiuSoundTypeOK /\ SocketInv /\ datagrams \in Seq(Datagram) /\ hostNow \in Nat \ {0}
      /\ hostSent \in Nat /\ expected \in Nat
  BY DEF SoundInv, RingInv, WiiuSoundTypeOK
<1>1. CASE UNCHANGED <<datagrams, taken, soundUp, haveSequence, expected, hostNow, hostSent>>
  BY <1>0, <1>1 DEF SocketInv, NextIsTaken
<1>2. ASSUME UNCHANGED <<hostNow, hostSent, taken>>, ~soundUp' \/ ~haveSequence',
             datagrams' = datagrams \/ datagrams' = <<>>
      PROVE  SocketInv'
  BY <1>0, <1>2 DEF SocketInv, NextIsTaken
<1>3. ASSUME NEW udp \in BOOLEAN, HandshakeReply(udp)
      PROVE  SocketInv'
  BY <1>0, <1>3 DEF HandshakeReply, SocketInv, NextIsTaken, soundHostVars
<1>4. CASE HostSends
  <2>1. /\ hostSent' = hostSent + 1 /\ hostNow' = hostNow
        /\ UNCHANGED <<soundUp, haveSequence, expected, taken, datagrams>>
    BY <1>4 DEF HostSends, soundLinkVars
  <2>2. \A i \in 1..Len(datagrams) : datagrams[i].host <= hostNow /\ datagrams[i].n \in Int
    <3>1. \A i \in 1..Len(datagrams) : datagrams[i] \in Datagram
      BY <1>0
    <3> QED BY <1>0, <3>1 DEF SocketInv, Datagram
  <2>3. \A i \in 1..Len(datagrams') : /\ datagrams'[i].host <= hostNow'
                                      /\ datagrams'[i].host = hostNow' => datagrams'[i].n < hostSent'
    BY <1>0, <2>1, <2>2 DEF SocketInv
  <2>4. NextIsTaken'
    BY <1>0, <2>1 DEF SocketInv, NextIsTaken
  <2> QED BY <1>0, <2>1, <2>3, <2>4 DEF SocketInv
<1>5. CASE HostIsAnother
  <2>1. /\ hostNow' = hostNow + 1 /\ hostSent' = 0
        /\ UNCHANGED <<soundUp, haveSequence, expected, taken, datagrams>>
    BY <1>5 DEF HostIsAnother, soundLinkVars
  <2>2. \A i \in 1..Len(datagrams) : datagrams[i].host \in Int /\ datagrams[i].host <= hostNow
    <3>1. \A i \in 1..Len(datagrams) : datagrams[i] \in Datagram
      BY <1>0
    <3> QED BY <1>0, <3>1 DEF SocketInv, Datagram
  <2>3. taken \subseteq 1..hostNow /\ (soundUp /\ haveSequence => taken # {})
    BY <1>0 DEF SocketInv
  <2>4. soundUp /\ haveSequence => ~(taken \subseteq {hostNow + 1})
    <3>1. hostNow + 1 \notin 1..hostNow
      BY <1>0
    <3> QED BY <2>3, <3>1
  <2>5. taken \subseteq 1..(hostNow + 1)
    BY <1>0, <2>3
  <2> QED BY <1>0, <2>1, <2>2, <2>3, <2>4, <2>5 DEF SocketInv, NextIsTaken
<1>6. CASE TakeAudio
  <2> DEFINE d == Head(datagrams)
  <2>1. /\ d = datagrams[1] /\ 1 \in 1..Len(datagrams) /\ d \in Datagram /\ datagrams' = Tail(datagrams)
        /\ \A i \in 1..Len(Tail(datagrams)) :
              Tail(datagrams)[i] = datagrams[i + 1] /\ i + 1 \in 1..Len(datagrams)
    BY <1>0, <1>6, TailsAreKept DEF TakeAudio
  <2>2. /\ d.host \in Nat \ {0} /\ d.n \in Nat /\ d.host <= hostNow
        /\ d.host = hostNow => d.n < hostSent
    BY <1>0, <2>1 DEF SocketInv, Datagram
  <2>3. /\ UNCHANGED <<soundUp, hostNow, hostSent>>
        /\ \/ haveSequence' = TRUE /\ expected' = d.n + 1 /\ taken' = taken \cup {d.host}
           \/ UNCHANGED <<haveSequence, expected, taken>>
    BY <1>6 DEF TakeAudio, soundHostVars
  <2> HIDE DEF d
  <2>4. \A i \in 1..Len(datagrams') : /\ datagrams'[i].host <= hostNow
                                      /\ datagrams'[i].host = hostNow => datagrams'[i].n < hostSent
    BY <1>0, <2>1 DEF SocketInv
  <2>5. CASE haveSequence' = TRUE /\ expected' = d.n + 1 /\ taken' = taken \cup {d.host}
    <3>0. d.host \in 1..hostNow /\ d.host \in taken'
      BY <1>0, <2>2, <2>5
    <3>1. taken' \subseteq 1..hostNow /\ taken' # {}
      BY <1>0, <2>5, <3>0 DEF SocketInv
    <3>2. taken' \subseteq {hostNow} => expected' <= hostSent
      <4>1. taken' \subseteq {hostNow} => d.host = hostNow
        BY <3>0
      <4> QED BY <1>0, <2>2, <2>5, <4>1
    <3> QED BY <2>3, <2>4, <3>1, <3>2 DEF SocketInv, NextIsTaken
  <2>6. CASE UNCHANGED <<haveSequence, expected, taken>>
    BY <1>0, <2>3, <2>4, <2>6 DEF SocketInv, NextIsTaken
  <2> QED BY <2>3, <2>5, <2>6
<1>7. ASSUME NEW d \in Datagram, DatagramComes(d)
      PROVE  SocketInv'
  <2>1. /\ datagrams' = Append(datagrams, d) /\ d.host <= hostNow /\ (d.host = hostNow => d.n < hostSent)
        /\ UNCHANGED <<taken, soundUp, haveSequence, expected, hostNow, hostSent>>
    BY <1>7 DEF DatagramComes, soundLinkVars, soundHostVars
  <2>2. /\ Len(datagrams') = Len(datagrams) + 1 /\ Len(datagrams) \in Nat
        /\ \A i \in 1..Len(datagrams) : datagrams'[i] = datagrams[i]
        /\ datagrams'[Len(datagrams) + 1] = d
    BY <1>0, <2>1
  <2>3. \A i \in 1..Len(datagrams') : i \in 1..Len(datagrams) \/ i = Len(datagrams) + 1
    BY <2>2
  <2>4. \A i \in 1..Len(datagrams') : /\ datagrams'[i].host <= hostNow
                                      /\ datagrams'[i].host = hostNow => datagrams'[i].n < hostSent
    BY <1>0, <2>1, <2>2, <2>3 DEF SocketInv
  <2> QED BY <1>0, <2>1, <2>4 DEF SocketInv, NextIsTaken
<1>8. CASE AxPlays \/ (\E size \in Pieces : TakeMessage(size)) \/ UNCHANGED soundVars
  BY <1>1, <1>8 DEF AxPlays, TakeMessage, soundVars, soundLinkVars, soundHostVars
<1>9. CASE \/ \E sounds \in BOOLEAN, opens \in BOOLEAN : SoundConnects(sounds, opens)
           \/ \E opens \in BOOLEAN : SoundReconnects(opens)
           \/ Suspend \/ LinkFails
  BY <1>2, <1>9 DEF SoundConnects, SoundReconnects, Suspend, LinkFails, CloseAudioSocket, soundHostVars
<1> QED BY <1>3, <1>4, <1>5, <1>6, <1>7, <1>8, <1>9 DEF WiiuSoundNext

\* Whatever the datagrams do, the ring and the connection stay as they should.
LEMMA SoundInvariant == WiiuSoundSpec => []SoundInv
<1>1. WiiuSoundInit => SoundInv
  <2> SUFFICES ASSUME WiiuSoundInit
               PROVE  SoundInv
    OBVIOUS
  <2>1. WiiuSoundTypeOK
    <3>1. SoundFlags
      BY DEF WiiuSoundInit, SoundFlags
    <3>2. RingPlaces
      BY WiiuSoundAssumption DEF WiiuSoundInit, RingPlaces, Position
    <3>3. SocketPlaces
      BY WiiuSoundAssumption DEF WiiuSoundInit, SocketPlaces
    <3> QED BY <3>1, <3>2, <3>3, SoundTypes
  <2>2. Wrap(0 + 0) = 0 /\ Consumed = 0 /\ \A x \in Position : ~(Ahead(0, x) < 0)
    BY AheadFacts, WiiuSoundAssumption DEF WiiuSoundInit, Wrap, Consumed, Position
  <2>3. RingInv
    BY <2>1, <2>2 DEF WiiuSoundInit, RingInv
  <2>4. SocketInv
    BY DEF WiiuSoundInit, SocketInv, NextIsTaken
  <2> QED BY <2>3, <2>4 DEF SoundInv
<1>2. SoundInv /\ [WiiuSoundNext]_soundVars => SoundInv'
  BY SoundKeepsRing, SoundKeepsSocket DEF SoundInv
<1> QED BY <1>1, <1>2, PTL DEF WiiuSoundSpec

\* What audio_sync_position() takes for queued is what the console has not
\* played, and the next datagram is read from where the last one ended.
THEOREM SoundIsTrue == WiiuSoundSpec => [](QueueIsTrue /\ NextIsTaken)
<1>1. RingInv => QueueIsTrue
  <2> SUFFICES ASSUME RingInv
               PROVE  QueueIsTrue
    OBVIOUS
  <2> USE WiiuSoundAssumption
  <2>1. lastRead \in Position /\ Consumed \in Position /\ soundCount \in 0..Ring /\ fresh \subseteq Position
    <3>1. /\ lastRead \in Position /\ spot \in Position /\ soundCount \in 0..Ring
          /\ fresh \subseteq Position /\ 0 \in Position
      BY DEF RingInv, WiiuSoundTypeOK, Position
    <3> QED BY <3>1, AheadFacts DEF Consumed, Ahead
  <2>2. \A x : x \in After(lastRead, Consumed..(soundCount - 1))
               <=> x \in Position /\ Consumed <= Ahead(lastRead, x) /\ Ahead(lastRead, x) <= soundCount - 1
    BY <2>1, InAfter DEF Position
  <2>3. \A x \in Position : Ahead(lastRead, x) \in Position
    BY <2>1, AheadFacts
  <2>4. CASE turned
    BY <2>4 DEF QueueIsTrue, Unplayed, RingInv
  <2>5. CASE ~turned
    <3>1. Unplayed = After(lastRead, Consumed..(soundCount - 1))
      BY <2>5 DEF Unplayed
    <3>2. ASSUME NEW x \in fresh PROVE x \in Unplayed
      <4>1. x \in Position /\ Consumed <= Ahead(lastRead, x) /\ Ahead(lastRead, x) < soundCount
        BY <2>1 DEF RingInv
      <4>2. Ahead(lastRead, x) \in Int /\ soundCount \in Int
        BY <2>1, <2>3, <4>1 DEF Position
      <4>3. Ahead(lastRead, x) <= soundCount - 1
        BY <4>1, <4>2
      <4> QED BY <2>2, <3>1, <4>1, <4>3
    <3>3. ASSUME ~missed, NEW x \in Unplayed PROVE x \in fresh
      <4>1. x \in Position /\ Consumed <= Ahead(lastRead, x) /\ Ahead(lastRead, x) <= soundCount - 1
        BY <2>2, <3>1, <3>3
      <4>2. Ahead(lastRead, x) \in Int /\ soundCount \in Int
        BY <2>1, <2>3, <4>1 DEF Position
      <4>3. Ahead(lastRead, x) < soundCount
        BY <4>1, <4>2
      <4> QED BY <2>5, <3>3, <4>1, <4>3 DEF RingInv
    <3> QED BY <3>2, <3>3 DEF QueueIsTrue
  <2> QED BY <2>4, <2>5
<1> QED BY <1>1, SoundInvariant, PTL DEF SoundInv, SocketInv

\* audio_push() never writes over sound that is still to be heard.
THEOREM NoSoundIsLost == WiiuSoundSpec => NothingIsOverwritten
<1>1. SoundInv /\ [WiiuSoundNext]_soundVars
      => [\A size \in Pieces : PushWrites(size) => fresh \cap After(SyncedWrite, 0..(size - 1)) = {}]_soundVars
  <2> SUFFICES ASSUME SoundInv, NEW size \in Pieces, PushWrites(size)
               PROVE  fresh \cap After(SyncedWrite, 0..(size - 1)) = {}
    OBVIOUS
  <2>1. /\ SyncedRead \in Position /\ SyncedCount \in 0..Ring
        /\ SyncedWrite = Wrap(SyncedRead + SyncedCount)
        /\ \A x \in fresh : Ahead(SyncedRead, x) < SyncedCount
    BY SyncIsTrue DEF SoundInv
  <2>2. size \in 1..Ring /\ size <= Ring - SyncedCount /\ fresh \subseteq Position
    BY WiiuSoundAssumption DEF PushWrites, Room, SoundInv, RingInv, WiiuSoundTypeOK
  <2>3. \A x \in After(SyncedWrite, 0..(size - 1)) : SyncedCount <= Ahead(SyncedRead, x)
    BY <2>1, <2>2, PieceIsBehind
  <2>4. \A x \in fresh : Ahead(SyncedRead, x) \in Position
    BY <2>1, <2>2, AheadFacts
  <2> QED BY <2>1, <2>3, <2>4 DEF Position
<1> QED BY <1>1, SoundInvariant, PTL DEF WiiuSoundSpec, NothingIsOverwritten

\* As many positions as the queue counts.
LEMMA QueueHasItsSize ==
  ASSUME NEW q \in Position, NEW n \in 0..Ring
  PROVE  Cardinality({x \in Position : Ahead(q, x) < n}) = n
<1> USE WiiuSoundAssumption
<1> DEFINE S == {x \in Position : Ahead(q, x) < n}
           f == [i \in 0..(n - 1) |-> Wrap(q + i)]
<1>0. \A i \in 0..(n - 1) : i \in Position /\ i < n
  BY DEF Position
<1>1. \A i \in 0..(n - 1) : i < n /\ f[i] \in Position /\ Ahead(q, f[i]) = i
  BY <1>0, AheadIsDistance
<1>2. f \in [0..(n - 1) -> S]
  BY <1>1
<1>3. \A a, b \in 0..(n - 1) : f[a] = f[b] => a = b
  BY <1>1
<1>4. ASSUME NEW x \in S PROVE \E i \in 0..(n - 1) : f[i] = x
  <2>1. Ahead(q, x) \in Position /\ Ahead(q, x) < n /\ Wrap(q + Ahead(q, x)) = x
    BY AheadFacts
  <2>2. Ahead(q, x) \in 0..(n - 1)
    BY <2>1 DEF Position
  <2> QED BY <2>1, <2>2
<1>5. f \in Bijection(0..(n - 1), S)
  BY <1>2, <1>3, <1>4 DEF Bijection, Injection, Surjection, IsInjective
<1>6. IsFiniteSet(0..(n - 1)) /\ Cardinality(0..(n - 1)) = n
  BY FS_Interval
<1> QED BY <1>5, <1>6, FS_Bijection DEF ExistsBijection

\* audio_push() drops a piece only when the queue would grow beyond its limit.
THEOREM DropsAreFull == WiiuSoundSpec => DropIsFull
<1>1. SoundInv /\ [WiiuSoundNext]_soundVars
      => [\A size \in Pieces : PushDrops(size) => missed' \/ Cardinality(fresh) + size > Ring]_soundVars
  <2> SUFFICES ASSUME SoundInv, NEW size \in Pieces, PushDrops(size), ~missed'
               PROVE  Cardinality(fresh) + size > Ring
    OBVIOUS
  <2>1. /\ SyncedRead \in Position /\ SyncedCount \in 0..Ring
        /\ \A x \in fresh : Ahead(SyncedRead, x) < SyncedCount
        /\ ~(SyncedPlaying /\ (missed \/ turned)) => \A x \in Position :
              Ahead(SyncedRead, x) < SyncedCount => x \in fresh
    BY SyncIsTrue DEF SoundInv
  <2>2. size > Ring - SyncedCount /\ ~(SyncedPlaying /\ (missed \/ turned))
    BY DEF PushDrops, Room, Synced
  <2>3. fresh = {x \in Position : Ahead(SyncedRead, x) < SyncedCount}
    BY <2>1, <2>2 DEF SoundInv, RingInv, WiiuSoundTypeOK
  <2>4. Cardinality(fresh) = SyncedCount
    BY <2>1, <2>3, QueueHasItsSize
  <2> QED BY <2>1, <2>2, <2>4, WiiuSoundAssumption
<1> QED BY <1>1, SoundInvariant, PTL DEF WiiuSoundSpec, DropIsFull

----------------------------------------------------------------------------
(* The Switch client: its connection and its settings. *)

\* An answered login has its token, and the link that comes of it its control.
SwitchLinkPromise ==
    /\ LinkIsKept
    /\ answered => hasToken
    /\ answered /\ Connected => mayControl

LEMMA SwitchLinkKeepsTypes == SwitchLinkTypeOK /\ [SwitchLinkNext]_switchLinkVars => SwitchLinkTypeOK'
<1> SUFFICES ASSUME SwitchLinkTypeOK, [SwitchLinkNext]_switchLinkVars
             PROVE  SwitchLinkTypeOK'
  OBVIOUS
<1> USE SwitchLinkAssumption DEF SwitchLinkTypeOK, Connected, linkVars, keptVars
<1>0. ASSUME NEW persists \in BOOLEAN, Entry(persists)
      PROVE  /\ step' = "save" /\ entries' \in 0..MaxEntries /\ dirty' \in BOOLEAN
             /\ UNCHANGED <<disk, savedVolume, wasConnected>>
  <2>1. step' = "save" /\ entries' \in 0..MaxEntries /\ UNCHANGED <<disk, savedVolume, wasConnected>>
    BY <1>0 DEF Entry
  <2>2. dirty' \in BOOLEAN
    BY <1>0 DEF Entry
  <2> QED BY <2>1, <2>2
<1>1. CASE NetPoll
  <2>1. CASE HandleHandshakeReply /\ link = "handshake"
    BY <1>1, <2>1 DEF NetPoll, HandleHandshakeReply, Fail
  <2>2. CASE ~(HandleHandshakeReply /\ link = "handshake")
    BY <1>1, <2>2 DEF NetPoll, BeginSwitch, FinishSwitch, Fail
  <2> QED BY <2>1, <2>2
<1>2. CASE OnEdge
  <2>1. CASE UNCHANGED <<linkVars, password, dirty>>
    BY <1>2, <2>1 DEF OnEdge
  <2>2. CASE NetConnect(TRUE) /\ answered' = TRUE /\ UNCHANGED <<password, dirty>>
    BY <1>2, <2>2 DEF OnEdge, NetConnect
  <2>3. CASE password' = "none" /\ dirty' = TRUE /\ UNCHANGED linkVars
    BY <1>2, <2>3 DEF OnEdge, Passwords
  <2> QED BY <1>2, <2>1, <2>2, <2>3 DEF OnEdge, MaybeAutologin
<1>3. CASE StartDecoders \/ NoEntry
  BY <1>3 DEF StartDecoders, NoEntry
<1>4. CASE SaveConfigIfNeeded \/ Quit
  <2>1. disk' \in Settings
    BY <1>4 DEF SaveConfigIfNeeded, Quit, SaveConfig, Memory, Settings
  <2>2. dirty' \in BOOLEAN
    BY <1>4 DEF SaveConfigIfNeeded, Quit, SaveConfig
  <2>3. /\ step' \in {"poll", "ended"}
        /\ UNCHANGED <<linkVars, password, autologin, volume, savedVolume, chosen, wasConnected, opened, entries>>
    BY <1>4 DEF SaveConfigIfNeeded, Quit
  <2> QED BY <2>1, <2>2, <2>3
<1>5. CASE Connect
  <2>1. /\ Entry(FALSE) /\ UNCHANGED <<password, autologin, volume, chosen>>
        /\ wants' \in BOOLEAN /\ link' = "idle" /\ hasToken' \in BOOLEAN /\ mayControl' \in BOOLEAN
        /\ answered' \in BOOLEAN /\ opened' \in BOOLEAN
    BY <1>5 DEF Connect, NetConnect, NetDisconnect
  <2> QED BY <1>0, <2>1
<1>6. CASE Readdress
  BY <1>0, <1>6 DEF Readdress, NetConnect
<1>7. CASE Login
  <2>1. /\ Entry(TRUE) /\ UNCHANGED <<autologin, volume, chosen, opened>>
        /\ \/ NetConnect(FALSE) /\ answered' = FALSE /\ UNCHANGED password
           \/ UNCHANGED <<linkVars, password>>
           \/ NetConnect(TRUE) /\ answered' = TRUE /\ password' \in Passwords
           \/ password' = "none" /\ UNCHANGED linkVars
    BY <1>7 DEF Login, Passwords
  <2> QED BY <1>0, <2>1 DEF NetConnect, Passwords
<1>8. CASE ToggleAutologin \/ ForgetPassword \/ ChangeVolume
  <2>1. CASE ToggleAutologin
    BY <1>0, <2>1 DEF ToggleAutologin
  <2>2. CASE ForgetPassword
    BY <1>0, <2>2 DEF ForgetPassword, Passwords
  <2>3. CASE ChangeVolume
    BY <1>0, <2>3 DEF ChangeVolume
  <2> QED BY <1>8, <2>1, <2>2, <2>3
<1>9. CASE Killed
  <2>1. Defaults \in Settings
    BY DEF Defaults, Settings, Passwords, Volumes
  <2>2. /\ disk' \in {disk, Defaults} /\ step' = "ended"
        /\ UNCHANGED <<linkVars, password, autologin, volume, dirty, savedVolume, chosen, wasConnected, opened, entries>>
    BY <1>9 DEF Killed
  <2> QED BY <2>1, <2>2
<1>10. CASE Launch
  BY <1>10 DEF Launch, Defaults, Settings, Volumes
<1>11. CASE UNCHANGED switchLinkVars
  BY <1>11 DEF switchLinkVars, loopVars
<1> QED BY <1>1, <1>2, <1>3, <1>4, <1>5, <1>6, <1>7, <1>8, <1>9, <1>10, <1>11
        DEF SwitchLinkNext, FrameLoop, MenuActivate

LEMMA SwitchLinkKeepsPromise ==
  SwitchLinkTypeOK /\ SwitchLinkPromise /\ [SwitchLinkNext]_switchLinkVars => SwitchLinkPromise'
<1> SUFFICES ASSUME SwitchLinkTypeOK, SwitchLinkPromise, [SwitchLinkNext]_switchLinkVars
             PROVE  SwitchLinkPromise'
  OBVIOUS
<1> USE SwitchLinkAssumption DEF SwitchLinkPromise, SwitchLinkTypeOK, LinkIsKept, ControlNeedsToken,
        LoginIsNotRepeated, FileFollows, Connected, linkVars, keptVars
<1>1. CASE NetPoll
  <2>1. CASE HandleHandshakeReply /\ link = "handshake"
    BY <1>1, <2>1 DEF NetPoll, HandleHandshakeReply, Fail
  <2>2. CASE ~(HandleHandshakeReply /\ link = "handshake")
    BY <1>1, <2>2 DEF NetPoll, BeginSwitch, FinishSwitch, Fail
  <2> QED BY <2>1, <2>2
<1>2. CASE OnEdge
  <2>1. CASE UNCHANGED <<linkVars, password, dirty>>
    BY <1>2, <2>1 DEF OnEdge
  <2>2. CASE NetConnect(TRUE) /\ answered' = TRUE /\ UNCHANGED <<password, dirty>>
    BY <1>2, <2>2 DEF OnEdge, NetConnect
  <2>3. CASE password' = "none" /\ dirty' = TRUE /\ UNCHANGED linkVars
    BY <1>2, <2>3 DEF OnEdge, Passwords
  <2> QED BY <1>2, <2>1, <2>2, <2>3 DEF OnEdge, MaybeAutologin
<1>3. CASE StartDecoders \/ NoEntry
  BY <1>3 DEF StartDecoders, NoEntry
<1>4. CASE SaveConfigIfNeeded \/ Quit
  BY <1>4 DEF SaveConfigIfNeeded, Quit, SaveConfig, Memory, Settings
<1>5. CASE Connect
  BY <1>5 DEF Connect, Entry, NetConnect, NetDisconnect
<1>6. CASE Readdress
  BY <1>6 DEF Readdress, Entry, NetConnect
<1>7. CASE Login
  <2>1. /\ Entry(TRUE) /\ UNCHANGED <<autologin, volume, chosen, opened>>
        /\ \/ NetConnect(FALSE) /\ answered' = FALSE /\ UNCHANGED password
           \/ UNCHANGED <<linkVars, password>>
           \/ NetConnect(TRUE) /\ answered' = TRUE /\ password' \in Passwords
           \/ password' = "none" /\ UNCHANGED linkVars
    BY <1>7 DEF Login, Passwords
  <2>2. step' = "save" /\ dirty' = TRUE
    BY <2>1 DEF Entry
  <2>3. CASE NetConnect(FALSE) /\ answered' = FALSE
    BY <2>2, <2>3 DEF NetConnect
  <2>4. CASE NetConnect(TRUE) /\ answered' = TRUE
    BY <2>2, <2>4 DEF NetConnect
  <2>5. CASE UNCHANGED linkVars
    BY <2>2, <2>5
  <2> QED BY <2>1, <2>3, <2>4, <2>5
<1>8. CASE ToggleAutologin \/ ForgetPassword \/ ChangeVolume
  <2>1. step' = "save" /\ dirty' = TRUE /\ UNCHANGED linkVars
    BY <1>8 DEF ToggleAutologin, ForgetPassword, ChangeVolume, Entry
  <2> QED BY <2>1
<1>9. CASE Killed
  BY <1>9 DEF Killed, Defaults, Settings, Passwords, Volumes
<1>10. CASE Launch
  BY <1>10 DEF Launch, Defaults, Settings, Volumes
<1>11. CASE UNCHANGED switchLinkVars
  BY <1>11 DEF switchLinkVars, loopVars
<1> QED BY <1>1, <1>2, <1>3, <1>4, <1>5, <1>6, <1>7, <1>8, <1>9, <1>10, <1>11
        DEF SwitchLinkNext, FrameLoop, MenuActivate

\* What every step of the Switch client's loop keeps.
SwitchLinkInv == SwitchLinkTypeOK /\ SwitchLinkPromise

LEMMA SwitchLinkInvariant == SwitchLinkSpec => []SwitchLinkInv
<1>1. SwitchLinkInit => SwitchLinkTypeOK
  <2>1. ASSUME SwitchLinkInit
        PROVE  /\ disk \in Settings /\ disk.password \in Passwords /\ disk.autologin \in BOOLEAN
               /\ disk.volume \in Volumes /\ Defaults.volume \in Volumes
    BY <2>1 DEF SwitchLinkInit, Settings, Defaults, Volumes
  <2>2. SwitchLinkInit => entries \in 0..MaxEntries
    BY SwitchLinkAssumption DEF SwitchLinkInit
  <2> QED BY <2>1, <2>2 DEF SwitchLinkInit, SwitchLinkTypeOK
<1>2. SwitchLinkInit => SwitchLinkPromise
  BY DEF SwitchLinkInit, SwitchLinkPromise, LinkIsKept, ControlNeedsToken, LoginIsNotRepeated, FileFollows, Connected
<1> QED BY <1>1, <1>2, SwitchLinkKeepsTypes, SwitchLinkKeepsPromise, PTL DEF SwitchLinkSpec, SwitchLinkInv

\* The Switch client has control only with a token it was given, repeats no
\* refused login, and writes to its file what was set in its menu.
THEOREM SwitchLinkKept == SwitchLinkSpec => []LinkIsKept
BY SwitchLinkInvariant, PTL DEF SwitchLinkInv, SwitchLinkPromise

----------------------------------------------------------------------------
(* The Switch client: its pictures. *)

LEMMA BatchIsSequence == \A b : b \in Batches <=> (b \in Seq(Messages) /\ Len(b) <= MaxBatch)
<1> USE SwitchPicturesAssumption
<1>1. ASSUME NEW b \in Batches
      PROVE  b \in Seq(Messages) /\ Len(b) <= MaxBatch
  <2>1. PICK n \in 0..MaxBatch : b \in [1..n -> Messages]
    BY DEF Batches
  <2> QED BY <2>1
<1>2. ASSUME NEW b \in Seq(Messages), Len(b) <= MaxBatch
      PROVE  b \in Batches
  <2>1. b \in [1..Len(b) -> Messages] /\ Len(b) \in 0..MaxBatch
    BY <1>2
  <2> QED BY <2>1 DEF Batches
<1> QED BY <1>1, <1>2

LEMMA TailIsBatch ==
  ASSUME NEW b \in Batches, b # <<>>
  PROVE  Tail(b) \in Batches /\ Head(b) \in Messages /\ Head(b) = b[1] /\ 1 \in DOMAIN b
<1>1. b \in Seq(Messages) /\ Len(b) <= MaxBatch
  BY BatchIsSequence
<1>2. Tail(b) \in Seq(Messages) /\ Len(Tail(b)) <= MaxBatch
  BY <1>1, SwitchPicturesAssumption
<1>3. Tail(b) \in Batches
  BY <1>2, BatchIsSequence
<1>4. Head(b) \in Messages /\ Head(b) = b[1] /\ 1 \in DOMAIN b
  BY <1>1
<1> QED BY <1>3, <1>4

LEMMA NoBatch == <<>> \in Batches
<1>2. <<>> \in [1..0 -> Messages] /\ 0 \in 0..MaxBatch
  BY SwitchPicturesAssumption
<1> QED BY <1>2 DEF Batches

\* The types of the pictures' variables.
PictureFlags ==
    /\ up \in BOOLEAN /\ skipped \in BOOLEAN /\ kept \in BOOLEAN /\ ready \in BOOLEAN
    /\ await \in BOOLEAN /\ video \in BOOLEAN /\ sound \in BOOLEAN /\ owes \in BOOLEAN
    /\ broken \in BOOLEAN /\ behind \in BOOLEAN /\ jumped \in BOOLEAN
PicturePlaces == pass \in {"poll", "open", "take", "rest"} /\ receiver \in Batches /\ here \in 0..MaxDecode

LEMMA PictureTypes == PicturesTypeOK <=> PictureFlags /\ PicturePlaces
BY DEF PicturesTypeOK, PictureFlags, PicturePlaces

\* The decoder runs and lacks the picture the next one refers to.
Lacks == ready /\ ~await /\ broken /\ ~jumped

PicturesPromise ==
    /\ ready => video /\ sound
    /\ ~up \/ pass \in {"poll", "rest"} => receiver = <<>>
    /\ Lacks /\ receiver = <<>> => (up => owes) \/ (pass = "take" /\ skipped)
    /\ Lacks /\ receiver # <<>> => Head(receiver) # "delta" \/ (pass = "take" /\ here >= MaxDecode)

LEMMA PicturesKeepFlags == PictureFlags /\ [PicturesNext]_pictureVars => PictureFlags'
<1> SUFFICES ASSUME PictureFlags, [PicturesNext]_pictureVars
             PROVE  PictureFlags'
  OBVIOUS
<1> USE DEF PictureFlags, decoderVars
<1>1. CASE LinkUp
  BY <1>1 DEF LinkUp
<1>2. CASE LinkDown
  BY <1>2 DEF LinkDown
<1>3. CASE NothingArrives
  BY <1>3 DEF NothingArrives
<1>4. ASSUME NEW batch \in Batches, Arrives(batch)
      PROVE  PictureFlags'
  <2>1. owes' \in BOOLEAN
    BY <1>4 DEF Arrives
  <2> QED BY <2>1, <1>4 DEF Arrives
<1>5. CASE DecodersStart
  BY <1>5 DEF DecodersStart
<1>6. CASE DecodersFail
  BY <1>6 DEF DecodersFail
<1>7. CASE DecodersStay
  BY <1>7 DEF DecodersStay
<1>8. CASE StopDecoders
  BY <1>8 DEF StopDecoders
<1>9. CASE Rest
  BY <1>9 DEF Rest
<1>10. CASE PictureTaken
  <2>1. await' \in BOOLEAN /\ UNCHANGED <<up, ready, video, sound, owes>>
    BY <1>10 DEF PictureTaken, Waiting
  <2>2. broken' \in BOOLEAN
    BY <1>10 DEF PictureTaken
  <2>3. jumped' \in BOOLEAN
    BY <1>10 DEF PictureTaken
  <2>4. skipped' \in BOOLEAN /\ kept' \in BOOLEAN
    BY <1>10 DEF PictureTaken
  <2>5. behind' \in BOOLEAN
    BY <1>10 DEF PictureTaken
  <2> QED BY <2>1, <2>2, <2>3, <2>4, <2>5
<1>11. CASE InfoTaken
  <2>1. ready' \in BOOLEAN
    BY <1>11 DEF InfoTaken
  <2> QED BY <2>1, <1>11 DEF InfoTaken
<1>12. CASE Jump
  BY <1>12 DEF Jump
<1>13. CASE UNCHANGED pictureVars
  BY <1>13 DEF pictureVars, passVars
<1> QED BY <1>1, <1>2, <1>3, <1>4, <1>5, <1>6, <1>7, <1>8, <1>9, <1>10, <1>11, <1>12, <1>13
        DEF PicturesNext, PassNext, NetPolled

LEMMA PicturesKeepPlaces == PicturePlaces /\ [PicturesNext]_pictureVars => PicturePlaces'
<1> SUFFICES ASSUME PicturePlaces, [PicturesNext]_pictureVars
             PROVE  PicturePlaces'
  OBVIOUS
<1> USE SwitchPicturesAssumption DEF PicturePlaces
<1>1. CASE LinkUp \/ LinkDown \/ NothingArrives
  BY <1>1 DEF LinkUp, LinkDown, NothingArrives
<1>2. ASSUME NEW batch \in Batches, Arrives(batch)
      PROVE  PicturePlaces'
  BY <1>2 DEF Arrives
<1>3. CASE DecodersStart \/ DecodersFail \/ DecodersStay
  BY <1>3 DEF DecodersStart, DecodersFail, DecodersStay
<1>4. CASE StopDecoders \/ Rest
  BY <1>4 DEF StopDecoders, Rest
<1>5. CASE PictureTaken
  <2>1. receiver' \in Batches /\ pass' = pass
    BY <1>5, TailIsBatch DEF PictureTaken, Taking
  <2>2. here' = here \/ (here < MaxDecode /\ here' = here + 1)
    BY <1>5 DEF PictureTaken, RoomFor
  <2> QED BY <2>1, <2>2
<1>6. CASE InfoTaken
  <2>1. receiver' \in Batches /\ pass' = pass
    BY <1>6, TailIsBatch DEF InfoTaken, Taking
  <2> QED BY <1>6, <2>1 DEF InfoTaken
<1>7. CASE Jump
  BY <1>7 DEF Jump
<1>8. CASE UNCHANGED pictureVars
  BY <1>8 DEF pictureVars, passVars
<1> QED BY <1>1, <1>2, <1>3, <1>4, <1>5, <1>6, <1>7, <1>8 DEF PicturesNext, PassNext, NetPolled

LEMMA PicturesKeepPromise ==
  PicturePlaces /\ PicturesPromise /\ [PicturesNext]_pictureVars => PicturesPromise'
<1> SUFFICES ASSUME PicturePlaces, PicturesPromise, [PicturesNext]_pictureVars
             PROVE  PicturesPromise'
  OBVIOUS
<1> USE SwitchPicturesAssumption DEF PicturesPromise, Lacks
<1>1. CASE LinkUp
  BY <1>1 DEF LinkUp, decoderVars
<1>2. CASE LinkDown
  BY <1>2 DEF LinkDown, decoderVars
<1>3. CASE NothingArrives
  BY <1>3 DEF NothingArrives, decoderVars
<1>4. ASSUME NEW batch \in Batches, Arrives(batch)
      PROVE  PicturesPromise'
  <2>1. /\ pass = "poll" /\ up /\ receiver = <<>> /\ receiver' = batch /\ pass' = "open"
        /\ UNCHANGED <<up, here, skipped, kept, decoderVars, broken, behind, jumped>>
    BY <1>4 DEF Arrives
  <2>2. batch = <<>> /\ owes => owes'
    BY <1>4 DEF Arrives
  <2>3. batch # <<>> /\ owes => Head(batch) # "delta"
    BY <1>4, TailIsBatch DEF Arrives, Legal
  <2>4. Lacks' => Lacks /\ owes
    BY <2>1 DEF decoderVars
  <2> QED BY <2>1, <2>2, <2>3, <2>4 DEF decoderVars
<1>5. CASE DecodersStart
  BY <1>5 DEF DecodersStart
<1>6. CASE DecodersFail
  BY <1>6 DEF DecodersFail
<1>7. CASE DecodersStay
  BY <1>7 DEF DecodersStay, decoderVars
<1>8. CASE StopDecoders
  BY <1>8 DEF StopDecoders
<1>9. CASE Rest
  BY <1>9 DEF Rest, decoderVars
<1>10. CASE PictureTaken
  <2>1. /\ pass = "take" /\ pass' = "take" /\ up /\ receiver # <<>> /\ Head(receiver) \in {"key", "delta"}
        /\ UNCHANGED <<up, ready, video, sound, owes>> /\ (await' <=> Waiting)
    BY <1>10 DEF PictureTaken, Taking
  <2>2. here \in Nat /\ (Lacks /\ RoomFor => Head(receiver) # "delta")
    BY <2>1 DEF PicturePlaces, RoomFor
  <2>3. CASE Waiting
    BY <2>1, <2>3
  <2>4. CASE ~Waiting /\ RoomFor
    <3>1. /\ (broken' <=> IF ready THEN broken /\ Head(receiver) = "delta" ELSE TRUE)
          /\ (jumped' <=> jumped /\ Head(receiver) = "delta")
      BY <1>10, <2>4 DEF PictureTaken
    <3>2. CASE Head(receiver) = "key"
      <4>1. ready => ~broken'
        BY <3>1, <3>2
      <4> QED BY <2>1, <4>1
    <3>3. CASE Head(receiver) = "delta"
      <4>1. ~Lacks /\ ~await
        BY <2>2, <2>4, <3>3 DEF Waiting
      <4> QED BY <2>1, <3>1, <3>3, <4>1
    <3> QED BY <2>1, <3>2, <3>3
  <2>5. CASE ~Waiting /\ ~RoomFor
    <3>1. skipped' /\ here' = here
      BY <1>10, <2>5 DEF PictureTaken
    <3>2. here >= MaxDecode
      BY <2>2, <2>5 DEF RoomFor
    <3> QED BY <2>1, <3>1, <3>2
  <2> QED BY <2>3, <2>4, <2>5
<1>11. CASE InfoTaken
  BY <1>11 DEF InfoTaken, Taking
<1>12. CASE Jump
  BY <1>12 DEF Jump
<1>13. CASE UNCHANGED pictureVars
  BY <1>13 DEF pictureVars, passVars, decoderVars
<1> QED BY <1>1, <1>2, <1>3, <1>4, <1>5, <1>6, <1>7, <1>8, <1>9, <1>10, <1>11, <1>12, <1>13
        DEF PicturesNext, PassNext, NetPolled

PicturesInv == PictureFlags /\ PicturePlaces /\ PicturesPromise

\* What every pass of the Switch client's loop keeps of its pictures.
LEMMA PicturesInvariant == PicturesInit /\ [][PicturesNext]_pictureVars => []PicturesInv
<1>1. PicturesInit => PictureFlags
  BY DEF PicturesInit, PictureFlags
<1>2. PicturesInit => PicturePlaces
  BY NoBatch, SwitchPicturesAssumption DEF PicturesInit, PicturePlaces
<1>3. PicturesInit => PicturesPromise
  BY DEF PicturesInit, PicturesPromise, Lacks
<1> QED BY <1>1, <1>2, <1>3, PicturesKeepFlags, PicturesKeepPlaces, PicturesKeepPromise, PTL
        DEF PicturesInv

\* The Switch client's decoder is given no picture that refers to one it lacks,
\* whatever the receiver dropped before and wherever its loop skips to a keyframe.
THEOREM SwitchDecodesWhole == PicturesInit /\ [][PicturesNext]_pictureVars => []PicturesAreWhole
<1>1. PicturesInv => PicturesAreWhole
  <2>1. ASSUME PicturesInv, pass = "take", IsDecoded, Head(receiver) = "delta"
        PROVE  ~broken \/ jumped
    <3>1. here \in Nat /\ here < MaxDecode /\ ready /\ ~await /\ receiver # <<>>
      BY <2>1 DEF PicturesInv, PicturePlaces, IsDecoded, Waiting, RoomFor
    <3> QED BY <2>1, <3>1, SwitchPicturesAssumption DEF PicturesInv, PicturesPromise, Lacks
  <2> QED BY <2>1 DEF PicturesInv, PicturesPromise, PicturesAreWhole
<1> QED BY <1>1, PicturesInvariant, PTL

----------------------------------------------------------------------------
(* The 3DS client: its connection. *)

\* The types of the connection's variables.
N3dsLinkFlags ==
    /\ running \in BOOLEAN /\ wanted \in BOOLEAN /\ auto \in BOOLEAN /\ controls \in BOOLEAN
    /\ spoiled \in BOOLEAN /\ asked \in BOOLEAN
N3dsLinkPlaces ==
    /\ config \in N3dsConfigs /\ used \in N3dsConfigs /\ net \in Steps
    /\ sock \in {"none", "login", "stream"}
    /\ status \in {"disconnected", "connecting", "connected", "error"}
    /\ main \in {"frame", "disconnect", "reconnect", "exit", "sleep", "join", "done"}
    /\ n3dsPresses \in 0 .. MaxN3dsPresses

LEMMA N3dsLinkTypes == N3dsLinkTypeOK <=> N3dsLinkFlags /\ N3dsLinkPlaces
<1>1. {running, wanted, auto, controls, spoiled, asked} \subseteq BOOLEAN <=> N3dsLinkFlags
  BY DEF N3dsLinkFlags
<1> QED BY <1>1 DEF N3dsLinkTypeOK, N3dsLinkPlaces

\* Who wants the link when the thread looks has asked for it since, and nobody
\* wants it once the program leaves, which the thread does last.
N3dsLinkPromise ==
    /\ StatusIsTrue
    /\ net \in {"poll", "backoff"} /\ wanted => asked
    /\ running \/ ~wanted
    /\ ~running => main \in {"exit", "join", "done"}
    /\ main = "done" => net = "gone"

LEMMA N3dsLinkKeepsFlags == N3dsLinkFlags /\ [N3dsLinkNext]_n3dsLinkVars => N3dsLinkFlags'
<1> SUFFICES ASSUME N3dsLinkFlags, [N3dsLinkNext]_n3dsLinkVars
             PROVE  N3dsLinkFlags'
  OBVIOUS
<1> USE DEF N3dsLinkFlags, threadVars, linkMainVars
<1>1. CASE Leaves \/ OpenTcp \/ CannotOpen \/ Hello \/ Backoff \/ Accepted \/ LoggedIn
           \/ LoginFails \/ Refused
  BY <1>1 DEF Leaves, OpenTcp, CannotOpen, Hello, Backoff, Accepted, LoggedIn, LoginFails, Refused,
              Goes
<1>2. CASE Name
  <2>1. spoiled' = FALSE /\ UNCHANGED <<running, wanted, auto, controls, asked>>
    BY <1>2 DEF Name, Goes
  <2> QED BY <2>1
<1>3. CASE Attempt
  BY <1>3 DEF Attempt
<1>4. CASE SessionUp
  BY <1>4 DEF SessionUp
<1>5. CASE StreamEnds \/ CloseStream
  BY <1>5 DEF StreamEnds, CloseStream, Goes
<1>6. CASE Decide
  <2>1. asked' \in BOOLEAN
    BY <1>6 DEF Decide
  <2>2. UNCHANGED <<running, wanted, auto, controls, spoiled>>
    BY <1>6 DEF Decide
  <2> QED BY <2>1, <2>2
<1>7. CASE GiveUp
  BY <1>7 DEF GiveUp
<1>8. ASSUME NEW c \in N3dsConfigs, NEW again \in BOOLEAN, EditConfig(c, again)
      PROVE  N3dsLinkFlags'
  BY <1>8 DEF EditConfig, ApplyConfig
<1>9. ASSUME NEW c \in N3dsConfigs, NEW again \in BOOLEAN, NetworkConnect(c, again)
      PROVE  N3dsLinkFlags'
  BY <1>9 DEF NetworkConnect, ApplyConfig
<1>10. ASSUME NEW c \in N3dsConfigs, NEW again \in BOOLEAN, Reconnect(c, again)
       PROVE  N3dsLinkFlags'
  BY <1>10 DEF Reconnect, ApplyConfig
<1>11. CASE Disconnect \/ Exit
  BY <1>11 DEF Disconnect, Exit
<1>12. CASE CloseN3ds \/ ResumeN3ds \/ JoinNetwork
  BY <1>12 DEF CloseN3ds, ResumeN3ds, JoinNetwork
<1>13. CASE SendHome
  <2>1. spoiled' \in BOOLEAN
    BY <1>13 DEF SendHome
  <2>2. UNCHANGED <<running, wanted, auto, controls, asked>>
    BY <1>13 DEF SendHome
  <2> QED BY <2>1, <2>2
<1>14. CASE UNCHANGED n3dsLinkVars
  BY <1>14 DEF n3dsLinkVars
<1> QED BY <1>1, <1>2, <1>3, <1>4, <1>5, <1>6, <1>7, <1>8, <1>9, <1>10, <1>11, <1>12, <1>13, <1>14
        DEF N3dsLinkNext, ThreadNext, UserNext

LEMMA N3dsLinkKeepsPlaces == N3dsLinkPlaces /\ [N3dsLinkNext]_n3dsLinkVars => N3dsLinkPlaces'
<1> SUFFICES ASSUME N3dsLinkPlaces, [N3dsLinkNext]_n3dsLinkVars
             PROVE  N3dsLinkPlaces'
  OBVIOUS
<1> USE N3dsLinkAssumption DEF N3dsLinkPlaces, Steps, threadVars, linkMainVars
<1>1. CASE Leaves \/ OpenTcp \/ CannotOpen \/ Hello \/ Backoff
  BY <1>1 DEF Leaves, OpenTcp, CannotOpen, Hello, Backoff, Goes
<1>2. CASE Name
  BY <1>2 DEF Name, Goes
<1>3. CASE Accepted \/ LoggedIn \/ LoginFails \/ Refused
  BY <1>3 DEF Accepted, LoggedIn, LoginFails, Refused, Goes
<1>4. CASE Attempt
  BY <1>4 DEF Attempt
<1>5. CASE SessionUp
  BY <1>5 DEF SessionUp
<1>6. CASE StreamEnds
  BY <1>6 DEF StreamEnds, Goes
<1>7. CASE CloseStream
  BY <1>7 DEF CloseStream, Goes
<1>8. CASE Decide \/ GiveUp
  BY <1>8 DEF Decide, GiveUp
<1>9. ASSUME NEW c \in N3dsConfigs, NEW again \in BOOLEAN,
             EditConfig(c, again) \/ NetworkConnect(c, again) \/ Reconnect(c, again)
      PROVE  N3dsLinkPlaces'
  <2>1. /\ config' = c /\ UNCHANGED <<used, net, sock, status>> /\ n3dsPresses < MaxN3dsPresses
        /\ n3dsPresses' = n3dsPresses + 1 /\ main' \in {"frame", "reconnect"}
    BY <1>9 DEF EditConfig, NetworkConnect, Reconnect, Press, ApplyConfig
  <2> QED BY <2>1
<1>10. CASE Disconnect \/ Exit
  BY <1>10 DEF Disconnect, Exit, Press
<1>11. CASE CloseN3ds
  <2>1. sock' = "none" /\ main' \in {"frame", "sleep", "join"}
        /\ UNCHANGED <<config, used, net, status, n3dsPresses>>
    BY <1>11 DEF CloseN3ds
  <2> QED BY <2>1
<1>12. CASE ResumeN3ds \/ JoinNetwork
  BY <1>12 DEF ResumeN3ds, JoinNetwork
<1>13. CASE SendHome
  <2>1. n3dsPresses < MaxN3dsPresses /\ n3dsPresses' = n3dsPresses + 1 /\ main' = "frame"
        /\ UNCHANGED <<config, used, net, sock, status>>
    BY <1>13 DEF SendHome, Press
  <2> QED BY <2>1
<1>14. CASE UNCHANGED n3dsLinkVars
  BY <1>14 DEF n3dsLinkVars
<1> QED BY <1>1, <1>2, <1>3, <1>4, <1>5, <1>6, <1>7, <1>8, <1>9, <1>10, <1>11, <1>12, <1>13, <1>14
        DEF N3dsLinkNext, ThreadNext, UserNext

LEMMA N3dsLinkKeepsPromise == N3dsLinkPromise /\ [N3dsLinkNext]_n3dsLinkVars => N3dsLinkPromise'
<1> SUFFICES ASSUME N3dsLinkPromise, [N3dsLinkNext]_n3dsLinkVars
             PROVE  N3dsLinkPromise'
  OBVIOUS
<1> USE DEF N3dsLinkPromise, StatusIsTrue, threadVars, linkMainVars
<1>1. CASE Leaves \/ OpenTcp \/ CannotOpen \/ Hello \/ Backoff
  BY <1>1 DEF Leaves, OpenTcp, CannotOpen, Hello, Backoff, Goes
<1>2. CASE Name
  BY <1>2 DEF Name, Goes
<1>3. CASE Accepted \/ LoggedIn \/ LoginFails \/ Refused
  BY <1>3 DEF Accepted, LoggedIn, LoginFails, Refused, Goes
<1>4. CASE Attempt
  BY <1>4 DEF Attempt
<1>5. CASE SessionUp
  BY <1>5 DEF SessionUp
<1>6. CASE StreamEnds
  BY <1>6 DEF StreamEnds, Goes
<1>7. CASE CloseStream
  BY <1>7 DEF CloseStream, Goes
<1>8. CASE Decide
  BY <1>8 DEF Decide
<1>9. CASE GiveUp
  BY <1>9 DEF GiveUp
<1>10. ASSUME NEW c \in N3dsConfigs, NEW again \in BOOLEAN,
              EditConfig(c, again) \/ NetworkConnect(c, again) \/ Reconnect(c, again)
       PROVE  N3dsLinkPromise'
  BY <1>10 DEF EditConfig, NetworkConnect, Reconnect, Press, ApplyConfig
<1>11. CASE Disconnect \/ Exit
  BY <1>11 DEF Disconnect, Exit, Press
<1>12. CASE CloseN3ds
  <2>1. main = "done" => FALSE
    BY <1>12 DEF CloseN3ds
  <2>2. /\ sock' = "none" /\ UNCHANGED <<net, status, wanted, asked, running>>
        /\ main' = IF main = "exit" THEN "join" ELSE IF main = "reconnect" THEN "sleep" ELSE "frame"
        /\ main \in {"disconnect", "reconnect", "exit"}
    BY <1>12 DEF CloseN3ds
  <2> QED BY <2>1, <2>2
<1>13. CASE ResumeN3ds \/ JoinNetwork
  BY <1>13 DEF ResumeN3ds, JoinNetwork
<1>14. CASE SendHome
  BY <1>14 DEF SendHome, Press
<1>15. CASE UNCHANGED n3dsLinkVars
  BY <1>15 DEF n3dsLinkVars
<1> QED BY <1>1, <1>2, <1>3, <1>4, <1>5, <1>6, <1>7, <1>8, <1>9, <1>10, <1>11, <1>12, <1>13, <1>14,
           <1>15 DEF N3dsLinkNext, ThreadNext, UserNext

\* What every step of the 3DS client's two threads keeps of its connection.
LEMMA N3dsLinkInvariant == N3dsLinkInit /\ [][N3dsLinkNext]_n3dsLinkVars => [](N3dsLinkTypeOK /\ N3dsLinkPromise)
<1>1. N3dsLinkInit => N3dsLinkFlags /\ N3dsLinkPlaces /\ N3dsLinkPromise
  <2> SUFFICES ASSUME N3dsLinkInit
               PROVE  N3dsLinkFlags /\ N3dsLinkPlaces /\ N3dsLinkPromise
    OBVIOUS
  <2>1. N3dsLinkFlags
    BY DEF N3dsLinkInit, N3dsLinkFlags
  <2>2. N3dsLinkPlaces
    BY N3dsLinkAssumption DEF N3dsLinkInit, N3dsLinkPlaces, Steps
  <2>3. N3dsLinkPromise
    BY DEF N3dsLinkInit, N3dsLinkPromise, StatusIsTrue
  <2> QED BY <2>1, <2>2, <2>3
<1>2. N3dsLinkFlags /\ N3dsLinkPlaces /\ N3dsLinkPromise /\ [N3dsLinkNext]_n3dsLinkVars
      => (N3dsLinkFlags /\ N3dsLinkPlaces /\ N3dsLinkPromise)'
  BY N3dsLinkKeepsFlags, N3dsLinkKeepsPlaces, N3dsLinkKeepsPromise
<1> QED BY <1>1, <1>2, N3dsLinkTypes, PTL

\* The status the 3DS client's main() draws is that of the connection its
\* network thread has, whenever that thread is interrupted.
THEOREM N3dsStatusIsTrue == N3dsLinkInit /\ [][N3dsLinkNext]_n3dsLinkVars => []StatusIsTrue
BY N3dsLinkInvariant, PTL DEF N3dsLinkPromise

\* The 3DS client's network thread tries again only what main() asked for since:
\* nothing that waits for one try is tried twice.
THEOREM N3dsAttemptsAreAsked == N3dsLinkInit /\ [][N3dsLinkNext]_n3dsLinkVars => AskedForOnce
<1>1. N3dsLinkPromise /\ [N3dsLinkNext]_n3dsLinkVars => [Attempt => asked]_n3dsLinkVars
  BY DEF N3dsLinkPromise, Attempt
<1> QED BY <1>1, N3dsLinkInvariant, PTL DEF AskedForOnce

----------------------------------------------------------------------------
(* The 3DS client: its pictures. *)

\* A picture that refers to the one before it, and is no orphan; a keyframe of the
\* MPEG codecs; a keyframe of a stream that was JPEG.
Delta(p) == p.codec = "mpeg" /\ ~p.key /\ ~p.orphan
KeyPicture(p) == p.codec = "mpeg" /\ p.key
OldKey(p) == p.codec = "jpeg" /\ p.key

\* The picture that is received, or the first one that may follow, and behind what
\* is ready: the pictures the decoder has yet to be given, in their order.
Coming == IF writing # None THEN writing
          ELSE IF linked /\ ~n3dsOwes THEN [key |-> FALSE, codec |-> codec, gap |-> lost, orphan |-> orphan]
          ELSE None
Line == Append(n3dsReady, Coming)

\* What is true of the line: a picture refers to one that was lost unless the one
\* before it is of its codec; none behind a keyframe lacks its reference; and
\* behind a picture of another stream a keyframe comes first.
Joined(V) == \A i \in 2..Len(V) : Delta(V[i]) => V[i].gap \/ V[i - 1].codec = "mpeg"
NoKeyBehind(V) ==
    \A i \in 1..Len(V) : \A j \in 1..(i - 1) : Delta(V[i]) /\ V[i].gap => ~V[j].key
Restarted(V) ==
    \A i \in 1..Len(V) : \A j \in 1..(i - 1) :
        OldKey(V[j]) /\ Delta(V[i]) => \E k \in (j + 1)..(i - 1) : KeyPicture(V[k])
Whole(V) == Joined(V) /\ NoKeyBehind(V) /\ Restarted(V)
\* No picture refers to one that was lost.
NoGap(V) == \A i \in 1..Len(V) : Delta(V[i]) => ~V[i].gap
\* A keyframe comes before any picture that refers to another.
KeyFirst(V) == \A i \in 1..Len(V) : Delta(V[i]) => \E k \in 1..(i - 1) : KeyPicture(V[k])

\* The decoder lacks the picture the next one refers to, and is not being given a
\* keyframe.
Bad == n3dsBroken /\ ~KeyPicture(n3dsTaken)

\* A set of numbers has a least.
LEMMA LeastIsThere ==
    ASSUME NEW S, S \subseteq Nat, S # {}
    PROVE  \E x \in S : \A y \in S : x =< y
<1> DEFINE R == OpToRel(<, Nat)
<1>1. IsWellFoundedOn(R, Nat) BY NatLessThanWellFounded
<1>2. \A x, y \in Nat : <<y, x>> \in R <=> y < x BY DEF OpToRel
<1> HIDE DEF R
<1>3. PICK x \in S : \A y \in S : ~(<<y, x>> \in R) BY <1>1, WFMin
<1>4. ASSUME NEW y \in S PROVE x =< y
  <2>1. x \in Nat /\ y \in Nat OBVIOUS
  <2>2. ~(y < x) BY <1>2, <1>3, <2>1
  <2> QED BY <2>1, <2>2
<1> QED BY <1>4

\* Only the last changes.
LEMMA LastChanges ==
    ASSUME NEW V, NEW W, NEW n \in Nat, n >= 1, Len(V) = n, Len(W) = n,
           \A i \in 1..(n - 1) : W[i] = V[i], Whole(V),
           Delta(W[n]) => /\ Delta(V[n])
                          /\ V[n].gap => W[n].gap
                          /\ W[n].gap => V[n].gap \/ \A j \in 1..(n - 1) : ~V[j].key
    PROVE  /\ Whole(W)
           /\ NoGap(V) /\ (Delta(W[n]) => ~W[n].gap) => NoGap(W)
           /\ KeyFirst(V) => KeyFirst(W)
<1>1. Joined(W) BY DEF Whole, Joined, Delta
<1>2. NoKeyBehind(W)
  <2> SUFFICES ASSUME NEW i \in 1..n, NEW j \in 1..(i - 1), Delta(W[i]), W[i].gap PROVE ~W[j].key
      BY DEF NoKeyBehind
  <2>1. W[j] = V[j] OBVIOUS
  <2>2. CASE i < n BY <2>1, <2>2 DEF Whole, NoKeyBehind
  <2>3. CASE i = n BY <2>1, <2>3 DEF Whole, NoKeyBehind
  <2> QED BY <2>2, <2>3
<1>3. Restarted(W)
  <2> SUFFICES ASSUME NEW i \in 1..n, NEW j \in 1..(i - 1), OldKey(W[j]), Delta(W[i])
               PROVE \E k \in (j + 1)..(i - 1) : KeyPicture(W[k])
      BY DEF Restarted
  <2>1. W[j] = V[j] /\ Delta(V[i]) BY DEF Delta
  <2>2. PICK k \in (j + 1)..(i - 1) : KeyPicture(V[k]) BY <2>1 DEF Whole, Restarted
  <2>3. W[k] = V[k] BY <2>2
  <2> QED BY <2>2, <2>3
<1>4. NoGap(V) /\ (Delta(W[n]) => ~W[n].gap) => NoGap(W) BY DEF NoGap
<1>5. KeyFirst(V) => KeyFirst(W)
  <2> SUFFICES ASSUME KeyFirst(V), NEW i \in 1..n, Delta(W[i])
               PROVE \E k \in 1..(i - 1) : KeyPicture(W[k])
      BY DEF KeyFirst
  <2>1. Delta(V[i]) OBVIOUS
  <2>2. PICK k \in 1..(i - 1) : KeyPicture(V[k]) BY <2>1 DEF KeyFirst
  <2>3. W[k] = V[k] BY <2>2
  <2> QED BY <2>2, <2>3
<1> QED BY <1>1, <1>2, <1>3, <1>4, <1>5 DEF Whole

\* The first m leave.
LEMMA FirstLeave ==
    ASSUME NEW V, NEW W, NEW n \in Nat, NEW m \in Nat, 1 =< m, m =< n,
           Len(V) = n, Len(W) = n - m,
           \A i \in 1..(n - m) : W[i] = V[i + m], Whole(V)
    PROVE  /\ Whole(W)
           /\ NoGap(V) => NoGap(W)
           /\ KeyFirst(V) /\ (\A k \in 1..m : ~KeyPicture(V[k])) => KeyFirst(W)
           /\ V[m].key => NoGap(W)
           /\ OldKey(V[m]) => KeyFirst(W)
<1>1. Joined(W)
  <2> SUFFICES ASSUME NEW i \in 2..(n - m), Delta(W[i]) PROVE W[i].gap \/ W[i - 1].codec = "mpeg"
      BY DEF Joined
  <2>1. W[i] = V[i + m] /\ W[i - 1] = V[(i - 1) + m] OBVIOUS
  <2>2. i + m \in 2..n /\ (i - 1) + m = (i + m) - 1 OBVIOUS
  <2> QED BY <2>1, <2>2 DEF Whole, Joined
<1>2. NoKeyBehind(W)
  <2> SUFFICES ASSUME NEW i \in 1..(n - m), NEW j \in 1..(i - 1), Delta(W[i]), W[i].gap PROVE ~W[j].key
      BY DEF NoKeyBehind
  <2>1. W[i] = V[i + m] /\ W[j] = V[j + m] OBVIOUS
  <2>2. i + m \in 1..n /\ j + m \in 1..((i + m) - 1) OBVIOUS
  <2> QED BY <2>1, <2>2 DEF Whole, NoKeyBehind
<1>3. Restarted(W)
  <2> SUFFICES ASSUME NEW i \in 1..(n - m), NEW j \in 1..(i - 1), OldKey(W[j]), Delta(W[i])
               PROVE \E k \in (j + 1)..(i - 1) : KeyPicture(W[k])
      BY DEF Restarted
  <2>1. W[i] = V[i + m] /\ W[j] = V[j + m] OBVIOUS
  <2>2. i + m \in 1..n /\ j + m \in 1..((i + m) - 1) OBVIOUS
  <2>3. PICK k \in ((j + m) + 1)..((i + m) - 1) : KeyPicture(V[k])
        BY <2>1, <2>2 DEF Whole, Restarted
  <2>4. k - m \in (j + 1)..(i - 1) /\ (k - m) + m = k OBVIOUS
  <2>5. W[k - m] = V[k] BY <2>4
  <2> QED BY <2>3, <2>4, <2>5
<1>4. NoGap(V) => NoGap(W)
  <2> SUFFICES ASSUME NoGap(V), NEW i \in 1..(n - m), Delta(W[i]) PROVE ~W[i].gap
      BY DEF NoGap
  <2>1. W[i] = V[i + m] /\ i + m \in 1..n OBVIOUS
  <2> QED BY <2>1 DEF NoGap
<1>5. KeyFirst(V) /\ (\A k \in 1..m : ~KeyPicture(V[k])) => KeyFirst(W)
  <2> SUFFICES ASSUME KeyFirst(V), \A k \in 1..m : ~KeyPicture(V[k]), NEW i \in 1..(n - m), Delta(W[i])
               PROVE \E k \in 1..(i - 1) : KeyPicture(W[k])
      BY DEF KeyFirst
  <2>1. W[i] = V[i + m] /\ i + m \in 1..n OBVIOUS
  <2>2. PICK k \in 1..((i + m) - 1) : KeyPicture(V[k]) BY <2>1 DEF KeyFirst
  <2>3. ~(k \in 1..m) BY <2>2
  <2>4. k - m \in 1..(i - 1) /\ (k - m) + m = k BY <2>3
  <2>5. W[k - m] = V[k] BY <2>4
  <2> QED BY <2>2, <2>4, <2>5
<1>6. V[m].key => NoGap(W)
  <2> SUFFICES ASSUME V[m].key, NEW i \in 1..(n - m), Delta(W[i]) PROVE ~W[i].gap
      BY DEF NoGap
  <2>1. W[i] = V[i + m] /\ i + m \in 1..n /\ m \in 1..((i + m) - 1) OBVIOUS
  <2> QED BY <2>1 DEF Whole, NoKeyBehind
<1>7. OldKey(V[m]) => KeyFirst(W)
  <2> SUFFICES ASSUME OldKey(V[m]), NEW i \in 1..(n - m), Delta(W[i])
               PROVE \E k \in 1..(i - 1) : KeyPicture(W[k])
      BY DEF KeyFirst
  <2>1. W[i] = V[i + m] /\ i + m \in 1..n /\ m \in 1..((i + m) - 1) OBVIOUS
  <2>2. PICK k \in (m + 1)..((i + m) - 1) : KeyPicture(V[k]) BY <2>1 DEF Whole, Restarted
  <2>4. k - m \in 1..(i - 1) /\ (k - m) + m = k OBVIOUS
  <2>5. W[k - m] = V[k] BY <2>4
  <2> QED BY <2>2, <2>4, <2>5
<1> QED BY <1>1, <1>2, <1>3, <1>4, <1>5, <1>6, <1>7 DEF Whole

\* The first is told that the one before it is lost.
LEMMA FirstLoses ==
    ASSUME NEW V, NEW W, NEW n \in Nat, n >= 1, Len(V) = n, Len(W) = n,
           \A i \in 2..n : W[i] = V[i], W[1].codec = V[1].codec, W[1].key = V[1].key,
           W[1].orphan = V[1].orphan, Whole(V)
    PROVE  /\ Whole(W)
           /\ NoGap(V) /\ ~Delta(V[1]) => NoGap(W)
           /\ KeyFirst(V) => KeyFirst(W)
<1>0. \A i \in 1..n : /\ Delta(W[i]) <=> Delta(V[i])
                      /\ KeyPicture(W[i]) <=> KeyPicture(V[i])
                      /\ OldKey(W[i]) <=> OldKey(V[i])
                      /\ W[i].codec = V[i].codec /\ W[i].key = V[i].key /\ W[i].orphan = V[i].orphan
  <2> SUFFICES ASSUME NEW i \in 1..n
               PROVE W[i].codec = V[i].codec /\ W[i].key = V[i].key /\ W[i].orphan = V[i].orphan
      BY DEF Delta, KeyPicture, OldKey
  <2>1. CASE i = 1 BY <2>1
  <2>2. CASE i \in 2..n BY <2>2
  <2> QED BY <2>1, <2>2
<1>1. Joined(W)
  <2> SUFFICES ASSUME NEW i \in 2..n, Delta(W[i]) PROVE W[i].gap \/ W[i - 1].codec = "mpeg"
      BY DEF Joined
  <2>1. W[i] = V[i] /\ i - 1 \in 1..n OBVIOUS
  <2>2. W[i - 1].codec = V[i - 1].codec BY <1>0, <2>1
  <2> QED BY <2>1, <2>2 DEF Whole, Joined
<1>2. NoKeyBehind(W)
  <2> SUFFICES ASSUME NEW i \in 1..n, NEW j \in 1..(i - 1), Delta(W[i]), W[i].gap PROVE ~W[j].key
      BY DEF NoKeyBehind
  <2>1. i \in 2..n /\ W[i] = V[i] /\ j \in 1..n OBVIOUS
  <2>2. W[j].key = V[j].key BY <1>0, <2>1
  <2> QED BY <2>1, <2>2 DEF Whole, NoKeyBehind
<1>3. Restarted(W)
  <2> SUFFICES ASSUME NEW i \in 1..n, NEW j \in 1..(i - 1), OldKey(W[j]), Delta(W[i])
               PROVE \E k \in (j + 1)..(i - 1) : KeyPicture(W[k])
      BY DEF Restarted
  <2>1. j \in 1..n OBVIOUS
  <2>2. OldKey(V[j]) /\ Delta(V[i]) BY <1>0, <2>1
  <2>3. PICK k \in (j + 1)..(i - 1) : KeyPicture(V[k]) BY <2>2 DEF Whole, Restarted
  <2>4. k \in 1..n OBVIOUS
  <2> QED BY <1>0, <2>3, <2>4
<1>4. NoGap(V) /\ ~Delta(V[1]) => NoGap(W)
  <2> SUFFICES ASSUME NoGap(V), ~Delta(V[1]), NEW i \in 1..n, Delta(W[i]) PROVE ~W[i].gap
      BY DEF NoGap
  <2>1. Delta(V[i]) BY <1>0
  <2>2. i \in 2..n BY <2>1
  <2>3. W[i] = V[i] BY <2>2
  <2> QED BY <2>1, <2>3 DEF NoGap
<1>5. KeyFirst(V) => KeyFirst(W)
  <2> SUFFICES ASSUME KeyFirst(V), NEW i \in 1..n, Delta(W[i])
               PROVE \E k \in 1..(i - 1) : KeyPicture(W[k])
      BY DEF KeyFirst
  <2>2. PICK k \in 1..(i - 1) : KeyPicture(V[k]) BY <1>0 DEF KeyFirst
  <2>3. k \in 1..n OBVIOUS
  <2> QED BY <1>0, <2>2, <2>3
<1> QED BY <1>1, <1>2, <1>3, <1>4, <1>5 DEF Whole

\* A picture without a gap joins that is of the codec of the last one, or the last is none.
LEMMA OneJoins ==
    ASSUME NEW V, NEW W, NEW n \in Nat, n >= 1, Len(V) = n, Len(W) = n + 1,
           \A i \in 1..n : W[i] = V[i], ~W[n + 1].gap, W[n + 1].codec = V[n].codec, Whole(V),
           OldKey(V[n]) => ~Delta(W[n + 1]),
           Delta(W[n + 1]) => Delta(V[n]) \/ KeyPicture(V[n])
    PROVE  /\ Whole(W)
           /\ NoGap(V) => NoGap(W)
           /\ KeyFirst(V) => KeyFirst(W)
<1>1. Joined(W)
  <2> SUFFICES ASSUME NEW i \in 2..(n + 1), Delta(W[i]) PROVE W[i].gap \/ W[i - 1].codec = "mpeg"
      BY DEF Joined
  <2>1. CASE i =< n
    <3>1. W[i] = V[i] /\ W[i - 1] = V[i - 1] BY <2>1
    <3> QED BY <2>1, <3>1 DEF Whole, Joined
  <2>2. CASE i = n + 1
    <3>1. W[i - 1] = V[n] BY <2>2
    <3> QED BY <2>2, <3>1 DEF Delta
  <2> QED BY <2>1, <2>2
<1>2. NoKeyBehind(W)
  <2> SUFFICES ASSUME NEW i \in 1..(n + 1), NEW j \in 1..(i - 1), Delta(W[i]), W[i].gap PROVE ~W[j].key
      BY DEF NoKeyBehind
  <2>1. i =< n OBVIOUS
  <2>2. W[i] = V[i] /\ W[j] = V[j] BY <2>1
  <2> QED BY <2>1, <2>2 DEF Whole, NoKeyBehind
<1>a. ASSUME NEW j \in 1..n, OldKey(V[j]), Delta(W[n + 1])
      PROVE \E k \in (j + 1)..n : KeyPicture(V[k])
  <2>1. CASE KeyPicture(V[n])
    <3>1. j # n BY <1>a, <2>1 DEF OldKey, KeyPicture
    <3> QED BY <2>1, <3>1
  <2>2. CASE Delta(V[n])
    <3>1. j # n BY <1>a, <2>2 DEF OldKey, Delta
    <3>2. j \in 1..(n - 1) BY <3>1
    <3>3. PICK k \in (j + 1)..(n - 1) : KeyPicture(V[k]) BY <1>a, <2>2, <3>2 DEF Whole, Restarted
    <3> QED BY <3>3
  <2> QED BY <1>a, <2>1, <2>2
<1>3. Restarted(W)
  <2> SUFFICES ASSUME NEW i \in 1..(n + 1), NEW j \in 1..(i - 1), OldKey(W[j]), Delta(W[i])
               PROVE \E k \in (j + 1)..(i - 1) : KeyPicture(W[k])
      BY DEF Restarted
  <2>0. j \in 1..n /\ W[j] = V[j] OBVIOUS
  <2>1. CASE i =< n
    <3>1. W[i] = V[i] BY <2>1
    <3>2. PICK k \in (j + 1)..(i - 1) : KeyPicture(V[k]) BY <2>0, <2>1, <3>1 DEF Whole, Restarted
    <3>3. W[k] = V[k] BY <2>1, <3>2
    <3> QED BY <3>2, <3>3
  <2>2. CASE i = n + 1
    <3>2. PICK k \in (j + 1)..n : KeyPicture(V[k]) BY <1>a, <2>0, <2>2
    <3>3. W[k] = V[k] /\ k \in (j + 1)..(i - 1) BY <2>2, <3>2
    <3> QED BY <3>2, <3>3
  <2> QED BY <2>1, <2>2
<1>4. NoGap(V) => NoGap(W) BY DEF NoGap
<1>5. KeyFirst(V) => KeyFirst(W)
  <2> SUFFICES ASSUME KeyFirst(V), NEW i \in 1..(n + 1), Delta(W[i])
               PROVE \E k \in 1..(i - 1) : KeyPicture(W[k])
      BY DEF KeyFirst
  <2>1. CASE i =< n
    <3>1. W[i] = V[i] BY <2>1
    <3>2. PICK k \in 1..(i - 1) : KeyPicture(V[k]) BY <2>1, <3>1 DEF KeyFirst
    <3>3. W[k] = V[k] BY <2>1, <3>2
    <3> QED BY <3>2, <3>3
  <2>2. CASE i = n + 1
    <3>1. PICK k \in 1..n : KeyPicture(V[k])
      <4>1. CASE KeyPicture(V[n]) BY <4>1
      <4>2. CASE Delta(V[n])
        <5>1. PICK k \in 1..(n - 1) : KeyPicture(V[k]) BY <4>2 DEF KeyFirst
        <5> QED BY <5>1
      <4> QED BY <2>2, <4>1, <4>2
    <3>2. W[k] = V[k] /\ k \in 1..(i - 1) BY <2>2, <3>1
    <3> QED BY <3>1, <3>2
  <2> QED BY <2>1, <2>2
<1> QED BY <1>1, <1>2, <1>3, <1>4, <1>5 DEF Whole

\* A line of one.
LEMMA OneIsWhole ==
    ASSUME NEW W, Len(W) = 1
    PROVE  Whole(W)
BY DEF Whole, Joined, NoKeyBehind, Restarted

\* While no keyframe is asked for, every picture in the line that refers to another
\* finds it; and a decoder that lacks one is given a keyframe first.
LineOK == Whole(Line) /\ (Predictive(codec) /\ ~need => NoGap(Line) /\ (Bad => KeyFirst(Line)))
\* What is received is of the session there is; the worker has a picture where it
\* needs one, and rests while main() has one to swap.
HandOK == /\ writing # None => linked /\ ~n3dsOwes /\ ~lost /\ writing.codec = codec
          /\ writing # None /\ writing.orphan => orphan
          /\ worker # "ask" => (n3dsTaken = None <=> worker \in {"idle", "acquire", "drawn"})
          /\ frameReady => worker = "idle"

\* What Append() makes of a queue.
LEMMA Appended ==
    ASSUME NEW S, NEW q \in Seq(S), NEW p
    PROVE  /\ Len(Append(q, p)) = Len(q) + 1
           /\ \A i \in 1..Len(q) : Append(q, p)[i] = q[i]
           /\ Append(q, p)[Len(q) + 1] = p
           /\ Len(q) \in Nat
OBVIOUS

LEMMA NoneIsNoPicture == ~(None \in N3dsFrames)
BY DEF None, N3dsFrames, Codecs

\* What is ready once the oldest picture gave its slot.
LEMMA DroppedIs ==
    ASSUME NEW q \in Seq(N3dsFrames), q # <<>>
    PROVE  /\ Dropped(q) \in Seq(N3dsFrames)
           /\ Len(Dropped(q)) = Len(q) - 1
           /\ Len(q) > 1 => Dropped(q)[1] = [q[2] EXCEPT !.gap = TRUE]
           /\ \A i \in 2..(Len(q) - 1) : Dropped(q)[i] = q[i + 1]
<1>0. Len(q) \in Nat /\ Len(q) # 0 BY EmptySeq
<1>1. CASE Len(q) < 2
  <2>1. Len(q) = 1
    <3> DEFINE l == Len(q)
    <3>1. l \in Nat /\ l # 0 /\ l < 2 BY <1>0, <1>1
    <3> HIDE DEF l
    <3>2. l = 1 BY <3>1
    <3> QED BY <3>2 DEF l
  <2>2. Dropped(q) = <<>> BY <1>1 DEF Dropped
  <2>3. <<>> \in Seq(N3dsFrames) /\ Len(<<>>) = 0 OBVIOUS
  <2> QED BY <2>1, <2>2, <2>3
<1>2. CASE Len(q) >= 2
  <2> DEFINE front == [q[2] EXCEPT !.gap = TRUE]
             rest == SubSeq(q, 3, Len(q))
  <2>1. Dropped(q) = <<front>> \o rest BY <1>2 DEF Dropped
  <2>2. q[2] \in N3dsFrames BY <1>2
  <2>3. front \in N3dsFrames BY <2>2 DEF N3dsFrames
  <2>a. \A i \in 3..Len(q) : q[i] \in N3dsFrames OBVIOUS
  <2>b. /\ rest \in Seq(N3dsFrames)
        /\ Len(rest) = IF 3 =< Len(q) THEN Len(q) - 3 + 1 ELSE 0
        /\ \A i \in 1..(Len(q) - 3 + 1) : rest[i] = q[3 + i - 1]
        BY <1>0, <2>a, SubSeqProperties
  <2> HIDE DEF rest
  <2>c. Len(q) - 3 + 1 = Len(q) - 2 /\ \A i \in Nat : 3 + i - 1 = i + 2 BY <1>0
  <2>d. Len(rest) = Len(q) - 2
    <3> DEFINE l == Len(q)
               r == Len(rest)
    <3>1. l \in Nat /\ l >= 2 /\ r = IF 3 =< l THEN l - 3 + 1 ELSE 0 BY <1>0, <1>2, <2>b
    <3> HIDE DEF l, r
    <3>2. r = l - 2 BY <3>1
    <3> QED BY <3>2 DEF l, r
  <2>e. \A i \in 1..(Len(q) - 2) : rest[i] = q[i + 2]
    <3> SUFFICES ASSUME NEW i \in 1..(Len(q) - 2) PROVE rest[i] = q[i + 2] OBVIOUS
    <3>1. i \in 1..(Len(q) - 3 + 1) BY <1>0
    <3>2. 3 + i - 1 = i + 2 OBVIOUS
    <3> QED BY <2>b, <3>1, <3>2
  <2>4. /\ rest \in Seq(N3dsFrames) /\ Len(rest) = Len(q) - 2
        /\ \A i \in 1..(Len(q) - 2) : rest[i] = q[i + 2]
        BY <2>b, <2>d, <2>e
  <2> USE DEF rest
  <2>5. <<front>> \in Seq(N3dsFrames) /\ Len(<<front>>) = 1 /\ <<front>>[1] = front BY <2>3
  <2> HIDE DEF front, rest
  <2>6. /\ Dropped(q) \in Seq(N3dsFrames)
        /\ Len(Dropped(q)) = Len(q) - 1
        BY <1>2, <2>1, <2>4, <2>5
  <2>7. Dropped(q)[1] = front BY <1>2, <2>1, <2>4, <2>5
  <2>8. ASSUME NEW i \in 2..(Len(q) - 1) PROVE Dropped(q)[i] = q[i + 1]
    <3>1. Dropped(q)[i] = rest[i - 1] BY <1>2, <2>1, <2>4, <2>5
    <3>2. i - 1 \in 1..(Len(q) - 2) /\ (i - 1) + 2 = i + 1 OBVIOUS
    <3> QED BY <2>4, <3>1, <3>2
  <2> QED BY <2>6, <2>7, <2>8 DEF front
<1> QED BY <1>1, <1>2

\* The first keyframe found is one.
LEMMA SelectedIs ==
    ASSUME NEW q \in Seq(N3dsFrames), NEW s, s = SelectInSeq(q, LAMBDA p : p.key)
    PROVE  s = 0 \/ (s \in 1..Len(q) /\ q[s].key)
<1> DEFINE I == {i \in 1..Len(q) : q[i].key}
<1>1. s = IF I # {} THEN Min(I) ELSE 0 BY DEF SelectInSeq
<1>2. CASE I = {} BY <1>1, <1>2
<1>3. CASE I # {}
  <2>0. I \subseteq Nat OBVIOUS
  <2> HIDE DEF I
  <2>1. \E x \in I : \A y \in I : x =< y BY <1>3, <2>0, LeastIsThere
  <2>2. Min(I) \in I BY <2>1 DEF Min
  <2> USE DEF I
  <2> QED BY <1>1, <1>3, <2>2
<1> QED BY <1>2, <1>3

\* What network_acquire_video() finds is ready, and a keyframe if one is needed.
LEMMA FirstUsableIs ==
    ASSUME n3dsReady \in Seq(N3dsFrames)
    PROVE  /\ FirstUsable = 0 \/ FirstUsable \in 1..Len(n3dsReady)
           /\ need /\ FirstUsable # 0 => n3dsReady[FirstUsable].key
           /\ ~need => FirstUsable \in {0, 1}
BY SelectedIs DEF FirstUsable

LEMMA LineIs ==
    ASSUME n3dsReady \in Seq(N3dsFrames)
    PROVE  /\ Len(Line) = Len(n3dsReady) + 1
           /\ \A i \in 1..Len(n3dsReady) : Line[i] = n3dsReady[i]
           /\ Line[Len(n3dsReady) + 1] = Coming
           /\ Len(n3dsReady) \in Nat
BY Appended DEF Line

\* Flags keep their types.
LEMMA N3dsFlags ==
    ASSUME N3dsTypeOK, N3dsNext
    PROVE  {linked, n3dsOwes, lost, orphan, need, present, frameReady, n3dsBroken}' \subseteq BOOLEAN
<1>0. {linked, n3dsOwes, lost, orphan, need, present, frameReady, n3dsBroken} \subseteq BOOLEAN
      BY DEF N3dsTypeOK
<1>1. ASSUME NEW c \in Codecs, SessionBegins(c) \/ StreamInfo(c)
      PROVE {linked, n3dsOwes, lost, orphan, need, present, frameReady, n3dsBroken}' \subseteq BOOLEAN
      BY <1>0, <1>1 DEF SessionBegins, StreamInfo, Predictive, workerVars
<1>2. CASE SessionEnds \/ TooLarge \/ PublishVideo \/ Swap
      BY <1>0, <1>2 DEF SessionEnds, TooLarge, KeyWaits, PublishVideo, Swap, workerVars, n3dsHostVars, slotVars,
                          Predictive
<1>3. ASSUME NEW key \in BOOLEAN, VideoComes(key)
      PROVE {linked, n3dsOwes, lost, orphan, need, present, frameReady, n3dsBroken}' \subseteq BOOLEAN
      BY <1>0, <1>3 DEF VideoComes, ReserveVideoSlot, Predictive, workerVars
<1>4. CASE Begin \/ Drawn \/ Choose
      BY <1>0, <1>4 DEF Begin, Drawn, Choose, workerVars, n3dsHostVars, slotVars, Predictive
<1>5. CASE AcquireNext \/ AskAgain
      BY <1>0, <1>5 DEF AcquireNext, AskAgain, Take, RequestKeyframe, n3dsHostVars
<1>6. CASE AcquireNewest
      BY <1>0, <1>6 DEF AcquireNewest, Take, n3dsHostVars
<1>7. CASE N3dsDecoded \/ Buffered \/ DecodeFails
      BY <1>0, <1>7 DEF N3dsDecoded, Buffered, DecodeFails, RequestKeyframe, n3dsHostVars, slotVars, Predictive
<1> QED BY <1>1, <1>2, <1>3, <1>4, <1>5, <1>6, <1>7 DEF N3dsNext, WorkerNext

\* The picture that is received.
LEMMA N3dsWriting ==
    ASSUME N3dsTypeOK, HandOK, N3dsNext
    PROVE  /\ codec' \in Codecs /\ writing' \in N3dsFrames \cup {None}
           /\ (writing # None => linked /\ ~n3dsOwes /\ ~lost /\ writing.codec = codec)'
           /\ (writing # None /\ writing.orphan => orphan)'
<1> DEFINE Goal == /\ codec' \in Codecs /\ writing' \in N3dsFrames \cup {None}
                   /\ (writing # None => linked /\ ~n3dsOwes /\ ~lost /\ writing.codec = codec)'
                   /\ (writing # None /\ writing.orphan => orphan)'
<1>0. /\ codec \in Codecs /\ writing \in N3dsFrames \cup {None} /\ lost \in BOOLEAN /\ orphan \in BOOLEAN
      /\ writing # None => linked /\ ~n3dsOwes /\ ~lost /\ writing.codec = codec
      /\ writing # None /\ writing.orphan => orphan
      BY DEF N3dsTypeOK, HandOK
<1>1. ASSUME NEW c \in Codecs, SessionBegins(c) \/ StreamInfo(c) PROVE Goal
  <2>1. writing' = None /\ codec' = c
    <3>1. CASE SessionBegins(c) BY <1>0, <3>1 DEF SessionBegins
    <3>2. CASE StreamInfo(c) BY <3>2 DEF StreamInfo
    <3> QED BY <1>1, <3>1, <3>2
  <2> QED BY <2>1
<1>2. CASE SessionEnds \/ TooLarge \/ PublishVideo \/ Swap
      BY <1>0, <1>2 DEF SessionEnds, TooLarge, PublishVideo, Swap, n3dsHostVars, slotVars
<1>3. ASSUME NEW key \in BOOLEAN, VideoComes(key) PROVE Goal
  <2> DEFINE o == orphan /\ ~key
             p == [key |-> key, codec |-> codec, gap |-> lost, orphan |-> o]
  <2>1. p \in N3dsFrames BY <1>0 DEF N3dsFrames
  <2>2. /\ linked /\ writing = None /\ linked' = linked /\ codec' = codec /\ ~n3dsOwes'
        /\ orphan' = o
        /\ \/ writing' = p /\ lost' = FALSE
           \/ writing' = [p EXCEPT !.gap = @ \/ Len(n3dsReady) = 1] /\ lost' = FALSE
           \/ writing' = writing
        BY <1>3 DEF VideoComes, ReserveVideoSlot
  <2>3. [p EXCEPT !.gap = @ \/ Len(n3dsReady) = 1]
        = [key |-> key, codec |-> codec, gap |-> lost \/ Len(n3dsReady) = 1, orphan |-> o]
        OBVIOUS
  <2>4. [key |-> key, codec |-> codec, gap |-> lost \/ Len(n3dsReady) = 1, orphan |-> o] \in N3dsFrames
        BY <1>0 DEF N3dsFrames
  <2>5. CASE writing' = p /\ lost' = FALSE BY <1>0, <2>1, <2>2, <2>5
  <2>6. CASE writing' = [p EXCEPT !.gap = @ \/ Len(n3dsReady) = 1] /\ lost' = FALSE
    <3>1. writing'.codec = codec /\ writing'.orphan = o BY <2>6, <2>3
    <3>2. writing' \in N3dsFrames BY <2>6, <2>3, <2>4
    <3> HIDE DEF p, o
    <3> QED BY <1>0, <2>2, <2>6, <3>1, <3>2
  <2>7. CASE writing' = writing BY <1>0, <2>2, <2>7
  <2> QED BY <2>2, <2>5, <2>6, <2>7
<1>4. CASE Begin \/ Drawn \/ Choose
      BY <1>0, <1>4 DEF Begin, Drawn, Choose, n3dsHostVars, slotVars
<1>5. CASE AcquireNext
  <2>1. /\ linked' = linked /\ codec' = codec /\ n3dsOwes' = n3dsOwes /\ orphan' = orphan
        /\ \/ writing' = writing /\ lost' = lost
           \/ writing' = writing /\ writing = None
           \/ writing # None /\ writing' = [writing EXCEPT !.gap = TRUE] /\ lost' = lost
        BY <1>5 DEF AcquireNext, n3dsHostVars
  <2>2. CASE writing # None /\ writing' = [writing EXCEPT !.gap = TRUE] /\ lost' = lost
    <3>1. writing \in N3dsFrames BY <1>0, <2>2
    <3>2. /\ writing' \in N3dsFrames /\ writing'.codec = writing.codec
          /\ writing'.orphan = writing.orphan
          BY <2>2, <3>1 DEF N3dsFrames
    <3> QED BY <1>0, <2>1, <2>2, <3>2
  <2>3. CASE writing' = writing /\ lost' = lost BY <1>0, <2>1, <2>3
  <2>4. CASE writing' = writing /\ writing = None BY <1>0, <2>1, <2>4
  <2> QED BY <2>1, <2>2, <2>3, <2>4
<1>6. CASE AcquireNewest \/ AskAgain
      BY <1>0, <1>6 DEF AcquireNewest, AskAgain, Take, n3dsHostVars
<1>7. CASE N3dsDecoded \/ Buffered \/ DecodeFails
      BY <1>0, <1>7 DEF N3dsDecoded, Buffered, DecodeFails, n3dsHostVars, slotVars
<1> QED BY <1>1, <1>2, <1>3, <1>4, <1>5, <1>6, <1>7 DEF N3dsNext, WorkerNext

\* The picture the worker has, and how many it took.
LEMMA N3dsWorks ==
    ASSUME N3dsTypeOK, HandOK, N3dsNext
    PROVE  /\ n3dsTaken' \in N3dsFrames \cup {None} /\ work' \in 0 .. MaxWork - 1
           /\ worker' \in {"idle", "acquire", "ask", "choose", "decode", "drawn"}
           /\ (worker # "ask" => (n3dsTaken = None <=> worker \in {"idle", "acquire", "drawn"}))'
           /\ (frameReady => worker = "idle")'
<1> DEFINE Goal == /\ n3dsTaken' \in N3dsFrames \cup {None} /\ work' \in 0 .. MaxWork - 1
                   /\ worker' \in {"idle", "acquire", "ask", "choose", "decode", "drawn"}
                   /\ (worker # "ask" => (n3dsTaken = None <=> worker \in {"idle", "acquire", "drawn"}))'
                   /\ (frameReady => worker = "idle")'
<1>0. /\ n3dsTaken \in N3dsFrames \cup {None} /\ work \in 0 .. MaxWork - 1
      /\ worker \in {"idle", "acquire", "ask", "choose", "decode", "drawn"}
      /\ worker # "ask" => (n3dsTaken = None <=> worker \in {"idle", "acquire", "drawn"})
      /\ frameReady => worker = "idle"
      BY DEF N3dsTypeOK, HandOK
<1>a. n3dsReady \in Seq(N3dsFrames) BY DEF N3dsTypeOK
<1>b. work \in Nat /\ MaxWork \in Nat \ {0} BY <1>0, N3dsPicturesAssumption
<1>c. 0 \in 0 .. MaxWork - 1 BY <1>b
<1>1. ASSUME NEW c \in Codecs, SessionBegins(c) \/ StreamInfo(c) PROVE Goal
      BY <1>0, <1>1 DEF SessionBegins, StreamInfo, workerVars
<1>2. CASE SessionEnds \/ TooLarge \/ PublishVideo \/ Swap
      BY <1>0, <1>2 DEF SessionEnds, TooLarge, PublishVideo, Swap, workerVars
<1>3. ASSUME NEW key \in BOOLEAN, VideoComes(key) PROVE Goal
      BY <1>0, <1>3 DEF VideoComes, workerVars
<1>4. CASE Begin \/ Drawn \/ Choose
  <2>1. CASE Begin BY <1>0, <1>c, <2>1 DEF Begin
  <2>2. CASE Drawn BY <1>0, <2>2 DEF Drawn
  <2>3. CASE Choose BY <1>0, <2>3 DEF Choose
  <2> QED BY <1>4, <2>1, <2>2, <2>3
<1>5. ASSUME NEW p \in N3dsFrames, NEW r, Take(p, r), worker = "acquire", worker' \in {"choose", "ask"},
             work' = work, frameReady' = frameReady
      PROVE Goal
      BY <1>0, <1>5, NoneIsNoPicture DEF Take
<1>6. CASE AcquireNext
  <2>0. worker = "acquire" /\ work' = work /\ frameReady' = frameReady BY <1>6 DEF AcquireNext
  <2>1. \/ FirstUsable = 1 /\ Take(n3dsReady[1], Tail(n3dsReady)) /\ worker' = "choose"
        \/ /\ FirstUsable > 1 /\ Take(n3dsReady[FirstUsable], SubSeq(n3dsReady, FirstUsable + 1, Len(n3dsReady)))
           /\ worker' = "ask"
        \/ worker' \in {"idle", "ask"} /\ UNCHANGED n3dsTaken
        BY <1>6 DEF AcquireNext
  <2>2. FirstUsable = 0 \/ FirstUsable \in 1..Len(n3dsReady) BY <1>a, FirstUsableIs
  <2>3. CASE FirstUsable = 1 /\ Take(n3dsReady[1], Tail(n3dsReady)) /\ worker' = "choose"
    <3>1. n3dsReady[1] \in N3dsFrames BY <1>a, <2>2, <2>3
    <3> QED BY <1>5, <2>0, <2>3, <3>1
  <2>4. CASE /\ FirstUsable > 1 /\ Take(n3dsReady[FirstUsable], SubSeq(n3dsReady, FirstUsable + 1, Len(n3dsReady)))
             /\ worker' = "ask"
    <3>1. n3dsReady[FirstUsable] \in N3dsFrames BY <1>a, <2>2, <2>4
    <3> QED BY <1>5, <2>0, <2>4, <3>1
  <2>5. CASE worker' \in {"idle", "ask"} /\ UNCHANGED n3dsTaken BY <1>0, <2>0, <2>5
  <2> QED BY <2>1, <2>3, <2>4, <2>5
<1>7. CASE AcquireNewest
  <2>0. worker = "acquire" /\ work' = work /\ frameReady' = frameReady BY <1>7 DEF AcquireNewest
  <2>1. CASE n3dsReady = <<>>
    <3>1. worker' = "idle" /\ UNCHANGED n3dsTaken BY <1>7, <2>1 DEF AcquireNewest
    <3> QED BY <1>0, <2>0, <3>1
  <2>2. CASE n3dsReady # <<>>
    <3>1. Take([Last(n3dsReady) EXCEPT !.gap = @ \/ Len(n3dsReady) > 1], <<>>) BY <1>7, <2>2 DEF AcquireNewest
    <3>2. Last(n3dsReady) \in N3dsFrames BY <1>a, <2>2 DEF Last
    <3>3. [Last(n3dsReady) EXCEPT !.gap = @ \/ Len(n3dsReady) > 1] \in N3dsFrames BY <3>2 DEF N3dsFrames
    <3>4. worker' = "choose" BY <1>7, <2>2 DEF AcquireNewest
    <3> QED BY <1>5, <2>0, <3>1, <3>3, <3>4
  <2> QED BY <2>1, <2>2
<1>8. CASE N3dsDecoded \/ Buffered \/ DecodeFails
  <2>1. /\ n3dsTaken' = None /\ worker = "decode" /\ frameReady' = frameReady
        /\ worker' \in {"idle", "acquire", "drawn"}
        /\ work' = work \/ (work # MaxWork - 1 /\ work' = work + 1)
        BY <1>8 DEF N3dsDecoded, Buffered, DecodeFails, GoOn
  <2>2. work' \in 0 .. MaxWork - 1 BY <1>0, <1>b, <2>1
  <2>3. ~frameReady BY <1>0, <2>1
  <2> QED BY <2>1, <2>2, <2>3
<1>9. CASE AskAgain
      BY <1>0, <1>9 DEF AskAgain
<1> QED BY <1>1, <1>2, <1>3, <1>4, <1>6, <1>7, <1>8, <1>9 DEF N3dsNext, WorkerNext

LEMMA CutLength ==
    ASSUME NEW l \in Nat, NEW m \in Nat, m =< l
    PROVE  /\ l - (m + 1) + 1 = l - m
           /\ (IF m + 1 =< l THEN l - (m + 1) + 1 ELSE 0) = l - m
<1>1. l - (m + 1) + 1 = l - m OBVIOUS
<1>2. CASE m + 1 =< l BY <1>1, <1>2
<1>3. CASE m = l BY <1>1, <1>3
<1> QED BY <1>1, <1>2, <1>3

\* What is left behind the m-th of a queue.
LEMMA TailIs ==
    ASSUME NEW q \in Seq(N3dsFrames), NEW m \in 1..Len(q), NEW r,
           r = SubSeq(q, m + 1, Len(q)) \/ (m = 1 /\ r = Tail(q))
    PROVE  /\ r \in Seq(N3dsFrames)
           /\ Len(r) = Len(q) - m
           /\ \A i \in 1..(Len(q) - m) : r[i] = q[i + m]
<1>0. Len(q) \in Nat /\ m \in Nat OBVIOUS
<1>1. CASE m = 1 /\ r = Tail(q) BY <1>1
<1>2. CASE r = SubSeq(q, m + 1, Len(q))
  <2>1. \A i \in (m + 1)..Len(q) : q[i] \in N3dsFrames OBVIOUS
  <2>2. /\ r \in Seq(N3dsFrames)
        /\ Len(r) = IF m + 1 =< Len(q) THEN Len(q) - (m + 1) + 1 ELSE 0
        /\ \A i \in 1..(Len(q) - (m + 1) + 1) : r[i] = q[(m + 1) + i - 1]
        BY <1>0, <1>2, <2>1, SubSeqProperties
  <2>3. m =< Len(q) OBVIOUS
  <2>5. Len(q) - (m + 1) + 1 = Len(q) - m /\ Len(r) = Len(q) - m BY <1>0, <2>2, <2>3, CutLength
  <2>6. ASSUME NEW i \in 1..(Len(q) - m) PROVE r[i] = q[i + m]
    <3>1. i \in 1..(Len(q) - (m + 1) + 1) BY <2>5
    <3>2. (m + 1) + i - 1 = i + m BY <1>0
    <3> QED BY <2>2, <3>1, <3>2
  <2> QED BY <2>2, <2>5, <2>6
<1> QED BY <1>1, <1>2

\* What is ready, and the slots in use.
LEMMA N3dsSlots ==
    ASSUME N3dsTypeOK, HandOK, N3dsNext
    PROVE  n3dsReady' \in Seq(N3dsFrames) /\ (Used =< VideoSlots)'
<1> DEFINE W == IF writing = None THEN 0 ELSE 1
           K == IF n3dsTaken = None THEN 0 ELSE 1
           L == Len(n3dsReady)
           Goal == n3dsReady' \in Seq(N3dsFrames) /\ (Used =< VideoSlots)'
<1>0. /\ n3dsReady \in Seq(N3dsFrames) /\ Used =< VideoSlots /\ Used = L + W + K
      /\ writing \in N3dsFrames \cup {None}
      BY DEF N3dsTypeOK, Used
<1>a. L \in Nat /\ W \in Nat /\ W =< 1 /\ K \in Nat /\ K =< 1 /\ VideoSlots \in Nat BY <1>0, N3dsPicturesAssumption
<1>p. PICK l, w, k : l = L' /\ w = W' /\ k = K' OBVIOUS
<1>b. Used' = l + w + k BY <1>p DEF Used
<1>c. w \in Nat /\ w =< 1 /\ k \in Nat /\ k =< 1 BY <1>p
<1>d. ASSUME n3dsReady' = n3dsReady, W' =< W, K' =< K PROVE Goal
  <2>1. l = L /\ w =< W /\ k =< K BY <1>d, <1>p
  <2> HIDE DEF W, K, L
  <2> QED BY <1>0, <1>a, <1>b, <1>c, <1>d, <2>1
<1>e. ASSUME n3dsReady' = <<>>, W' =< W, K' = K \/ L >= 1 PROVE Goal
  <2>1. l = 0 /\ w =< W /\ (k = K \/ L >= 1) /\ <<>> \in Seq(N3dsFrames) BY <1>e, <1>p
  <2> HIDE DEF W, K, L
  <2> QED BY <1>0, <1>a, <1>b, <1>c, <1>e, <2>1
<1>1. ASSUME NEW c \in Codecs, SessionBegins(c) PROVE Goal
  <2>1. n3dsReady' = n3dsReady /\ writing' = writing /\ n3dsTaken' = n3dsTaken BY <1>1 DEF SessionBegins, workerVars
  <2> QED BY <1>a, <1>d, <2>1
<1>2. ASSUME NEW c \in Codecs, StreamInfo(c) PROVE Goal
  <2>1. n3dsReady' = <<>> /\ writing' = writing /\ n3dsTaken' = n3dsTaken BY <1>2 DEF StreamInfo, workerVars
  <2>2. W' = W /\ K' = K BY <2>1
  <2> QED BY <1>a, <1>e, <2>1, <2>2
<1>3. CASE SessionEnds
  <2>1. n3dsReady' = n3dsReady /\ writing' = None /\ n3dsTaken' = n3dsTaken BY <1>3 DEF SessionEnds, workerVars
  <2> QED BY <1>a, <1>d, <2>1
<1>4. CASE TooLarge \/ Swap \/ Begin \/ AskAgain \/ Choose \/ Drawn
  <2>1. n3dsReady' = n3dsReady /\ writing' = writing /\ n3dsTaken' = n3dsTaken
        BY <1>4 DEF TooLarge, Swap, Begin, AskAgain, Choose, Drawn, workerVars, slotVars
  <2> QED BY <1>a, <1>d, <2>1
<1>5. CASE PublishVideo
  <2>1. n3dsReady' = Append(n3dsReady, writing) /\ writing # None /\ writing' = None /\ n3dsTaken' = n3dsTaken
        BY <1>5 DEF PublishVideo, workerVars
  <2>2. l = L + 1 /\ n3dsReady' \in Seq(N3dsFrames) BY <1>0, <1>p, <2>1
  <2>3. W = 1 /\ w = 0 /\ k = K BY <1>p, <2>1
  <2> HIDE DEF W, K, L
  <2> QED BY <1>0, <1>a, <1>b, <2>2, <2>3
<1>6. ASSUME NEW key \in BOOLEAN, VideoComes(key) PROVE Goal
  <2>1. n3dsTaken' = n3dsTaken /\ writing = None BY <1>6 DEF VideoComes, workerVars
  <2>2. K' = K /\ W = 0 BY <2>1
  <2>3. \/ Used < VideoSlots /\ n3dsReady' = n3dsReady
        \/ Used = VideoSlots /\ n3dsReady # <<>> /\ n3dsReady' = Dropped(n3dsReady)
        \/ n3dsReady' = n3dsReady /\ writing' = writing
        BY <1>6 DEF VideoComes, ReserveVideoSlot
  <2>4. CASE Used < VideoSlots /\ n3dsReady' = n3dsReady
    <3>1. l = L /\ k = K BY <1>p, <2>2, <2>4
    <3> HIDE DEF W, K, L
    <3>2. L + W + K < VideoSlots BY <1>0, <2>4
    <3>3. l + w + k =< VideoSlots BY <1>a, <1>c, <2>2, <3>1, <3>2
    <3> QED BY <1>0, <1>b, <2>4, <3>3
  <2>5. CASE Used = VideoSlots /\ n3dsReady # <<>> /\ n3dsReady' = Dropped(n3dsReady)
    <3>1. l = L - 1 /\ k = K /\ n3dsReady' \in Seq(N3dsFrames) BY <1>0, <1>p, <2>2, <2>5, DroppedIs
    <3>3. L # 0 BY <1>0, <2>5, EmptySeq
    <3> HIDE DEF W, K, L
    <3>2. l + w + k =< VideoSlots BY <1>0, <1>a, <1>c, <2>2, <2>5, <3>1, <3>3
    <3> QED BY <1>b, <3>1, <3>2
  <2>6. CASE n3dsReady' = n3dsReady /\ writing' = writing
    <3>1. W' = W BY <2>6
    <3> QED BY <1>a, <1>d, <2>2, <2>6, <3>1
  <2> QED BY <2>3, <2>4, <2>5, <2>6
<1>7. ASSUME NEW m \in 1..L, NEW p, Take(p, n3dsReady'), W' = W, worker = "acquire",
             n3dsReady' = SubSeq(n3dsReady, m + 1, L) \/ (m = 1 /\ n3dsReady' = Tail(n3dsReady))
      PROVE Goal
  <2>1. n3dsReady' \in Seq(N3dsFrames) /\ l = L - m BY <1>0, <1>7, <1>p, TailIs
  <2>2. K = 0 /\ w = W BY <1>7, <1>p DEF HandOK
  <2>3. m \in Nat /\ m >= 1 /\ m =< L BY <1>a
  <2> HIDE DEF W, K, L
  <2>4. l + w + k =< VideoSlots BY <1>0, <1>a, <1>c, <1>7, <2>1, <2>2, <2>3
  <2> QED BY <1>b, <2>1, <2>4
<1>8. CASE AcquireNext
  <2>0. worker = "acquire" BY <1>8 DEF AcquireNext
  <2>1. \/ FirstUsable = 1 /\ Take(n3dsReady[1], Tail(n3dsReady)) /\ writing' = writing
        \/ /\ FirstUsable > 1 /\ Take(n3dsReady[FirstUsable], SubSeq(n3dsReady, FirstUsable + 1, Len(n3dsReady)))
           /\ writing' = writing
        \/ n3dsTaken' = n3dsTaken /\ n3dsReady' = n3dsReady /\ writing' = writing
        \/ /\ n3dsTaken' = n3dsTaken /\ n3dsReady' = <<>>
           /\ writing' = writing \/ writing # None
        BY <1>8 DEF AcquireNext
  <2>2. FirstUsable = 0 \/ FirstUsable \in 1..L BY <1>0, FirstUsableIs
  <2>3. CASE FirstUsable = 1 /\ Take(n3dsReady[1], Tail(n3dsReady)) /\ writing' = writing
    <3>1. Take(n3dsReady[1], n3dsReady') /\ n3dsReady' = Tail(n3dsReady) BY <2>3 DEF Take
    <3>2. 1 \in 1..L /\ W' = W BY <1>a, <2>2, <2>3
    <3> QED BY <1>7, <2>0, <3>1, <3>2
  <2>4. CASE /\ FirstUsable > 1 /\ Take(n3dsReady[FirstUsable], SubSeq(n3dsReady, FirstUsable + 1, Len(n3dsReady)))
             /\ writing' = writing
    <3>0. PICK m : m = FirstUsable OBVIOUS
    <3>1. Take(n3dsReady[m], n3dsReady') /\ n3dsReady' = SubSeq(n3dsReady, m + 1, L) BY <2>4, <3>0 DEF Take
    <3>2. m \in 1..L /\ W' = W BY <1>a, <2>2, <2>4, <3>0
    <3> QED BY <1>7, <2>0, <3>1, <3>2
  <2>5. CASE n3dsTaken' = n3dsTaken /\ n3dsReady' = n3dsReady /\ writing' = writing
    <3>1. W' = W /\ K' = K BY <2>5
    <3> QED BY <1>a, <1>d, <2>5, <3>1
  <2>6. CASE n3dsTaken' = n3dsTaken /\ n3dsReady' = <<>> /\ (writing' = writing \/ writing # None)
    <3>1. W' =< W /\ K' = K BY <1>c, <2>6
    <3> QED BY <1>a, <1>e, <2>6, <3>1
  <2> QED BY <2>1, <2>3, <2>4, <2>5, <2>6
<1>9. CASE AcquireNewest
  <2>0. W' = W BY <1>9 DEF AcquireNewest
  <2>1. CASE n3dsReady = <<>>
    <3>1. n3dsReady' = n3dsReady /\ K' = K BY <1>9, <2>1 DEF AcquireNewest
    <3> QED BY <1>a, <1>d, <2>0, <3>1
  <2>2. CASE n3dsReady # <<>>
    <3>1. n3dsReady' = <<>> BY <1>9, <2>2 DEF AcquireNewest, Take
    <3>2. L >= 1 BY <1>0, <2>2, EmptySeq
    <3> QED BY <1>a, <1>e, <2>0, <3>1, <3>2
  <2> QED BY <2>1, <2>2
<1>10. CASE N3dsDecoded \/ Buffered \/ DecodeFails
  <2>1. n3dsReady' = n3dsReady /\ writing' = writing /\ n3dsTaken' = None
        BY <1>10 DEF N3dsDecoded, Buffered, DecodeFails, slotVars
  <2>2. W' = W /\ K' = 0 BY <2>1
  <2> QED BY <1>a, <1>d, <2>1, <2>2
<1> QED BY <1>1, <1>2, <1>3, <1>4, <1>5, <1>6, <1>8, <1>9, <1>10 DEF N3dsNext, WorkerNext

LEMMA N3dsTypesKept ==
    ASSUME N3dsTypeOK, HandOK, N3dsNext
    PROVE  N3dsTypeOK' /\ HandOK'
BY N3dsFlags, N3dsWriting, N3dsWorks, N3dsSlots DEF N3dsTypeOK, HandOK

\* The line stays, and so does what is known of it.
LEMMA LineStays ==
    ASSUME LineOK, UNCHANGED <<n3dsReady, writing, linked, n3dsOwes, codec, lost, orphan>>,
           need => need', ~need' => (Bad' => Bad)
    PROVE  LineOK'
<1>1. Line' = Line BY DEF Line, Coming
<1> QED BY <1>1 DEF LineOK

\* Nothing is ready.
LEMMA LineOfOne ==
    ASSUME n3dsReady' = <<>>, Predictive(codec') => need'
    PROVE  LineOK'
<1>1. Line' = <<Coming'>> BY DEF Line
<1>2. Len(Line') = 1 BY <1>1
<1>3. PICK W : W = Line' OBVIOUS
<1>4. Whole(W) BY <1>2, <1>3, OneIsWhole
<1>5. (Whole(Line))' BY <1>3, <1>4 DEF Whole, Joined, NoKeyBehind, Restarted, Delta, OldKey, KeyPicture
<1> QED BY <1>5 DEF LineOK

\* The line after a step.
LEMMA LineNext ==
    ASSUME NEW W, W = Line', Whole(W),
           Predictive(codec') /\ ~need' => NoGap(W) /\ (Bad' => KeyFirst(W))
    PROVE  LineOK'
<1>1. (Whole(Line))' BY DEF Whole, Joined, NoKeyBehind, Restarted, Delta, OldKey, KeyPicture
<1>2. (NoGap(Line))' <=> NoGap(W) BY DEF NoGap, Delta
<1>3. (KeyFirst(Line))' <=> KeyFirst(W) BY DEF KeyFirst, Delta, KeyPicture
<1> QED BY <1>1, <1>2, <1>3 DEF LineOK

LEMMA LineWas ==
    ASSUME N3dsTypeOK
    PROVE  \E V, n : /\ n \in Nat /\ n = Len(n3dsReady) + 1 /\ V = Line /\ Len(V) = n
                     /\ \A i \in 1..(n - 1) : V[i] = n3dsReady[i]
                     /\ V[n] = Coming
<1>1. n3dsReady \in Seq(N3dsFrames) BY DEF N3dsTypeOK
<1>2. /\ Len(Line) = Len(n3dsReady) + 1
      /\ \A i \in 1..Len(n3dsReady) : Line[i] = n3dsReady[i]
      /\ Line[Len(n3dsReady) + 1] = Coming
      /\ Len(n3dsReady) \in Nat BY <1>1, LineIs
<1>3. PICK V, n : V = Line /\ n = Len(n3dsReady) + 1 OBVIOUS
<1>4. n \in Nat /\ n - 1 = Len(n3dsReady) BY <1>2, <1>3
<1> QED BY <1>2, <1>3, <1>4

LEMMA LineBecomes ==
    ASSUME N3dsTypeOK'
    PROVE  \E V, n : /\ n \in Nat /\ n = Len(n3dsReady') + 1 /\ V = Line' /\ Len(V) = n
                     /\ \A i \in 1..(n - 1) : V[i] = n3dsReady'[i]
                     /\ V[n] = Coming'
<1>1. n3dsReady' \in Seq(N3dsFrames) BY DEF N3dsTypeOK
<1>2. /\ Len(Line') = Len(n3dsReady') + 1
      /\ \A i \in 1..Len(n3dsReady') : Line'[i] = n3dsReady'[i]
      /\ Line'[Len(n3dsReady') + 1] = Coming'
      /\ Len(n3dsReady') \in Nat BY <1>1, Appended DEF Line
<1>3. PICK V, n : V = Line' /\ n = Len(n3dsReady') + 1 OBVIOUS
<1>4. n \in Nat /\ n - 1 = Len(n3dsReady') BY <1>2, <1>3
<1> QED BY <1>2, <1>3, <1>4

\* Steps that leave what is ready.
LEMMA ComingChanges ==
    ASSUME N3dsTypeOK, N3dsTypeOK', LineOK, n3dsReady' = n3dsReady,
           Delta(Coming') => /\ Delta(Coming)
                             /\ Coming.gap => Coming'.gap
                             /\ Coming'.gap => Coming.gap \/ \A i \in DOMAIN n3dsReady : ~n3dsReady[i].key,
           Predictive(codec') /\ ~need' => /\ Predictive(codec) /\ ~need /\ Bad' => Bad
                                           /\ Predictive(codec) /\ ~need
                                           /\ Delta(Coming') => (Coming'.gap => Coming.gap)
    PROVE  LineOK'
<1>1. PICK V, n : /\ n \in Nat /\ n = Len(n3dsReady) + 1 /\ V = Line /\ Len(V) = n
                  /\ \A i \in 1..(n - 1) : V[i] = n3dsReady[i]
                  /\ V[n] = Coming
      BY LineWas
<1>2. PICK W, m : /\ m \in Nat /\ m = Len(n3dsReady') + 1 /\ W = Line' /\ Len(W) = m
                  /\ \A i \in 1..(m - 1) : W[i] = n3dsReady'[i]
                  /\ W[m] = Coming'
      BY LineBecomes
<1>3. n3dsReady \in Seq(N3dsFrames) BY DEF N3dsTypeOK
<1>4. m = n /\ n >= 1 BY <1>1, <1>2, <1>3
<1>5. /\ Len(W) = n /\ \A i \in 1..(n - 1) : W[i] = V[i]
      /\ W[n] = Coming'
      BY <1>1, <1>2, <1>4
<1>6. Whole(V) /\ (Predictive(codec) /\ ~need => NoGap(V) /\ (Bad => KeyFirst(V)))
      BY <1>1 DEF LineOK
<1>7. (\A i \in DOMAIN n3dsReady : ~n3dsReady[i].key) => \A j \in 1..(n - 1) : ~V[j].key
      BY <1>1, <1>3
<1>8. Delta(W[n]) => /\ Delta(V[n])
                     /\ V[n].gap => W[n].gap
                     /\ W[n].gap => V[n].gap \/ \A j \in 1..(n - 1) : ~V[j].key
      BY <1>1, <1>5, <1>7
<1>9. /\ Whole(W)
      /\ NoGap(V) /\ (Delta(W[n]) => ~W[n].gap) => NoGap(W)
      /\ KeyFirst(V) => KeyFirst(W)
      BY <1>1, <1>4, <1>5, <1>6, <1>8, LastChanges
<1>10. ASSUME Predictive(codec'), ~need' PROVE NoGap(W) /\ (Bad' => KeyFirst(W))
  <2>1. Predictive(codec) /\ ~need /\ (Bad' => Bad) BY <1>10
  <2>2. NoGap(V) /\ (Bad => KeyFirst(V)) BY <1>6, <2>1
  <2>3. n \in 1..Len(V) BY <1>1, <1>4
  <2>4. Delta(V[n]) => ~V[n].gap BY <2>2, <2>3 DEF NoGap
  <2>5. Delta(W[n]) => ~W[n].gap BY <1>1, <1>5, <1>8, <1>10, <2>4
  <2> QED BY <1>9, <2>1, <2>2, <2>5
<1> QED BY <1>2, <1>9, <1>10, LineNext

\* A picture is lost, and no keyframe waits that could be taken for one that comes.
LEMMA LossIsNoted ==
    ASSUME N3dsTypeOK, N3dsTypeOK', LineOK, n3dsReady' = n3dsReady, Coming'.gap,
           \A i \in DOMAIN n3dsReady : ~n3dsReady[i].key, Predictive(codec') => need'
    PROVE  LineOK'
<1>1. PICK V, n : /\ n \in Nat /\ n = Len(n3dsReady) + 1 /\ V = Line /\ Len(V) = n
                  /\ \A i \in 1..(n - 1) : V[i] = n3dsReady[i]
                  /\ V[n] = Coming
      BY LineWas
<1>2. PICK W, m : /\ m \in Nat /\ m = Len(n3dsReady') + 1 /\ W = Line' /\ Len(W) = m
                  /\ \A i \in 1..(m - 1) : W[i] = n3dsReady'[i]
                  /\ W[m] = Coming'
      BY LineBecomes
<1>3. n3dsReady \in Seq(N3dsFrames) BY DEF N3dsTypeOK
<1>4. m = n /\ n >= 1 /\ Len(W) = n /\ W[n].gap /\ \A i \in 1..(n - 1) : W[i] = V[i]
      BY <1>1, <1>2, <1>3
<1>5. \A j \in 1..(n - 1) : ~W[j].key BY <1>1, <1>2, <1>3, <1>4
<1>6. Whole(V) BY <1>1 DEF LineOK
<1>7. Joined(W)
  <2> SUFFICES ASSUME NEW i \in 2..n, Delta(W[i]) PROVE W[i].gap \/ W[i - 1].codec = "mpeg"
      BY <1>4 DEF Joined
  <2>1. CASE i = n BY <1>4, <2>1
  <2>2. CASE i # n
    <3>1. i \in 1..(n - 1) /\ i - 1 \in 1..(n - 1) BY <1>1, <2>2
    <3>2. W[i] = V[i] /\ W[i - 1] = V[i - 1] BY <1>4, <3>1
    <3> QED BY <1>1, <1>6, <3>2 DEF Whole, Joined
  <2> QED BY <2>1, <2>2
<1>8. \A i \in 1..n : \A j \in 1..(i - 1) : ~W[j].key BY <1>1, <1>5
<1>9. NoKeyBehind(W) /\ Restarted(W) BY <1>4, <1>8 DEF NoKeyBehind, Restarted, OldKey
<1> QED BY <1>2, <1>7, <1>9, LineNext DEF Whole

\* What every step of the 3DS client's threads keeps of its pictures.
PictureLineInv == N3dsTypeOK /\ HandOK /\ LineOK

\* A session, a change of stream, and a picture that is too large.
LEMMA SessionsKeepTheLine ==
    ASSUME PictureLineInv, N3dsTypeOK', HandOK',
           (\E c \in Codecs : SessionBegins(c) \/ StreamInfo(c)) \/ SessionEnds \/ TooLarge
    PROVE  LineOK'
<1>0. N3dsTypeOK /\ LineOK /\ HandOK BY DEF PictureLineInv
<1>1. ASSUME NEW c \in Codecs, SessionBegins(c) PROVE LineOK'
  <2>1. /\ ~linked /\ linked' /\ n3dsOwes' /\ codec' = c /\ need' = Predictive(c)
        /\ writing' = writing /\ n3dsReady' = n3dsReady
        BY <1>1 DEF SessionBegins
  <2>2. writing' = None BY <1>0, <2>1 DEF HandOK
  <2>3. Coming' = None BY <2>1, <2>2 DEF Coming
  <2>4. ~Delta(Coming') BY <2>3 DEF None, Delta
  <2> QED BY <1>0, <2>1, <2>4, ComingChanges
<1>2. ASSUME NEW c \in Codecs, StreamInfo(c) PROVE LineOK'
  <2>1. n3dsReady' = <<>> /\ (Predictive(codec') => need') BY <1>2 DEF StreamInfo
  <2> QED BY <2>1, LineOfOne
<1>3. CASE SessionEnds
  <2>1. /\ ~linked' /\ writing' = None /\ n3dsReady' = n3dsReady /\ codec' = codec /\ need' = need
        /\ n3dsBroken' = n3dsBroken /\ n3dsTaken' = n3dsTaken
        BY <1>3 DEF SessionEnds, workerVars
  <2>2. Coming' = None BY <2>1 DEF Coming
  <2>3. ~Delta(Coming') BY <2>2 DEF None, Delta
  <2>4. Bad' => Bad BY <2>1 DEF Bad, KeyPicture
  <2> QED BY <1>0, <2>1, <2>3, <2>4, ComingChanges
<1>4. CASE TooLarge
  <2>1. /\ linked' = linked /\ linked /\ writing' = None /\ n3dsOwes' = FALSE /\ lost' = TRUE
        /\ orphan' = KeyWaits /\ n3dsReady' = n3dsReady /\ codec' = codec
        /\ need' = (need \/ Predictive(codec))
        BY <1>4 DEF TooLarge
  <2>2. Predictive(codec') => need' BY <2>1
  <2>3. Coming' = [key |-> FALSE, codec |-> codec, gap |-> TRUE, orphan |-> KeyWaits]
        BY <2>1 DEF Coming
  <2>4. CASE KeyWaits
    <3>1. ~Delta(Coming') BY <2>3, <2>4 DEF Delta
    <3> QED BY <1>0, <2>1, <2>2, <3>1, ComingChanges
  <2>5. CASE ~KeyWaits
    <3>1. Coming'.gap BY <2>3
    <3>2. \A i \in DOMAIN n3dsReady : ~n3dsReady[i].key BY <2>5 DEF KeyWaits
    <3> QED BY <1>0, <2>1, <2>2, <3>1, <3>2, LossIsNoted
  <2> QED BY <2>4, <2>5
<1> QED BY <1>1, <1>2, <1>3, <1>4

\* Publishing it.
LEMMA PublishKeepsTheLine ==
    ASSUME PictureLineInv, N3dsTypeOK', HandOK', PublishVideo
    PROVE  LineOK'
<1>0. N3dsTypeOK /\ LineOK /\ HandOK /\ n3dsReady \in Seq(N3dsFrames) BY DEF PictureLineInv, N3dsTypeOK
<1>1. PICK V, n : /\ n \in Nat /\ n = Len(n3dsReady) + 1 /\ V = Line /\ Len(V) = n
                  /\ \A i \in 1..(n - 1) : V[i] = n3dsReady[i]
                  /\ V[n] = Coming
      BY <1>0, LineWas
<1>2. PICK W, m : /\ m \in Nat /\ m = Len(n3dsReady') + 1 /\ W = Line' /\ Len(W) = m
                  /\ \A i \in 1..(m - 1) : W[i] = n3dsReady'[i]
                  /\ W[m] = Coming'
      BY LineBecomes
<1>3. /\ linked /\ linked' = linked /\ writing # None /\ writing' = None /\ codec' = codec
      /\ n3dsOwes' = n3dsOwes /\ lost' = lost /\ orphan' = orphan /\ need' = need
      /\ n3dsBroken' = n3dsBroken /\ n3dsTaken' = n3dsTaken
      /\ n3dsReady' = Append(n3dsReady, writing)
      BY DEF PublishVideo, workerVars, n3dsHostVars
<1>4. /\ ~n3dsOwes /\ ~lost /\ writing.codec = codec
      /\ writing.orphan => orphan
      BY <1>0, <1>3 DEF HandOK
<1>5. Coming = writing BY <1>3 DEF Coming
<1>6. Coming' = [key |-> FALSE, codec |-> codec, gap |-> lost, orphan |-> orphan]
      BY <1>3, <1>4 DEF Coming
<1>7. /\ Len(n3dsReady') = Len(n3dsReady) + 1 /\ n3dsReady'[Len(n3dsReady) + 1] = writing
      /\ \A i \in 1..Len(n3dsReady) : n3dsReady'[i] = n3dsReady[i]
      /\ Len(n3dsReady) \in Nat
      BY <1>0, <1>3, Appended
<1>8. n >= 1 /\ m = n + 1 /\ n - 1 = Len(n3dsReady) BY <1>1, <1>2, <1>7
<1>9. Len(W) = n + 1 /\ W[n + 1] = Coming' BY <1>2, <1>8
<1>10. ASSUME NEW i \in 1..n PROVE W[i] = V[i]
  <2>0. i \in 1..(m - 1) /\ (i = n \/ i \in 1..(n - 1)) BY <1>1, <1>8
  <2>1. W[i] = n3dsReady'[i] BY <1>2, <2>0
  <2>2. CASE i = n BY <1>1, <1>5, <1>7, <2>1, <2>2
  <2>3. CASE i \in 1..(n - 1) BY <1>1, <1>7, <1>8, <2>1, <2>3
  <2> QED BY <2>0, <2>2, <2>3
<1>11. /\ ~W[n + 1].gap /\ W[n + 1].codec = codec /\ V[n].codec = codec
       /\ V[n].orphan => W[n + 1].orphan
      BY <1>1, <1>4, <1>5, <1>6, <1>9
<1>12. /\ OldKey(V[n]) => ~Delta(W[n + 1])
       /\ Delta(W[n + 1]) => Delta(V[n]) \/ KeyPicture(V[n])
      BY <1>11 DEF OldKey, Delta, KeyPicture
<1>13. Whole(V) /\ (Predictive(codec) /\ ~need => NoGap(V) /\ (Bad => KeyFirst(V)))
      BY <1>0, <1>1 DEF LineOK
<1>14. /\ Whole(W)
       /\ NoGap(V) => NoGap(W)
       /\ KeyFirst(V) => KeyFirst(W)
      BY <1>1, <1>8, <1>9, <1>10, <1>11, <1>12, <1>13, OneJoins
<1>15. Bad' => Bad BY <1>3 DEF Bad, KeyPicture
<1>16. Predictive(codec') /\ ~need' => NoGap(W) /\ (Bad' => KeyFirst(W)) BY <1>3, <1>13, <1>14, <1>15
<1> QED BY <1>2, <1>14, <1>16, LineNext

\* Receiving a picture, into a free slot, that of the oldest or none.
LEMMA ComesKeepsTheLine ==
    ASSUME PictureLineInv, N3dsTypeOK', HandOK', NEW key \in BOOLEAN, VideoComes(key)
    PROVE  LineOK'
<1>0. /\ N3dsTypeOK /\ LineOK /\ HandOK /\ n3dsReady \in Seq(N3dsFrames)
      BY DEF PictureLineInv, N3dsTypeOK
<1>1. /\ linked /\ linked' = linked /\ writing = None /\ (n3dsOwes => key) /\ ~n3dsOwes' /\ codec' = codec
      /\ n3dsBroken' = n3dsBroken /\ n3dsTaken' = n3dsTaken
      BY DEF VideoComes, workerVars
<1>2. Bad' => Bad BY <1>1 DEF Bad, KeyPicture
<1> DEFINE o == orphan /\ ~key
           p == [key |-> key, codec |-> codec, gap |-> lost, orphan |-> o]
<1>3. p.key = key /\ p.codec = codec /\ p.gap = lost /\ p # None
  <2>1. codec \in Codecs BY <1>0 DEF N3dsTypeOK
  <2>2. codec # "none" BY <2>1 DEF Codecs
  <2>3. p.key = key /\ p.codec = codec /\ p.gap = lost OBVIOUS
  <2>4. None.codec = "none" BY DEF None
  <2> HIDE DEF p
  <2> QED BY <2>2, <2>3, <2>4
<1>4. Coming = IF n3dsOwes THEN None
               ELSE [key |-> FALSE, codec |-> codec, gap |-> lost, orphan |-> orphan]
      BY <1>1 DEF Coming
<1>5. Delta(p) => Delta(Coming) /\ Coming.gap = lost
  <2> SUFFICES ASSUME Delta(p) PROVE Delta(Coming) /\ Coming.gap = lost OBVIOUS
  <2>0. p.orphan = o OBVIOUS
  <2>1. ~key /\ codec = "mpeg" /\ ~orphan BY <1>3, <2>0 DEF Delta
  <2>2. Coming = [key |-> FALSE, codec |-> codec, gap |-> lost, orphan |-> orphan] BY <1>1, <1>4, <2>1
  <2> QED BY <2>1, <2>2 DEF Delta
<1>6. \/ Used < VideoSlots /\ writing' = p /\ n3dsReady' = n3dsReady /\ need' = need
      \/ /\ n3dsReady # <<>> /\ n3dsReady' = Dropped(n3dsReady)
         /\ need' = (need \/ Predictive(Head(n3dsReady).codec))
         /\ writing' = [p EXCEPT !.gap = @ \/ Len(n3dsReady) = 1]
      \/ /\ n3dsReady = <<>> /\ n3dsReady' = n3dsReady /\ need' = (need \/ Predictive(p.codec))
      BY DEF VideoComes, ReserveVideoSlot
<1> HIDE DEF p
<1>7. CASE Used < VideoSlots /\ writing' = p /\ n3dsReady' = n3dsReady /\ need' = need
  <2>1. Coming' = p BY <1>3, <1>7 DEF Coming
  <2>2. Delta(Coming') => Delta(Coming) /\ Coming'.gap = Coming.gap BY <1>3, <1>5, <2>1
  <2> QED BY <1>0, <1>1, <1>2, <1>7, <2>2, ComingChanges
<1>8. CASE n3dsReady = <<>> /\ n3dsReady' = n3dsReady /\ need' = (need \/ Predictive(p.codec))
  <2>1. n3dsReady' = <<>> /\ (Predictive(codec') => need') BY <1>1, <1>3, <1>8
  <2> QED BY <2>1, LineOfOne
<1>9. CASE /\ n3dsReady # <<>> /\ n3dsReady' = Dropped(n3dsReady)
           /\ need' = (need \/ Predictive(Head(n3dsReady).codec))
           /\ writing' = [p EXCEPT !.gap = @ \/ Len(n3dsReady) = 1]
  <2>a. PICK l : l = Len(n3dsReady) OBVIOUS
  <2>b. l \in Nat /\ l # 0 BY <1>0, <1>9, <2>a, EmptySeq
  <2>1. PICK V, n : /\ n \in Nat /\ n = Len(n3dsReady) + 1 /\ V = Line /\ Len(V) = n
                    /\ \A i \in 1..(n - 1) : V[i] = n3dsReady[i]
                    /\ V[n] = Coming
        BY <1>0, LineWas
  <2>2. PICK W, m : /\ m \in Nat /\ m = Len(n3dsReady') + 1 /\ W = Line' /\ Len(W) = m
                    /\ \A i \in 1..(m - 1) : W[i] = n3dsReady'[i]
                    /\ W[m] = Coming'
        BY LineBecomes
  <2>3. /\ Len(n3dsReady') = l - 1
        /\ l > 1 => n3dsReady'[1] = [n3dsReady[2] EXCEPT !.gap = TRUE]
        /\ \A i \in 2..(l - 1) : n3dsReady'[i] = n3dsReady[i + 1]
        BY <1>0, <1>9, <2>a, DroppedIs
  <2>4. n = l + 1 /\ m = l /\ n - 1 = l BY <2>1, <2>2, <2>3, <2>a, <2>b
  <2>5. Whole(V) /\ (Predictive(codec) /\ ~need => NoGap(V) /\ (Bad => KeyFirst(V)))
        BY <1>0, <2>1 DEF LineOK
  \* It comes.
  <2> DEFINE A == [i \in 1..n |-> IF i = n THEN p ELSE V[i]]
  <2>6. Len(A) = n /\ A[n] = p /\ \A i \in 1..(n - 1) : A[i] = V[i]
    <3>1. n \in 1..n BY <2>b, <2>4
    <3>2. \A i \in 1..(n - 1) : i \in 1..n /\ i # n BY <2>1
    <3>3. Len(A) = n BY <2>1
    <3> QED BY <3>1, <3>2, <3>3
  <2> HIDE DEF A
  <2>7. /\ Whole(A)
        /\ NoGap(V) /\ (Delta(A[n]) => ~A[n].gap) => NoGap(A)
        /\ KeyFirst(V) => KeyFirst(A)
    <3>1. Delta(A[n]) => Delta(V[n]) /\ V[n].gap = A[n].gap BY <1>3, <1>5, <2>1, <2>6
    <3>2. n >= 1 BY <2>b, <2>4
    <3> QED BY <2>1, <2>5, <2>6, <3>1, <3>2, LastChanges
  \* The oldest leaves.
  <2> DEFINE B == [i \in 1..l |-> A[i + 1]]
  <2>8. Len(B) = l /\ Len(B) = n - 1 /\ \A i \in 1..l : B[i] = A[i + 1]
    <3>1. Len(B) = l BY <2>b
    <3> QED BY <2>b, <2>4, <3>1
  <2> HIDE DEF B
  <2>9. /\ Whole(B)
        /\ NoGap(A) => NoGap(B)
        /\ KeyFirst(A) /\ (\A k \in 1..1 : ~KeyPicture(A[k])) => KeyFirst(B)
    <3>1. 1 \in Nat /\ 1 =< 1 /\ 1 =< n BY <2>b, <2>4
    <3>2. \A i \in 1..(n - 1) : B[i] = A[i + 1] BY <2>4, <2>8
    <3> QED BY <2>1, <2>6, <2>7, <2>8, <3>1, <3>2, FirstLeave
  \* The one behind it is told.
  <2>10. /\ writing'.key = key /\ writing'.codec = codec /\ (l # 1 => writing' = p)
         /\ writing'.orphan = p.orphan
    <3>1. p = [key |-> key, codec |-> codec, gap |-> lost, orphan |-> o] BY DEF p
    <3>2. writing' = [key |-> key, codec |-> codec, gap |-> (lost \/ l = 1), orphan |-> o]
          BY <1>9, <2>a, <3>1
    <3>3. l # 1 => (lost \/ l = 1) = lost BY <1>0 DEF N3dsTypeOK
    <3>4. l # 1 => writing' = p BY <3>1, <3>2, <3>3
    <3>5. p.orphan = o BY <3>1
    <3> QED BY <3>2, <3>4, <3>5
  <2>11. Coming' = writing'
    <3>1. codec \in Codecs BY <1>0 DEF N3dsTypeOK
    <3>2. codec # "none" BY <3>1 DEF Codecs
    <3>3. None.codec = "none" BY DEF None
    <3>4. writing' # None BY <2>10, <3>2, <3>3
    <3> QED BY <3>4 DEF Coming
  <2>12. \A i \in 2..l : W[i] = B[i]
    <3> SUFFICES ASSUME NEW i \in 2..l PROVE W[i] = B[i] OBVIOUS
    <3>0. i = l \/ i \in 2..(l - 1) BY <2>b
    <3>1. B[i] = A[i + 1] BY <2>8
    <3>2. CASE i = l
      <4>1. W[i] = p BY <2>2, <2>4, <2>10, <2>11, <2>b, <3>2
      <4>2. B[i] = p BY <2>4, <2>6, <3>1, <3>2
      <4> QED BY <4>1, <4>2
    <3>3. CASE i \in 2..(l - 1)
      <4>1. W[i] = n3dsReady'[i] BY <2>2, <2>4, <3>3
      <4>2. W[i] = n3dsReady[i + 1] BY <2>3, <3>3, <4>1
      <4>3. i + 1 \in 1..(n - 1) BY <2>4, <3>3
      <4> QED BY <2>1, <2>6, <3>1, <4>2, <4>3
    <3> QED BY <3>0, <3>2, <3>3
  <2>13. W[1].codec = B[1].codec /\ W[1].key = B[1].key /\ W[1].orphan = B[1].orphan
    <3>0. 1 \in 1..l /\ 1 + 1 = 2 BY <2>b
    <3>1. B[1] = A[2] BY <2>8, <3>0
    <3>2. CASE l = 1
      <4>1. W[1] = writing' BY <2>2, <2>4, <2>11, <3>2
      <4>2. B[1] = p BY <2>4, <2>6, <3>1, <3>2
      <4> QED BY <1>3, <2>10, <4>1, <4>2
    <3>3. CASE l > 1
      <4>1. W[1] = n3dsReady'[1] BY <2>2, <2>4, <3>3
      <4>2. W[1] = [n3dsReady[2] EXCEPT !.gap = TRUE] BY <2>3, <3>3, <4>1
      <4>3. 2 \in 1..(n - 1) BY <2>4, <3>3
      <4>4. B[1] = n3dsReady[2] BY <2>1, <2>6, <3>1, <4>3
      <4>5. n3dsReady[2] \in N3dsFrames BY <1>0, <2>1, <2>4, <2>a, <4>3
      <4> QED BY <4>2, <4>4, <4>5 DEF N3dsFrames
    <3> QED BY <2>b, <3>2, <3>3
  <2>14. /\ Whole(W)
         /\ NoGap(B) /\ ~Delta(B[1]) => NoGap(W)
         /\ KeyFirst(B) => KeyFirst(W)
    <3>1. l >= 1 /\ Len(W) = l BY <2>2, <2>4, <2>b
    <3> QED BY <2>8, <2>9, <2>12, <2>13, <2>b, <3>1, FirstLoses
  <2>15. ASSUME Predictive(codec'), ~need' PROVE NoGap(W) /\ (Bad' => KeyFirst(W))
    <3>a. Head(n3dsReady) = n3dsReady[1] BY <1>0, <1>9
    <3>1. ~need /\ Predictive(codec) /\ ~Predictive(n3dsReady[1].codec) BY <1>1, <1>9, <2>15, <3>a
    <3>2. NoGap(V) /\ (Bad => KeyFirst(V)) BY <2>5, <3>1
    <3>3. 1 \in 1..(n - 1) /\ n \in 1..n BY <2>4, <2>b
    <3>4. A[1] = n3dsReady[1] BY <2>1, <2>6, <3>3
    <3>5. ~KeyPicture(A[1]) /\ A[1].codec # "mpeg" BY <3>1, <3>4 DEF KeyPicture, Predictive
    <3>6. Delta(A[n]) => ~A[n].gap
      <4>1. Delta(V[n]) => ~V[n].gap BY <2>1, <3>2, <3>3 DEF NoGap
      <4> QED BY <1>3, <1>5, <2>1, <2>6, <4>1
    <3>7. NoGap(A) /\ (Bad => KeyFirst(A)) BY <2>7, <3>2, <3>6
    <3>8. 2 \in 2..Len(A) BY <2>4, <2>6, <2>b
    <3>9. Delta(A[2]) => A[2].gap \/ A[2 - 1].codec = "mpeg" BY <2>7, <3>8 DEF Whole, Joined
    <3>10. Delta(A[2]) => ~A[2].gap BY <2>6, <3>7, <3>8 DEF NoGap
    <3>b. 2 - 1 = 1 /\ 1 + 1 = 2 /\ 1 \in 1..l BY <2>b
    <3>c. B[1] = A[2] BY <2>8, <3>b
    <3>d. ~Delta(A[2]) BY <3>5, <3>9, <3>10, <3>b
    <3>11. ~Delta(B[1]) BY <3>c, <3>d
    <3>12. \A k \in 1..1 : ~KeyPicture(A[k]) BY <3>5
    <3> QED BY <1>2, <2>9, <2>14, <3>7, <3>11, <3>12
  <2> QED BY <2>2, <2>14, <2>15, LineNext
<1> QED BY <1>6, <1>7, <1>8, <1>9

\* Taking the m-th: those before it leave with it.
LEMMA TakeKeepsTheLine ==
    ASSUME PictureLineInv, N3dsTypeOK', HandOK', worker = "acquire", Predictive(codec),
           NEW m \in 1..Len(n3dsReady), Take(n3dsReady[m], n3dsReady'),
           n3dsReady' = SubSeq(n3dsReady, m + 1, Len(n3dsReady)) \/ (m = 1 /\ n3dsReady' = Tail(n3dsReady)),
           UNCHANGED <<lost, orphan, writing, n3dsHostVars, n3dsBroken>>,
           need => n3dsReady[m].key, ~need => m = 1
    PROVE  /\ LineOK'
           /\ Predictive(n3dsTaken'.codec) /\ ~n3dsTaken'.key /\ ~n3dsTaken'.orphan
              => ~n3dsTaken'.gap /\ ~n3dsBroken
<1>0. /\ N3dsTypeOK /\ LineOK /\ HandOK /\ n3dsReady \in Seq(N3dsFrames)
      BY DEF PictureLineInv, N3dsTypeOK
<1>1. PICK V, n : /\ n \in Nat /\ n = Len(n3dsReady) + 1 /\ V = Line /\ Len(V) = n
                  /\ \A i \in 1..(n - 1) : V[i] = n3dsReady[i]
                  /\ V[n] = Coming
      BY <1>0, LineWas
<1>2. PICK W, k : /\ k \in Nat /\ k = Len(n3dsReady') + 1 /\ W = Line' /\ Len(W) = k
                  /\ \A i \in 1..(k - 1) : W[i] = n3dsReady'[i]
                  /\ W[k] = Coming'
      BY LineBecomes
<1>3. PICK l : l = Len(n3dsReady) OBVIOUS
<1>4. /\ Len(n3dsReady') = l - m
      /\ \A i \in 1..(l - m) : n3dsReady'[i] = n3dsReady[i + m]
  <2>1. PICK q, r : q = n3dsReady /\ r = n3dsReady' OBVIOUS
  <2>2. /\ q \in Seq(N3dsFrames) /\ m \in 1..Len(q)
        /\ r = SubSeq(q, m + 1, Len(q)) \/ (m = 1 /\ r = Tail(q))
        BY <1>0, <2>1
  <2>3. Len(r) = Len(q) - m /\ \A i \in 1..(Len(q) - m) : r[i] = q[i + m]
        BY <2>2, TailIs
  <2> QED BY <1>3, <2>1, <2>3
<1>5. l \in Nat /\ m \in Nat /\ 1 =< m /\ m =< l BY <1>0, <1>3
<1>6. n = l + 1 /\ k = n - m /\ k - 1 = l - m /\ n - 1 = l /\ m =< n BY <1>1, <1>2, <1>3, <1>4, <1>5
<1>7. Coming' = Coming BY DEF Coming, n3dsHostVars
<1>8. ASSUME NEW i \in 1..(n - m) PROVE W[i] = V[i + m]
  <2>1. i = k \/ i \in 1..(l - m) BY <1>5, <1>6
  <2>2. CASE i = k
    <3>1. i + m = n BY <1>1, <1>5, <1>6, <2>2
    <3> QED BY <1>1, <1>2, <1>7, <2>2, <3>1
  <2>3. CASE i \in 1..(l - m)
    <3>1. W[i] = n3dsReady'[i] BY <1>2, <1>6, <2>3
    <3>2. i + m \in 1..(n - 1) BY <1>5, <1>6, <2>3
    <3> QED BY <1>1, <1>4, <2>3, <3>1, <3>2
  <2> QED BY <2>1, <2>2, <2>3
<1>9. Whole(V) /\ (~need => NoGap(V) /\ (Bad => KeyFirst(V)))
      BY <1>0, <1>1 DEF LineOK
<1>10. /\ Whole(W)
       /\ NoGap(V) => NoGap(W)
       /\ KeyFirst(V) /\ (\A j \in 1..m : ~KeyPicture(V[j])) => KeyFirst(W)
       /\ V[m].key => NoGap(W)
       /\ OldKey(V[m]) => KeyFirst(W)
      BY <1>1, <1>2, <1>5, <1>6, <1>8, <1>9, FirstLeave
<1>11. m \in 1..(n - 1) /\ m \in 1..n BY <1>5, <1>6
<1>12. V[m] = n3dsReady[m] /\ n3dsTaken' = V[m] BY <1>1, <1>11 DEF Take
<1>13. n3dsReady[m] \in N3dsFrames BY <1>0
<1>14. V[m].codec \in Codecs BY <1>12, <1>13 DEF N3dsFrames
<1>15. Bad = n3dsBroken
  <2>1. n3dsTaken = None BY <1>0 DEF HandOK
  <2>2. ~KeyPicture(n3dsTaken) BY <2>1 DEF KeyPicture, None
  <2>3. n3dsBroken \in BOOLEAN BY <1>0 DEF N3dsTypeOK
  <2> QED BY <2>2, <2>3 DEF Bad
<1>16. Bad' => n3dsBroken /\ ~KeyPicture(V[m]) BY <1>12 DEF Bad, KeyPicture
<1>17. CASE need
  <2>1. V[m].key BY <1>12, <1>17
  <2>2. Bad' => KeyFirst(W) BY <1>10, <1>14, <1>16, <2>1 DEF KeyPicture, OldKey, Codecs
  <2>3. LineOK' BY <1>2, <1>10, <2>1, <2>2, LineNext
  <2> QED BY <1>12, <2>1, <2>3
<1>18. CASE ~need
  <2>1. m = 1 /\ NoGap(V) /\ (Bad => KeyFirst(V)) BY <1>9, <1>18
  <2>2. Bad' => KeyFirst(W) BY <1>10, <1>15, <1>16, <2>1
  <2>3. LineOK' BY <1>2, <1>10, <2>1, <2>2, LineNext
  <2>4. Delta(V[1]) => ~V[1].gap BY <1>1, <1>11, <2>1 DEF NoGap
  <2>5. n3dsBroken => ~Delta(V[1])
    <3>1. 1 \in 1..Len(V) /\ ~(\E j \in 1..(1 - 1) : TRUE) BY <1>1, <1>11, <2>1
    <3> QED BY <1>15, <2>1, <3>1 DEF KeyFirst
  <2>6. Predictive(n3dsTaken'.codec) /\ ~n3dsTaken'.key /\ ~n3dsTaken'.orphan => Delta(V[1]) BY <1>12, <2>1 DEF Delta, Predictive
  <2> QED BY <1>12, <2>1, <2>3, <2>4, <2>5, <2>6
<1> QED BY <1>17, <1>18

\* The worker acquires the next picture: one whose reference the decoder has.
LEMMA AcquireKeepsTheLine ==
    ASSUME PictureLineInv, N3dsTypeOK', HandOK', AcquireNext
    PROVE  /\ LineOK'
           /\ n3dsTaken' # None /\ Predictive(n3dsTaken'.codec) /\ ~n3dsTaken'.key /\ ~n3dsTaken'.orphan
              => ~n3dsTaken'.gap /\ ~n3dsBroken
<1>0. /\ N3dsTypeOK /\ LineOK /\ HandOK /\ n3dsReady \in Seq(N3dsFrames) /\ need \in BOOLEAN
      BY DEF PictureLineInv, N3dsTypeOK
<1>1. worker = "acquire" /\ Predictive(codec) /\ UNCHANGED <<n3dsHostVars, orphan, n3dsBroken>> BY DEF AcquireNext
<1>a. n3dsTaken = None BY <1>0, <1>1 DEF HandOK
<1>b. ~need /\ n3dsReady # <<>> => FirstUsable = 1 BY DEF FirstUsable
<1>2. PICK m : m = FirstUsable OBVIOUS
<1>3. /\ m = 0 \/ m \in 1..Len(n3dsReady)
      /\ need /\ m # 0 => n3dsReady[m].key
      /\ ~need => m \in {0, 1}
      BY <1>0, <1>2, FirstUsableIs
<1>4. \/ m = 1 /\ Take(n3dsReady[1], Tail(n3dsReady)) /\ UNCHANGED <<lost, writing>>
      \/ m > 1 /\ Take(n3dsReady[m], SubSeq(n3dsReady, m + 1, Len(n3dsReady))) /\ UNCHANGED <<lost, writing>>
      \/ UNCHANGED <<n3dsTaken, n3dsReady, need, lost, writing>>
      \/ UNCHANGED <<n3dsTaken, need>> /\ n3dsReady' = <<>> /\ m = 0 /\ n3dsReady # <<>>
      BY <1>2 DEF AcquireNext
<1>5. CASE m = 1 /\ Take(n3dsReady[1], Tail(n3dsReady)) /\ UNCHANGED <<lost, writing>>
  <2>1. Take(n3dsReady[1], n3dsReady') /\ n3dsReady' = Tail(n3dsReady) BY <1>5 DEF Take
  <2>2. 1 \in 1..Len(n3dsReady) /\ (need => n3dsReady[1].key) BY <1>3, <1>5
  <2> QED BY <1>1, <1>5, <2>1, <2>2, TakeKeepsTheLine
<1>6. CASE m > 1 /\ Take(n3dsReady[m], SubSeq(n3dsReady, m + 1, Len(n3dsReady))) /\ UNCHANGED <<lost, writing>>
  <2>1. Take(n3dsReady[m], n3dsReady') /\ n3dsReady' = SubSeq(n3dsReady, m + 1, Len(n3dsReady)) BY <1>6 DEF Take
  <2>2. m \in 1..Len(n3dsReady) /\ m # 1 /\ m # 0 BY <1>3, <1>6
  <2>3. need /\ n3dsReady[m].key BY <1>3, <2>2
  <2> QED BY <1>1, <1>6, <2>1, <2>2, <2>3, TakeKeepsTheLine
<1>7. CASE UNCHANGED <<n3dsTaken, n3dsReady, need, lost, writing>>
  <2>1. Bad' => Bad BY <1>1, <1>7 DEF Bad, KeyPicture
  <2>2. LineOK' BY <1>0, <1>1, <1>7, <2>1, LineStays DEF n3dsHostVars
  <2> QED BY <1>7, <1>a, <2>2
<1>8. CASE UNCHANGED <<n3dsTaken, need>> /\ n3dsReady' = <<>> /\ m = 0 /\ n3dsReady # <<>>
  <2>1. need' BY <1>0, <1>2, <1>8, <1>b
  <2>2. LineOK' BY <1>8, <2>1, LineOfOne
  <2> QED BY <1>8, <1>a, <2>2
<1> QED BY <1>4, <1>5, <1>6, <1>7, <1>8

\* Everything else the worker and main() do.
LEMMA WorkerKeepsTheLine ==
    ASSUME PictureLineInv, N3dsTypeOK', HandOK',
           Begin \/ AskAgain \/ AcquireNewest \/ Choose \/ N3dsDecoded \/ Buffered \/ DecodeFails \/ Drawn \/ Swap
    PROVE  LineOK'
<1>0. LineOK /\ HandOK /\ N3dsTypeOK BY DEF PictureLineInv
<1>1. CASE Begin \/ Choose \/ Drawn \/ Swap
  <2>1. UNCHANGED <<n3dsReady, writing, linked, n3dsOwes, codec, lost, orphan, need, n3dsTaken, n3dsBroken>>
        BY <1>1 DEF Begin, Choose, Drawn, Swap, n3dsHostVars, slotVars, workerVars
  <2>2. Bad' => Bad BY <2>1 DEF Bad, KeyPicture
  <2> QED BY <1>0, <2>1, <2>2, LineStays
<1>2. CASE AcquireNewest
  <2>1. CASE n3dsReady = <<>>
    <3>1. UNCHANGED <<n3dsReady, writing, linked, n3dsOwes, codec, lost, orphan, need, n3dsTaken, n3dsBroken>>
          BY <1>2, <2>1 DEF AcquireNewest, n3dsHostVars
    <3>2. Bad' => Bad BY <3>1 DEF Bad, KeyPicture
    <3> QED BY <1>0, <3>1, <3>2, LineStays
  <2>2. CASE n3dsReady # <<>>
    <3>1. n3dsReady' = <<>> /\ ~Predictive(codec') BY <1>2, <2>2 DEF AcquireNewest, Take, n3dsHostVars
    <3> QED BY <3>1, LineOfOne
  <2> QED BY <2>1, <2>2
<1>3. CASE N3dsDecoded \/ Buffered
  <2>1. /\ UNCHANGED <<n3dsReady, writing, linked, n3dsOwes, codec, lost, orphan, need>> /\ n3dsTaken' = None
        /\ n3dsBroken' = (n3dsBroken /\ ~n3dsTaken.key)
           \/ (~Predictive(n3dsTaken.codec) /\ n3dsBroken' = n3dsBroken)
        BY <1>3 DEF N3dsDecoded, Buffered, n3dsHostVars, slotVars
  <2>2. Bad' => Bad BY <2>1 DEF Bad, KeyPicture, Predictive
  <2> QED BY <1>0, <2>1, <2>2, LineStays
<1>4. CASE DecodeFails
  <2>1. /\ UNCHANGED <<n3dsReady, writing, linked, n3dsOwes, codec, lost, orphan>>
        /\ \/ Predictive(n3dsTaken.codec) /\ need'
           \/ ~Predictive(n3dsTaken.codec) /\ UNCHANGED <<need, n3dsBroken>>
        BY <1>4 DEF DecodeFails, RequestKeyframe, n3dsHostVars
  <2>2. ~need' => (Bad' => Bad) BY <2>1 DEF Bad, KeyPicture, Predictive
  <2> QED BY <1>0, <2>1, <2>2, LineStays
<1>5. CASE AskAgain
  <2>1. UNCHANGED <<n3dsReady, writing, linked, n3dsOwes, codec, lost, orphan, n3dsTaken, n3dsBroken>> /\ need'
        BY <1>5 DEF AskAgain, RequestKeyframe, n3dsHostVars
  <2> QED BY <1>0, <2>1, LineStays
<1> QED BY <1>1, <1>2, <1>3, <1>4, <1>5

LEMMA N3dsPicturesStart == N3dsInit => PictureLineInv
<1> SUFFICES ASSUME N3dsInit PROVE PictureLineInv OBVIOUS
<1>1. N3dsTypeOK
  <2>1. {linked, n3dsOwes, lost, orphan, need, present, frameReady, n3dsBroken} \subseteq BOOLEAN
        BY DEF N3dsInit
  <2>2. /\ codec \in Codecs /\ writing \in N3dsFrames \cup {None} /\ n3dsTaken \in N3dsFrames \cup {None}
        /\ worker \in {"idle", "acquire", "ask", "choose", "decode", "drawn"}
        BY DEF N3dsInit, Codecs
  <2>3. n3dsReady \in Seq(N3dsFrames) /\ Len(n3dsReady) = 0 BY DEF N3dsInit
  <2>4. Used =< VideoSlots BY <2>3, N3dsPicturesAssumption DEF N3dsInit, Used
  <2>5. work \in 0 .. MaxWork - 1 BY N3dsPicturesAssumption DEF N3dsInit
  <2> QED BY <2>1, <2>2, <2>3, <2>4, <2>5 DEF N3dsTypeOK
<1>2. HandOK BY DEF N3dsInit, HandOK
<1>3. LineOK
  <2>1. Len(Line) = 1 BY DEF N3dsInit, Line
  <2>2. Whole(Line) BY <2>1, OneIsWhole
  <2> QED BY <2>2 DEF N3dsInit, LineOK, Predictive
<1> QED BY <1>1, <1>2, <1>3 DEF PictureLineInv

LEMMA N3dsPicturesSteps ==
    ASSUME PictureLineInv, [N3dsNext]_n3dsVars
    PROVE  /\ PictureLineInv'
           /\ AcquireNext /\ n3dsTaken' # None /\ Predictive(n3dsTaken'.codec)
              /\ ~n3dsTaken'.key /\ ~n3dsTaken'.orphan
              => ~n3dsTaken'.gap /\ ~n3dsBroken
<1>0. LineOK /\ HandOK /\ N3dsTypeOK BY DEF PictureLineInv
<1>1. CASE N3dsNext
  <2>1. N3dsTypeOK' /\ HandOK' BY <1>0, <1>1, N3dsTypesKept
  <2>2. LineOK'
    <3>1. CASE (\E c \in Codecs : SessionBegins(c) \/ StreamInfo(c)) \/ SessionEnds \/ TooLarge
          BY <2>1, <3>1, SessionsKeepTheLine
    <3>2. CASE PublishVideo BY <2>1, <3>2, PublishKeepsTheLine
    <3>3. CASE \E key \in BOOLEAN : VideoComes(key) BY <2>1, <3>3, ComesKeepsTheLine
    <3>4. CASE AcquireNext BY <2>1, <3>4, AcquireKeepsTheLine
    <3>5. CASE Begin \/ AskAgain \/ AcquireNewest \/ Choose \/ N3dsDecoded \/ Buffered \/ DecodeFails \/ Drawn \/ Swap
          BY <2>1, <3>5, WorkerKeepsTheLine
    <3> QED BY <1>1, <3>1, <3>2, <3>3, <3>4, <3>5 DEF N3dsNext, WorkerNext
  <2>3. AcquireNext /\ n3dsTaken' # None /\ Predictive(n3dsTaken'.codec)
        /\ ~n3dsTaken'.key /\ ~n3dsTaken'.orphan
        => ~n3dsTaken'.gap /\ ~n3dsBroken
        BY <2>1, AcquireKeepsTheLine
  <2> QED BY <2>1, <2>2, <2>3 DEF PictureLineInv
<1>2. CASE UNCHANGED n3dsVars
  <2>1. UNCHANGED <<n3dsReady, writing, linked, n3dsOwes, codec, lost, orphan, need, n3dsTaken, n3dsBroken,
                    worker, work, present, frameReady>>
        BY <1>2 DEF n3dsVars, n3dsHostVars, slotVars, workerVars
  <2>2. N3dsTypeOK' /\ HandOK' BY <1>0, <2>1 DEF N3dsTypeOK, HandOK, Used
  <2>3. Bad' => Bad BY <2>1 DEF Bad, KeyPicture
  <2>4. LineOK' BY <1>0, <2>1, <2>3, LineStays
  <2>5. ~(AcquireNext /\ n3dsTaken' # None)
    <3>1. AcquireNext => worker = "acquire" BY DEF AcquireNext
    <3>2. worker = "acquire" => n3dsTaken = None BY <1>0 DEF HandOK
    <3> QED BY <2>1, <3>1, <3>2
  <2> QED BY <2>2, <2>4, <2>5 DEF PictureLineInv
<1> QED BY <1>1, <1>2

\* The 3DS client's decoder is given no picture that refers to one it lacks,
\* whichever pictures gave their slot, were dropped with a wait for a keyframe or
\* failed to decode; but for those behind one that was too large while a keyframe
\* waited (orphan). The worker draws into no framebuffer that
\* main() is about to swap; and the variables keep their types.
THEOREM N3dsReferencesAreThere ==
    N3dsInit /\ [][N3dsNext]_n3dsVars => [](N3dsTypeOK /\ SwapIsAlone) /\ ReferencesAreThere
<1>1. N3dsInit => PictureLineInv BY N3dsPicturesStart
<1>2. PictureLineInv /\ [N3dsNext]_n3dsVars => PictureLineInv' BY N3dsPicturesSteps
<1>3. PictureLineInv => N3dsTypeOK /\ SwapIsAlone BY DEF PictureLineInv, HandOK, SwapIsAlone
<1>4. PictureLineInv /\ [N3dsNext]_n3dsVars
      => [AcquireNext /\ n3dsTaken' # None /\ Predictive(n3dsTaken'.codec)
          /\ ~n3dsTaken'.key /\ ~n3dsTaken'.orphan
          => ~n3dsTaken'.gap /\ ~n3dsBroken]_n3dsVars
      BY N3dsPicturesSteps
<1> QED BY <1>1, <1>2, <1>3, <1>4, PTL DEF ReferencesAreThere

----------------------------------------------------------------------------
(* The station of the Wii U GamePad. *)

\* The types of the station's variables.
StationFlags ==
    /\ station \in BOOLEAN /\ hand \in BOOLEAN /\ hostLink \in BOOLEAN /\ spaced \in BOOLEAN
    /\ reconnect \in BOOLEAN /\ menuOpen \in BOOLEAN /\ inputLive \in BOOLEAN /\ last \in BOOLEAN

\* The counters are reached only where the session ends.
StationPlaces ==
    /\ life \in {"waiting", "settling", "connecting", "streaming", "ending", "joining", "over"}
    /\ quiet \in 0..QuietGiveUp /\ misses \in 0..MaxMisses
    /\ cycle \in {"none", "kicking", "waiting"}
    /\ life \in {"waiting", "settling", "connecting", "streaming"} =>
          quiet < QuietGiveUp /\ misses < MaxMisses

LEMMA StationTypes == StationFlags /\ StationPlaces => StationTypeOK
<1> SUFFICES ASSUME StationFlags, StationPlaces
             PROVE  StationTypeOK
  OBVIOUS
<1>1. {station, hand, hostLink, spaced, reconnect, menuOpen, inputLive, last} \subseteq BOOLEAN
  BY DEF StationFlags
<1> QED BY <1>1 DEF StationTypeOK, StationPlaces

\* The session's end waits for the recovery.
StationPromise == OverIsClean /\ (life = "joining" => cycle = "none")

LEMMA StationKeepsFlags == StationFlags /\ [StationNext]_stationVars => StationFlags'
<1> SUFFICES ASSUME StationFlags, [StationNext]_stationVars
             PROVE  StationFlags'
  OBVIOUS
<1> USE DEF StationFlags, stationLoop
<1>1. CASE FindStation \/ Settle \/ Silence \/ LostHost \/ JoinUnstick \/ JoinInput
  BY <1>1 DEF FindStation, Settle, Silence, LostHost, JoinUnstick, JoinInput
<1>2. ASSUME NEW ok \in BOOLEAN, ConnectHost(ok)
      PROVE  StationFlags'
  BY <1>2 DEF ConnectHost
<1>3. ASSUME NEW second \in BOOLEAN, Message(second)
      PROVE  StationFlags'
  <2>1. spaced' \in BOOLEAN
    BY <1>3 DEF Message, EverySecond
  <2>2. reconnect' \in BOOLEAN
    BY <1>3 DEF Message, EverySecond
  <2> QED BY <1>3, <2>1, <2>2 DEF Message
<1>4. CASE RecoveryThread
  <2>1. station' \in {FALSE, station}
    BY <1>4 DEF RecoveryThread, Kick, CycleEnds
  <2>2. UNCHANGED <<hand, hostLink, spaced, reconnect, menuOpen, inputLive, last>>
    BY <1>4 DEF RecoveryThread, Kick, CycleEnds
  <2> QED BY <2>1, <2>2
<1>5. ASSUME NEW tap \in Taps, InputPoll(tap)
      PROVE  StationFlags'
  <2>1. menuOpen' \in BOOLEAN
    BY <1>5 DEF InputPoll, Tap
  <2>2. reconnect' \in BOOLEAN
    BY <1>5 DEF InputPoll, Tap
  <2>3. last' \in BOOLEAN
    BY <1>5 DEF InputPoll, Filtered
  <2> QED BY <1>5, <2>1, <2>2, <2>3 DEF InputPoll
<1>6. CASE InputReturns
  BY <1>6 DEF InputReturns
<1>7. CASE PadMoves
  BY <1>7 DEF PadMoves
<1>8. CASE HostCloses
  BY <1>8 DEF HostCloses
<1>9. CASE TimePasses
  BY <1>9 DEF TimePasses
<1>10. CASE Signal \/ Restart
  BY <1>10 DEF Signal, Restart
<1>11. CASE UNCHANGED stationVars
  BY <1>11 DEF stationVars
<1> QED BY <1>1, <1>2, <1>3, <1>4, <1>5, <1>6, <1>7, <1>8, <1>9, <1>10, <1>11
        DEF StationNext, MainThread

LEMMA StationKeepsPlaces == StationPlaces /\ [StationNext]_stationVars => StationPlaces'
<1> SUFFICES ASSUME StationPlaces, [StationNext]_stationVars
             PROVE  StationPlaces'
  OBVIOUS
<1> USE StationAssumption DEF StationPlaces, stationLoop
<1>1. CASE FindStation \/ LostHost \/ JoinUnstick \/ JoinInput
  BY <1>1 DEF FindStation, LostHost, JoinUnstick, JoinInput
<1>2. CASE Settle \/ (\E ok \in BOOLEAN : ConnectHost(ok))
  <2>1. life \in {"settling", "connecting"} /\ life' \in {"connecting", "streaming", "over"}
        /\ UNCHANGED <<quiet, misses, cycle>>
    BY <1>2 DEF Settle, ConnectHost
  <2> QED BY <2>1
<1>3. CASE Silence
  BY <1>3 DEF Silence, GivesUp
<1>4. ASSUME NEW second \in BOOLEAN, Message(second)
      PROVE  StationPlaces'
  <2>1. life = "streaming" /\ quiet' = 0
    BY <1>4 DEF Message
  <2>2. cycle' \in {cycle, "kicking"}
    BY <1>4 DEF Message, EverySecond
  <2>3. \/ misses' = 0 /\ life' = life
        \/ misses' = misses /\ life' = life
        \/ misses' = misses + 1 /\ life' = IF misses + 1 >= MaxMisses THEN "ending" ELSE life
    BY <1>4 DEF Message, EverySecond
  <2> QED BY <2>1, <2>2, <2>3
<1>5. CASE RecoveryThread
  <2>1. cycle' \in {"waiting", "none"} /\ UNCHANGED <<life, quiet, misses>>
    BY <1>5 DEF RecoveryThread, Kick, CycleEnds
  <2> QED BY <2>1
<1>6. CASE (\E tap \in Taps : InputPoll(tap)) \/ InputReturns \/ PadMoves \/ HostCloses \/ TimePasses
  <2>1. UNCHANGED <<life, quiet, misses, cycle>>
    BY <1>6 DEF InputPoll, InputReturns, PadMoves, HostCloses, TimePasses
  <2> QED BY <2>1
<1>7. CASE Signal \/ Restart
  BY <1>7 DEF Signal, Restart
<1>8. CASE UNCHANGED stationVars
  BY <1>8 DEF stationVars
<1> QED BY <1>1, <1>2, <1>3, <1>4, <1>5, <1>6, <1>7, <1>8 DEF StationNext, MainThread

LEMMA StationKeepsPromise == StationPromise /\ [StationNext]_stationVars => StationPromise'
<1> SUFFICES ASSUME StationPromise, [StationNext]_stationVars
             PROVE  StationPromise'
  OBVIOUS
<1> USE DEF StationPromise, OverIsClean, unsticking, stationLoop
<1>1. CASE FindStation \/ Settle
  <2>1. /\ life \in {"waiting", "settling"} /\ life' # "joining"
        /\ UNCHANGED <<hostLink, inputLive, cycle, last>>
    BY <1>1 DEF FindStation, Settle
  <2> QED BY <2>1
<1>2. ASSUME NEW ok \in BOOLEAN, ConnectHost(ok)
      PROVE  StationPromise'
  <2>1. CASE ok
    BY <1>2, <2>1 DEF ConnectHost
  <2>2. CASE ~ok
    BY <1>2, <2>2 DEF ConnectHost
  <2> QED BY <2>1, <2>2
<1>3. CASE Silence \/ (\E second \in BOOLEAN : Message(second))
  <2>1. life' \in {"streaming", "ending"}
    BY <1>3 DEF Silence, Message, EverySecond
  <2> QED BY <2>1
<1>4. CASE LostHost
  BY <1>4 DEF LostHost
<1>5. CASE JoinUnstick
  BY <1>5 DEF JoinUnstick, KickJoined
<1>6. CASE JoinInput
  BY <1>6 DEF JoinInput
<1>7. CASE RecoveryThread
  <2>1. UNCHANGED <<life, hostLink, inputLive, last>> /\ cycle # "none"
    BY <1>7 DEF RecoveryThread, Kick, CycleEnds
  <2> QED BY <2>1
<1>8. CASE (\E tap \in Taps : InputPoll(tap)) \/ InputReturns \/ PadMoves \/ HostCloses \/ TimePasses
  BY <1>8 DEF InputPoll, InputReturns, PadMoves, HostCloses, TimePasses
<1>9. CASE Signal
  BY <1>9 DEF Signal
<1>10. CASE Restart
  BY <1>10 DEF Restart
<1>11. CASE UNCHANGED stationVars
  BY <1>11 DEF stationVars
<1> QED BY <1>1, <1>2, <1>3, <1>4, <1>5, <1>6, <1>7, <1>8, <1>9, <1>10, <1>11
        DEF StationNext, MainThread

\* What every step of the GamePad host's threads keeps of its station.
LEMMA StationInvariant == StationInit /\ [][StationNext]_stationVars => [](StationTypeOK /\ StationPromise)
<1>1. StationInit => StationFlags /\ StationPlaces /\ StationPromise
  <2> SUFFICES ASSUME StationInit
               PROVE  StationFlags /\ StationPlaces /\ StationPromise
    OBVIOUS
  <2>1. StationFlags
    BY DEF StationInit, StationFlags
  <2>2. StationPlaces
    BY StationAssumption DEF StationInit, StationPlaces
  <2>3. StationPromise
    BY DEF StationInit, StationPromise, OverIsClean, unsticking
  <2> QED BY <2>1, <2>2, <2>3
<1>2. StationFlags /\ StationPlaces /\ StationPromise /\ [StationNext]_stationVars
      => (StationFlags /\ StationPlaces /\ StationPromise)'
  BY StationKeepsFlags, StationKeepsPlaces, StationKeepsPromise
<1> QED BY <1>1, <1>2, StationTypes, PTL

\* Nothing of a session of the GamePad host runs on after its end: no recovery, no
\* thread that reads the pad, no button held.
THEOREM SessionsEndClean == StationInit /\ [][StationNext]_stationVars => []OverIsClean
BY StationInvariant, PTL DEF StationPromise

LEMMA KickIsAlone == [StationNext]_stationVars => [cycle = "waiting" => cycle' # "kicking"]_stationVars
<1> SUFFICES ASSUME [StationNext]_stationVars, cycle = "waiting", cycle' = "kicking"
             PROVE  FALSE
  BY DEF stationVars
<1> USE DEF stationLoop
<1>1. CASE \E second \in BOOLEAN : Message(second)
  <2>1. cycle' = cycle \/ MayKick(FALSE) \/ MayKick(TRUE)
    BY <1>1 DEF Message, EverySecond
  <2> QED BY <2>1 DEF MayKick, unsticking
<1>2. CASE FindStation \/ Settle \/ (\E ok \in BOOLEAN : ConnectHost(ok)) \/ Silence
           \/ LostHost \/ JoinUnstick \/ JoinInput
  BY <1>2 DEF FindStation, Settle, ConnectHost, Silence, LostHost, JoinUnstick, JoinInput
<1>3. CASE RecoveryThread \/ (\E tap \in Taps : InputPoll(tap)) \/ InputReturns
  BY <1>3 DEF RecoveryThread, Kick, CycleEnds, InputPoll, InputReturns
<1>4. CASE PadMoves \/ HostCloses \/ TimePasses \/ Signal \/ Restart \/ UNCHANGED stationVars
  BY <1>4 DEF PadMoves, HostCloses, TimePasses, Signal, Restart, stationVars
<1> QED BY <1>1, <1>2, <1>3, <1>4 DEF StationNext, MainThread

\* The GamePad host's recovery thread kicks the station once at a time.
THEOREM KicksAreAlone == StationInit /\ [][StationNext]_stationVars => RecoveryIsAlone
BY KickIsAlone, PTL DEF RecoveryIsAlone

----------------------------------------------------------------------------
(* The Android client: its pictures. *)

\* The types of the pictures' variables.
VideoFlags ==
    /\ reading \in BOOLEAN /\ surfaceReady \in BOOLEAN /\ posted \in BOOLEAN /\ pumping \in BOOLEAN
    /\ awaiting \in BOOLEAN /\ haunted \in BOOLEAN /\ keyFed \in BOOLEAN /\ blindly \in BOOLEAN
    /\ excused \in BOOLEAN
PumpPlaces == Frames \cup {"none", "loop", "build"}
VideoPlaces ==
    /\ pendingStream \in AndroidCodecs \cup {"none"} /\ currentVideo \in AndroidCodecs \cup {"none"}
    /\ infos \in 0..MaxInfos /\ pumps \in [Pumps -> PumpPlaces]
    /\ holder \in {"none", "current", "lost"} /\ readerHas \in Frames \cup {"none"}
FramesWait == frames \in Seq(Frames) /\ Len(frames) <= MaxFrames

LEMMA AndroidVideoTypes == VideoFlags /\ VideoPlaces /\ FramesWait => AndroidVideoTypeOK
<1> SUFFICES ASSUME VideoFlags, VideoPlaces, FramesWait
             PROVE  AndroidVideoTypeOK
  OBVIOUS
<1>1. {reading, surfaceReady, posted, pumping, awaiting, haunted, keyFed, blindly, excused}
         \subseteq BOOLEAN
  BY DEF VideoFlags
<1>2. {pendingStream, currentVideo} \subseteq AndroidCodecs \cup {"none"}
  BY DEF VideoPlaces
<1>3. Len(frames) <= MaxFrames /\ \A i \in DOMAIN frames : frames[i] \in Frames
  BY DEF FramesWait
<1> QED BY <1>1, <1>2, <1>3 DEF AndroidVideoTypeOK, VideoPlaces, PumpPlaces

\* Two pumps on one decoder are excused; a codec that takes frames and was fed no
\* keyframe has a pump that holds the one it was built from; and where there is no
\* decoder, there is nothing of one.
VideoPromise ==
    /\ ~excused => \A p, q \in Pumps : pumps[p] # "none" /\ pumps[q] # "none" => p = q
    /\ holder = "current" /\ ~awaiting /\ ~keyFed /\ ~excused => \E p \in Pumps : pumps[p] = "key"
    /\ currentVideo = "none" => readerHas = "none" /\ holder # "current" /\ \A p \in Pumps : pumps[p] = "none"
    /\ FedFromKey

\* What the main thread does to the decoder: nothing, a new one, or none.
LEMMA DecoderSteps ==
  ASSUME \/ \E coded \in AndroidCodecs, builds \in BOOLEAN : NewStream(coded, builds)
         \/ \E builds \in BOOLEAN : SurfaceAvailable(builds)
         \/ SurfaceDestroyed \/ Disconnected
         \/ \E soon, builds \in BOOLEAN : Retry(soon, builds),
         VideoPlaces
  PROVE  /\ UNCHANGED <<blindly, excused>>
         /\ \/ UNCHANGED <<codecVars, keyFed>>
            \/ /\ pumps' = [p \in Pumps |-> "none"] /\ readerHas' = "none" /\ pumping' = FALSE /\ frames' = <<>>
               /\ haunted' \in BOOLEAN
               /\ \/ /\ currentVideo' = "none" /\ holder' \in {"none", Freed} /\ UNCHANGED <<awaiting, keyFed>>
                  \/ /\ awaiting' = TRUE /\ keyFed' = FALSE
                     /\ \/ currentVideo' \in AndroidCodecs /\ holder' \in {"current", Freed}
                        \/ currentVideo' = "none" /\ holder' = Freed
            \/ /\ holder' = Freed /\ pumping' = FALSE /\ frames' = <<>>
               /\ UNCHANGED <<currentVideo, pumps, awaiting, readerHas, haunted, keyFed>>
<1> USE DEF feedHistory, streamVars
<1>0. ASSUME NEW coded \in AndroidCodecs, NEW builds \in BOOLEAN, StartVideo(coded, builds)
      PROVE  /\ pumps' = [p \in Pumps |-> "none"] /\ readerHas' = "none" /\ pumping' = FALSE /\ frames' = <<>>
             /\ haunted' \in BOOLEAN /\ awaiting' = TRUE /\ keyFed' = FALSE
             /\ \/ currentVideo' \in AndroidCodecs /\ holder' \in {"current", Freed}
                \/ currentVideo' = "none" /\ holder' = Freed
  <2>1. /\ pumps' = [p \in Pumps |-> "none"] /\ readerHas' = "none" /\ pumping' = FALSE /\ frames' = <<>>
        /\ awaiting' = TRUE /\ keyFed' = FALSE
    BY <1>0 DEF StartVideo, Told, Left, NewDecoder
  <2>2. haunted' \in BOOLEAN
    BY <1>0 DEF StartVideo, Left
  <2>3. CASE builds
    <3>1. currentVideo' \in AndroidCodecs /\ holder' = "current"
      BY <1>0, <2>3 DEF StartVideo, NewDecoder
    <3> QED BY <2>1, <2>2, <3>1
  <2>4. CASE ~builds
    <3>1. currentVideo' \in {coded, "none"} /\ holder' = Freed
      BY <1>0, <2>4 DEF StartVideo, NewDecoder
    <3> QED BY <2>1, <2>2, <3>1
  <2> QED BY <2>3, <2>4
<1>1. ASSUME NEW coded \in AndroidCodecs, NEW builds \in BOOLEAN, NewStream(coded, builds)
      PROVE  /\ UNCHANGED <<blindly, excused>>
             /\ StartVideo(coded, builds) \/ UNCHANGED <<codecVars, keyFed>>
  BY <1>1 DEF NewStream
<1>2. ASSUME NEW builds \in BOOLEAN, SurfaceAvailable(builds)
      PROVE  /\ UNCHANGED <<blindly, excused>>
             /\ (pendingStream \in AndroidCodecs /\ StartVideo(pendingStream, builds))
                \/ UNCHANGED <<codecVars, keyFed>>
  BY <1>2 DEF SurfaceAvailable, VideoPlaces
<1>3. CASE SurfaceDestroyed
  BY <1>3 DEF SurfaceDestroyed, Told
<1>4. CASE Disconnected
  <2>1. haunted' \in BOOLEAN
    BY <1>4 DEF Disconnected, Left
  <2> QED BY <1>4, <2>1 DEF Disconnected, Told, Left
<1>5. ASSUME NEW soon \in BOOLEAN, NEW builds \in BOOLEAN, Retry(soon, builds)
      PROVE  /\ UNCHANGED <<blindly, excused>>
             /\ \/ pendingStream \in AndroidCodecs /\ StartVideo(pendingStream, builds)
                \/ UNCHANGED <<codecVars, keyFed>>
                \/ /\ holder' = Freed /\ pumping' = FALSE /\ frames' = <<>>
                   /\ UNCHANGED <<currentVideo, pumps, awaiting, readerHas, haunted, keyFed>>
  BY <1>5 DEF Retry, VideoPlaces, Told
<1>6. ASSUME NEW builds \in BOOLEAN, pendingStream \in AndroidCodecs, StartVideo(pendingStream, builds)
      PROVE  /\ pumps' = [p \in Pumps |-> "none"] /\ readerHas' = "none" /\ pumping' = FALSE /\ frames' = <<>>
             /\ haunted' \in BOOLEAN /\ awaiting' = TRUE /\ keyFed' = FALSE
             /\ \/ currentVideo' \in AndroidCodecs /\ holder' \in {"current", Freed}
                \/ currentVideo' = "none" /\ holder' = Freed
  <2>1. PICK coded \in AndroidCodecs : coded = pendingStream
    BY <1>6
  <2>2. StartVideo(coded, builds)
    BY <1>6, <2>1
  <2> QED BY <1>0, <2>2
<1> QED BY <1>0, <1>1, <1>2, <1>3, <1>4, <1>5, <1>6

MainVideo ==
    \/ \E coded \in AndroidCodecs, builds \in BOOLEAN : NewStream(coded, builds)
    \/ \E builds \in BOOLEAN : SurfaceAvailable(builds)
    \/ SurfaceDestroyed \/ Disconnected
    \/ \E soon, builds \in BOOLEAN : Retry(soon, builds)

LEMMA VideoKeepsFlags ==
  ASSUME VideoFlags, VideoPlaces, [AndroidVideoNext]_androidVideoVars
  PROVE  VideoFlags'
<1> USE DEF VideoFlags, streamVars, feedHistory
<1>1. CASE MainVideo
  <2>1. UNCHANGED <<blindly, excused>> /\ keyFed' \in {keyFed, FALSE} /\ awaiting' \in {awaiting, TRUE}
        /\ pumping' \in {pumping, FALSE}
    BY <1>1, DecoderSteps DEF MainVideo, codecVars
  <2>3. haunted' = haunted \/ haunted' \in BOOLEAN
    BY <1>1, DecoderSteps DEF MainVideo, codecVars
  <2>4. haunted' \in BOOLEAN
    BY <2>3
  <2>2. reading' \in {reading, TRUE, FALSE} /\ surfaceReady' \in {surfaceReady, TRUE, FALSE}
        /\ posted' \in {posted, FALSE}
    BY <1>1 DEF MainVideo, NewStream, SurfaceAvailable, SurfaceDestroyed, Disconnected, Retry
  <2> QED BY <2>1, <2>2, <2>4
<1>2. ASSUME NEW frame \in Frames, Reads(frame)
      PROVE  VideoFlags'
  BY <1>2 DEF Reads
<1>3. CASE Gives
  <2>1. excused' \in BOOLEAN
    BY <1>3 DEF Gives
  <2>2. pumping' = TRUE /\ UNCHANGED <<reading, surfaceReady, posted, awaiting, haunted, keyFed, blindly>>
    BY <1>3 DEF Gives
  <2> QED BY <2>1, <2>2
<1>4. ASSUME NEW p \in Pumps, PumpTakes(p) \/ PumpLooks(p)
      PROVE  VideoFlags'
  BY <1>4 DEF PumpTakes, PumpLooks
<1>5. ASSUME NEW p \in Pumps, NEW builds \in BOOLEAN, PumpBuilds(p, builds)
      PROVE  VideoFlags'
  <2>1. awaiting' \in BOOLEAN /\ keyFed' \in BOOLEAN
    BY <1>5 DEF PumpBuilds
  <2>2. UNCHANGED <<reading, surfaceReady, posted, pumping, haunted, blindly, excused>>
    BY <1>5 DEF PumpBuilds
  <2> QED BY <2>1, <2>2
<1>6. ASSUME NEW p \in Pumps, NEW outcome \in {"fed", "busy", "dies"}, PumpFeeds(p, outcome)
      PROVE  VideoFlags'
  <2>1. UNCHANGED <<reading, surfaceReady, posted, haunted>> /\ awaiting' \in {awaiting, FALSE}
        /\ pumping' \in {pumping, FALSE}
    BY <1>6 DEF PumpFeeds, Told
  <2>2. keyFed' \in BOOLEAN
    BY <1>6 DEF PumpFeeds
  <2>3. blindly' \in BOOLEAN
    BY <1>6 DEF PumpFeeds
  <2>4. excused' \in BOOLEAN
    BY <1>6 DEF PumpFeeds
  <2> QED BY <2>1, <2>2, <2>3, <2>4
<1>7. CASE RetiredBuilds
  BY <1>7 DEF RetiredBuilds
<1>8. CASE UNCHANGED androidVideoVars
  BY <1>8 DEF androidVideoVars
<1> QED BY <1>1, <1>2, <1>3, <1>4, <1>5, <1>6, <1>7, <1>8 DEF AndroidVideoNext, PumpNext, MainVideo

\* What the pumps and the reader do.
LEMMA PumpStarts ==
  ASSUME VideoPlaces, StartPump
  PROVE  \/ pumps' = pumps
         \/ /\ ~pumping
            /\ \E p \in Pumps : pumps[p] = "none" /\ pumps' = [pumps EXCEPT ![p] = "loop"]
<1> DEFINE p == CHOOSE p \in Pumps : pumps[p] = "none"
<1>1. CASE pumping \/ \A q \in Pumps : pumps[q] # "none"
  BY <1>1 DEF StartPump
<1>2. CASE ~pumping /\ \E q \in Pumps : pumps[q] = "none"
  <2>1. p \in Pumps /\ pumps[p] = "none"
    BY <1>2
  <2>2. pumps' = [pumps EXCEPT ![p] = "loop"]
    BY <1>2 DEF StartPump
  <2> QED BY <1>2, <2>1, <2>2
<1> QED BY <1>1, <1>2

LEMMA VideoKeepsPlaces ==
  ASSUME VideoPlaces, FramesWait, [AndroidVideoNext]_androidVideoVars
  PROVE  VideoPlaces'
<1> USE AndroidVideoAssumption DEF VideoPlaces, streamVars, PumpPlaces
<1>1. CASE MainVideo
  <2>1. /\ pendingStream' \in AndroidCodecs \cup {"none"}
        /\ infos' = infos \/ (infos < MaxInfos /\ infos' = infos + 1)
    BY <1>1 DEF MainVideo, NewStream, SurfaceAvailable, SurfaceDestroyed, Disconnected, Retry
  <2>2. Freed \in {"none", "current", "lost"}
    BY DEF Freed
  <2>3. /\ currentVideo' \in AndroidCodecs \cup {"none"} /\ holder' \in {holder, "none", Freed, "current"}
        /\ pumps' \in {pumps, [p \in Pumps |-> "none"]} /\ readerHas' \in {readerHas, "none"}
    BY <1>1, DecoderSteps DEF MainVideo, codecVars
  <2> QED BY <2>1, <2>2, <2>3
<1>2. ASSUME NEW frame \in Frames, Reads(frame)
      PROVE  VideoPlaces'
  BY <1>2 DEF Reads
<1>3. CASE Gives
  <2>1. pumps' = pumps \/ \E p \in Pumps : pumps' = [pumps EXCEPT ![p] = "loop"]
    BY <1>3, PumpStarts DEF Gives
  <2>2. readerHas' = "none" /\ UNCHANGED <<pendingStream, infos, currentVideo, holder>>
    BY <1>3 DEF Gives
  <2> QED BY <2>1, <2>2
<1>4. ASSUME NEW p \in Pumps, PumpTakes(p) \/ PumpLooks(p)
      PROVE  VideoPlaces'
  <2>1. frames # <<>> => Head(frames) \in Frames
    BY DEF FramesWait
  <2>2. /\ UNCHANGED <<pendingStream, infos, currentVideo, holder, readerHas>>
        /\ \E to \in PumpPlaces : pumps' = [pumps EXCEPT ![p] = to]
    BY <1>4, <2>1 DEF PumpTakes, PumpLooks, At
  <2> QED BY <2>2
<1>5. ASSUME NEW p \in Pumps, NEW builds \in BOOLEAN, PumpBuilds(p, builds)
      PROVE  VideoPlaces'
  <2>1. /\ UNCHANGED <<pendingStream, infos, currentVideo, readerHas>> /\ holder' \in {holder, "current", "lost"}
        /\ \E to \in PumpPlaces : pumps' = [pumps EXCEPT ![p] = to]
    BY <1>5 DEF PumpBuilds, At, Frames
  <2> QED BY <2>1
<1>6. ASSUME NEW p \in Pumps, NEW outcome \in {"fed", "busy", "dies"}, PumpFeeds(p, outcome)
      PROVE  VideoPlaces'
  <2>1. /\ UNCHANGED <<pendingStream, infos, currentVideo, readerHas>> /\ holder' \in {holder, Freed}
        /\ pumps' = [pumps EXCEPT ![p] = "loop"]
    BY <1>6 DEF PumpFeeds, At
  <2> QED BY <2>1 DEF Freed
<1>7. CASE RetiredBuilds
  <2>1. /\ UNCHANGED <<pendingStream, infos, currentVideo, readerHas, pumps>>
        /\ holder' \in {holder, "none", "lost"}
    BY <1>7 DEF RetiredBuilds
  <2> QED BY <2>1
<1>8. CASE UNCHANGED androidVideoVars
  BY <1>8 DEF androidVideoVars
<1> QED BY <1>1, <1>2, <1>3, <1>4, <1>5, <1>6, <1>7, <1>8 DEF AndroidVideoNext, PumpNext, MainVideo

LEMMA VideoKeepsFrames ==
  ASSUME VideoPlaces, FramesWait, [AndroidVideoNext]_androidVideoVars
  PROVE  FramesWait'
<1> USE AndroidVideoAssumption DEF FramesWait
<1>0. <<>> \in Seq(Frames) /\ Len(<<>>) <= MaxFrames
  OBVIOUS
<1>1. CASE frames' = frames \/ frames' = <<>>
  BY <1>0, <1>1
<1>2. CASE frames # <<>> /\ frames' = Tail(frames)
  BY <1>2
<1>3. CASE frames' = OfferedFrame /\ readerHas # "none"
  <2>1. readerHas \in Frames /\ "key" \in Frames
    BY <1>3 DEF VideoPlaces, Frames
  <2>2. CASE Len(frames) < MaxFrames
    BY <1>3, <2>1, <2>2 DEF OfferedFrame
  <2>3. CASE ~(Len(frames) < MaxFrames) /\ readerHas = "key"
    <3>1. frames # <<>>
      BY <2>3
    <3>2. Tail(frames) \in Seq(Frames) /\ Len(Tail(frames)) = Len(frames) - 1
      BY <3>1
    <3>3. frames' = Append(Tail(frames), "key")
      BY <1>3, <2>3 DEF OfferedFrame
    <3> QED BY <2>1, <3>2, <3>3
  <2>4. CASE ~(Len(frames) < MaxFrames) /\ readerHas # "key"
    BY <1>3, <2>4 DEF OfferedFrame
  <2> QED BY <2>2, <2>3, <2>4
<1>4. CASE MainVideo
  <2>1. frames' = frames \/ frames' = <<>>
    BY <1>4, DecoderSteps DEF MainVideo, codecVars
  <2> QED BY <1>1, <2>1
<1>5. CASE Gives
  BY <1>3, <1>5 DEF Gives
<1>6. ASSUME NEW p \in Pumps, PumpTakes(p) \/ PumpLooks(p)
      PROVE  FramesWait'
  <2>1. frames' = frames \/ (frames # <<>> /\ frames' = Tail(frames))
    BY <1>6 DEF PumpTakes, PumpLooks
  <2> QED BY <1>1, <1>2, <2>1
<1>7. CASE \/ \E frame \in Frames : Reads(frame)
           \/ \E p \in Pumps, builds \in BOOLEAN : PumpBuilds(p, builds)
           \/ \E p \in Pumps, outcome \in {"fed", "busy", "dies"} : PumpFeeds(p, outcome)
           \/ RetiredBuilds \/ UNCHANGED androidVideoVars
  <2>1. frames' = frames \/ frames' = <<>>
    BY <1>7 DEF Reads, PumpBuilds, PumpFeeds, Told, RetiredBuilds, androidVideoVars
  <2> QED BY <1>1, <2>1
<1> QED BY <1>4, <1>5, <1>6, <1>7 DEF AndroidVideoNext, PumpNext, MainVideo

\* At most one pump runs.
Alone == \A p, q \in Pumps : pumps[p] # "none" /\ pumps[q] # "none" => p = q
\* The decoder there is takes frames and was given no keyframe.
Unfed == holder = "current" /\ ~awaiting /\ ~keyFed /\ ~excused

LEMMA VideoKeepsPromise ==
  ASSUME VideoPlaces, FramesWait, VideoPromise, [AndroidVideoNext]_androidVideoVars
  PROVE  VideoPromise'
<1> USE DEF streamVars, feedHistory
<1>0. /\ ~excused => Alone
      /\ Unfed => \E p \in Pumps : pumps[p] = "key"
      /\ currentVideo = "none" => readerHas = "none" /\ holder # "current" /\ \A p \in Pumps : pumps[p] = "none"
      /\ blindly => excused
      /\ pumps \in [Pumps -> PumpPlaces]
  BY DEF VideoPromise, Alone, Unfed, FedFromKey, VideoPlaces
<1>q. /\ ~excused' => Alone'
      /\ Unfed' => \E p \in Pumps : pumps'[p] = "key"
      /\ currentVideo' = "none" => readerHas' = "none" /\ holder' # "current" /\ \A p \in Pumps : pumps'[p] = "none"
      /\ blindly' => excused'
      => VideoPromise'
  BY DEF VideoPromise, Alone, Unfed, FedFromKey
<1>1. CASE MainVideo
  <2>1. /\ UNCHANGED <<blindly, excused>>
        /\ \/ UNCHANGED <<codecVars, keyFed>>
           \/ /\ pumps' = [p \in Pumps |-> "none"] /\ readerHas' = "none" /\ pumping' = FALSE /\ frames' = <<>>
              /\ haunted' \in BOOLEAN
              /\ \/ /\ currentVideo' = "none" /\ holder' \in {"none", Freed} /\ UNCHANGED <<awaiting, keyFed>>
                 \/ /\ awaiting' = TRUE /\ keyFed' = FALSE
                    /\ \/ currentVideo' \in AndroidCodecs /\ holder' \in {"current", Freed}
                       \/ currentVideo' = "none" /\ holder' = Freed
           \/ /\ holder' = Freed /\ pumping' = FALSE /\ frames' = <<>>
              /\ UNCHANGED <<currentVideo, pumps, awaiting, readerHas, haunted, keyFed>>
    BY <1>1, DecoderSteps DEF MainVideo
  <2>2. Freed # "current" /\ "none" \notin AndroidCodecs
    BY DEF Freed, AndroidCodecs
  <2>3. CASE UNCHANGED <<codecVars, keyFed>>
    BY <1>0, <1>q, <2>1, <2>3 DEF codecVars, Alone, Unfed
  <2>4. CASE /\ pumps' = [p \in Pumps |-> "none"] /\ readerHas' = "none"
             /\ \/ holder' \in {"none", Freed}
                \/ awaiting' = TRUE /\ currentVideo' \in AndroidCodecs
    <3>1. Alone' /\ \A p \in Pumps : pumps'[p] = "none"
      BY <2>4 DEF Alone
    <3>2. ~Unfed'
      BY <2>2, <2>4 DEF Unfed
    <3>3. currentVideo' = "none" => holder' # "current"
      BY <2>2, <2>4
    <3>4. blindly' => excused'
      BY <1>0, <2>1
    <3> QED BY <1>q, <2>4, <3>1, <3>2, <3>3, <3>4
  <2>5. CASE holder' = Freed /\ UNCHANGED <<currentVideo, pumps, readerHas>>
    BY <1>0, <1>q, <2>1, <2>2, <2>5 DEF Alone, Unfed
  <2> QED BY <2>1, <2>3, <2>4, <2>5
<1>2. ASSUME NEW frame \in Frames, Reads(frame)
      PROVE  VideoPromise'
  <2>1. /\ UNCHANGED <<currentVideo, pumps, awaiting, holder, keyFed, blindly, excused>>
        /\ currentVideo = "none" => readerHas' = readerHas
    BY <1>2 DEF Reads
  <2> QED BY <1>0, <1>q, <2>1 DEF Alone, Unfed
<1>3. CASE Gives
  <2>1. /\ UNCHANGED <<currentVideo, awaiting, holder, keyFed, blindly>> /\ readerHas' = "none"
        /\ currentVideo # "none"
    BY <1>0, <1>3 DEF Gives
  <2>2. /\ excused => excused'
        /\ ~excused' => pumping \/ \A p \in Pumps : pumps[p] = "none"
    BY <1>3 DEF Gives
  <2>3. \/ pumps' = pumps
        \/ ~pumping /\ \E p \in Pumps : pumps[p] = "none" /\ pumps' = [pumps EXCEPT ![p] = "loop"]
    BY <1>3, PumpStarts DEF Gives
  <2>4. CASE pumps' = pumps
    BY <1>0, <1>q, <2>1, <2>2, <2>4 DEF Alone, Unfed
  <2>5. ASSUME ~pumping, NEW p \in Pumps, pumps[p] = "none", pumps' = [pumps EXCEPT ![p] = "loop"]
        PROVE  VideoPromise'
    <3>1. \A q \in Pumps : pumps'[q] = IF q = p THEN "loop" ELSE pumps[q]
      BY <1>0, <2>5
    <3>2. ~excused' => Alone'
      BY <2>2, <2>5, <3>1 DEF Alone
    <3>3. Unfed' => \E q \in Pumps : pumps'[q] = "key"
      <4>1. Unfed' => Unfed /\ \A q \in Pumps : pumps[q] = "none"
        BY <2>1, <2>2, <2>5 DEF Unfed
      <4> QED BY <1>0, <4>1
    <3>4. blindly' => excused'
      BY <1>0, <2>1, <2>2
    <3> QED BY <1>q, <2>1, <3>2, <3>3, <3>4
  <2> QED BY <2>3, <2>4, <2>5
\* What one pump does.
<1>4. ASSUME NEW p \in Pumps, NEW to \in PumpPlaces, pumps[p] # "none",
             pumps' = [pumps EXCEPT ![p] = to], currentVideo' = currentVideo,
             excused => excused', blindly' => blindly \/ excused',
             Unfed' => \/ to = "key"
                       \/ Unfed /\ pumps[p] # "key"
      PROVE  VideoPromise'
  <2>1. \A q \in Pumps : pumps'[q] = IF q = p THEN to ELSE pumps[q]
    BY <1>0, <1>4
  <2>2. ~excused' => Alone'
    BY <1>0, <1>4, <2>1 DEF Alone
  <2>3. Unfed' => \E q \in Pumps : pumps'[q] = "key"
    <3>1. CASE to = "key"
      BY <1>4, <2>1, <3>1
    <3>2. CASE Unfed /\ pumps[p] # "key"
      <4>1. Alone /\ \E q \in Pumps : pumps[q] = "key"
        BY <1>0, <3>2 DEF Unfed
      <4> QED BY <1>4, <3>2, <4>1 DEF Alone
    <3> QED BY <1>4, <3>1, <3>2
  <2>4. currentVideo' # "none"
    BY <1>0, <1>4
  <2>5. blindly' => excused'
    BY <1>0, <1>4
  <2> QED BY <1>q, <2>2, <2>3, <2>4, <2>5
<1>5. ASSUME NEW p \in Pumps, PumpTakes(p)
      PROVE  VideoPromise'
  <2>1. /\ pumps[p] = "loop" /\ UNCHANGED <<currentVideo, awaiting, holder, keyFed, blindly, excused>>
        /\ \E to : pumps' = [pumps EXCEPT ![p] = to]
    BY <1>5 DEF PumpTakes, At
  <2>2. PICK to : pumps' = [pumps EXCEPT ![p] = to]
    BY <2>1
  <2>3. to \in PumpPlaces
    <3>1. VideoPlaces'
      BY <1>5, VideoKeepsPlaces DEF AndroidVideoNext, PumpNext
    <3> QED BY <1>0, <2>2, <3>1 DEF VideoPlaces
  <2> QED BY <1>4, <2>1, <2>2, <2>3 DEF Unfed
<1>6. ASSUME NEW p \in Pumps, PumpLooks(p)
      PROVE  VideoPromise'
  <2>1. /\ pumps[p] # "none" /\ holder # "current"
        /\ UNCHANGED <<currentVideo, awaiting, holder, keyFed, blindly, excused>>
        /\ \E to \in {"build", "loop"} : pumps' = [pumps EXCEPT ![p] = to]
    BY <1>6 DEF PumpLooks, At, Frames
  <2>2. {"build", "loop"} \subseteq PumpPlaces
    BY DEF PumpPlaces
  <2> QED BY <1>4, <2>1, <2>2 DEF Unfed
<1>7. ASSUME NEW p \in Pumps, NEW builds \in BOOLEAN, PumpBuilds(p, builds)
      PROVE  VideoPromise'
  <2>1. pumps[p] = "build" /\ UNCHANGED <<currentVideo, blindly, excused>> /\ "key" \in PumpPlaces /\ "loop" \in PumpPlaces
    BY <1>7 DEF PumpBuilds, PumpPlaces, Frames
  <2>2. CASE builds
    <3>1. pumps' = [pumps EXCEPT ![p] = "key"]
      BY <1>7, <2>2 DEF PumpBuilds, At
    <3> QED BY <1>4, <2>1, <3>1
  <2>3. CASE ~builds
    <3>1. pumps' = [pumps EXCEPT ![p] = "loop"] /\ holder' # "current"
      BY <1>7, <2>3 DEF PumpBuilds, At
    <3> QED BY <1>4, <2>1, <3>1 DEF Unfed
  <2> QED BY <2>2, <2>3
<1>8. ASSUME NEW p \in Pumps, NEW outcome \in {"fed", "busy", "dies"}, PumpFeeds(p, outcome)
      PROVE  VideoPromise'
  <2>1. /\ pumps[p] \in Frames /\ pumps[p] # "none" /\ holder = "current" /\ currentVideo' = currentVideo
        /\ pumps' = [pumps EXCEPT ![p] = "loop"] /\ "loop" \in PumpPlaces
    BY <1>8 DEF PumpFeeds, At, Frames, PumpPlaces
  <2>2. excused => excused'
    BY <1>8 DEF PumpFeeds
  <2>3. Unfed' => Unfed \/ pumps[p] = "delta"
    BY <1>8 DEF PumpFeeds, Unfed, Frames
  <2>4. CASE pumps[p] = "key"
    <3>1. Unfed' => FALSE
      BY <1>8, <2>4 DEF PumpFeeds, Unfed
    <3>2. blindly' => blindly
      BY <1>8, <2>4 DEF PumpFeeds
    <3> QED BY <1>4, <2>1, <2>2, <3>1, <3>2
  <2>5. CASE pumps[p] = "delta"
    <3>1. awaiting \/ ~Unfed
      <4>1. Unfed => Alone /\ \E q \in Pumps : pumps[q] = "key"
        BY <1>0 DEF Unfed
      <4> QED BY <2>5, <4>1 DEF Alone
    <3>2. Unfed' => Unfed
      BY <1>8, <2>5, <3>1 DEF PumpFeeds, Unfed
    <3>3. blindly' => blindly \/ excused'
      BY <1>8, <2>1, <2>5, <3>1 DEF PumpFeeds, Unfed
    <3>4. pumps[p] # "key"
      BY <2>5
    <3> QED BY <1>4, <2>1, <2>2, <3>2, <3>3, <3>4
  <2> QED BY <2>1, <2>4, <2>5 DEF Frames
<1>9. CASE RetiredBuilds
  <2>1. /\ UNCHANGED <<currentVideo, pumps, awaiting, readerHas, keyFed, blindly, excused>>
        /\ holder' = "current" => holder = "current"
    BY <1>9 DEF RetiredBuilds
  <2> QED BY <1>0, <1>q, <2>1 DEF Alone, Unfed
<1>10. CASE UNCHANGED androidVideoVars
  BY <1>0, <1>q, <1>10 DEF androidVideoVars, Alone, Unfed
<1> QED BY <1>1, <1>2, <1>3, <1>5, <1>6, <1>7, <1>8, <1>9, <1>10
        DEF AndroidVideoNext, PumpNext, MainVideo

VideoInv == VideoFlags /\ VideoPlaces /\ FramesWait /\ VideoPromise

LEMMA AndroidVideoSteps == VideoInv /\ [AndroidVideoNext]_androidVideoVars => VideoInv'
BY VideoKeepsFlags, VideoKeepsPlaces, VideoKeepsFrames, VideoKeepsPromise DEF VideoInv

LEMMA AndroidVideoStarts == AndroidVideoInit => VideoInv
<1> SUFFICES ASSUME AndroidVideoInit
             PROVE  VideoInv
  OBVIOUS
<1> USE AndroidVideoAssumption
<1>1. VideoFlags
  BY DEF AndroidVideoInit, VideoFlags
<1>2. VideoPlaces
  BY DEF AndroidVideoInit, VideoPlaces, PumpPlaces
<1>3. FramesWait
  BY DEF AndroidVideoInit, FramesWait
<1>4. VideoPromise
  BY DEF AndroidVideoInit, VideoPromise, FedFromKey
<1> QED BY <1>1, <1>2, <1>3, <1>4 DEF VideoInv

\* What every step of the Android client's threads keeps of its pictures.
LEMMA AndroidVideoInvariant == AndroidVideoSpec => []VideoInv
BY AndroidVideoStarts, AndroidVideoSteps, PTL DEF AndroidVideoSpec

LEMMA VideoIsTrue == VideoInv => AndroidVideoTypeOK /\ FedFromKey /\ RetiredIsQuiet
BY AndroidVideoTypes DEF VideoInv, VideoPromise, RetiredIsQuiet

\* The Android client's decoder is fed from a keyframe on, but where a keyframe was
\* lost on its way into the codec or two pumps fed one decoder; and no pump of a
\* decoder that is gone takes its frames.
THEOREM AndroidFeedsFromKey == AndroidVideoSpec => [](FedFromKey /\ RetiredIsQuiet)
BY AndroidVideoInvariant, VideoIsTrue, PTL

----------------------------------------------------------------------------
(* The Android client: its connections and what it shows of them. *)

\* The types of the connections' variables.
AndroidFlags ==
    /\ connectPanel \in BOOLEAN /\ settingsMenu \in BOOLEAN /\ padShown \in BOOLEAN
    /\ loggingIn \in BOOLEAN /\ overtaken \in BOOLEAN
AndroidPlaces ==
    /\ generation \in 0..MaxConnects /\ client \in 0..MaxConnects
    /\ streamOf \in 0..MaxConnects /\ roleOf \in 0..MaxConnects
    /\ reader \in [Connections ->
          {"none", "dialing", "open", "greeted", "granting", "reading", "done"}]
    /\ first \in [Connections -> {"nothing", "hello", "frame"}]
Flags == [running : BOOLEAN, failed : BOOLEAN, asked : BOOLEAN]
AndroidLinks == links \in [Connections -> Flags]
Post == ({"ack", "info", "closed"} \X Connections) \cup ({"login", "refused"} \X {0})
AndroidPosts == posts \in Seq(Post) /\ Len(posts) <= MaxPosts

LEMMA AndroidLinkTypes ==
  AndroidFlags /\ AndroidPlaces /\ AndroidLinks /\ AndroidPosts => AndroidLinkTypeOK
<1> SUFFICES ASSUME AndroidFlags, AndroidPlaces, AndroidLinks, AndroidPosts
             PROVE  AndroidLinkTypeOK
  OBVIOUS
<1>1. {connectPanel, settingsMenu, padShown, loggingIn, overtaken} \subseteq BOOLEAN
  BY DEF AndroidFlags
<1>2. {generation, client, streamOf, roleOf} \subseteq 0..MaxConnects
  BY DEF AndroidPlaces
<1>3. Len(posts) <= MaxPosts /\ \A i \in DOMAIN posts : posts[i] \in Post
  BY DEF AndroidPosts
<1> QED BY <1>1, <1>2, <1>3
        DEF AndroidLinkTypeOK, AndroidPlaces, AndroidLinks, Post, Flags

\* The steps, each with what it leaves alone.
LEMMA OpensOrNot ==
  ASSUME NEW base, NEW direct \in BOOLEAN, Connecting(base, direct)
  PROVE  /\ generation < MaxConnects /\ generation' = generation + 1
         /\ connectPanel' = ~direct /\ padShown' = direct /\ first' = first
         /\ \/ /\ direct /\ client' = generation + 1
               /\ reader' = [reader EXCEPT ![generation + 1] = "dialing"]
               /\ links' = [base EXCEPT ![generation + 1] =
                               [running |-> TRUE, failed |-> FALSE, asked |-> FALSE]]
               /\ overtaken' = (overtaken \/ \E c \in Connections : reader[c] = "granting")
            \/ ~direct /\ UNCHANGED <<client, reader, overtaken>> /\ links' = base
BY DEF Connecting, OpenNext, NoPath

\* The screens.
LEMMA AndroidKeepsFlags ==
  ASSUME AndroidFlags, PadIsThere, [AndroidLinkNext]_androidLinkVars
  PROVE  AndroidFlags' /\ PadIsThere'
<1> USE DEF AndroidFlags, PadIsThere, screens, linkMain, connections
<1>0. ASSUME NEW base, NEW direct \in BOOLEAN, Connecting(base, direct)
      PROVE  connectPanel' = ~direct /\ padShown' = direct /\ overtaken' \in BOOLEAN
  <2>1. connectPanel' = ~direct /\ padShown' = direct
    BY <1>0, OpensOrNot
  <2>2. overtaken' \in BOOLEAN
    BY <1>0, OpensOrNot
  <2> QED BY <2>1, <2>2
<1>1. ASSUME NEW direct \in BOOLEAN, PressConnect(direct)
      PROVE  AndroidFlags' /\ PadIsThere'
  BY <1>1, <1>0 DEF PressConnect
<1>2. ASSUME NEW direct \in BOOLEAN, MenuReconnects(direct)
      PROVE  AndroidFlags' /\ PadIsThere'
  BY <1>2, <1>0 DEF MenuReconnects
<1>3. CASE OpenMenu
  BY <1>3 DEF OpenMenu
<1>4. CASE CloseMenu
  BY <1>4 DEF CloseMenu, PadBack
<1>5. CASE MenuDisconnects
  BY <1>5 DEF MenuDisconnects, PadBack
<1>6. CASE MenuLogsIn \/ (\E accepted \in BOOLEAN : LoginAnswers(accepted))
  <2>1. UNCHANGED <<connectPanel, settingsMenu, padShown, overtaken>>
    BY <1>6 DEF MenuLogsIn, LoginAnswers
  <2>2. loggingIn' \in {TRUE, FALSE}
    BY <1>6 DEF MenuLogsIn, LoginAnswers
  <2> QED BY <2>1, <2>2
<1>7. CASE HandlePost
  <2>1. \/ UNCHANGED <<connectPanel, padShown, settingsMenu, overtaken>>
        \/ connectPanel' = TRUE /\ padShown' = (connectPanel /\ padShown)
           /\ UNCHANGED <<settingsMenu, overtaken>>
        \/ settingsMenu' = FALSE /\ Connecting(Closed, TRUE)
    BY <1>7 DEF HandlePost
  <2>2. loggingIn' = loggingIn
    BY <1>7 DEF HandlePost
  <2>3. CASE settingsMenu' = FALSE /\ Connecting(Closed, TRUE)
    BY <1>0, <2>2, <2>3
  <2>4. CASE UNCHANGED <<connectPanel, padShown, settingsMenu, overtaken>>
    BY <2>2, <2>4
  <2>5. CASE /\ connectPanel' = TRUE /\ padShown' = (connectPanel /\ padShown)
             /\ UNCHANGED <<settingsMenu, overtaken>>
    <3>1. padShown' = FALSE
      BY <2>5
    <3> QED BY <2>2, <2>5, <3>1
  <2> QED BY <2>1, <2>3, <2>4, <2>5
<1>8. ASSUME NEW c \in Connections, Informs(c)
      PROVE  AndroidFlags' /\ PadIsThere'
  <2>1. overtaken' \in BOOLEAN
    BY <1>8 DEF Informs
  <2> QED BY <1>8, <2>1 DEF Informs
<1>9. ASSUME NEW c \in Connections, ReaderNext(c) \/ SendsEarly(c) \/ SendFails(c)
      PROVE  AndroidFlags' /\ PadIsThere'
  BY <1>9 DEF ReaderNext, Dials, Greets, Acked, Grants, Ends, SendsEarly, SendFails
<1>10. CASE UNCHANGED androidLinkVars
  BY <1>10 DEF androidLinkVars
<1> QED BY <1>1, <1>2, <1>3, <1>4, <1>5, <1>6, <1>7, <1>8, <1>9, <1>10 DEF AndroidLinkNext

\* The posts: at most one is added or taken.
PostSteps ==
    \/ posts' = posts
    \/ posts # <<>> /\ posts' = Tail(posts)
    \/ \E p \in Post : posts' = Append(posts, p) /\ Len(posts) < MaxPosts

LEMMA AndroidPostSteps == [AndroidLinkNext]_androidLinkVars => PostSteps
<1> SUFFICES ASSUME [AndroidLinkNext]_androidLinkVars
             PROVE  PostSteps
  OBVIOUS
<1> USE DEF connections, linkMain, screens
<1>1. CASE \/ \E direct \in BOOLEAN : PressConnect(direct) \/ MenuReconnects(direct)
           \/ OpenMenu \/ CloseMenu \/ MenuDisconnects \/ MenuLogsIn \/ UNCHANGED androidLinkVars
  BY <1>1 DEF PressConnect, MenuReconnects, OpenMenu, CloseMenu, MenuDisconnects, MenuLogsIn,
              androidLinkVars, PostSteps
<1>2. ASSUME NEW accepted \in BOOLEAN, LoginAnswers(accepted)
      PROVE  PostSteps
  <2>1. PICK w \in {"login", "refused"} : Posted(w, 0)
    BY <1>2 DEF LoginAnswers
  <2>2. <<w, 0>> \in Post
    BY DEF Post
  <2> QED BY <2>1, <2>2 DEF Posted, PostSteps
<1>3. CASE HandlePost
  BY <1>3 DEF HandlePost, PostSteps
<1>4. ASSUME NEW c \in Connections,
             ReaderNext(c) \/ SendsEarly(c) \/ Informs(c) \/ SendFails(c)
      PROVE  PostSteps
  <2>1. posts' = posts \/ \E w \in {"ack", "info", "closed"} : Posted(w, c)
    BY <1>4 DEF ReaderNext, Dials, Greets, Acked, Grants, Ends, SendsEarly, Informs, SendFails
  <2>2. \A w \in {"ack", "info", "closed"} : <<w, c>> \in Post
    BY DEF Post
  <2> QED BY <2>1, <2>2 DEF Posted, PostSteps
<1> QED BY <1>1, <1>2, <1>3, <1>4 DEF AndroidLinkNext

LEMMA AndroidKeepsPosts == AndroidPosts /\ PostSteps => AndroidPosts'
<1> SUFFICES ASSUME AndroidPosts, PostSteps
             PROVE  AndroidPosts'
  OBVIOUS
<1> USE AndroidLinkAssumption DEF AndroidPosts
<1>1. CASE posts' = posts
  BY <1>1
<1>2. CASE posts # <<>> /\ posts' = Tail(posts)
  BY <1>2
<1>3. ASSUME NEW p \in Post, posts' = Append(posts, p), Len(posts) < MaxPosts
      PROVE  AndroidPosts'
  BY <1>3
<1> QED BY <1>1, <1>2, <1>3 DEF PostSteps

\* The numbers, and where the readers are.
LEMMA AndroidKeepsPlaces ==
  ASSUME AndroidPlaces, AndroidPosts, [AndroidLinkNext]_androidLinkVars
  PROVE  AndroidPlaces'
<1> USE AndroidLinkAssumption DEF AndroidPlaces, connections, linkMain, screens, Connections
<1>0. ASSUME NEW base, NEW direct \in BOOLEAN, Connecting(base, direct)
      PROVE  /\ generation' \in 0..MaxConnects /\ client' \in 0..MaxConnects /\ first' = first
             /\ reader' \in [Connections ->
                   {"none", "dialing", "open", "greeted", "granting", "reading", "done"}]
  <2>1. /\ generation < MaxConnects /\ generation' = generation + 1 /\ first' = first
        /\ client' \in {generation + 1, client}
        /\ reader' = reader \/ reader' = [reader EXCEPT ![generation + 1] = "dialing"]
    BY <1>0, OpensOrNot
  <2> QED BY <2>1
<1>1. ASSUME NEW direct \in BOOLEAN, PressConnect(direct) \/ MenuReconnects(direct)
      PROVE  AndroidPlaces'
  <2>1. UNCHANGED <<streamOf, roleOf>> /\ \E base : Connecting(base, direct)
    BY <1>1 DEF PressConnect, MenuReconnects
  <2> QED BY <2>1, <1>0
<1>2. CASE OpenMenu \/ CloseMenu \/ MenuDisconnects \/ MenuLogsIn
           \/ (\E accepted \in BOOLEAN : LoginAnswers(accepted)) \/ UNCHANGED androidLinkVars
  <2>1. UNCHANGED <<generation, client, streamOf, roleOf, reader, first>>
    BY <1>2 DEF OpenMenu, CloseMenu, MenuDisconnects, MenuLogsIn, LoginAnswers, androidLinkVars
  <2> QED BY <2>1
<1>3. CASE HandlePost
  <2>1. /\ roleOf' = roleOf
        /\ \/ /\ Head(posts)[1] \in {"ack", "info"} /\ streamOf' = Head(posts)[2]
              /\ UNCHANGED <<generation, client, reader, first>>
           \/ client' = 0 /\ streamOf' = 0 /\ UNCHANGED <<generation, reader, first>>
           \/ Connecting(Closed, TRUE) /\ streamOf' = streamOf
           \/ UNCHANGED <<generation, client, streamOf, reader, first>>
    BY <1>3 DEF HandlePost
  <2>2. Head(posts)[2] \in 0..MaxConnects
    <3>1. Head(posts) \in Post
      BY <1>3 DEF HandlePost, AndroidPosts
    <3> QED BY <3>1 DEF Post
  <2>3. 0 \in 0..MaxConnects
    OBVIOUS
  <2>4. CASE Connecting(Closed, TRUE) /\ streamOf' = streamOf
    BY <2>1, <2>4, <1>0
  <2> QED BY <2>1, <2>2, <2>3, <2>4
<1>4. ASSUME NEW c \in Connections, ReaderNext(c)
      PROVE  AndroidPlaces'
  <2>1. /\ UNCHANGED <<generation, client, streamOf>> /\ roleOf' \in {roleOf, c}
        /\ \E to \in {"open", "greeted", "granting", "reading", "done"} : reader' = [reader EXCEPT ![c] = to]
        /\ first' = first \/ SaysFirst(c, "hello")
    BY <1>4 DEF ReaderNext, Dials, Greets, Acked, Grants, Ends, ConnGoes
  <2>2. first' \in [Connections -> {"nothing", "hello", "frame"}]
    BY <2>1 DEF SaysFirst
  <2> QED BY <2>1, <2>2
<1>5. ASSUME NEW c \in Connections, SendsEarly(c) \/ Informs(c) \/ SendFails(c)
      PROVE  AndroidPlaces'
  <2>1. UNCHANGED <<generation, client, streamOf, roleOf, reader>>
    BY <1>5 DEF SendsEarly, Informs, SendFails
  <2>2. first' = first \/ SaysFirst(c, "frame")
    BY <1>5 DEF SendsEarly, Informs, SendFails
  <2>3. first' \in [Connections -> {"nothing", "hello", "frame"}]
    BY <2>2 DEF SaysFirst
  <2> QED BY <2>1, <2>3
<1> QED BY <1>1, <1>2, <1>3, <1>4, <1>5 DEF AndroidLinkNext

\* The connections that are up.
LiveLinks == {c \in Connections : links[c].running /\ ~links[c].failed}

\* What becomes of them: nothing, the client's is closed, one ends or fails; and
\* with a new number, one more at most.
LinkSteps ==
    \/ links' = links
    \/ links' = Closed
    \/ \E c \in Connections : links' = [links EXCEPT ![c].running = FALSE]
    \/ \E c \in Connections : links' = [links EXCEPT ![c].failed = TRUE]

LEMMA ClosedLinks ==
  ASSUME AndroidPlaces, AndroidLinks
  PROVE  /\ Closed \in [Connections -> Flags]
         /\ \A c \in Connections : Closed[c].running /\ ~Closed[c].failed => c \in LiveLinks \ {client}
<1>1. CASE client = 0
  <2>1. Closed = links /\ 0 \notin Connections
    BY <1>1 DEF Closed, Connections
  <2> QED BY <1>1, <2>1 DEF AndroidLinks, LiveLinks
<1>2. CASE client # 0
  <2>1. client \in Connections
    BY <1>2 DEF AndroidPlaces, Connections
  <2>2. Closed = [links EXCEPT ![client] = [links[client] EXCEPT !.running = FALSE, !.asked = TRUE]]
    BY <1>2, <2>1 DEF Closed, AndroidLinks, Flags
  <2>3. [links[client] EXCEPT !.running = FALSE, !.asked = TRUE] \in Flags
        /\ ~[links[client] EXCEPT !.running = FALSE, !.asked = TRUE].running
    BY <2>1 DEF AndroidLinks, Flags
  <2>4. \A c \in Connections : Closed[c] = IF c = client
                THEN [links[client] EXCEPT !.running = FALSE, !.asked = TRUE] ELSE links[c]
    BY <2>2 DEF AndroidLinks
  <2>5. Closed \in [Connections -> Flags]
    BY <2>2, <2>3 DEF AndroidLinks
  <2> QED BY <2>3, <2>4, <2>5 DEF LiveLinks
<1> QED BY <1>1, <1>2

LEMMA OneIsClosed ==
  ASSUME AndroidLinks, NEW c \in Connections,
         \/ links' = [links EXCEPT ![c].running = FALSE]
         \/ links' = [links EXCEPT ![c].failed = TRUE]
  PROVE  AndroidLinks' /\ LiveLinks' \subseteq LiveLinks \ {c}
<1> DEFINE new == IF links' = [links EXCEPT ![c].running = FALSE]
                  THEN [links[c] EXCEPT !.running = FALSE] ELSE [links[c] EXCEPT !.failed = TRUE]
<1>1. links[c] \in Flags
  BY DEF AndroidLinks
<1>2. new \in Flags /\ (~new.running \/ new.failed)
  BY <1>1 DEF Flags
<1>3. links' = [links EXCEPT ![c] = new]
  BY DEF AndroidLinks
<1> HIDE DEF new
<1>4. links' \in [Connections -> Flags] /\ \A d \in Connections : links'[d] = IF d = c THEN new ELSE links[d]
  BY <1>2, <1>3 DEF AndroidLinks
<1> QED BY <1>2, <1>4 DEF AndroidLinks, LiveLinks

\* A new number, from where nobody is connected.
LEMMA OneIsOpened ==
  ASSUME AndroidPlaces, NEW base \in [Connections -> Flags],
         \A c \in Connections : ~(base[c].running /\ ~base[c].failed),
         NEW direct \in BOOLEAN, Connecting(base, direct)
  PROVE  /\ AndroidLinks' /\ generation' = generation + 1
         /\ direct => LiveLinks' \subseteq {generation'} /\ client' = generation'
         /\ ~direct => LiveLinks' = {} /\ client' = client
<1>1. generation' = generation + 1
  BY OpensOrNot
<1>2. CASE direct
  <2>0. generation < MaxConnects /\ generation \in 0..MaxConnects
    BY OpensOrNot DEF AndroidPlaces
  <2>a. generation + 1 \in Connections
    BY <2>0, AndroidLinkAssumption DEF Connections
  <2>1. client' = generation' /\ generation + 1 \in Connections
        /\ links' = [base EXCEPT ![generation + 1] =
                        [running |-> TRUE, failed |-> FALSE, asked |-> FALSE]]
    BY <1>1, <1>2, <2>a, OpensOrNot
  <2>2. [running |-> TRUE, failed |-> FALSE, asked |-> FALSE] \in Flags
    BY DEF Flags
  <2>3. links' \in [Connections -> Flags] /\ \A d \in Connections : d # generation + 1 => links'[d] = base[d]
    BY <2>1, <2>2
  <2> QED BY <1>1, <1>2, <2>1, <2>3 DEF AndroidLinks, LiveLinks
<1>3. CASE ~direct
  <2>1. client' = client /\ links' = base
    BY <1>3, OpensOrNot
  <2> QED BY <1>1, <1>3, <2>1 DEF AndroidLinks, LiveLinks
<1> QED BY <1>2, <1>3

WaitingPosts == {posts[i] : i \in 1..Len(posts)}

\* A connection that is up is the client's and the current one; what is posted of
\* an end is of one that is not; and none is up under the connection screen.
LiveInv ==
    /\ client <= generation
    /\ \A c \in Connections : reader[c] # "none" => c <= generation
    /\ LiveLinks \subseteq {client} \cap {generation}
    /\ \A p \in WaitingPosts : p[1] = "closed" => p[2] \notin LiveLinks /\ p[2] <= generation
    /\ connectPanel => LiveLinks = {}

LEMMA WaitingSteps ==
  ASSUME AndroidPosts
  PROVE  /\ posts' = posts => WaitingPosts' = WaitingPosts
         /\ posts # <<>> => Head(posts) \in WaitingPosts /\ Head(posts) \in Post
         /\ posts # <<>> /\ posts' = Tail(posts) => WaitingPosts' \subseteq WaitingPosts
         /\ \A p : posts' = Append(posts, p) => WaitingPosts' = WaitingPosts \cup {p}
<1>0. posts \in Seq(Post) /\ Len(posts) \in Nat
  BY DEF AndroidPosts
<1>1. posts' = posts => WaitingPosts' = WaitingPosts
  BY DEF WaitingPosts
<1>2. ASSUME posts # <<>>
      PROVE  /\ Head(posts) \in WaitingPosts /\ Head(posts) \in Post
             /\ posts' = Tail(posts) => WaitingPosts' \subseteq WaitingPosts
  <2>1. Head(posts) = posts[1] /\ 1 \in 1..Len(posts) /\ posts[1] \in Post
    BY <1>0, <1>2
  <2>2. Len(Tail(posts)) = Len(posts) - 1 /\ \A i \in 1..Len(Tail(posts)) : Tail(posts)[i] = posts[i + 1]
    BY <1>0, <1>2
  <2>3. \A i \in 1..Len(Tail(posts)) : i + 1 \in 1..Len(posts)
    BY <1>0, <2>2
  <2> QED BY <2>1, <2>2, <2>3 DEF WaitingPosts
<1>3. ASSUME NEW p, posts' = Append(posts, p)
      PROVE  WaitingPosts' = WaitingPosts \cup {p}
  <2>1. /\ Len(posts') = Len(posts) + 1 /\ posts'[Len(posts) + 1] = p
        /\ \A i \in 1..Len(posts) : posts'[i] = posts[i]
    BY <1>0, <1>3
  <2>2. \A i \in 1..Len(posts') : i \in 1..Len(posts) \/ i = Len(posts) + 1
    BY <1>0, <2>1
  <2>3. 1..Len(posts) \subseteq 1..Len(posts') /\ Len(posts) + 1 \in 1..Len(posts')
    BY <1>0, <2>1
  <2> QED BY <2>1, <2>2, <2>3 DEF WaitingPosts
<1> QED BY <1>1, <1>2, <1>3

LEMMA AndroidKeepsLive ==
  ASSUME AndroidFlags, AndroidPlaces, AndroidLinks, AndroidPosts, LiveInv,
         [AndroidLinkNext]_androidLinkVars
  PROVE  AndroidLinks' /\ LiveInv'
<1> USE DEF connections, linkMain, screens
<1>0. /\ client \in Nat /\ generation \in Nat /\ Connections \subseteq Nat \ {0} /\ client <= generation
      /\ \A c \in Connections : reader[c] # "none" => c <= generation
      /\ LiveLinks \subseteq {client} \cap {generation}
      /\ \A p \in WaitingPosts : p[1] = "closed" => p[2] \notin LiveLinks /\ p[2] <= generation
      /\ LiveLinks \subseteq Connections
  BY DEF AndroidPlaces, Connections, LiveInv, LiveLinks
\* A step that opens nothing: what is up shrinks, and an end that is posted is of
\* one that is not up any more.
<1>1. ASSUME LiveLinks' \subseteq LiveLinks, generation' = generation, client' = client,
             connectPanel' => connectPanel,
             \A c \in Connections : reader[c] = "none" => reader'[c] = "none",
             \A p \in WaitingPosts' : p[1] = "closed" => p \in WaitingPosts
                                         \/ (p[2] \notin LiveLinks' /\ p[2] <= generation)
      PROVE  LiveInv'
  BY <1>0, <1>1 DEF LiveInv
<1>2. ASSUME NEW base \in [Connections -> Flags], NEW direct \in BOOLEAN,
             \A c \in Connections : ~(base[c].running /\ ~base[c].failed),
             Connecting(base, direct), WaitingPosts' \subseteq WaitingPosts
      PROVE  AndroidLinks' /\ LiveInv'
  <2>1. /\ AndroidLinks' /\ generation' = generation + 1
        /\ direct => LiveLinks' \subseteq {generation'} /\ client' = generation'
        /\ ~direct => LiveLinks' = {} /\ client' = client
    BY <1>2, OneIsOpened
  <2>2. LiveLinks' \subseteq {client'} \cap {generation'} /\ client' <= generation'
    <3>1. CASE direct
      <4>1. LiveLinks' \subseteq {generation'} /\ client' = generation'
        BY <2>1, <3>1
      <4> QED BY <1>0, <2>1, <4>1
    <3>2. CASE ~direct
      <4>1. LiveLinks' = {} /\ client' = client
        BY <2>1, <3>2
      <4> QED BY <1>0, <2>1, <4>1
    <3> QED BY <3>1, <3>2
  <2>3. \A c \in Connections : reader'[c] # "none" => c <= generation'
    <3>1. reader' = reader \/ reader' = [reader EXCEPT ![generation + 1] = "dialing"]
      BY <1>2, OpensOrNot
    <3>2. \A c \in Connections : c # generation + 1 => reader'[c] = reader[c]
      BY <3>1 DEF AndroidPlaces
    <3>3. \A c \in Connections : c <= generation => c <= generation + 1
      BY <1>0
    <3> QED BY <1>0, <2>1, <3>2, <3>3
  <2>4. \A p \in WaitingPosts' : p[1] = "closed" => p[2] \notin LiveLinks' /\ p[2] <= generation'
    <3> SUFFICES ASSUME NEW p \in WaitingPosts', p[1] = "closed"
                 PROVE  p[2] \notin LiveLinks' /\ p[2] <= generation'
      OBVIOUS
    <3>0. WaitingPosts \subseteq Post
      BY DEF WaitingPosts, AndroidPosts
    <3>1. p[2] <= generation /\ p \in Post
      BY <1>0, <1>2, <3>0
    <3>2. p[2] \in Nat
      BY <3>1 DEF Post, Connections
    <3> QED BY <1>0, <2>1, <2>2, <3>1, <3>2
  <2>5. connectPanel' => LiveLinks' = {}
    BY <1>2, <2>1, OpensOrNot
  <2> QED BY <2>1, <2>2, <2>3, <2>4, <2>5 DEF LiveInv
<1>3. /\ Closed \in [Connections -> Flags]
      /\ \A c \in Connections : ~(Closed[c].running /\ ~Closed[c].failed)
  BY <1>0, ClosedLinks
<1>4. ASSUME NEW direct \in BOOLEAN, PressConnect(direct)
      PROVE  AndroidLinks' /\ LiveInv'
  <2>1. connectPanel /\ Connecting(links, direct) /\ posts' = posts
    BY <1>4 DEF PressConnect
  <2>2. \A c \in Connections : ~(links[c].running /\ ~links[c].failed)
    BY <2>1 DEF LiveInv, LiveLinks
  <2>3. WaitingPosts' = WaitingPosts
    BY <2>1, WaitingSteps
  <2> QED BY <1>2, <2>1, <2>2, <2>3 DEF AndroidLinks
<1>5. ASSUME NEW direct \in BOOLEAN, MenuReconnects(direct)
      PROVE  AndroidLinks' /\ LiveInv'
  <2>1. Connecting(Closed, direct) /\ posts' = posts
    BY <1>5 DEF MenuReconnects
  <2>2. WaitingPosts' = WaitingPosts
    BY <2>1, WaitingSteps
  <2> QED BY <1>2, <1>3, <2>1, <2>2
<1>6. CASE OpenMenu \/ CloseMenu \/ MenuLogsIn \/ UNCHANGED androidLinkVars
  <2>1. UNCHANGED <<generation, client, connectPanel, reader, links, posts>>
    BY <1>6 DEF OpenMenu, CloseMenu, MenuLogsIn, androidLinkVars
  <2>2. WaitingPosts' = WaitingPosts /\ LiveLinks' = LiveLinks /\ AndroidLinks'
    BY <2>1, WaitingSteps DEF LiveLinks, AndroidLinks
  <2> QED BY <1>1, <2>1, <2>2
<1>7. CASE MenuDisconnects
  <2>1. UNCHANGED <<generation, client, connectPanel, reader, posts>> /\ links' = Closed
    BY <1>7 DEF MenuDisconnects
  <2>2. LiveLinks' = {} /\ AndroidLinks' /\ WaitingPosts' = WaitingPosts
    BY <1>3, <2>1, WaitingSteps DEF LiveLinks, AndroidLinks
  <2> QED BY <1>1, <2>1, <2>2
<1>8. ASSUME NEW accepted \in BOOLEAN, LoginAnswers(accepted)
      PROVE  AndroidLinks' /\ LiveInv'
  <2>1. /\ UNCHANGED <<generation, client, connectPanel, reader, links>>
        /\ \E w \in {"login", "refused"} : posts' = Append(posts, <<w, 0>>)
    BY <1>8 DEF LoginAnswers, Posted
  <2>2. \A p \in WaitingPosts' : p[1] = "closed" => p \in WaitingPosts
    BY <2>1, WaitingSteps
  <2>3. LiveLinks' = LiveLinks /\ AndroidLinks'
    BY <2>1 DEF LiveLinks, AndroidLinks
  <2> QED BY <1>1, <2>1, <2>2, <2>3
<1>9. CASE HandlePost
  <2>1. /\ posts # <<>> /\ posts' = Tail(posts)
        /\ \/ UNCHANGED <<generation, client, connectPanel, reader, links>>
           \/ /\ Head(posts)[1] = "closed" /\ Head(posts)[2] = generation
              /\ client' = 0 /\ connectPanel' = TRUE /\ UNCHANGED <<generation, reader, links>>
           \/ Connecting(Closed, TRUE)
    BY <1>9 DEF HandlePost, Counts
  <2>2. WaitingPosts' \subseteq WaitingPosts /\ Head(posts) \in WaitingPosts
    BY <2>1, WaitingSteps
  <2>3. CASE UNCHANGED <<generation, client, connectPanel, reader, links>>
    <3>1. LiveLinks' = LiveLinks /\ AndroidLinks'
      BY <2>3 DEF LiveLinks, AndroidLinks
    <3> QED BY <1>1, <2>2, <2>3, <3>1
  <2>4. CASE /\ Head(posts)[1] = "closed" /\ Head(posts)[2] = generation
             /\ client' = 0 /\ connectPanel' = TRUE /\ UNCHANGED <<generation, reader, links>>
    <3>1. LiveLinks' = {} /\ AndroidLinks'
      BY <1>0, <2>2, <2>4 DEF LiveLinks, AndroidLinks
    <3>2. \A p \in WaitingPosts' : p[1] = "closed" => p[2] <= generation'
      BY <1>0, <2>2, <2>4
    <3>3. client' <= generation'
      BY <1>0, <2>4
    <3> QED BY <1>0, <2>4, <3>1, <3>2, <3>3 DEF LiveInv
  <2>5. CASE Connecting(Closed, TRUE)
    BY <1>2, <1>3, <2>2, <2>5
  <2> QED BY <2>1, <2>3, <2>4, <2>5
<1>10. ASSUME NEW c \in Connections, Dials(c) \/ Greets(c) \/ Acked(c) \/ SendsEarly(c)
       PROVE  AndroidLinks' /\ LiveInv'
  <2>1. UNCHANGED <<generation, client, connectPanel, links, posts>>
    BY <1>10 DEF Dials, Greets, Acked, SendsEarly
  <2>2. \A d \in Connections : reader[d] = "none" => reader'[d] = "none"
    BY <1>10 DEF Dials, Greets, Acked, SendsEarly, ConnGoes, AndroidPlaces
  <2>3. WaitingPosts' = WaitingPosts /\ LiveLinks' = LiveLinks /\ AndroidLinks'
    BY <2>1, WaitingSteps DEF LiveLinks, AndroidLinks
  <2> QED BY <1>1, <2>1, <2>2, <2>3
<1>11. ASSUME NEW c \in Connections, Grants(c) \/ Informs(c)
       PROVE  AndroidLinks' /\ LiveInv'
  <2>1. /\ UNCHANGED <<generation, client, connectPanel, links>>
        /\ \E w \in {"ack", "info"} : posts' = Append(posts, <<w, c>>)
    BY <1>11 DEF Grants, Informs, Posted
  <2>2. \A d \in Connections : reader[d] = "none" => reader'[d] = "none"
    BY <1>11 DEF Grants, Informs, ConnGoes, AndroidPlaces
  <2>3. \A p \in WaitingPosts' : p[1] = "closed" => p \in WaitingPosts
    BY <2>1, WaitingSteps
  <2>4. LiveLinks' = LiveLinks /\ AndroidLinks'
    BY <2>1 DEF LiveLinks, AndroidLinks
  <2> QED BY <1>1, <2>1, <2>2, <2>3, <2>4
<1>12. ASSUME NEW c \in Connections, Ends(c) \/ SendFails(c)
       PROVE  AndroidLinks' /\ LiveInv'
  <2>1. /\ UNCHANGED <<generation, client, connectPanel>> /\ reader[c] # "none"
        /\ posts' = posts \/ posts' = Append(posts, <<"closed", c>>)
        /\ \/ links' = [links EXCEPT ![c].running = FALSE]
           \/ links' = [links EXCEPT ![c].failed = TRUE]
    BY <1>12 DEF Ends, SendFails, Posted
  <2>2. \A d \in Connections : reader[d] = "none" => reader'[d] = "none"
    BY <1>12 DEF Ends, SendFails, AndroidPlaces
  <2>3. AndroidLinks' /\ LiveLinks' \subseteq LiveLinks \ {c}
    BY <2>1, OneIsClosed
  <2>4. \A p \in WaitingPosts' : p[1] = "closed" => p \in WaitingPosts \/ p[2] = c
    BY <2>1, WaitingSteps
  <2>5. c <= generation
    BY <1>0, <2>1
  <2> QED BY <1>1, <2>1, <2>2, <2>3, <2>4, <2>5
<1> QED BY <1>4, <1>5, <1>6, <1>7, <1>8, <1>9, <1>10, <1>11, <1>12 DEF AndroidLinkNext, ReaderNext

\* The word the main thread has of connection c comes last: it shows c's stream,
\* or a post of c's waits behind which no stream is posted.
Tells(p) == p[1] \in {"ack", "info"}
LastWordIs(c) ==
    \E i \in 0..Len(posts) :
        /\ IF i = 0 THEN streamOf = c ELSE Tells(posts[i]) /\ posts[i][2] = c
        /\ \A j \in (i + 1)..Len(posts) : ~Tells(posts[j])

\* A post of c's stream is the last word; any other post leaves it as it was.
LEMMA WordComes ==
  ASSUME AndroidPosts, NEW p, Tells(p), posts' = Append(posts, p)
  PROVE  LastWordIs(p[2])'
<1>1. /\ Len(posts) \in Nat /\ Len(posts') = Len(posts) + 1 /\ posts'[Len(posts) + 1] = p
  BY DEF AndroidPosts
<1>2. Len(posts) + 1 \in 0..Len(posts') /\ Len(posts) + 1 # 0
  BY <1>1
<1>3. \A j \in (Len(posts) + 1 + 1)..Len(posts') : FALSE
  BY <1>1
<1> QED BY <1>1, <1>2, <1>3 DEF LastWordIs, Tells

LEMMA WordStays ==
  ASSUME AndroidPosts, NEW c, LastWordIs(c), streamOf' = streamOf,
         posts' = posts \/ \E p : posts' = Append(posts, p) /\ ~Tells(p)
  PROVE  LastWordIs(c)'
<1>1. CASE posts' = posts
  BY <1>1 DEF LastWordIs
<1>2. ASSUME NEW p, posts' = Append(posts, p), ~Tells(p)
      PROVE  LastWordIs(c)'
  <2>1. /\ Len(posts) \in Nat /\ Len(posts') = Len(posts) + 1 /\ posts'[Len(posts) + 1] = p
        /\ \A i \in 1..Len(posts) : posts'[i] = posts[i]
    BY <1>2 DEF AndroidPosts
  <2>2. PICK i \in 0..Len(posts) :
          /\ IF i = 0 THEN streamOf = c ELSE Tells(posts[i]) /\ posts[i][2] = c
          /\ \A j \in (i + 1)..Len(posts) : ~Tells(posts[j])
    BY DEF LastWordIs
  <2>3. i \in 0..Len(posts') /\ (i # 0 => posts'[i] = posts[i])
    BY <2>1, <2>2
  <2>4. \A j \in (i + 1)..Len(posts') : ~Tells(posts'[j])
    <3> SUFFICES ASSUME NEW j \in (i + 1)..Len(posts')
                 PROVE  ~Tells(posts'[j])
      OBVIOUS
    <3>1. CASE j = Len(posts) + 1
      BY <1>2, <2>1, <3>1
    <3>2. CASE j # Len(posts) + 1
      <4>1. j \in (i + 1)..Len(posts) /\ j \in 1..Len(posts)
        BY <2>1, <2>2, <3>2
      <4> QED BY <2>1, <2>2, <4>1
    <3> QED BY <3>1, <3>2
  <2>5. IF i = 0 THEN streamOf' = c ELSE Tells(posts'[i]) /\ posts'[i][2] = c
    BY <2>2, <2>3
  <2>6. \E k \in 0..Len(posts') :
          /\ IF k = 0 THEN streamOf' = c ELSE Tells(posts'[k]) /\ posts'[k][2] = c
          /\ \A j \in (k + 1)..Len(posts') : ~Tells(posts'[j])
    BY <2>3, <2>4, <2>5
  <2> QED BY <2>6 DEF LastWordIs, Tells
<1> QED BY <1>1, <1>2

\* Handling the first post does not change which word is the last.
LEMMA WordIsHeard ==
  ASSUME AndroidPosts, NEW c, LastWordIs(c), posts # <<>>, posts' = Tail(posts),
         streamOf' = IF Tells(Head(posts)) THEN Head(posts)[2] ELSE streamOf
  PROVE  LastWordIs(c)'
<1>1. /\ Len(posts) \in Nat \ {0} /\ Len(posts') = Len(posts) - 1 /\ Head(posts) = posts[1]
      /\ \A i \in 1..Len(posts') : posts'[i] = posts[i + 1]
  BY DEF AndroidPosts
<1>2. PICK i \in 0..Len(posts) :
        /\ IF i = 0 THEN streamOf = c ELSE Tells(posts[i]) /\ posts[i][2] = c
        /\ \A j \in (i + 1)..Len(posts) : ~Tells(posts[j])
  BY DEF LastWordIs
<1> DEFINE k == IF i = 0 THEN 0 ELSE i - 1
<1>3. k \in 0..Len(posts') /\ \A j \in (k + 1)..Len(posts') : j \in 1..Len(posts') /\ j + 1 \in (i + 1)..Len(posts)
  BY <1>1, <1>2
<1>4. \A j \in (k + 1)..Len(posts') : ~Tells(posts'[j])
  BY <1>1, <1>2, <1>3
<1>5. IF k = 0 THEN streamOf' = c ELSE Tells(posts'[k]) /\ posts'[k][2] = c
  <2>1. CASE i = 0
    <3>1. ~Tells(posts[1])
      BY <1>1, <1>2, <2>1
    <3> QED BY <1>1, <1>2, <2>1, <3>1
  <2>2. CASE i = 1
    BY <1>1, <1>2, <2>2
  <2>3. CASE i > 1
    <3>1. k = i - 1 /\ k \in 1..Len(posts') /\ posts'[k] = posts[i] /\ k # 0
      BY <1>1, <1>2, <2>3
    <3> QED BY <1>2, <2>3, <3>1
  <2> QED BY <1>2, <2>1, <2>2, <2>3
<1> HIDE DEF k
<1>6. \E h \in 0..Len(posts') :
        /\ IF h = 0 THEN streamOf' = c ELSE Tells(posts'[h]) /\ posts'[h][2] = c
        /\ \A j \in (h + 1)..Len(posts') : ~Tells(posts'[j])
  BY <1>3, <1>4, <1>5
<1> QED BY <1>6 DEF LastWordIs, Tells

\* The reader of the connection there is goes on: what the screen says is its.
Due == ~overtaken /\ client # 0 /\ client = generation /\ reader[client] = "reading"

WordsInv ==
    /\ ~overtaken /\ client = generation =>
          \A d \in Connections : reader[d] = "granting" => d = generation
    /\ Due => roleOf = client /\ LastWordIs(client)

LEMMA AndroidKeepsWords ==
  ASSUME AndroidPlaces, AndroidPosts, LiveInv, WordsInv, [AndroidLinkNext]_androidLinkVars
  PROVE  WordsInv'
<1> USE DEF connections, linkMain, screens
<1>0. /\ client \in Nat /\ generation \in Nat /\ client <= generation
      /\ client # 0 => client \in Connections
      /\ reader \in [Connections ->
            {"none", "dialing", "open", "greeted", "granting", "reading", "done"}]
  BY DEF AndroidPlaces, Connections, LiveInv
\* Nobody new is read or granted, and nobody is told of.
<1>1. ASSUME UNCHANGED <<generation, client, streamOf, roleOf, overtaken>>,
             posts' = posts \/ \E p : posts' = Append(posts, p) /\ ~Tells(p),
             \A d \in Connections : reader'[d] # reader[d] => reader'[d] \notin {"granting", "reading"}
                                                          \/ (reader'[d] = "granting" /\ d = generation)
                                                          \/ (reader'[d] = "reading" /\ d # generation)
      PROVE  WordsInv'
  <2>1. ~overtaken' /\ client' = generation' =>
          \A d \in Connections : reader'[d] = "granting" => d = generation'
    BY <1>1 DEF WordsInv
  <2>2. ASSUME Due'
        PROVE  roleOf' = client' /\ LastWordIs(client)'
    <3>1. Due
      BY <1>0, <1>1, <2>2 DEF Due
    <3>2. roleOf = client /\ LastWordIs(client)
      BY <3>1 DEF WordsInv
    <3>3. PICK c \in Nat : c = client
      BY <1>0
    <3>4. LastWordIs(c)
      BY <3>2, <3>3
    <3>5. LastWordIs(c)'
      BY <1>1, <3>4, WordStays
    <3>6. roleOf' = client' /\ client' = c
      BY <1>1, <3>2, <3>3
    <3> QED BY <3>5, <3>6
  <2> QED BY <2>1, <2>2 DEF WordsInv
<1>2. ASSUME NEW base, NEW direct \in BOOLEAN, Connecting(base, direct)
      PROVE  WordsInv'
  <2>1. CASE direct
    <3>1. /\ generation < MaxConnects /\ generation' = generation + 1 /\ client' = generation + 1
          /\ reader' = [reader EXCEPT ![generation + 1] = "dialing"]
          /\ ~overtaken' => \A c \in Connections : reader[c] # "granting"
      BY <1>2, <2>1, OpensOrNot
    <3>2. generation + 1 \in Connections
      BY <1>0, <3>1, AndroidLinkAssumption DEF Connections
    <3>3. ~Due'
      BY <1>0, <3>1, <3>2 DEF Due
    <3>4. ~overtaken' => \A c \in Connections : reader'[c] # "granting"
      BY <1>0, <3>1, <3>2
    <3> QED BY <3>3, <3>4 DEF WordsInv
  <2>2. CASE ~direct
    <3>1. client' # generation'
      BY <1>0, <1>2, <2>2, OpensOrNot
    <3> QED BY <3>1 DEF WordsInv, Due
  <2> QED BY <2>1, <2>2
<1>3. ASSUME NEW direct \in BOOLEAN, PressConnect(direct) \/ MenuReconnects(direct)
      PROVE  WordsInv'
  BY <1>2, <1>3 DEF PressConnect, MenuReconnects
<1>4. CASE OpenMenu \/ CloseMenu \/ MenuDisconnects \/ MenuLogsIn \/ UNCHANGED androidLinkVars
  <2>1. UNCHANGED <<generation, client, streamOf, roleOf, overtaken, reader, posts>>
    BY <1>4 DEF OpenMenu, CloseMenu, MenuDisconnects, MenuLogsIn, androidLinkVars
  <2> QED BY <1>1, <2>1
<1>5. ASSUME NEW accepted \in BOOLEAN, LoginAnswers(accepted)
      PROVE  WordsInv'
  <2>1. /\ UNCHANGED <<generation, client, streamOf, roleOf, overtaken, reader>>
        /\ \E w \in {"login", "refused"} : posts' = Append(posts, <<w, 0>>)
    BY <1>5 DEF LoginAnswers, Posted
  <2>2. \A w \in {"login", "refused"} : ~Tells(<<w, 0>>)
    BY DEF Tells
  <2> QED BY <1>1, <2>1, <2>2
<1>6. CASE HandlePost
  <2>1. /\ posts # <<>> /\ posts' = Tail(posts) /\ roleOf' = roleOf
        /\ \/ /\ Tells(Head(posts)) /\ streamOf' = Head(posts)[2]
              /\ UNCHANGED <<generation, client, reader, overtaken>>
           \/ /\ Head(posts)[1] = "closed" /\ Head(posts)[2] = generation /\ client' = 0
              /\ generation' = generation
           \/ Connecting(Closed, TRUE)
           \/ ~Tells(Head(posts)) /\ UNCHANGED <<generation, client, reader, overtaken, streamOf>>
    BY <1>6 DEF HandlePost, Counts, Tells
  <2>2. CASE /\ Head(posts)[1] = "closed" /\ Head(posts)[2] = generation /\ client' = 0
             /\ generation' = generation
    <3>1. Head(posts) \in Post
      BY <2>1, WaitingSteps
    <3>2. generation # 0
      BY <2>2, <3>1 DEF Post, Connections
    <3> QED BY <2>2, <3>2 DEF WordsInv, Due
  <2>3. CASE Connecting(Closed, TRUE)
    BY <1>2, <2>3
  <2>4. CASE /\ UNCHANGED <<generation, client, reader, overtaken>>
             /\ streamOf' = IF Tells(Head(posts)) THEN Head(posts)[2] ELSE streamOf
    <3>1. ASSUME Due'
          PROVE  roleOf' = client' /\ LastWordIs(client)'
      <4>1. roleOf = client /\ LastWordIs(client)
        BY <2>4, <3>1 DEF WordsInv, Due
      <4>2. PICK c \in Nat : c = client
        BY <1>0
      <4>3. LastWordIs(c)
        BY <4>1, <4>2
      <4>4. LastWordIs(c)'
        BY <2>1, <2>4, <4>3, WordIsHeard
      <4>5. roleOf' = client' /\ client' = c
        BY <2>1, <2>4, <4>1, <4>2
      <4> QED BY <4>4, <4>5
    <3>2. ~overtaken' /\ client' = generation' =>
            \A d \in Connections : reader'[d] = "granting" => d = generation'
      BY <2>4 DEF WordsInv
    <3> QED BY <3>1, <3>2 DEF WordsInv
  <2> QED BY <2>1, <2>2, <2>3, <2>4
<1>7. ASSUME NEW c \in Connections, Dials(c) \/ Greets(c) \/ Acked(c) \/ SendsEarly(c)
      PROVE  WordsInv'
  <2>1. UNCHANGED <<generation, client, streamOf, roleOf, overtaken, posts>>
    BY <1>7 DEF Dials, Greets, Acked, SendsEarly
  <2>2. \/ reader' = reader
        \/ \E to \in {"open", "greeted"} : reader' = [reader EXCEPT ![c] = to]
        \/ reader' = [reader EXCEPT ![c] = "granting"] /\ c = generation
        \/ reader' = [reader EXCEPT ![c] = "reading"] /\ c # generation
    BY <1>7 DEF Dials, Greets, Acked, SendsEarly, ConnGoes, Counts
  <2>3. \A d \in Connections : reader'[d] # reader[d] => reader'[d] \notin {"granting", "reading"}
                                                          \/ (reader'[d] = "granting" /\ d = generation)
                                                          \/ (reader'[d] = "reading" /\ d # generation)
    BY <1>0, <2>2
  <2> QED BY <1>1, <2>1, <2>3
<1>8. ASSUME NEW c \in Connections, Ends(c) \/ SendFails(c)
      PROVE  WordsInv'
  <2>1. /\ UNCHANGED <<generation, client, streamOf, roleOf, overtaken>>
        /\ reader' = reader \/ reader' = [reader EXCEPT ![c] = "done"]
        /\ posts' = posts \/ posts' = Append(posts, <<"closed", c>>)
    BY <1>8 DEF Ends, SendFails, Posted
  <2>2. \A d \in Connections : reader'[d] # reader[d] => reader'[d] \notin {"granting", "reading"}
    BY <1>0, <2>1
  <2>3. ~Tells(<<"closed", c>>)
    BY DEF Tells
  <2> QED BY <1>1, <2>1, <2>2, <2>3
<1>9. ASSUME NEW c \in Connections, Grants(c)
      PROVE  WordsInv'
  <2>1. /\ UNCHANGED <<generation, client, overtaken>> /\ roleOf' = c
        /\ reader[c] = "granting" /\ reader' = [reader EXCEPT ![c] = "reading"]
        /\ posts' = Append(posts, <<"ack", c>>)
    BY <1>9 DEF Grants, ConnGoes, Posted
  <2>2. ~overtaken' /\ client' = generation' =>
          \A d \in Connections : reader'[d] = "granting" => d = generation'
    BY <1>0, <2>1 DEF WordsInv
  <2>3. ASSUME Due'
        PROVE  c = client'
    BY <2>1, <2>3 DEF WordsInv, Due
  <2>4. LastWordIs(c)'
    <3>1. Tells(<<"ack", c>>) /\ <<"ack", c>>[2] = c
      BY DEF Tells
    <3>2. LastWordIs(<<"ack", c>>[2])'
      BY <2>1, <3>1, WordComes
    <3> QED BY <3>1, <3>2
  <2> QED BY <2>1, <2>2, <2>3, <2>4 DEF WordsInv
<1>10. ASSUME NEW c \in Connections, Informs(c)
       PROVE  WordsInv'
  <2>1. /\ UNCHANGED <<generation, client, roleOf, reader>>
        /\ posts' = Append(posts, <<"info", c>>)
    BY <1>10 DEF Informs, Posted
  <2>2. ~overtaken' => ~overtaken /\ c = generation
    BY <1>10 DEF Informs
  <2>3. ~overtaken' /\ client' = generation' =>
          \A d \in Connections : reader'[d] = "granting" => d = generation'
    BY <2>1, <2>2 DEF WordsInv
  <2>4. ASSUME Due'
        PROVE  c = client' /\ roleOf' = client'
    BY <2>1, <2>2, <2>4 DEF WordsInv, Due
  <2>5. LastWordIs(c)'
    <3>1. Tells(<<"info", c>>) /\ <<"info", c>>[2] = c
      BY DEF Tells
    <3>2. LastWordIs(<<"info", c>>[2])'
      BY <2>1, <3>1, WordComes
    <3> QED BY <3>1, <3>2
  <2> QED BY <2>3, <2>4, <2>5 DEF WordsInv
<1> QED BY <1>3, <1>4, <1>5, <1>6, <1>7, <1>8, <1>9, <1>10 DEF AndroidLinkNext, ReaderNext

AndroidLinkInv ==
    /\ AndroidFlags /\ AndroidPlaces /\ AndroidLinks /\ AndroidPosts
    /\ PadIsThere /\ LiveInv /\ WordsInv

LEMMA AndroidLinkSteps == AndroidLinkInv /\ [AndroidLinkNext]_androidLinkVars => AndroidLinkInv'
BY AndroidKeepsFlags, AndroidKeepsPlaces, AndroidPostSteps, AndroidKeepsPosts, AndroidKeepsLive,
   AndroidKeepsWords DEF AndroidLinkInv

LEMMA AndroidLinkStarts == AndroidLinkInit => AndroidLinkInv
<1> SUFFICES ASSUME AndroidLinkInit
             PROVE  AndroidLinkInv
  OBVIOUS
<1> USE AndroidLinkAssumption
<1>1. AndroidFlags /\ PadIsThere
  BY DEF AndroidLinkInit, AndroidFlags, PadIsThere
<1>2. AndroidPlaces
  BY DEF AndroidLinkInit, AndroidPlaces
<1>3. AndroidLinks /\ LiveLinks = {}
  BY DEF AndroidLinkInit, AndroidLinks, Flags, LiveLinks
<1>4. AndroidPosts /\ WaitingPosts = {}
  BY DEF AndroidLinkInit, AndroidPosts, WaitingPosts
<1>5. LiveInv
  BY <1>3, <1>4 DEF AndroidLinkInit, LiveInv
<1>6. WordsInv
  BY DEF AndroidLinkInit, WordsInv, Due
<1> QED BY <1>1, <1>2, <1>3, <1>4, <1>5, <1>6 DEF AndroidLinkInv

\* What every step of the Android client's threads keeps of its connections.
LEMMA AndroidLinkInvariant == AndroidLinkSpec => []AndroidLinkInv
BY AndroidLinkStarts, AndroidLinkSteps, PTL DEF AndroidLinkSpec

LEMMA WordIsLast ==
  ASSUME AndroidLinkInv
  PROVE  AndroidLinkTypeOK /\ PanelIsTrue /\ PadIsThere /\ WordsAreTheirs
<1>1. AndroidLinkTypeOK /\ PadIsThere
  BY AndroidLinkTypes DEF AndroidLinkInv
<1>2. PanelIsTrue
  BY DEF AndroidLinkInv, LiveInv, LiveLinks, PanelIsTrue
<1>3. WordsAreTheirs
  <2> SUFFICES ASSUME posts = <<>>, Due
               PROVE  streamOf = client /\ roleOf = client
    BY DEF WordsAreTheirs, Due
  <2>1. roleOf = client /\ LastWordIs(client)
    BY DEF AndroidLinkInv, WordsInv
  <2>2. Len(posts) = 0
    OBVIOUS
  <2>3. streamOf = client
    BY <2>1, <2>2 DEF LastWordIs
  <2> QED BY <2>1, <2>3
<1> QED BY <1>1, <1>2, <1>3

\* The Android client's connection screen is up only while nothing is connected,
\* its controls only with a role that allows them, and its words are those of the
\* connection there is, whichever connection's posts are still to be handled.
THEOREM AndroidScreensAreTrue == AndroidLinkSpec => [](PanelIsTrue /\ PadIsThere /\ WordsAreTheirs)
BY AndroidLinkInvariant, WordIsLast, PTL

----------------------------------------------------------------------------
(* The Android client: its bitrate. *)

LEMMA TenthsAndQuarters ==
  ASSUME NEW r \in Nat
  PROVE  /\ (r * 3) \div 4 \in Nat /\ (r * 3) \div 4 <= (r * 9) \div 10
         /\ (r * 9) \div 10 \in Nat /\ (r * 9) \div 10 <= r
         /\ 10 * ((r * 9) \div 10) <= 9 * r
         /\ (r * 21) \div 20 \in Nat /\ r <= (r * 21) \div 20
         /\ (r * 11) \div 10 \in Nat /\ r <= (r * 11) \div 10
OBVIOUS

\* Ten whole percents are as many.
LEMMA TenPercents ==
  ASSUME NEW r \in Nat \ {0}, NEW d \in Nat, 10 * d >= r
  PROVE  (d * 100) \div r >= 10
<1>1. (d * 100) \div r \in Int /\ d * 100 < r * ((d * 100) \div r) + r
  OBVIOUS
<1>2. r * ((d * 100) \div r) <= r * 9 \/ (d * 100) \div r >= 10
  BY <1>1
<1> QED BY <1>1, <1>2

\* What a client has been asked for lies between the extremes.
BitrateInv ==
    /\ AndroidBitrateTypeOK /\ RateIsBounded
    /\ least <= Floor /\ Top <= most

LEMMA BitrateSteps == BitrateInv /\ [AndroidBitrateNext]_bitrateVars => BitrateInv'
<1> SUFFICES ASSUME BitrateInv, [AndroidBitrateNext]_bitrateVars
             PROVE  BitrateInv'
  OBVIOUS
<1> USE AndroidBitrateAssumption DEF BitrateInv, AndroidBitrateTypeOK, RateIsBounded, Smaller
<1>1. CASE FramesRefused /\ SteerBitrate("refused")
  BY <1>1, TenthsAndQuarters DEF FramesRefused, SteerBitrate, Sends, Lowered, Greater
<1>2. CASE TooLate /\ SteerBitrate("late")
  BY <1>2, TenthsAndQuarters DEF TooLate, SteerBitrate, Sends, TooMuch, Greater
<1>3. CASE Clean /\ SteerBitrate("clean")
  BY <1>3, TenthsAndQuarters DEF Clean, SteerBitrate, Sends
<1>4. ASSUME NEW rate \in Shares, AdoptShared(rate)
      PROVE  BitrateInv'
  BY <1>4 DEF AdoptShared, Greater
<1>5. CASE OnPause
  BY <1>5 DEF OnPause
<1>6. CASE OnResume
  BY <1>6 DEF OnResume
<1>7. CASE Joins
  BY <1>7 DEF Joins
<1>8. CASE HostLeaves
  BY <1>8 DEF HostLeaves
<1>9. CASE UNCHANGED bitrateVars
  BY <1>9 DEF bitrateVars
<1> QED
  BY <1>1, <1>2, <1>3, <1>4, <1>5, <1>6, <1>7, <1>8, <1>9 DEF AndroidBitrateNext, SteerBitrate

\* What every second and every share keep of the bitrate.
LEMMA BitrateInvariant == AndroidBitrateSpec => []BitrateInv
<1>1. AndroidBitrateInit => BitrateInv
  <2> SUFFICES ASSUME AndroidBitrateInit PROVE BitrateInv
    OBVIOUS
  <2>1. /\ Floor \in Nat \ {0} /\ Top \in Nat /\ BeginRate \in Floor..Top
        /\ GoodEnough \in Nat \ {0}
    BY AndroidBitrateAssumption
  <2>2. /\ autoBitrate = BeginRate /\ autoCeiling = Top /\ goodSeconds = 0
        /\ askedRate = BeginRate /\ beforePause = BeginRate /\ most = Top /\ least = Floor
        /\ foreground = TRUE /\ connected = FALSE
    BY DEF AndroidBitrateInit
  <2>3. AndroidBitrateTypeOK
    <3>1. /\ autoBitrate \in Nat \ {0} /\ autoCeiling \in Nat /\ askedRate \in Nat
          /\ beforePause \in Nat /\ goodSeconds \in 0..(GoodEnough - 1)
          /\ most \in Nat /\ least \in Nat \ {0}
      BY <2>1, <2>2
    <3>2. foreground \in BOOLEAN /\ connected \in BOOLEAN
      BY <2>2
    <3> QED BY <3>1, <3>2 DEF AndroidBitrateTypeOK
  <2>4. RateIsBounded /\ least <= Floor /\ Top <= most
    BY <2>1, <2>2 DEF RateIsBounded, Smaller
  <2> QED BY <2>3, <2>4 DEF BitrateInv
<1> QED BY <1>1, BitrateSteps, PTL DEF AndroidBitrateSpec

\* The bitrate the Android client asks for stays between its floor and its maximum,
\* or what another client asked for.
THEOREM RatesAreBounded == AndroidBitrateSpec => []RateIsBounded
BY BitrateInvariant, PTL DEF BitrateInv

\* When the Android decoder refuses frames, the bitrate is lowered, and the host is
\* asked for it unless it hardly differs.
THEOREM RefusedIsLower == AndroidBitrateSpec => RefusedLowers
<1>1. BitrateInv /\ [AndroidBitrateNext]_bitrateVars
      => [FramesRefused /\ SteerBitrate("refused") =>
            /\ autoBitrate' <= autoBitrate \/ autoBitrate < Floor
            /\ askedRate' = autoBitrate' \/ (autoBitrate * 9) \div 10 < Floor]_bitrateVars
  <2> SUFFICES ASSUME BitrateInv, FramesRefused, SteerBitrate("refused")
               PROVE  /\ autoBitrate' <= autoBitrate \/ autoBitrate < Floor
                      /\ askedRate' = autoBitrate' \/ (autoBitrate * 9) \div 10 < Floor
    OBVIOUS
  <2>1. /\ autoBitrate \in Nat \ {0} /\ autoBitrate' = Lowered(autoBitrate) /\ connected
        /\ askedRate' = IF connected /\ Worth(autoBitrate, autoBitrate') THEN autoBitrate' ELSE askedRate
    BY DEF BitrateInv, AndroidBitrateTypeOK, FramesRefused, SteerBitrate, Sends
  <2>2. autoBitrate' \in Nat /\ (autoBitrate' <= autoBitrate \/ autoBitrate < Floor)
    BY <2>1, TenthsAndQuarters, AndroidBitrateAssumption DEF Lowered, Greater
  <2>3. ASSUME (autoBitrate * 9) \div 10 >= Floor
        PROVE  Worth(autoBitrate, autoBitrate')
    <3>1. autoBitrate' <= (autoBitrate * 9) \div 10
      BY <2>1, <2>3, TenthsAndQuarters, AndroidBitrateAssumption DEF Lowered, Greater
    <3>2. /\ Difference(autoBitrate', autoBitrate) = autoBitrate - autoBitrate'
          /\ autoBitrate - autoBitrate' \in Nat /\ 10 * (autoBitrate - autoBitrate') >= autoBitrate
      BY <2>1, <2>2, <3>1, TenthsAndQuarters DEF Difference
    <3>3. ((autoBitrate - autoBitrate') * 100) \div autoBitrate >= 10
      BY <2>1, <3>2, TenPercents
    <3> QED BY <3>2, <3>3 DEF Worth
  <2> QED BY <2>1, <2>2, <2>3, TenthsAndQuarters, AndroidBitrateAssumption
<1> QED BY <1>1, BitrateInvariant, PTL DEF AndroidBitrateSpec, RefusedLowers

----------------------------------------------------------------------------
(* The viewers side by side. *)

\* The first state of the viewers is a first state of each part.
LEMMA ViewersStart ==
    Init => /\ SwitchLinkInit /\ PicturesInit /\ N3dsInit /\ N3dsLinkInit
            /\ StationInit /\ AndroidVideoInit /\ AndroidLinkInit /\ AndroidBitrateInit
            /\ WiiuSoundInit
BY DEF Init

\* A step of the viewers is a step of each part or leaves it alone.
LEMMA ViewersStepSwitch ==
    [Next]_viewerVars => [SwitchLinkNext]_switchLinkVars /\ [PicturesNext]_pictureVars
BY DEF Next, viewerVars, notLink, notPictures, notN3dsPictures, notN3dsLink, notStation,
       notAndroidVideo, notAndroidLink, notBitrate, notSound

LEMMA ViewersStepN3ds ==
    [Next]_viewerVars => [N3dsNext]_n3dsVars /\ [N3dsLinkNext]_n3dsLinkVars
BY DEF Next, viewerVars, notLink, notPictures, notN3dsPictures, notN3dsLink, notStation,
       notAndroidVideo, notAndroidLink, notBitrate, notSound

LEMMA ViewersStepWiiu ==
    [Next]_viewerVars => [StationNext]_stationVars /\ [WiiuSoundNext]_soundVars
BY DEF Next, viewerVars, notLink, notPictures, notN3dsPictures, notN3dsLink, notStation,
       notAndroidVideo, notAndroidLink, notBitrate, notSound

LEMMA ViewersStepAndroid ==
    [Next]_viewerVars => /\ [AndroidVideoNext]_androidVideoVars /\ [AndroidLinkNext]_androidLinkVars
                         /\ [AndroidBitrateNext]_bitrateVars
BY DEF Next, viewerVars, notLink, notPictures, notN3dsPictures, notN3dsLink, notStation,
       notAndroidVideo, notAndroidLink, notBitrate, notSound

\* The viewers implement each of their parts: a behaviour of them is one of the
\* part that runs, and the others stutter.
THEOREM ViewersAreTheirParts ==
    Spec => /\ SwitchLinkSpec /\ AndroidVideoSpec /\ AndroidLinkSpec /\ AndroidBitrateSpec
            /\ WiiuSoundSpec
            /\ PicturesInit /\ [][PicturesNext]_pictureVars
            /\ N3dsInit /\ [][N3dsNext]_n3dsVars
            /\ N3dsLinkInit /\ [][N3dsLinkNext]_n3dsLinkVars
            /\ StationInit /\ [][StationNext]_stationVars
BY ViewersStart, ViewersStepSwitch, ViewersStepN3ds, ViewersStepWiiu, ViewersStepAndroid, PTL
   DEF Spec, SwitchLinkSpec, AndroidVideoSpec, AndroidLinkSpec, AndroidBitrateSpec, WiiuSoundSpec

\* The variables of every part keep their types, together (ViewerTypes).
THEOREM ViewersKeepTypes == Spec => []ViewerTypes
<1>1. SwitchLinkInv => SwitchLinkTypeOK
  BY DEF SwitchLinkInv
<1>2. PicturesInv => PicturesTypeOK
  BY PictureTypes DEF PicturesInv
<1>3. AndroidLinkInv => AndroidLinkTypeOK
  BY WordIsLast
<1>4. VideoInv => AndroidVideoTypeOK
  BY VideoIsTrue
<1>5. BitrateInv => AndroidBitrateTypeOK
  BY DEF BitrateInv
<1>6. SoundInv => WiiuSoundTypeOK
  BY DEF SoundInv, RingInv
<1> QED
  BY <1>1, <1>2, <1>3, <1>4, <1>5, <1>6, ViewersAreTheirParts, SwitchLinkInvariant, PicturesInvariant,
     N3dsReferencesAreThere, N3dsLinkInvariant, StationInvariant, AndroidVideoInvariant,
     AndroidLinkInvariant, BitrateInvariant, SoundInvariant, PTL DEF ViewerTypes

\* What a client shows and says is what is there (ClientsAreHonest): the Switch
\* client's control and settings, the 3DS client's status, the end of a GamePad
\* session, the Android client's screens, role and bitrate, and the sound the
\* Wii U client takes to be queued.
THEOREM ViewersAreHonest == Spec => []ClientsAreHonest
BY ViewersAreTheirParts, SwitchLinkKept, N3dsStatusIsTrue, SessionsEndClean, AndroidScreensAreTrue,
   RatesAreBounded, SoundIsTrue, PTL DEF ClientsAreHonest

\* But for the 3DS client's orphans, no decoder is given what it cannot decode;
\* no picture or sound is written over one that is still needed, and what waits
\* for one try is not tried twice (PicturesAreRight).
THEOREM ViewersDecodeRight == Spec => PicturesAreRight
BY ViewersAreTheirParts, SwitchDecodesWhole, N3dsReferencesAreThere, AndroidFeedsFromKey,
   N3dsAttemptsAreAsked, KicksAreAlone, RefusedIsLower, NoSoundIsLost, DropsAreFull, PTL
   DEF PicturesAreRight

=============================================================================
