--------------------------- MODULE AndroidBitrate ---------------------------
(***************************************************************************)
(* The Android client's automatic bitrate (MainActivity.kt): once a second *)
(* steerBitrate() moves the rate by what the last second looked like, the  *)
(* host's C2S_MSG_SHARED sets it to what another client asked for, and     *)
(* going to the background keeps it.  A change is sent to the host only    *)
(* when it is worth sending.                                               *)
(*                                                                         *)
(* Rates are whole numbers and divided as Kotlin divides them.  Left out:  *)
(* the size and the frame rate, which travel in the same message; a        *)
(* bitrate chosen by hand, with which steerBitrate() does nothing; and the *)
(* menu's own message (onStreamShapeChanged), which carries that bitrate   *)
(* or, in automatic mode, 0, which the host ignores.                       *)
(***************************************************************************)
EXTENDS Integers

CONSTANTS
    Floor, Top, BeginRate, \* BITRATE_FLOOR, BITRATE_MAX and the 8000 of the start
    Shares,            \* the rates other clients may ask for
    GoodEnough         \* the clean seconds before a raise

ASSUME AndroidBitrateAssumption ==
    /\ Floor \in Nat \ {0} /\ Top \in Nat /\ BeginRate \in Floor..Top
    /\ Shares \subseteq Nat \ {0} /\ GoodEnough \in Nat \ {0}

VARIABLES
    autoBitrate, autoCeiling, goodSeconds,
    askedRate,       \* the rate this client last sent to the host, or heard from it
    foreground, beforePause,
    connected,   \* client is not null
    most, least  \* history: the bounds of what others asked for, and the app's

bitrateVars == <<autoBitrate, autoCeiling, goodSeconds, askedRate, foreground, beforePause,
                 connected, most, least>>

AndroidBitrateTypeOK ==
    /\ autoBitrate \in Nat \ {0} /\ autoCeiling \in Nat /\ askedRate \in Nat /\ beforePause \in Nat
    /\ goodSeconds \in 0..(GoodEnough - 1) /\ foreground \in BOOLEAN /\ connected \in BOOLEAN
    /\ most \in Nat /\ least \in Nat \ {0}

-----------------------------------------------------------------------------
Greater(a, b) == IF a >= b THEN a ELSE b
Smaller(a, b) == IF a <= b THEN a ELSE b

\* "A change is only sent when it is worth sending", in whole percents of the
\* rate of a second ago, not of the one the host was sent.
Difference(a, b) == IF a >= b THEN a - b ELSE b - a
Worth(before, after) == (Difference(after, before) * 100) \div before >= 10
Sends(before, after) == askedRate' = IF connected /\ Worth(before, after) THEN after ELSE askedRate

\* Mutant of Lowered: nothing keeps it off the ground.
LoweredOnly(rate) == (rate * 3) \div 4

Lowered(rate) == Greater((rate * 3) \div 4, Floor)
TooMuch(rate) == Greater((rate * 9) \div 10, Floor)

\* Frames the decoder refused: down at once, and this is the ceiling now.
FramesRefused ==
    /\ autoBitrate' = Lowered(autoBitrate) /\ autoCeiling' = Lowered(autoBitrate)
    /\ goodSeconds' = 0

\* Frames thrown away as late: the rate is settled just under what was too much.
TooLate ==
    /\ autoCeiling' = TooMuch(autoBitrate)
    /\ autoBitrate' = Smaller(autoBitrate, TooMuch(autoBitrate))
    /\ goodSeconds' = 0

\* Clean for a while: a little more, and the ceiling drifts up.
Clean ==
    IF goodSeconds + 1 < GoodEnough
    THEN goodSeconds' = goodSeconds + 1 /\ UNCHANGED <<autoBitrate, autoCeiling>>
    ELSE LET ceiling == Smaller((autoCeiling * 21) \div 20, Top) IN
         /\ goodSeconds' = 0 /\ autoCeiling' = ceiling
         /\ autoBitrate' = Smaller((autoBitrate * 11) \div 10, Smaller(ceiling, Top))

\* steerBitrate(), which does nothing in the background or without a host.
SteerBitrate(second) ==
    /\ connected /\ foreground
    /\ CASE second = "refused" -> FramesRefused
         [] second = "late" -> TooLate
         [] second = "clean" -> Clean
    /\ Sends(autoBitrate, autoBitrate')
    /\ UNCHANGED <<foreground, beforePause, connected, most, least>>

\* adoptShared(): what somebody else set.  The ceiling is left alone.
AdoptShared(rate) ==
    /\ connected /\ rate \in Shares
    /\ autoBitrate' = rate /\ askedRate' = rate /\ goodSeconds' = 0
    /\ most' = Greater(most, rate) /\ least' = Smaller(least, rate)
    /\ UNCHANGED <<autoCeiling, foreground, beforePause, connected>>

OnPause == /\ foreground /\ foreground' = FALSE /\ beforePause' = autoBitrate
           /\ UNCHANGED <<autoBitrate, autoCeiling, goodSeconds, askedRate, connected, most, least>>

\* A ceiling learned before is forgotten, the rate of then asked for again.
OnResume ==
    /\ ~foreground /\ foreground' = TRUE /\ autoCeiling' = Top /\ goodSeconds' = 0
    /\ autoBitrate' = beforePause
    /\ askedRate' = IF connected THEN beforePause ELSE askedRate
    /\ UNCHANGED <<beforePause, connected, most, least>>

\* The host says what the group is sent when a client joins it.
Joins == /\ ~connected /\ connected' = TRUE
         /\ UNCHANGED <<autoBitrate, autoCeiling, goodSeconds, askedRate, foreground, beforePause,
                        most, least>>
HostLeaves == /\ connected /\ connected' = FALSE
          /\ UNCHANGED <<autoBitrate, autoCeiling, goodSeconds, askedRate, foreground, beforePause,
                         most, least>>

AndroidBitrateInit ==
    /\ autoBitrate = BeginRate /\ autoCeiling = Top /\ goodSeconds = 0 /\ askedRate = BeginRate
    /\ foreground = TRUE /\ beforePause = BeginRate /\ connected = FALSE
    /\ most = Top /\ least = Floor

AndroidBitrateNext ==
    \/ (\E second \in {"refused", "late", "clean"} : SteerBitrate(second))
    \/ (\E rate \in Shares : AdoptShared(rate))
    \/ OnPause \/ OnResume \/ Joins \/ HostLeaves

AndroidBitrateSpec == AndroidBitrateInit /\ [][AndroidBitrateNext]_bitrateVars

-----------------------------------------------------------------------------
\* Whatever the seconds look like and whoever else sets the rate, the client
\* asks for no more than its maximum or what another client asked for, and for
\* no less than its floor or that.
RateIsBounded ==
    /\ autoBitrate \in least..most /\ askedRate \in least..most /\ beforePause \in least..most
    /\ autoCeiling \in Smaller(Floor, least)..most

\* A second of refused frames does not raise the rate, but from below the floor
\* where another client had put it; and what comes of it is sent, unless the
\* floor leaves next to nothing to send.
RefusedLowers == [][FramesRefused /\ SteerBitrate("refused") =>
    /\ autoBitrate' <= autoBitrate \/ autoBitrate < Floor
    /\ askedRate' = autoBitrate' \/ (autoBitrate * 9) \div 10 < Floor]_bitrateVars

\* Refuted: "what is being asked for right now".  A tenth of a rate that is not
\* a multiple of ten is nine whole percents, and is never sent.
AsksWhatItSays == autoBitrate = askedRate

\* Refuted: "down fast".  The rate the host is asked for rises with a second of
\* refused frames if the raises before it were not sent.
RefusedAsksForLess == [][SteerBitrate("refused") /\ autoBitrate >= Floor => askedRate' <= askedRate]_bitrateVars
=============================================================================
