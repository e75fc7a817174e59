-------------------------------- MODULE Pace --------------------------------
(***************************************************************************)
(* The token bucket that keeps a chain at the rate of its screen: the host *)
(* feeds an encoder from a capture that may run faster than the console    *)
(* that watches (gst_webrtc.c, push_switch_chain for the Wii U console and *)
(* push_old3ds_chain).  A picture is due every Frame ticks.                *)
(***************************************************************************)
EXTENDS Integers

CONSTANTS
    Frame,    \* frame_us
    Gap,      \* half a second: a longer pause starts the bucket afresh
    MaxTicks  \* for how long the chain is watched

ASSUME PaceAssumption ==
    Frame \in Nat \ {0} /\ Gap \in Nat /\ Frame <= Gap /\ MaxTicks \in Nat

VARIABLES
    fed,      \* whether the chain was ever fed
    elapsed,  \* the time since pace_last_us
    credit,   \* pace_credit_us
    shown,    \* the screen time of the pictures let through
    since,    \* the time since the last of them
    ticks     \* the time since the first of them

paceVars == <<fed, elapsed, credit, shown, since, ticks>>

PaceTypeOK == /\ fed \in BOOLEAN
              /\ elapsed \in Nat /\ shown \in Nat /\ since \in Nat /\ ticks \in Nat
              /\ credit \in Nat

\* The credit when a picture arrives: what there was and the time since the
\* last arrival, at most two pictures' worth, or one picture after a pause.
Afresh == ~fed \/ elapsed > Gap

\* Mutant of Credit: an arrival after a while is taken for a first one.
CreditAfresh == IF credit + elapsed > Frame THEN 2 * Frame ELSE credit + elapsed

Credit == IF Afresh THEN Frame
          ELSE IF credit + elapsed > 2 * Frame THEN 2 * Frame ELSE credit + elapsed

\* A picture arrives from the capture: it is let through or left out.
PictureArrives ==
    /\ fed' = TRUE /\ elapsed' = 0 /\ ticks' = ticks
    /\ \/ /\ Credit >= Frame /\ credit' = Credit - Frame
          /\ shown' = shown + Frame /\ since' = 0
       \/ /\ Credit < Frame /\ credit' = Credit
          /\ UNCHANGED <<shown, since>>

Tick == /\ fed /\ ticks < MaxTicks
        /\ elapsed' = elapsed + 1 /\ since' = since + 1 /\ ticks' = ticks + 1
        /\ UNCHANGED <<fed, credit, shown>>

PaceInit == fed = FALSE /\ elapsed = 0 /\ credit = 0 /\ shown = 0 /\ since = 0 /\ ticks = 0
PaceNext == PictureArrives \/ Tick
PaceSpec == PaceInit /\ [][PaceNext]_paceVars

-----------------------------------------------------------------------------
\* What was let through, and what the next one finds, never exceed the time
\* that passed and one picture; what it finds is at least the time since the
\* last one.
PaceInv == /\ PaceTypeOK
           /\ ~fed => elapsed = 0 /\ credit = 0 /\ shown = 0 /\ since = 0 /\ ticks = 0
           /\ fed => shown + credit + elapsed <= ticks + Frame
           /\ credit + elapsed >= since

\* The chain never runs ahead of its screen: the pictures let through take no
\* more screen time than has passed since the first of them, and one picture.
PaceBounded == shown <= ticks + Frame

\* Nor does jitter turn sixty pictures into thirty: a picture that arrives
\* when the last one has had its time is let through.
PaceKeepsUp == [][(fed' /\ elapsed' = 0 /\ since >= Frame) => shown' = shown + Frame]_paceVars
=============================================================================
