-------------------------- MODULE ControllerMerge --------------------------
(***************************************************************************)
(* What the controller merge promises (server/gamepad_bridge.h): each      *)
(* client's state is kept apart, and the console sees the combination of   *)
(* the hands that are on it now - never a hand that has left, never an     *)
(* earlier combination after a later one.                                  *)
(***************************************************************************)
EXTENDS Integers

CONSTANTS Sources, Buttons, Reach, Shapings, NONE

VARIABLES
    hands,   \* what each hand holds; NONE when it is not on the console
    shaping, \* the calibration
    console  \* what the console is told

vars == <<hands, shaping, console>>

State == [press : SUBSET Buttons, stick : -Reach..Reach]

Neutral == [press |-> {}, stick |-> 0]

Abs(v) == IF v < 0 THEN -v ELSE v

Present == {s \in Sources : hands[s] # NONE}

\* The combinations of the hands: one, but for equal and opposite deflections.
Combined ==
    LET sticks  == {hands[s].stick : s \in Present}
        largest == {v \in sticks : \A w \in sticks : Abs(w) <= Abs(v)}
    IN  [press : {UNION {hands[s].press : s \in Present}},
         stick : IF sticks = {} THEN {0} ELSE largest]

Init ==
    /\ hands = [s \in Sources |-> NONE]
    /\ shaping \in Shapings
    /\ console = [state |-> Neutral, shape |-> shaping]

\* A hand moves; others that fell silent are taken off.
Move(s, v, gone) ==
    /\ hands' = [t \in Sources |-> IF t = s THEN v
                                   ELSE IF t \in gone THEN NONE ELSE hands[t]]
    /\ UNCHANGED <<shaping, console>>

Leave(gone) ==
    /\ hands' = [t \in Sources |-> IF t \in gone THEN NONE ELSE hands[t]]
    /\ UNCHANGED <<shaping, console>>

Calibrate(gone) ==
    /\ hands' = [t \in Sources |-> IF t \in gone THEN NONE ELSE hands[t]]
    /\ shaping' \in Shapings
    /\ UNCHANGED console

Show ==
    /\ console' \in [state : Combined, shape : {shaping}]
    /\ UNCHANGED <<hands, shaping>>

Next ==
    \/ \E s \in Sources, v \in State, gone \in SUBSET Sources : Move(s, v, gone)
    \/ \E gone \in SUBSET Sources : Leave(gone) \/ Calibrate(gone)
    \/ Show

Spec == Init /\ [][Next]_vars

=============================================================================
