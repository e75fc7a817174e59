---------------------------- MODULE ChangeWatch ----------------------------
(***************************************************************************)
(* The follow-up of a script wake.  wake_console.sh powers the console up  *)
(* and its thread (reset_method.c) arms a watch; the capture loop          *)
(* (capture2cloud.c) feeds every captured frame to it (video_capture.c)    *)
(* and, once the picture has left the "no signal" pattern for a few frames *)
(* - or after a minute of frames -, re-enumerates the controller adapter.  *)
(* The flags are ints without a lock, two of them volatile, and nothing    *)
(* keeps two wake scripts from running together, so each load and each     *)
(* store is a step.                                                        *)
(*                                                                         *)
(* A frame is abstracted to which picture it shows: two frames differ when *)
(* enough of their samples do.  The last six variables are history.        *)
(***************************************************************************)
EXTENDS Integers

CONSTANTS
    Wakers,    \* threads running the wake script
    Pictures,
    MinFrames, \* CHANGE_MIN_FRAMES
    Timeout,   \* CHANGE_TIMEOUT_FRAMES
    MaxWakes   \* bound on the wakes of a behaviour

ASSUME WatchAssumption ==
    /\ MinFrames \in Nat \ {0} /\ Timeout \in Nat /\ MaxWakes \in Nat

VARIABLES
    card,      \* the capture card delivers frames
    watching,  \* g_change_watching
    detected,  \* g_change_detected
    haveRef,   \* g_change_have_reference
    reference, \* g_change_reference
    streak,    \* g_change_streak
    waited,    \* g_change_frames_waited
    made,      \* the stores each arming thread has made
    pc,        \* where the capture loop is
    frame,     \* the frame it is looking at
    n,         \* the count it has loaded
    fired,     \* it has already reported on this frame
    armed,     \* wakes that armed the watch
    resets,    \* calls of gamepad_bridge_reset()
    owed,      \* a wake has armed the watch and no reset came since
    changed,   \* changed frames in a row since the watch was last armed
    fed,       \* frames counted since then
    hurried    \* a script once ended before the last wake was followed up

flags == <<watching, detected, haveRef, reference, streak, waited>>
local == <<frame, n, fired>>
history == <<armed, resets, owed, changed, fed, hurried>>
vars == <<card, flags, made, pc, local, history>>

----------------------------------------------------------------------------
(* video_capture_watch_for_change(), after the wake script. *)

\* Mutant of Stores: the streak of the last watch is kept.
StoresNoStreak == {"haveRef", "waited", "detected"}

\* What it clears before the watch is on.  g_change_detected is volatile and the
\* counters are not, so a build may clear it before, after or between them.
Stores == {"haveRef", "streak", "waited", "detected"}

\* The counters are cleared in this order.
Before == {<<"haveRef", "streak">>, <<"streak", "waited">>}

\* Mutant of Ready: an old report is withdrawn after the watch is on.
ReadyLate(done) ==
    IF Stores \ {"detected"} \subseteq done
    THEN {"detected", "watching"} \ done
    ELSE {x \in Stores \ done : \A y \in Stores \ done : <<y, x>> \notin Before}

\* The stores that may come next.
Ready(done) ==
    IF Stores \subseteq done THEN {"watching"}
    ELSE {x \in Stores \ done : \A y \in Stores \ done : <<y, x>> \notin Before}

\* The last wake is over, its follow-up included.
Calm == ~watching /\ pc = "poll" /\ \A v \in Wakers : made[v] = {}

\* The thread of a finished script makes its next store.
Arm(w) ==
    \E next \in Ready(made[w]) :
        LET on == next = "watching"
            done == made[w] \cup {next}
        IN  /\ made[w] # {} \/ armed < MaxWakes
            /\ made' = [made EXCEPT ![w] = IF Stores \cup {"watching"} = done
                                          THEN {} ELSE done]
            /\ haveRef'  = (haveRef /\ next # "haveRef")
            /\ streak'   = IF next = "streak" THEN 0 ELSE streak
            /\ waited'   = IF next = "waited" THEN 0 ELSE waited
            /\ detected' = (detected /\ next # "detected")
            /\ watching' = (watching \/ on)
            /\ armed'    = IF on THEN armed + 1 ELSE armed
            /\ owed'     = (owed \/ on)
            /\ changed'  = IF on THEN 0 ELSE changed
            /\ fed'      = IF on THEN 0 ELSE fed
            /\ hurried'  = (hurried \/ (made[w] = {} /\ ~Calm))
            /\ UNCHANGED <<card, reference, pc, local, resets>>

----------------------------------------------------------------------------
(* The capture loop: change_watch_feed() for each frame, then              *)
(* video_capture_take_change_detected() and the reset.                     *)

\* The card drops off the USB bus, or comes back.
CardLost ==
    /\ card /\ pc = "poll"
    /\ card' = FALSE
    /\ UNCHANGED <<flags, made, pc, local, history>>

CardBack ==
    /\ ~card
    /\ card' = TRUE
    /\ UNCHANGED <<flags, made, pc, local, history>>

\* A frame is read and fed; the watch may be off.
Feed ==
    /\ pc = "poll" /\ card
    /\ frame' \in Pictures
    /\ fired' = FALSE
    /\ pc' = IF watching THEN "compare" ELSE "take"
    /\ UNCHANGED <<card, flags, made, n, history>>

Differs == frame # reference

\* The first frame after arming becomes the reference, and is not counted;
\* the others are compared with it.
Compare ==
    /\ pc = "compare"
    /\ \/ /\ ~haveRef
          /\ reference' = frame /\ pc' = "mark"
          /\ UNCHANGED <<changed, fed>>
       \/ /\ haveRef /\ Differs
          /\ pc' = "load"
          /\ changed' = changed + 1 /\ fed' = fed + 1
          /\ UNCHANGED reference
       \/ /\ haveRef /\ ~Differs
          /\ pc' = "still"
          /\ changed' = 0 /\ fed' = fed + 1
          /\ UNCHANGED reference
    /\ UNCHANGED <<card, watching, detected, haveRef, streak, waited, made,
                   local, armed, resets, owed, hurried>>

Mark ==
    /\ pc = "mark"
    /\ haveRef' = TRUE /\ pc' = "take"
    /\ UNCHANGED <<card, watching, detected, reference, streak, waited, made,
                   local, history>>

\* ++g_change_streak: a load and a store
Load ==
    /\ pc = "load"
    /\ n' = streak /\ pc' = "bump"
    /\ UNCHANGED <<card, flags, made, frame, fired, history>>

\* Mutant of Enough: the streak is compared with the wrong operator.
EnoughEarly(k) == k + 1 >= MinFrames

Enough(k) == k >= MinFrames

Bump ==
    /\ pc = "bump"
    /\ streak' = n + 1
    /\ pc' = IF Enough(n + 1) THEN "disarm" ELSE "wait"
    /\ UNCHANGED <<card, watching, detected, haveRef, reference, waited, made,
                   local, history>>

\* Mutant of Still: the streak restarts one short.
StillShort ==
    /\ pc = "still"
    /\ streak' = -1 /\ pc' = "wait"
    /\ UNCHANGED <<card, watching, detected, haveRef, reference, waited, made,
                   local, history>>

Still ==
    /\ pc = "still"
    /\ streak' = 0 /\ pc' = "wait"
    /\ UNCHANGED <<card, watching, detected, haveRef, reference, waited, made,
                   local, history>>

\* The watch goes off, and what it saw is reported: once for a changed
\* picture, once more if the frame also is the last one waited for.
Disarm ==
    /\ pc \in {"disarm", "expire"}
    /\ watching' = FALSE
    /\ pc' = IF pc = "disarm" THEN "report" ELSE "expired"
    /\ UNCHANGED <<card, detected, haveRef, reference, streak, waited, made,
                   local, history>>

Report ==
    /\ pc \in {"report", "expired"}
    /\ detected' = TRUE /\ fired' = TRUE
    /\ pc' = IF pc = "report" THEN "wait" ELSE "take"
    /\ UNCHANGED <<card, watching, haveRef, reference, streak, waited, made,
                   frame, n, history>>

\* ++g_change_frames_waited: a load and a store
Wait ==
    /\ pc = "wait"
    /\ n' = waited /\ pc' = "tick"
    /\ UNCHANGED <<card, flags, made, frame, fired, history>>

TooLong(k) == k > Timeout

Tick ==
    /\ pc = "tick"
    /\ waited' = n + 1
    /\ pc' = IF TooLong(n + 1) THEN "expire" ELSE "take"
    /\ UNCHANGED <<card, watching, detected, haveRef, reference, streak, made,
                   local, history>>

Take ==
    /\ pc = "take"
    /\ pc' = IF detected THEN "taken" ELSE "poll"
    /\ UNCHANGED <<card, flags, made, local, history>>

\* Mutant of After: the report stays to be taken again.
AfterKept == TRUE

\* What taking a report leaves of it.
After == FALSE

Taken ==
    /\ pc = "taken"
    /\ detected' = After
    /\ resets' = resets + 1 /\ owed' = FALSE
    /\ pc' = "poll"
    /\ UNCHANGED <<card, watching, haveRef, reference, streak, waited, made,
                   local, armed, changed, fed, hurried>>

----------------------------------------------------------------------------

Init ==
    /\ card = TRUE
    /\ watching = FALSE /\ detected = FALSE /\ haveRef = FALSE
    /\ reference \in Pictures /\ streak = 0 /\ waited = 0
    /\ made = [w \in Wakers |-> {}]
    /\ pc = "poll" /\ frame = reference /\ n = 0 /\ fired = FALSE
    /\ armed = 0 /\ resets = 0 /\ owed = FALSE /\ changed = 0 /\ fed = 0
    /\ hurried = FALSE

\* One frame's worth of the loop, once it has a frame.
Inside == Compare \/ Mark \/ Load \/ Bump \/ Still \/ Disarm \/ Report
          \/ Wait \/ Tick \/ Take \/ Taken

Loop == Feed \/ Inside

Next ==
    \/ \E w \in Wakers : Arm(w)
    \/ CardLost \/ CardBack
    \/ Loop

Spec == Init /\ [][Next]_vars

\* The loop runs, frames come again and again while the card is there, and
\* a thread that has begun to arm the watch finishes.
Fairness ==
    /\ SF_vars(Feed) /\ WF_vars(Inside)
    /\ \A w \in Wakers : WF_vars(made[w] # {} /\ Arm(w))

\* The card may be gone for good.
LoopSpec == Spec /\ Fairness

\* A card that drops off the bus comes back.
CardSpec == LoopSpec /\ WF_vars(CardBack)

----------------------------------------------------------------------------
(* Properties *)

\* The variables have their types.
TypeOK ==
    /\ card \in BOOLEAN /\ owed \in BOOLEAN /\ fired \in BOOLEAN
    /\ hurried \in BOOLEAN
    /\ watching \in BOOLEAN /\ detected \in BOOLEAN /\ haveRef \in BOOLEAN
    /\ reference \in Pictures /\ frame \in Pictures
    /\ streak \in Nat /\ waited \in Nat /\ n \in Nat
    /\ armed \in Nat /\ resets \in Nat /\ changed \in Nat /\ fed \in Nat
    /\ made \in [Wakers -> SUBSET Stores]
    /\ pc \in {"poll", "compare", "mark", "load", "bump", "still", "disarm",
               "report", "wait", "tick", "expire", "expired", "take", "taken"}

\* A wake is always followed up by a reset of the adapter, whatever the
\* picture does: "a wake never leaves the follow-up undone"
\* (video_capture.c, CHANGE_TIMEOUT_FRAMES; change_watch_feed()).
FollowedUp == owed ~> ~owed

\* "re-enumerating the adapter mid-game would be worse than doing nothing"
\* (test_change_watch.c): never more resets than wakes, however the arming
\* of one wake interleaves with the report of another.
OneResetPerWake == resets <= armed

\* The adapter is not re-enumerated while the console still sleeps: what
\* ends a watch is MinFrames changed frames in a row, or Timeout frames, all
\* of them since it was armed (change_watch_feed()) - as long as every wake
\* was followed up before the next script ended.
NotTooEager ==
    ~hurried => /\ pc = "disarm" => changed >= MinFrames
                /\ pc = "expire" => fed > Timeout

\* "The frame present when the watch is armed becomes the reference [...] A
\* frame that differs from it means something woke up" (video_capture.h): a
\* changed picture ends a watch only if a frame differed since it was armed.
OwnReference == pc = "disarm" => changed > 0

=============================================================================
