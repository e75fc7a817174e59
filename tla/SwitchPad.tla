------------------------------ MODULE SwitchPad ------------------------------
(***************************************************************************)
(* The controls of the Switch client (switch_homebrew/src: input.c, vpad.c *)
(* and their part of main.c).  The sampling thread reads the buttons and   *)
(* the glass, recognises the gestures, counts the presses and sends the    *)
(* pad to the host; the frame loop takes what it counted for the menu and  *)
(* says whether to send.                                                   *)
(*                                                                         *)
(* A button stands for what it does here: ok and back choose in the menu,  *)
(* sticks (L3+R3) opens it, combo (Start+Select) is HOME after a second    *)
(* and quit after five.  On the glass the pad is a stick and one button,   *)
(* which presses ok.                                                       *)
(***************************************************************************)
EXTENDS Naturals, FiniteSets

CONSTANTS
    Fingers,
    Holds,      \* what may be held together
    MaxPresses, \* the count of one button stops here: 250
    MaxTouches  \* bound: changes of what is held or touched, the way out of the menu aside

ASSUME SwitchPadAssumption ==
    /\ IsFiniteSet(Fingers) /\ Holds \subseteq SUBSET {"ok", "back", "sticks", "combo"}
    /\ MaxPresses \in Nat \ {0} /\ MaxTouches \in Nat

VARIABLES
    physical, glass, touches, \* what the player holds; where each finger is; the bound
    bound,          \* g_fingers: what each finger is bound to
    enabled, editing, accepting, \* g_enabled, g_editing, g_accepting
    sampler, state, \* poll_thread(): its next step and its pad
    sticksDown, hold, \* sticks_were_down; how long the combo is held: none, short, home
    snapshot, presses, \* g_snapshot, g_presses
    menuPending, touchPending, homePending, quitPending,
    forward, lastSent, hostHas, \* g_forward, last; the pad the host was last sent
    frame, got,     \* main(): its next step; the presses it took
    screen, inCategory, \* g_screen; whether a category of the menu is open
    playPressed     \* history: the presses of g_presses, or of got, made while playing

bodyVars == <<physical, glass, touches>>
glassVars == <<bound, enabled, editing, accepting>>
samplerVars == <<sampler, state, sticksDown, hold, snapshot, lastSent, hostHas>>
pendingVars == <<menuPending, touchPending, homePending, quitPending>>
pressVars == <<presses, playPressed>>
frameVars == <<frame, got, screen, inCategory, forward>>
padVars == <<bodyVars, glassVars, samplerVars, pendingVars, pressVars, frameVars>>

Choosing == {"ok", "back"}
Controls == {"stick", "button"}
Free == [f \in Fingers |-> "free"]
NoPress == [b \in Choosing |-> 0]

----------------------------------------------------------------------------
(* The player. *)

Hold(s) == /\ touches < MaxTouches /\ s # physical /\ physical' = s /\ touches' = touches + 1
           /\ UNCHANGED <<glass, glassVars, samplerVars, pendingVars, pressVars, frameVars>>
Touch(f, c) == /\ touches < MaxTouches /\ glass[f] # c /\ glass' = [glass EXCEPT ![f] = c]
               /\ touches' = touches + 1
               /\ UNCHANGED <<physical, glassVars, samplerVars, pendingVars, pressVars, frameVars>>

----------------------------------------------------------------------------
(* poll_thread(). *)

Sample ==
    /\ sampler = "sample" /\ state' = physical
    /\ sampler' = IF enabled THEN "touches" ELSE "merge"
    /\ UNCHANGED <<bodyVars, glassVars, sticksDown, hold, snapshot, lastSent, hostHas, pendingVars, pressVars, frameVars>>

\* hit_test()
HitTest(f) == IF glass[f] \in Controls THEN glass[f] ELSE "free"

\* A finger that slid off a button lets it go; a stick is dragged, unless the
\* finger is too far away to be the same one.
StillOn(f) == bound[f] = glass[f] \/ bound[f] = "stick" \/ editing

\* Mutant of NowBound: who takes no new touch does not look for the old ones.
NowBoundAccepting(f) ==
    IF ~accepting THEN {bound[f]}
    ELSE IF glass[f] = "off" THEN {"free"}
    ELSE {HitTest(f)} \cup {b \in {bound[f]} : b # "free" /\ StillOn(f)}

NowBound(f) ==
    IF glass[f] = "off" THEN {"free"}
    ELSE IF ~accepting THEN {bound[f]}
    ELSE {HitTest(f)} \cup {b \in {bound[f]} : b # "free" /\ StillOn(f)}

\* vpad_poll_touches(), what it does under the lock.
PollTouches ==
    /\ sampler = "touches" /\ sampler' = "merge"
    /\ bound' \in {b \in [Fingers -> Controls \cup {"free"}] : \A f \in Fingers : b[f] \in NowBound(f)}
    /\ UNCHANGED <<bodyVars, enabled, editing, accepting, state, sticksDown, hold, snapshot, lastSent, hostHas,
                   pendingVars, pressVars, frameVars>>

\* vpad_merge()
OnGlass == IF ~enabled \/ editing THEN {}
           ELSE (IF \E f \in Fingers : bound[f] = "button" THEN {"ok"} ELSE {})
                \cup (IF \E f \in Fingers : bound[f] = "stick" THEN {"lean"} ELSE {})

Merge ==
    /\ sampler = "merge" /\ sampler' = "count" /\ state' = state \cup OnGlass
    /\ UNCHANGED <<bodyVars, glassVars, sticksDown, hold, snapshot, lastSent, hostHas, pendingVars, pressVars, frameVars>>

\* Mutant of Counted: no end.
CountedForEver(b) == presses[b] + 1

Counted(b) == IF presses[b] < MaxPresses THEN presses[b] + 1 ELSE presses[b]

\* gestures() and the presses, under the lock.
Count ==
    /\ sampler = "count" /\ sampler' = "send"
    /\ menuPending' = (menuPending \/ ("sticks" \in state /\ ~sticksDown))
    /\ sticksDown' = ("sticks" \in state)
    /\ \/ "combo" \in state /\ hold = "none" /\ hold' = "short" /\ UNCHANGED <<homePending, quitPending>>
       \/ "combo" \in state /\ hold # "none" /\ hold' \in {hold, "home"} /\ UNCHANGED <<homePending, quitPending>>
       \/ "combo" \in state /\ hold = "home" /\ hold' = "none" /\ quitPending' = TRUE /\ UNCHANGED homePending
       \/ /\ "combo" \notin state /\ hold' = "none" /\ UNCHANGED quitPending
          /\ homePending' = (homePending \/ hold = "home")
    /\ state' = state \ {"sticks", "combo"}
    /\ LET new == (state' \cap Choosing) \ snapshot IN
       /\ presses' = [b \in Choosing |-> IF b \in new THEN Counted(b) ELSE presses[b]]
       /\ playPressed' = IF screen = "stream" THEN playPressed \cup new ELSE playPressed
    /\ snapshot' = state'
    /\ UNCHANGED <<bodyVars, glassVars, lastSent, hostHas, touchPending, frameVars>>

\* Mutant of SendPad: a pad with nothing on it is not sent.
SendPadHeld ==
    /\ sampler = "send" /\ sampler' = "sample"
    /\ lastSent' = IF forward THEN state ELSE {}
    /\ hostHas' \in {hostHas} \cup (IF forward /\ state # {} THEN {state} ELSE {})
    /\ UNCHANGED <<bodyVars, glassVars, state, sticksDown, hold, snapshot, pendingVars, pressVars, frameVars>>

\* What changed is sent at once, and what did not ten times a second.  What is
\* not forwarded is not sent, its release neither: the host lets a silent pad
\* go by itself.
SendPad ==
    /\ sampler = "send" /\ sampler' = "sample"
    /\ lastSent' = IF forward THEN state ELSE {}
    /\ \/ forward /\ hostHas' = state
       \/ (~forward \/ state = lastSent) /\ UNCHANGED hostHas
    /\ UNCHANGED <<bodyVars, glassVars, state, sticksDown, hold, snapshot, pendingVars, pressVars, frameVars>>

----------------------------------------------------------------------------
(* main(): what a frame does about the controls. *)

\* menu_enter(): a category, or what an entry does.
MenuEnter ==
    \/ ~inCategory /\ inCategory' \in BOOLEAN /\ UNCHANGED <<screen, enabled, editing, bound>>
    \/ inCategory /\ UNCHANGED inCategory /\
       \/ screen' \in {"menu", "stream", "padtest"} /\ UNCHANGED <<enabled, editing, bound>>
       \/ /\ enabled' = ~enabled /\ UNCHANGED screen \* MENU_TOUCHPAD
          /\ IF enabled THEN bound' = Free /\ editing' = FALSE ELSE UNCHANGED <<bound, editing>>
       \/ /\ editing' = ~editing /\ bound' = Free \* MENU_TOUCH_EDIT
          /\ IF editing THEN UNCHANGED <<enabled, screen>> ELSE enabled' = TRUE /\ screen' = "stream"

\* The way back: out of the category, then out of the menu.
MenuBack == inCategory' = FALSE /\ screen' = IF inCategory THEN screen ELSE "stream"

\* A tap in the menu is a row, or the way back.
TapMenu ==
    /\ frame = "events" /\ screen = "menu"
    /\ \/ MenuEnter /\ touches < MaxTouches /\ touches' = touches + 1
       \/ MenuBack /\ UNCHANGED <<enabled, editing, bound, touches>>
    /\ UNCHANGED <<physical, glass, accepting, samplerVars, pendingVars, pressVars, frame, got, forward>>

\* A tap at the top of any other screen, away from the pad, opens the menu.
TapTop ==
    /\ frame = "events" /\ screen # "menu" /\ touches < MaxTouches /\ touches' = touches + 1
    /\ touchPending' = TRUE
    /\ UNCHANGED <<physical, glass, glassVars, samplerVars, menuPending, homePending, quitPending, pressVars, frameVars>>

\* vpad_set_accepting(): the fingers first, the flag afterwards.
SetAccepting ==
    /\ frame = "events"
    /\ IF screen = "menu" /\ accepting
       THEN bound' = Free /\ frame' = "refuse" /\ UNCHANGED accepting
       ELSE accepting' = (screen # "menu") /\ frame' = "gesture" /\ UNCHANGED bound
    /\ UNCHANGED <<bodyVars, enabled, editing, samplerVars, pendingVars, pressVars, got, screen, inCategory, forward>>

Refuse ==
    /\ frame = "refuse" /\ frame' = "gesture" /\ accepting' = FALSE
    /\ UNCHANGED <<bodyVars, bound, enabled, editing, samplerVars, pendingVars, pressVars, got, screen, inCategory, forward>>

TakeMenu ==
    /\ frame = "gesture"
    /\ IF menuPending \/ touchPending
       THEN /\ menuPending' = FALSE /\ touchPending' = (touchPending /\ menuPending)
            /\ screen' = IF screen = "menu" THEN "stream" ELSE "menu"
            /\ inCategory' = FALSE /\ frame' = "opening"
       ELSE frame' = "home" /\ UNCHANGED <<menuPending, touchPending, screen, inCategory>>
    /\ UNCHANGED <<bodyVars, glassVars, samplerVars, homePending, quitPending, pressVars, got, forward>>

\* Mutant of Opening: what was pressed stays.
OpeningOnly ==
    /\ frame = "opening" /\ frame' = "home" /\ bound' = Free
    /\ UNCHANGED <<bodyVars, enabled, editing, accepting, samplerVars, pendingVars, pressVars, got, screen, inCategory, forward>>

\* input_clear_presses(), vpad_touch_clear()
Opening ==
    /\ frame = "opening" /\ frame' = "home" /\ bound' = Free
    /\ presses' = NoPress /\ playPressed' = {}
    /\ UNCHANGED <<bodyVars, enabled, editing, accepting, samplerVars, pendingVars, got, screen, inCategory, forward>>

TakeHome ==
    /\ frame = "home" /\ homePending' = FALSE /\ quitPending' = FALSE
    /\ frame' = IF quitPending THEN "over" ELSE "take"
    /\ UNCHANGED <<bodyVars, glassVars, samplerVars, menuPending, touchPending, pressVars, got, screen, inCategory, forward>>

\* input_take_press()
TakePresses ==
    /\ frame = "take" /\ frame' = "enter"
    /\ got' = {b \in Choosing : presses[b] > 0} /\ presses' = NoPress
    /\ playPressed' = playPressed \cap got'
    /\ UNCHANGED <<bodyVars, glassVars, samplerVars, pendingVars, screen, inCategory, forward>>

Enter ==
    /\ frame = "enter" /\ screen = "menu" /\ "ok" \in got /\ frame' = "leave" /\ MenuEnter
    /\ UNCHANGED <<bodyVars, accepting, samplerVars, pendingVars, pressVars, got, forward>>

EnterNothing ==
    /\ frame = "enter" /\ ~(screen = "menu" /\ "ok" \in got)
    /\ frame' = IF screen = "menu" THEN "leave" ELSE "padtest"
    /\ UNCHANGED <<bodyVars, glassVars, samplerVars, pendingVars, pressVars, got, screen, inCategory, forward>>

\* menu_leave_category(), and out of the menu, or of the controller test.
Leave ==
    /\ frame \in {"leave", "padtest"} /\ frame' = "show"
    /\ IF "back" \notin got \/ (frame = "padtest" /\ screen # "padtest") THEN UNCHANGED <<screen, inCategory>>
       ELSE IF frame = "padtest" THEN screen' = "menu" /\ UNCHANGED inCategory
       ELSE MenuBack
    /\ UNCHANGED <<bodyVars, glassVars, samplerVars, pendingVars, pressVars, got, forward>>

\* Not a menu: nothing is queued up for the next time one opens.
Show ==
    /\ frame = "show" /\ frame' = "events" /\ got' = {}
    /\ forward' = (screen = "stream")
    /\ IF screen = "stream" THEN presses' = NoPress /\ playPressed' = {}
       ELSE playPressed' = playPressed \ got /\ UNCHANGED presses
    /\ UNCHANGED <<bodyVars, glassVars, samplerVars, pendingVars, screen, inCategory>>

----------------------------------------------------------------------------
SwitchPadInit ==
    /\ physical = {} /\ glass = [f \in Fingers |-> "off"] /\ touches = 0
    /\ bound = Free /\ enabled = TRUE /\ editing = FALSE /\ accepting = TRUE
    /\ sampler = "sample" /\ state = {} /\ sticksDown = FALSE /\ hold = "none" /\ snapshot = {} /\ lastSent = {} /\ hostHas = {}
    /\ menuPending = FALSE /\ touchPending = FALSE /\ homePending = FALSE /\ quitPending = FALSE
    /\ presses = NoPress /\ playPressed = {}
    /\ frame = "events" /\ got = {} /\ screen = "menu" /\ inCategory = FALSE /\ forward = FALSE

PlayerNext == \/ \E s \in Holds : Hold(s)
              \/ \E f \in Fingers, c \in Controls \cup {"off", "blank"} : Touch(f, c)
SamplerNext == Sample \/ PollTouches \/ Merge \/ Count \/ SendPad
FrameNext == \/ SetAccepting \/ Refuse \/ TakeMenu \/ Opening \/ TakeHome \/ TakePresses
             \/ Enter \/ EnterNothing \/ Leave \/ Show
TapNext == TapMenu \/ TapTop

SwitchPadNext == PlayerNext \/ SamplerNext \/ FrameNext \/ TapNext
SwitchPadSpec == SwitchPadInit /\ [][SwitchPadNext]_padVars

\* The thread and the loop run for ever, and a tenth of a second passes; the
\* player does what he likes.
SwitchPadFairness == WF_padVars(SamplerNext) /\ WF_padVars(FrameNext) /\ SF_padVars(SendPad /\ hostHas' = state)

----------------------------------------------------------------------------
SwitchPadTypeOK ==
    /\ physical \subseteq {"ok", "back", "sticks", "combo"} /\ touches \in 0 .. MaxTouches
    /\ glass \in [Fingers -> Controls \cup {"off", "blank"}]
    /\ bound \in [Fingers -> Controls \cup {"free"}]
    /\ {enabled, editing, accepting, sticksDown, menuPending, touchPending, homePending, quitPending,
        forward, inCategory} \subseteq BOOLEAN
    /\ sampler \in {"sample", "touches", "merge", "count", "send"} /\ hold \in {"none", "short", "home"}
    /\ presses \in [Choosing -> 0 .. MaxPresses] /\ got \subseteq Choosing
    /\ screen \in {"menu", "stream", "padtest"}
    /\ state \cup snapshot \cup lastSent \cup hostHas \subseteq {"ok", "back", "sticks", "combo", "lean"}

\* "Whatever was pressed while playing is not a menu choice": no press the
\* menu acts on was counted while the stream had the screen.
PlayIsNoChoice == frame \in {"enter", "leave"} /\ screen = "menu" => got \cap playPressed = {}

\* "Nothing binds to the pad while a local screen owns the glass."
NothingBinds == ~accepting => bound = Free

\* A finger that is gone lets its button go, whatever screen has the glass.
LiftedIsLetGo == \A f \in Fingers :
    (bound[f] # "free" /\ glass[f] = "off" /\ enabled) ~> (bound[f] = "free" \/ glass[f] # "off" \/ ~enabled)

\* The pad the player let go of does not stay pressed on the host while the
\* stream has the screen, whatever was held when the menu opened or closed.
LetGoReachesHost ==
    (hostHas # {} /\ physical = {} /\ (\A f \in Fingers : glass[f] = "off"))
        ~> (hostHas = {} \/ physical # {} \/ (\E f \in Fingers : glass[f] # "off") \/ ~forward \/ frame = "over")

\* What the player let go of is let go of.
HandsLetGo == LiftedIsLetGo /\ LetGoReachesHost

=============================================================================
