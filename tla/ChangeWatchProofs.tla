------------------------- MODULE ChangeWatchProofs -------------------------
(***************************************************************************)
(* What the screen-change watch guarantees for every number of wake        *)
(* scripts, pictures and counts.                                           *)
(***************************************************************************)
EXTENDS ChangeWatch, TLAPS

\* The watch goes on when everything else is cleared, and not before.
LEMMA ReadyStores ==
    ASSUME NEW d \in SUBSET Stores, NEW x \in Ready(d)
    PROVE  /\ "watching" \notin Stores
           /\ x = "watching" => d = Stores
           /\ x # "watching" => x \in Stores /\ d \cup {x} \in SUBSET Stores
           /\ (Stores \cup {"watching"} = d \cup {x}) <=> x = "watching"
<1>1. "watching" \notin Stores
  BY DEF Stores
<1>2. CASE Stores \subseteq d
  BY <1>1, <1>2 DEF Ready
<1>3. CASE ~(Stores \subseteq d)
  BY <1>1, <1>3 DEF Ready
<1>4. QED
  BY <1>2, <1>3

\* One store of an arming thread.
ArmStore(w, x) ==
    /\ x \in Ready(made[w])
    /\ made[w] # {} \/ armed < MaxWakes
    /\ made' = [made EXCEPT ![w] = IF x = "watching" THEN {} ELSE made[w] \cup {x}]
    /\ haveRef'  = (haveRef /\ x # "haveRef")
    /\ streak'   = IF x = "streak" THEN 0 ELSE streak
    /\ waited'   = IF x = "waited" THEN 0 ELSE waited
    /\ detected' = (detected /\ x # "detected")
    /\ watching' = (watching \/ x = "watching")
    /\ armed'    = IF x = "watching" THEN armed + 1 ELSE armed
    /\ owed'     = (owed \/ x = "watching")
    /\ changed'  = IF x = "watching" THEN 0 ELSE changed
    /\ fed'      = IF x = "watching" THEN 0 ELSE fed
    /\ hurried'  = (hurried \/ (made[w] = {} /\ ~Calm))
    /\ UNCHANGED <<card, reference, pc, local, resets>>

LEMMA ArmIsStore ==
    ASSUME TypeOK, NEW w \in Wakers, Arm(w)
    PROVE  \E x \in Ready(made[w]) : ArmStore(w, x)
<1>1. made[w] \in SUBSET Stores
  BY DEF TypeOK
<1>2. \A x \in Ready(made[w]) :
        (Stores \cup {"watching"} = made[w] \cup {x}) <=> x = "watching"
  BY <1>1, ReadyStores
<1>3. QED
  BY <1>2, Zenon DEF Arm, ArmStore

\* Every step of the loop inside a frame keeps the types.
LEMMA TypeStep == TypeOK /\ [Next]_vars => TypeOK'
<1> SUFFICES ASSUME TypeOK, [Next]_vars PROVE TypeOK'
  OBVIOUS
<1>1. ASSUME NEW w \in Wakers, Arm(w) PROVE TypeOK'
  <2>0. PICK x \in Ready(made[w]) : ArmStore(w, x)
    BY <1>1, ArmIsStore
  <2>1. made' \in [Wakers -> SUBSET Stores]
    BY <2>0, ReadyStores DEF TypeOK, ArmStore
  <2>2. streak' \in Nat /\ waited' \in Nat
    BY <2>0 DEF TypeOK, ArmStore
  <2>3. armed' \in Nat /\ changed' \in Nat /\ fed' \in Nat
    BY <2>0 DEF TypeOK, ArmStore
  <2>4. /\ watching' \in BOOLEAN /\ detected' \in BOOLEAN
        /\ haveRef' \in BOOLEAN /\ owed' \in BOOLEAN /\ hurried' \in BOOLEAN
    BY <2>0, Zenon DEF TypeOK, ArmStore
  <2>5. QED
    BY <2>0, <2>1, <2>2, <2>3, <2>4 DEF TypeOK, ArmStore, local
<1>2. CASE CardLost \/ CardBack
  BY <1>2 DEF TypeOK, CardLost, CardBack, flags, local, history
<1>3. CASE Feed
  BY <1>3 DEF TypeOK, Feed, flags, history
<1>4. CASE Compare
  BY <1>4 DEF TypeOK, Compare, local
<1>5. CASE Mark \/ Load \/ Bump \/ Still
  <2>1. CASE Mark
    BY <2>1 DEF TypeOK, Mark, local, history
  <2>2. CASE Load
    BY <2>2 DEF TypeOK, Load, flags, history
  <2>3. CASE Bump
    BY <2>3 DEF TypeOK, Bump, Enough, local, history
  <2>4. CASE Still
    BY <2>4 DEF TypeOK, Still, local, history
  <2>5. QED
    BY <1>5, <2>1, <2>2, <2>3, <2>4
<1>6. CASE Disarm \/ Report
  BY <1>6 DEF TypeOK, Disarm, Report, local, history
<1>7. CASE Wait \/ Tick
  BY <1>7 DEF TypeOK, Wait, Tick, flags, local, history
<1>8. CASE Take \/ Taken
  <2>1. CASE Take
    BY <2>1 DEF TypeOK, Take, flags, local, history
  <2>2. CASE Taken
    <3>1. detected' \in BOOLEAN /\ owed' \in BOOLEAN
      BY <2>2, Zenon DEF Taken, After
    <3>2. QED
      BY <2>2, <3>1 DEF TypeOK, Taken, local
  <2>3. QED
    BY <1>8, <2>1, <2>2
<1>9. CASE UNCHANGED vars
  BY <1>9 DEF TypeOK, vars, flags, local, history
<1>10. QED
  BY <1>1, <1>2, <1>3, <1>4, <1>5, <1>6, <1>7, <1>8, <1>9
  DEF Next, Loop, Inside

LEMMA TypeInit == Init => TypeOK
<1> SUFFICES ASSUME Init PROVE TypeOK
  OBVIOUS
<1>1. made \in [Wakers -> SUBSET Stores]
  BY DEF Init
<1>2. QED
  <2>1. /\ card \in BOOLEAN /\ owed \in BOOLEAN /\ fired \in BOOLEAN
        /\ hurried \in BOOLEAN
        /\ watching \in BOOLEAN /\ detected \in BOOLEAN /\ haveRef \in BOOLEAN
    BY Zenon DEF Init
  <2>2. QED
    BY <1>1, <2>1 DEF Init, TypeOK

\* The variables of the watch keep their types (TypeOK), for any number of
\* wake scripts (video_capture.c, 133-204).
THEOREM WatchTypes == Spec => []TypeOK
BY TypeInit, TypeStep, PTL DEF Spec

----------------------------------------------------------------------------
(* One reset per wake.  A wake that has armed the watch is a token.  The   *)
(* token is on the watch, until a frame finds the watch on; then in that   *)
(* frame's hands, until it is back on the watch or becomes a report; then  *)
(* in the report until the adapter is reset.  A token may be lost - a      *)
(* report is withdrawn by the next arming -, and none is ever made but by  *)
(* arming, so resets and live tokens together never exceed the armings.    *)

\* A frame was fed with the watch on and has not reported.
Undecided ==
    \/ pc \in {"compare", "mark", "load", "bump", "still", "disarm"}
    \/ pc \in {"wait", "tick", "expire"} /\ ~fired

\* A report is being made, waits to be taken, or is being taken.
Reported ==
    \/ detected \/ pc \in {"report", "expired", "taken"}
    \/ pc \in {"wait", "tick", "expire"} /\ fired

Tokens == (IF Undecided \/ Reported THEN 1 ELSE 0)
          + (IF watching /\ ~Undecided THEN 1 ELSE 0)

\* The inductive invariant: between the report and the reset nothing else
\* is reported, and the tokens are covered.
TokenInv ==
    /\ pc \in {"compare", "mark", "load", "bump", "still", "disarm"} => ~fired
    /\ detected => ~Undecided /\ pc # "poll"
    /\ resets + Tokens <= armed

LEMMA TokenStep == TypeOK /\ TokenInv /\ [Next]_vars => TokenInv'
<1> SUFFICES ASSUME TypeOK, TokenInv, [Next]_vars PROVE TokenInv'
  OBVIOUS
<1> USE DEF TokenInv, Tokens, Undecided, Reported
<1>1. ASSUME NEW w \in Wakers, Arm(w) PROVE TokenInv'
  <2>1. PICK x \in Ready(made[w]) : ArmStore(w, x)
    BY <1>1, ArmIsStore
  <2>2. UNCHANGED <<pc, fired, resets>>
    BY <2>1 DEF ArmStore, local
  <2>3. CASE x = "watching"
    <3>1. armed' = armed + 1
      BY <2>1, <2>3 DEF ArmStore
    <3>2. watching' /\ (detected' => detected)
      BY <2>1, <2>3, Zenon DEF ArmStore
    <3>3. QED
      BY <2>2, <3>1, <3>2 DEF TypeOK
  <2>4. CASE x # "watching"
    <3>1. armed' = armed
      BY <2>1, <2>4 DEF ArmStore
    <3>2. (watching' <=> watching) /\ (detected' => detected)
      BY <2>1, <2>4, Zenon DEF ArmStore
    <3>3. QED
      BY <2>2, <3>1, <3>2 DEF TypeOK
  <2>5. QED
    BY <2>3, <2>4
<1>2. CASE CardLost \/ CardBack
  BY <1>2 DEF TypeOK, CardLost, CardBack, flags, local, history
<1>3. CASE Feed
  BY <1>3 DEF TypeOK, Feed, flags, history
<1>4. CASE Compare
  BY <1>4 DEF TypeOK, Compare, local
<1>5. CASE Mark \/ Load \/ Bump \/ Still
  <2>1. CASE Mark
    BY <2>1 DEF TypeOK, Mark, local, history
  <2>2. CASE Load
    BY <2>2 DEF TypeOK, Load, flags, history
  <2>3. CASE Bump
    BY <2>3 DEF TypeOK, Bump, Enough, local, history
  <2>4. CASE Still
    BY <2>4 DEF TypeOK, Still, local, history
  <2>5. QED
    BY <1>5, <2>1, <2>2, <2>3, <2>4
<1>6. CASE Disarm
  BY <1>6 DEF TypeOK, Disarm, local, history
<1>7. CASE Report
  BY <1>7 DEF TypeOK, Report, local, history
<1>8. CASE Wait \/ Tick
  BY <1>8 DEF TypeOK, Wait, Tick, flags, local, history
<1>9. CASE Take \/ Taken
  BY <1>9 DEF TypeOK, Take, Taken, After, flags, local, history
<1>10. CASE UNCHANGED vars
  BY <1>10 DEF TypeOK, vars, flags, local, history
<1>11. QED
  BY <1>1, <1>2, <1>3, <1>4, <1>5, <1>6, <1>7, <1>8, <1>9, <1>10
  DEF Next, Loop, Inside

\* The adapter is never re-enumerated more often than the console was woken
\* (OneResetPerWake), however many wake scripts end at once.
THEOREM OneResetEach == Spec => []OneResetPerWake
<1>1. Init => TokenInv
  BY DEF Init, TokenInv, Tokens, Undecided, Reported
<1>2. TypeOK /\ TokenInv => OneResetPerWake
  BY DEF TypeOK, TokenInv, Tokens, OneResetPerWake
<1>3. QED
  BY TypeInit, TypeStep, <1>1, <1>2, TokenStep, PTL DEF Spec

----------------------------------------------------------------------------
(* No early reset, while wakes come one at a time.  The counters are those *)
(* of the watch that is on: its streak never exceeds the changed frames    *)
(* since it was armed, nor its count the frames fed since then, the frame  *)
(* in hand included.                                                       *)

\* Wakes come one at a time, and while one arms the loop has nothing to do.
Alone ==
    /\ \A v, w \in Wakers : made[v] # {} /\ made[w] # {} => v = w
    /\ \A w \in Wakers : made[w] # {} => /\ ~watching /\ ~detected
                                          /\ pc \in {"poll", "take"}
    /\ \A w \in Wakers : /\ "streak" \in made[w] => streak = 0
                         /\ "waited" \in made[w] => waited = 0

\* The streak and the count of the watch that is on are its own.
Counted ==
    /\ (watching /\ pc # "still") \/ pc \in {"report", "wait", "tick"}
       => streak <= changed
    /\ pc = "load" => streak + 1 <= changed
    /\ pc = "bump" => n + 1 <= changed
    /\ pc = "disarm" => MinFrames <= changed
    /\ (watching /\ pc \in {"poll", "take", "taken"}) \/ pc \in {"compare", "mark"}
       => waited <= fed
    /\ pc \in {"load", "bump", "still", "disarm", "report", "wait"} => waited + 1 <= fed
    /\ pc = "tick" => n + 1 <= fed
    /\ pc = "expire" => Timeout < fed
    /\ pc \in {"compare", "mark", "load", "bump", "still", "disarm"} => watching
    /\ pc = "expired" => ~watching

\* The loop is the only other writer, and it respects both.
LEMMA LoopCounts ==
    TypeOK /\ TokenInv /\ Alone /\ Counted /\ Loop => Alone' /\ Counted'
<1> SUFFICES ASSUME TypeOK, TokenInv, Alone, Counted, Loop
             PROVE  Alone' /\ Counted'
  OBVIOUS
<1> USE WatchAssumption DEF Alone, Counted
<1>1. CASE Feed
  BY <1>1 DEF TypeOK, Feed, flags, history
<1>2. CASE Compare
  BY <1>2 DEF TypeOK, Compare, local
<1>3. CASE Mark
  BY <1>3 DEF TypeOK, Mark, local, history
<1>4. CASE Load
  BY <1>4 DEF TypeOK, Load, flags, history
<1>5. CASE Bump
  BY <1>5 DEF TypeOK, Bump, Enough, local, history
<1>6. CASE Still
  BY <1>6 DEF TypeOK, Still, local, history
<1>7. CASE Disarm
  BY <1>7 DEF TypeOK, Disarm, local, history
<1>8. CASE Report
  BY <1>8 DEF TypeOK, Report, history
<1>9. CASE Wait
  BY <1>9 DEF TypeOK, Wait, flags, history
<1>10. CASE Tick
  BY <1>10 DEF TypeOK, Tick, TooLong, local, history
<1>11. CASE Take
  BY <1>11 DEF TypeOK, TokenInv, Take, flags, local, history
<1>12. CASE Taken
  BY <1>12 DEF TypeOK, Taken, After, local
<1>13. QED
  BY <1>1, <1>2, <1>3, <1>4, <1>5, <1>6, <1>7, <1>8, <1>9, <1>10, <1>11, <1>12
  DEF Loop, Inside

\* Arming, one thread at a time, starts the counters of the next watch.
LEMMA ArmCounts ==
    ASSUME TypeOK, TokenInv, Alone, Counted, NEW w \in Wakers, Arm(w), ~hurried'
    PROVE  Alone' /\ Counted'
<1> USE DEF Alone, Counted
<1>1. PICK x \in Ready(made[w]) : ArmStore(w, x)
  BY ArmIsStore
<1>2. made[w] \in SUBSET Stores /\ made \in [Wakers -> SUBSET Stores]
  BY DEF TypeOK
<1>3. /\ ~watching /\ ~detected /\ pc \in {"poll", "take"}
      /\ \A v \in Wakers : made[v] # {} => v = w
  <2>1. made[w] # {} \/ Calm
    BY <1>1, Zenon DEF ArmStore
  <2>2. CASE Calm
    BY <2>2 DEF TypeOK, TokenInv, Calm
  <2>3. CASE made[w] # {}
    BY <2>3
  <2>4. QED
    BY <2>1, <2>2, <2>3
<1>4. /\ made' = [made EXCEPT ![w] = IF x = "watching" THEN {} ELSE made[w] \cup {x}]
      /\ UNCHANGED <<pc, n>>
  BY <1>1 DEF ArmStore, local
<1>5. CASE x = "watching"
  <2>1. changed' = 0 /\ fed' = 0 /\ streak' = streak /\ waited' = waited
    BY <1>1, <1>5 DEF ArmStore
  <2>2. made[w] = Stores
    BY <1>2, <1>5, ReadyStores
  <2>3. streak = 0 /\ waited = 0
    BY <2>2 DEF Stores
  <2>4. \A v \in Wakers : made'[v] = {}
    BY <1>2, <1>3, <1>4, <1>5
  <2>5. QED
    BY <1>3, <1>4, <2>1, <2>3, <2>4
<1>6. CASE x # "watching"
  <2>1. ~watching' /\ ~detected'
    BY <1>1, <1>3, <1>6, Zenon DEF ArmStore
  <2>2. /\ streak' = IF x = "streak" THEN 0 ELSE streak
        /\ waited' = IF x = "waited" THEN 0 ELSE waited
    BY <1>1 DEF ArmStore
  <2>3. /\ made'[w] = made[w] \cup {x}
        /\ \A v \in Wakers : v # w => made'[v] = {}
    BY <1>2, <1>3, <1>4, <1>6
  <2>4. QED
    BY <1>3, <1>4, <2>1, <2>2, <2>3
<1>7. QED
  BY <1>5, <1>6

\* As long as wakes come one at a time, only MinFrames changed frames in a
\* row, or Timeout frames, end a watch, all of them its own (NotTooEager):
\* the adapter is not re-enumerated while the console still sleeps.
THEOREM CalmIsPatient == Spec => []NotTooEager
<1> DEFINE Inv == ~hurried => Alone /\ Counted
<1>1. Init => Inv
  BY DEF Init, Alone, Counted
<1>2. TypeOK /\ TokenInv /\ Inv /\ [Next]_vars => Inv'
  <2> SUFFICES ASSUME TypeOK, TokenInv, Inv, [Next]_vars, ~hurried'
               PROVE  Alone' /\ Counted'
    OBVIOUS
  <2>1. CASE CardLost \/ CardBack \/ UNCHANGED vars
    BY <2>1 DEF Alone, Counted, CardLost, CardBack, vars, flags, local, history
  <2>2. CASE Loop
    <3>1. hurried' = hurried
      BY <2>2 DEF Loop, Inside, Feed, Compare, Mark, Load, Bump, Still, Disarm, Report,
                  Wait, Tick, Take, Taken, history
    <3>2. QED
      BY <2>2, <3>1, LoopCounts
  <2>3. ASSUME NEW w \in Wakers, Arm(w) PROVE Alone' /\ Counted'
    <3>1. ~hurried
      BY <2>3, Zenon DEF Arm
    <3>2. QED
      BY <2>3, <3>1, ArmCounts
  <2>4. QED
    BY <2>1, <2>2, <2>3 DEF Next
<1>3. TypeOK /\ Inv => NotTooEager
  BY DEF Counted, NotTooEager
<1>4. Init => TokenInv
  BY DEF Init, TokenInv, Tokens, Undecided, Reported
<1>5. QED
  BY TypeInit, TypeStep, TokenStep, <1>1, <1>2, <1>3, <1>4, PTL DEF Spec

=============================================================================
