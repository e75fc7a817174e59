------------------------ MODULE GamepadBridgeProofs ------------------------
(***************************************************************************)
(* What holds of the controller merge for any number of sources, slots and *)
(* calling threads: types, one slot per source, and that a player heard    *)
(* within the timeout keeps its slot.                                      *)
(***************************************************************************)
EXTENDS GamepadBridge, TLAPS, WellFoundedInduction

USE SourcesAssumption, BoundsAssumption

LEMMA FreeIsSlotState == Free \in SlotState /\ Free.key = NONE /\ Neutral \in State
  BY DEF Free, SlotState, Neutral, State

\* The key and the age of what a slot can hold.
LEMMA SlotFields ==
  ASSUME NEW x \in SlotState
  PROVE  /\ x.key \in Sources \cup {NONE}
         /\ x.age \in 0..(Timeout + 1)
         /\ x.state \in State
         /\ x.key # NONE => x \in [key : Sources, age : 0..(Timeout + 1), state : State]
  BY FreeIsSlotState DEF SlotState, Free, Sources

\* What recombine() computes is a controller state.
LEMMA MergeIsState ==
  ASSUME NEW t \in [Slot -> SlotState]
  PROVE  Merge(t) \in State
<1>1. \A i \in Fresh(t) : t[i].state \in State
  BY SlotFields DEF Fresh, InUse
<1>2. UNION {t[i].state.press : i \in Fresh(t)} \in SUBSET Buttons
  BY <1>1 DEF State
<1>3. Stick(t) \in -Reach..Reach
  <2>. DEFINE wins(i) == \A j \in Fresh(t) :
                 /\ Abs(t[j].state.stick) <= Abs(t[i].state.stick)
                 /\ j < i => Abs(t[j].state.stick) < Abs(t[i].state.stick)
  <2>1. Stick(t) = IF \E i \in Fresh(t) : wins(i)
                   THEN t[CHOOSE i \in Fresh(t) : wins(i)].state.stick ELSE 0
    BY DEF Stick
  <2>. HIDE DEF wins
  <2>2. CASE \E i \in Fresh(t) : wins(i)
    <3>1. (CHOOSE i \in Fresh(t) : wins(i)) \in Fresh(t)
      BY <2>2
    <3>2. Stick(t) = t[CHOOSE i \in Fresh(t) : wins(i)].state.stick
      BY <2>1, <2>2
    <3>3. QED
      BY <1>1, <3>1, <3>2 DEF State
  <2>3. CASE ~ \E i \in Fresh(t) : wins(i)
    BY <2>1, <2>3
  <2>4. QED
    BY <2>2, <2>3
<1>4. QED
  BY <1>2, <1>3 DEF Merge, State

\* What a call does to the bridge, whatever table it starts from.
LEMMA RecombineTypes ==
  ASSUME TypeOK, NEW c \in Callers, NEW t \in [Slot -> SlotState], NEW shape \in Shapings,
         Recombine(c, t, shape)
  PROVE  /\ table' \in [Slot -> SlotState]
         /\ pending' \in [Callers -> Report \cup {NONE}]
<1>1. [state |-> Merge(t), shape |-> shape] \in Report
  BY MergeIsState DEF Report
<1>2. QED
  BY <1>1, FreeIsSlotState DEF Recombine, TypeOK

LEMMA CallerTypes ==
  ASSUME NEW s \in Sources
  PROVE  CallerOf[s] \in Callers
  OBVIOUS

LEMMA TypeStep ==
  ASSUME TypeOK, [Next]_vars
  PROVE  TypeOK'
<1>1. ASSUME NEW s \in Sources, Join(s) \/ Vanish(s) \/ Teardown(s)
      PROVE  TypeOK'
  BY <1>1, FreeIsSlotState DEF TypeOK, Join, Vanish, Teardown
<1>2. ASSUME NEW s \in Sources, Update(s)
      PROVE  TypeOK'
  <2>1. PICK v \in State :
          /\ held' = [held EXCEPT ![s] = v]
          /\ Recombine(CallerOf[s],
                       [i \in Slot |-> IF i \in SlotFor(s)
                                       THEN [key |-> s, age |-> 0, state |-> v]
                                       ELSE table[i]],
                       shaping)
    BY <1>2 DEF Update
  <2>2. [key |-> s, age |-> 0, state |-> v] \in SlotState
    BY DEF SlotState
  <2>3. [i \in Slot |-> IF i \in SlotFor(s) THEN [key |-> s, age |-> 0, state |-> v]
                        ELSE table[i]] \in [Slot -> SlotState]
    BY <2>2 DEF TypeOK
  <2>4. QED
    BY <1>2, <2>1, <2>3, RecombineTypes, CallerTypes DEF TypeOK, Update
<1>3. ASSUME NEW s \in Sources, Forget(s)
      PROVE  TypeOK'
  <2>1. Without(s) \in [Slot -> SlotState]
    BY FreeIsSlotState DEF Without, TypeOK
  <2>2. QED
    BY <1>3, <2>1, RecombineTypes, CallerTypes DEF TypeOK, Forget
<1>4. ASSUME NEW c \in Callers, NEW shape \in Shapings, SetShaping(c, shape)
      PROVE  TypeOK'
  BY <1>4, RecombineTypes DEF TypeOK, SetShaping
<1>5. ASSUME NEW c \in Callers, Deliver(c)
      PROVE  TypeOK'
  BY <1>5 DEF TypeOK, Deliver
<1>6. CASE Tick
  <2>1. ASSUME NEW i \in InUse(table), table[i].age <= Timeout
        PROVE  [table[i] EXCEPT !.age = @ + 1] \in SlotState
    <3>1. table[i] \in [key : Sources, age : 0..(Timeout + 1), state : State]
      BY <2>1, SlotFields DEF TypeOK, InUse
    <3>2. table[i].age + 1 \in 0..(Timeout + 1)
      BY <2>1, <3>1
    <3>3. QED
      BY <3>1, <3>2 DEF SlotState
  <2>2. QED
    BY <1>6, <2>1 DEF TypeOK, Tick
<1>7. CASE UNCHANGED vars
  BY <1>7 DEF TypeOK, vars
<1>8. QED
  BY <1>1, <1>2, <1>3, <1>4, <1>5, <1>6, <1>7 DEF Next

\* The table, the combinations in flight and what the backend works from keep
\* their types: in particular the combination of any table is a state a
\* controller can be in.
THEOREM BridgeTypes == Spec => []TypeOK
<1>1. Init => TypeOK
  BY FreeIsSlotState DEF Init, TypeOK, Report
<1>2. QED
  BY <1>1, TypeStep, PTL DEF Spec

----------------------------------------------------------------------------
(* One slot per source. *)

OneSlot(t) == \A i, j \in InUse(t) : t[i].key = t[j].key => i = j

\* A call keeps, of the table it starts from, some slots and frees the rest.
LEMMA RecombineKeeps ==
  ASSUME NEW c, NEW t, NEW shape, Recombine(c, t, shape), OneSlot(t)
  PROVE  OneSlot(table')
  BY DEF Recombine, OneSlot, InUse, Fresh, Free

\* The slot an update writes is the source's own, unless it has none.
LEMMA SlotForIsOwn ==
  ASSUME NEW s \in Sources
  PROVE  /\ \A i \in SlotFor(s) : i \in Slot /\ table[i].key \in {s, NONE}
         /\ \A i, j \in SlotFor(s) : i = j
         /\ \A i \in SlotFor(s), j \in Slot : table[j].key = s => table[i].key = s
  BY DEF SlotFor, InUse, Slot

LEMMA OneSlotStep ==
  ASSUME TypeOK, OneSlotPerSource, [Next]_vars
  PROVE  OneSlotPerSource'
<1>. USE DEF OneSlotPerSource
<1>1. OneSlot(table) /\ (OneSlot(table') => OneSlotPerSource')
  BY DEF OneSlot, InUse
<1>2. ASSUME NEW s \in Sources, Update(s)
      PROVE  OneSlot(table')
  <2>1. PICK v \in State :
          Recombine(CallerOf[s],
                    [i \in Slot |-> IF i \in SlotFor(s)
                                    THEN [key |-> s, age |-> 0, state |-> v]
                                    ELSE table[i]],
                    shaping)
    BY <1>2 DEF Update
  <2>2. OneSlot([i \in Slot |-> IF i \in SlotFor(s)
                                THEN [key |-> s, age |-> 0, state |-> v] ELSE table[i]])
    BY <1>1, SlotForIsOwn DEF OneSlot, InUse
  <2>3. QED
    BY <2>1, <2>2, RecombineKeeps
<1>3. ASSUME NEW s \in Sources, Forget(s)
      PROVE  OneSlot(table')
  <2>1. OneSlot(Without(s))
    BY <1>1 DEF OneSlot, InUse, Without, Free
  <2>2. QED
    BY <1>3, <2>1, RecombineKeeps DEF Forget
<1>4. ASSUME NEW c \in Callers, NEW shape \in Shapings, SetShaping(c, shape)
      PROVE  OneSlot(table')
  BY <1>1, <1>4, RecombineKeeps DEF SetShaping
<1>5. CASE Tick
  <2>1. \A i \in Slot : table'[i].key = table[i].key
    BY <1>5, SlotFields DEF Tick, TypeOK, InUse, SlotState
  <2>2. QED
    BY <1>1, <2>1 DEF OneSlot, InUse
<1>6. ASSUME UNCHANGED table
      PROVE  OneSlotPerSource'
  BY <1>6 DEF InUse
<1>7. QED
  BY <1>1, <1>2, <1>3, <1>4, <1>5, <1>6
     DEF Next, Join, Vanish, Teardown, Deliver, vars

\* However many sources compete for however many slots, from however many
\* threads, no source comes to own two of them.
THEOREM OneSlotEach == Spec => []OneSlotPerSource
<1>1. Init => OneSlotPerSource
  BY DEF Init, OneSlotPerSource, InUse, Free
<1>2. TypeOK /\ OneSlotPerSource /\ [Next]_vars => OneSlotPerSource'
  BY OneSlotStep
<1>3. QED
  BY BridgeTypes, <1>1, <1>2, PTL DEF Spec

----------------------------------------------------------------------------
\* A source heard within the timeout keeps its slot until it leaves, whoever
\* else comes, goes or expires.
THEOREM PlayersKeep == Spec => PlayersKeepTheirSlot
<1>. DEFINE Kept == \A i \in Fresh(table) : table'[i].key = table[i].key \/ Forget(table[i].key)
<1>1. ASSUME TypeOK, [Next]_vars
      PROVE  [Kept]_vars
  <2>1. ASSUME NEW s \in Sources, Update(s)
        PROVE  Kept
    BY <2>1, SlotForIsOwn DEF Update, Recombine, Fresh, InUse
  <2>2. ASSUME NEW s \in Sources, Forget(s)
        PROVE  Kept
    BY <2>2 DEF Forget, Without, Recombine, Fresh, InUse
  <2>3. ASSUME NEW c \in Callers, NEW shape \in Shapings, SetShaping(c, shape)
        PROVE  Kept
    BY <2>3 DEF SetShaping, Recombine, Fresh, InUse
  <2>4. CASE Tick
    BY <2>4, <1>1, SlotFields DEF Tick, TypeOK, Fresh, InUse, SlotState
  <2>5. ASSUME UNCHANGED table
        PROVE  Kept
    BY <2>5
  <2>6. QED
    BY <1>1, <2>1, <2>2, <2>3, <2>4, <2>5 DEF Next, Join, Vanish, Teardown, Deliver, vars
<1>2. QED
  BY BridgeTypes, <1>1, PTL DEF Spec, PlayersKeepTheirSlot

----------------------------------------------------------------------------
(* What one thread hands over is the combination of the hands in the table.*)

Playing(h) == {s \in Sources : h[s] # NONE}
Sticks(h) == {h[s].stick : s \in Playing(h)}
Largest(h) == {v \in Sticks(h) : \A w \in Sticks(h) : Abs(w) <= Abs(v)}
CombinedOf(h) == [press : {UNION {h[s].press : s \in Playing(h)}},
                  stick : IF Sticks(h) = {} THEN {0} ELSE Largest(h)]

\* A set of naturals has a least one.
LEMMA Least ==
    ASSUME NEW S, S \subseteq Nat, S # {}
    PROVE  \E n \in S : \A m \in S : n <= m
<1> DEFINE R == OpToRel(<, Nat)
<1>1. IsWellFoundedOn(R, Nat)
  BY NatLessThanWellFounded
<1>2. \E n \in S : \A m \in S : ~ (<<m, n>> \in R)
  <2> HIDE DEF R
  <2> QED BY <1>1, WFMin
<1>3. PICK n \in S : \A m \in S : ~ (<<m, n>> \in R)
  BY <1>2
<1>4. \A m \in S : ~(m < n)
  <2> TAKE m \in S
  <2>1. m \in Nat /\ n \in Nat
    OBVIOUS
  <2> QED BY <2>1, <1>3 DEF OpToRel
<1>5. \A m \in S : n <= m
  BY <1>4
<1> QED BY <1>5

LEMMA AbsIsSize == \A v \in -Reach .. Reach : Abs(v) \in 0 .. Reach
BY DEF Abs

\* One of the slots combined deflects the furthest, and is the first that does.
LEMMA SomebodyWins ==
    ASSUME NEW t \in [Slot -> SlotState], Fresh(t) # {}
    PROVE  \E i \in Fresh(t) : \A j \in Fresh(t) :
              /\ Abs(t[j].state.stick) <= Abs(t[i].state.stick)
              /\ j < i => Abs(t[j].state.stick) < Abs(t[i].state.stick)
<1> DEFINE short(i) == Reach - Abs(t[i].state.stick)
           Shorts == {short(i) : i \in Fresh(t)}
<1>1. \A i \in Fresh(t) : i \in Nat /\ t[i].state.stick \in -Reach .. Reach
  BY SlotFields DEF Fresh, InUse, Slot, State
<1>2. \A i \in Fresh(t) : Abs(t[i].state.stick) \in 0 .. Reach
  BY <1>1, AbsIsSize
<1>3. \A i \in Fresh(t) : short(i) \in Nat
  BY <1>2
<1>8. Shorts \subseteq Nat /\ Shorts # {}
  BY <1>3
<1>4. PICK n \in Shorts : \A m \in Shorts : n <= m
  <2> HIDE DEF Shorts
  <2> QED BY <1>8, Least
<1> DEFINE Furthest == {i \in Fresh(t) : short(i) = n}
<1>5. Furthest \subseteq Nat /\ Furthest # {}
  BY <1>1, <1>4
<1>6. PICK i \in Furthest : \A j \in Furthest : i <= j
  BY <1>5, Least
<1>7. ASSUME NEW j \in Fresh(t)
      PROVE  /\ Abs(t[j].state.stick) <= Abs(t[i].state.stick)
             /\ j < i => Abs(t[j].state.stick) < Abs(t[i].state.stick)
  <2>1. short(i) = n /\ n <= short(j) /\ i \in Fresh(t)
    BY <1>4, <1>6
  <2>2. j < i => short(j) # n
    <3>1. short(j) = n => i <= j
      BY <1>6
    <3>2. i \in Nat /\ j \in Nat
      BY <1>1, <2>1
    <3> QED BY <3>1, <3>2
  <2>3. /\ Abs(t[j].state.stick) \in 0 .. Reach /\ Abs(t[i].state.stick) \in 0 .. Reach
        /\ Reach \in Nat
    BY <1>2, <2>1
  <2> QED BY <2>1, <2>2, <2>3
<1> QED BY <1>6, <1>7

LEMMA WinnerSticks ==
    ASSUME NEW t \in [Slot -> SlotState], Fresh(t) # {}
    PROVE  \E i \in Fresh(t) : /\ Stick(t) = t[i].state.stick
                               /\ \A j \in Fresh(t) : Abs(t[j].state.stick) <= Abs(t[i].state.stick)
<1> DEFINE wins(i) == \A j \in Fresh(t) :
               /\ Abs(t[j].state.stick) <= Abs(t[i].state.stick)
               /\ j < i => Abs(t[j].state.stick) < Abs(t[i].state.stick)
           w == CHOOSE i \in Fresh(t) : wins(i)
<1>1. \E i \in Fresh(t) : wins(i)
  BY SomebodyWins
<1>2. Stick(t) = IF \E i \in Fresh(t) : wins(i) THEN t[w].state.stick ELSE 0
  BY DEF Stick
<1>3. w \in Fresh(t) /\ wins(w)
  <2> HIDE DEF wins
  <2> QED BY <1>1
<1>4. Stick(t) = t[w].state.stick
  BY <1>1, <1>2
<1> QED BY <1>3, <1>4

\* What each hand of a table holds.
HandsOf(t) == [s \in Sources |->
                 IF \E i \in Slot : t[i].key = s
                 THEN t[CHOOSE i \in Slot : t[i].key = s].state ELSE NONE]

LEMMA HandOfSlot ==
    ASSUME NEW t \in [Slot -> SlotState], OneSlot(t), NEW i \in InUse(t)
    PROVE  t[i].key \in Sources /\ HandsOf(t)[t[i].key] = t[i].state /\ t[i].state \in State
<1> DEFINE s == t[i].key
           k == CHOOSE j \in Slot : t[j].key = s
<1>1. i \in Slot /\ s \in Sources /\ s # NONE /\ t[i].state \in State
  BY SlotFields DEF InUse
<1>2. k \in Slot /\ t[k].key = s
  BY <1>1
<1>3. k = i
  BY <1>1, <1>2 DEF OneSlot, InUse
<1> QED BY <1>1, <1>3 DEF HandsOf

LEMMA HandsArePresent ==
    ASSUME NEW t \in [Slot -> SlotState], OneSlot(t), NEW s \in Sources
    PROVE  HandsOf(t)[s] # NONE <=> \E i \in InUse(t) : t[i].key = s
<1>1. ASSUME NEW i \in InUse(t), t[i].key = s PROVE HandsOf(t)[s] # NONE
  <2>1. HandsOf(t)[s] = t[i].state /\ t[i].state \in State
    BY <1>1, HandOfSlot
  <2> QED BY <2>1, NoneAssumption
<1>2. ASSUME ~\E i \in InUse(t) : t[i].key = s PROVE HandsOf(t)[s] = NONE
  <2>1. ~\E i \in Slot : t[i].key = s
    BY <1>2, SourcesAssumption DEF InUse
  <2> QED BY <2>1 DEF HandsOf
<1> QED BY <1>1, <1>2

\* The table a call leaves.
Expired(t) == [i \in Slot |-> IF i \in Fresh(t) THEN t[i] ELSE Free]

LEMMA ExpiredIsTable ==
    ASSUME NEW t \in [Slot -> SlotState], OneSlot(t)
    PROVE  /\ Expired(t) \in [Slot -> SlotState] /\ OneSlot(Expired(t))
           /\ InUse(Expired(t)) = Fresh(t) /\ Fresh(t) \subseteq InUse(t)
           /\ \A i \in Fresh(t) : Expired(t)[i] = t[i]
<1>1. Expired(t) \in [Slot -> SlotState]
  BY FreeIsSlotState DEF Expired
<1>2. /\ Fresh(t) \subseteq InUse(t) /\ InUse(t) \subseteq Slot
      /\ \A i \in Fresh(t) : Expired(t)[i] = t[i] /\ t[i].key # NONE
      /\ \A i \in Slot \ Fresh(t) : Expired(t)[i] = Free
  BY DEF Expired, Fresh, InUse
<1>3. InUse(Expired(t)) = Fresh(t)
  BY <1>2, FreeIsSlotState DEF InUse
<1>4. OneSlot(Expired(t))
  BY <1>2, <1>3 DEF OneSlot
<1> QED BY <1>1, <1>2, <1>3, <1>4

\* What a call combines is the combination of the hands in the table it leaves.
LEMMA MergeCombines ==
    ASSUME NEW t \in [Slot -> SlotState], OneSlot(t)
    PROVE  Merge(t) \in CombinedOf(HandsOf(Expired(t)))
<1> DEFINE u == Expired(t)
           h == HandsOf(u)
<1>1. /\ u \in [Slot -> SlotState] /\ OneSlot(u) /\ InUse(u) = Fresh(t)
      /\ \A i \in Fresh(t) : u[i] = t[i]
  BY ExpiredIsTable
<1> HIDE DEF u
<1>2. \A i \in Fresh(t) : t[i].key \in Sources /\ h[t[i].key] = t[i].state
  BY <1>1, HandOfSlot
<1>3. \A s \in Sources : h[s] # NONE <=> \E i \in Fresh(t) : t[i].key = s
  BY <1>1, HandsArePresent
<1> HIDE DEF h
<1>4. /\ \A i \in Fresh(t) : t[i].key \in Playing(h) /\ h[t[i].key] = t[i].state
      /\ \A s \in Playing(h) : \E i \in Fresh(t) : h[s] = t[i].state
  BY <1>2, <1>3 DEF Playing
<1>5. UNION {t[i].state.press : i \in Fresh(t)} = UNION {h[s].press : s \in Playing(h)}
  BY <1>4
<1>6. Sticks(h) = {t[i].state.stick : i \in Fresh(t)}
  BY <1>4 DEF Sticks
<1>7. Stick(t) \in (IF Sticks(h) = {} THEN {0} ELSE Largest(h))
  <2>1. CASE Fresh(t) = {}
    BY <1>6, <2>1 DEF Stick
  <2>2. CASE Fresh(t) # {}
    <3>1. PICK i \in Fresh(t) : /\ Stick(t) = t[i].state.stick
                                /\ \A j \in Fresh(t) : Abs(t[j].state.stick) <= Abs(t[i].state.stick)
      BY <2>2, WinnerSticks
    <3>2. Stick(t) \in Sticks(h) /\ \A w \in Sticks(h) : Abs(w) <= Abs(Stick(t))
      BY <1>6, <3>1
    <3> QED BY <3>2 DEF Largest
  <2> QED BY <2>1, <2>2
<1> QED BY <1>5, <1>7 DEF Merge, CombinedOf, h, u

\* A call that only frees slots takes hands off, and moves none.
LEMMA FreeingLeaves ==
    ASSUME TypeOK, OneSlotPerSource, NEW t \in [Slot -> SlotState], OneSlot(t), NEW s \in Sources,
           \A i \in InUse(t) : t[i].key = s => table[i] = t[i]
    PROVE  HandsOf(Expired(t))[s] \in {NONE, Hands[s]}
<1>1. /\ Expired(t) \in [Slot -> SlotState] /\ OneSlot(Expired(t)) /\ InUse(Expired(t)) = Fresh(t)
      /\ Fresh(t) \subseteq InUse(t) /\ \A i \in Fresh(t) : Expired(t)[i] = t[i]
  BY ExpiredIsTable
<1>2. table \in [Slot -> SlotState] /\ OneSlot(table) /\ Hands = HandsOf(table)
  BY DEF TypeOK, OneSlotPerSource, OneSlot, Hands, HandsOf
<1>3. CASE HandsOf(Expired(t))[s] # NONE
  <2>1. PICK i \in Fresh(t) : t[i].key = s
    BY <1>1, <1>3, HandsArePresent
  <2>2. HandsOf(Expired(t))[s] = t[i].state
    BY <1>1, <2>1, HandOfSlot
  <2>3. i \in InUse(t) /\ table[i] = t[i]
    BY <1>1, <2>1
  <2>4. i \in InUse(table)
    BY <2>3 DEF InUse
  <2>5. HandsOf(table)[s] = table[i].state
    BY <1>2, <2>1, <2>3, <2>4, HandOfSlot
  <2> QED BY <1>2, <2>2, <2>3, <2>5
<1>4. CASE HandsOf(Expired(t))[s] = NONE
  BY <1>4
<1> QED BY <1>3, <1>4

OneCaller == \A c, d \in Callers : c = d

\* What is on its way to the console is the combination of the hands in the table.
PendingIsNow ==
    \A c \in Callers :
        pending[c] # NONE => pending[c].shape = shaping /\ pending[c].state \in CombinedOf(Hands)

MergeInv == TypeOK /\ OneSlotPerSource /\ PendingIsNow

LEMMA HandsAreTheTable ==
    ASSUME TypeOK, OneSlotPerSource
    PROVE  table \in [Slot -> SlotState] /\ OneSlot(table) /\ Hands = HandsOf(table)
BY DEF TypeOK, OneSlotPerSource, OneSlot, Hands, HandsOf

\* After a call the one thread holds the combination of the table it left.
LEMMA CallHolds ==
    ASSUME OneCaller, TypeOK, NEW c \in Callers, NEW t \in [Slot -> SlotState], OneSlot(t),
           NEW shape \in Shapings, Recombine(c, t, shape), shaping' = shape
    PROVE  /\ table' = Expired(t) /\ Hands' = HandsOf(Expired(t)) /\ PendingIsNow'
<1>1. table' = Expired(t)
  BY DEF Recombine, Expired
<1>2. Hands' = HandsOf(table')
  BY DEF Hands, HandsOf
<1>3. /\ pending \in [Callers -> Report \cup {NONE}]
      /\ pending' = [pending EXCEPT ![c] = [state |-> Merge(t), shape |-> shape]]
  BY DEF TypeOK, Recombine
<1>4. \A d \in Callers : pending'[d] = [state |-> Merge(t), shape |-> shape]
  BY <1>3 DEF OneCaller
<1>5. Merge(t) \in CombinedOf(Hands')
  BY <1>1, <1>2, MergeCombines
<1>6. \A d \in Callers : pending'[d].shape = shaping' /\ pending'[d].state \in CombinedOf(Hands')
  BY <1>4, <1>5
<1>7. PendingIsNow'
  BY <1>6 DEF PendingIsNow
<1> QED BY <1>1, <1>2, <1>7

LEMMA OlderIsSame ==
    ASSUME NEW K, NEW A, NEW S, NEW x \in [key : K, age : A, state : S],
           NEW y, y = [x EXCEPT !.age = @ + 1]
    PROVE  y.key = x.key /\ y.state = x.state
OBVIOUS

\* A step of the clock changes no hand.
LEMMA TickMovesNone == ASSUME TypeOK, Tick PROVE Hands' = Hands
<1>1. \A i \in Slot : table'[i].key = table[i].key /\ table'[i].state = table[i].state
  <2> TAKE i \in Slot
  <2>1. CASE i \in InUse(table) /\ table[i].age <= Timeout
    <3>1. table[i] \in [key : Sources, age : 0..(Timeout + 1), state : State]
      BY <2>1, SlotFields DEF TypeOK, InUse
    <3>2. table'[i] = [table[i] EXCEPT !.age = @ + 1]
      BY <2>1 DEF Tick
    <3> QED BY <3>1, <3>2, OlderIsSame
  <2>2. CASE ~(i \in InUse(table) /\ table[i].age <= Timeout)
    BY <2>2 DEF Tick
  <2> QED BY <2>1, <2>2
<1>2. \A s \in Sources : (CHOOSE i \in Slot : table'[i].key = s) = (CHOOSE i \in Slot : table[i].key = s)
  BY <1>1
<1>3. \A s \in Sources : (\E i \in Slot : table'[i].key = s) <=> (\E i \in Slot : table[i].key = s)
  BY <1>1
<1>4. \A s \in Sources : (\E i \in Slot : table[i].key = s)
                            => (CHOOSE i \in Slot : table[i].key = s) \in Slot
  OBVIOUS
<1>5. \A s \in Sources : (\E i \in Slot : table[i].key = s)
        => table'[CHOOSE i \in Slot : table'[i].key = s].state = table[CHOOSE i \in Slot : table[i].key = s].state
  <2> TAKE s \in Sources
  <2> HAVE \E i \in Slot : table[i].key = s
  <2> DEFINE c == CHOOSE i \in Slot : table[i].key = s
             d == CHOOSE i \in Slot : table'[i].key = s
  <2>1. c \in Slot /\ d = c
    BY <1>2, <1>4
  <2> HIDE DEF c, d
  <2>2. table'[d].state = table[c].state
    BY <1>1, <2>1
  <2> QED BY <2>2 DEF c, d
<1> QED BY <1>3, <1>5, Zenon DEF Hands

\* Each step of the bridge is one of what it promises, or none.
LEMMA MergeStep ==
    ASSUME OneCaller, MergeInv, [Next]_vars
    PROVE  PendingIsNow' /\ [Abstract!Next]_(Abstract!vars)
<1> USE DEF MergeInv
<1> USE DEF Abstract!vars
<1>0. table \in [Slot -> SlotState] /\ OneSlot(table) /\ Hands = HandsOf(table) /\ shaping \in Shapings
  BY HandsAreTheTable DEF TypeOK
<1>1. ASSUME NEW s \in Sources, Join(s) \/ Vanish(s) \/ Teardown(s)
      PROVE  PendingIsNow' /\ UNCHANGED <<Hands, shaping, output>>
  <2>1. table' = table /\ pending' = pending /\ shaping' = shaping /\ output' = output
    BY <1>1 DEF Join, Vanish, Teardown
  <2>2. Hands' = Hands
    BY <2>1 DEF Hands
  <2> QED BY <2>1, <2>2 DEF PendingIsNow
<1>2. CASE Tick
  BY <1>2, TickMovesNone DEF Tick, PendingIsNow
<1>3. ASSUME NEW s \in Sources, Update(s)
      PROVE  PendingIsNow' /\ Abstract!Next
  <2>1. PICK v \in State :
          Recombine(CallerOf[s],
                    [i \in Slot |-> IF i \in SlotFor(s) THEN [key |-> s, age |-> 0, state |-> v]
                                                        ELSE table[i]],
                    shaping)
    BY <1>3 DEF Update
  <2> DEFINE t == [i \in Slot |-> IF i \in SlotFor(s) THEN [key |-> s, age |-> 0, state |-> v]
                                                      ELSE table[i]]
             gone == {r \in Sources : HandsOf(Expired(t))[r] = NONE}
  <2>2. t \in [Slot -> SlotState]
    <3>1. [key |-> s, age |-> 0, state |-> v] \in SlotState
      BY BoundsAssumption DEF SlotState
    <3> QED BY <1>0, <3>1
  <2>3. OneSlot(t)
    BY <1>0, SlotForIsOwn DEF OneSlot, InUse
  <2>4. shaping' = shaping /\ output' = output /\ CallerOf[s] \in Callers
    BY <1>3, CallerTypes DEF Update
  <2>5. table' = Expired(t) /\ Hands' = HandsOf(Expired(t)) /\ PendingIsNow'
    BY <1>0, <2>1, <2>2, <2>3, <2>4, CallHolds
  <2>6. \A r \in Sources \ {s} : HandsOf(Expired(t))[r] \in {NONE, Hands[r]}
    <3> TAKE r \in Sources \ {s}
    <3>1. \A i \in InUse(t) : t[i].key = r => table[i] = t[i]
      BY DEF InUse
    <3> HIDE DEF t
    <3> QED BY <2>2, <2>3, <3>1, FreeingLeaves
  <2>7. CASE SlotFor(s) = {}
    <3>1. \A i \in InUse(t) : t[i].key = s => table[i] = t[i]
      BY <2>7 DEF InUse
    <3>2. HandsOf(Expired(t))[s] \in {NONE, Hands[s]}
      <4> HIDE DEF t
      <4> QED BY <2>2, <2>3, <3>1, FreeingLeaves
    <3>3. Hands' = [r \in Sources |-> IF r \in gone THEN NONE ELSE Hands[r]]
      <4> HIDE DEF t
      <4> QED BY <2>5, <2>6, <3>2 DEF HandsOf
    <3>4. Abstract!Leave(gone)
      BY <2>4, <3>3 DEF Abstract!Leave
    <3>5. gone \in SUBSET Sources
      OBVIOUS
    <3> QED BY <2>5, <3>4, <3>5 DEF Abstract!Next
  <2>8. CASE SlotFor(s) # {}
    <3>1. PICK i \in SlotFor(s) : TRUE
      BY <2>8
    <3>2. i \in Slot /\ t[i] = [key |-> s, age |-> 0, state |-> v]
      BY <3>1, SlotForIsOwn
    <3>3. i \in Fresh(t) /\ t[i].key = s /\ t[i].state = v
      BY <3>2, SourcesAssumption, BoundsAssumption DEF Fresh, InUse
    <3>4. HandsOf(Expired(t))[s] = v
      <4> HIDE DEF t
      <4>1. /\ Expired(t) \in [Slot -> SlotState] /\ OneSlot(Expired(t))
            /\ i \in InUse(Expired(t)) /\ Expired(t)[i] = t[i]
        BY <2>2, <2>3, <3>3, ExpiredIsTable
      <4> QED BY <3>3, <4>1, HandOfSlot
    <3>5. Hands' = [r \in Sources |-> IF r = s THEN v
                                      ELSE IF r \in gone THEN NONE ELSE Hands[r]]
      <4> HIDE DEF t
      <4> QED BY <2>5, <2>6, <3>4 DEF HandsOf
    <3>6. Abstract!Move(s, v, gone)
      BY <2>4, <3>5 DEF Abstract!Move
    <3>7. gone \in SUBSET Sources /\ v \in Abstract!State
      BY DEF Abstract!State, State
    <3> QED BY <2>5, <3>6, <3>7 DEF Abstract!Next
  <2> QED BY <2>7, <2>8
<1>4. ASSUME NEW s \in Sources, Forget(s)
      PROVE  PendingIsNow' /\ Abstract!Next
  <2> DEFINE t == Without(s)
             gone == {r \in Sources : HandsOf(Expired(t))[r] = NONE}
  <2>1. t \in [Slot -> SlotState] /\ OneSlot(t)
    BY <1>0, FreeIsSlotState DEF Without, OneSlot, InUse
  <2>2. /\ Recombine(CallerOf[s], t, shaping) /\ shaping' = shaping /\ output' = output
        /\ CallerOf[s] \in Callers
    BY <1>4, CallerTypes DEF Forget
  <2>3. \A i \in InUse(t) : table[i] = t[i]
    BY FreeIsSlotState DEF InUse, Without
  <2> HIDE DEF t
  <2>4. Hands' = HandsOf(Expired(t)) /\ PendingIsNow'
    BY <1>0, <2>1, <2>2, CallHolds
  <2>5. \A r \in Sources : HandsOf(Expired(t))[r] \in {NONE, Hands[r]}
    BY <2>1, <2>3, FreeingLeaves
  <2>6. Hands' = [r \in Sources |-> IF r \in gone THEN NONE ELSE Hands[r]]
    BY <2>4, <2>5 DEF HandsOf
  <2>7. Abstract!Leave(gone) /\ gone \in SUBSET Sources
    BY <2>2, <2>6 DEF Abstract!Leave
  <2> QED BY <2>4, <2>7 DEF Abstract!Next
<1>5. ASSUME NEW c \in Callers, NEW shape \in Shapings, SetShaping(c, shape)
      PROVE  PendingIsNow' /\ Abstract!Next
  <2> DEFINE gone == {r \in Sources : HandsOf(Expired(table))[r] = NONE}
  <2>1. Recombine(c, table, shape) /\ shaping' = shape /\ output' = output
    BY <1>5 DEF SetShaping
  <2>2. Hands' = HandsOf(Expired(table)) /\ PendingIsNow'
    BY <1>0, <2>1, CallHolds
  <2>3. \A r \in Sources : HandsOf(Expired(table))[r] \in {NONE, Hands[r]}
    BY <1>0, FreeingLeaves
  <2>4. Hands' = [r \in Sources |-> IF r \in gone THEN NONE ELSE Hands[r]]
    BY <2>2, <2>3 DEF HandsOf
  <2>5. Abstract!Calibrate(gone) /\ gone \in SUBSET Sources
    BY <2>1, <2>4 DEF Abstract!Calibrate
  <2> QED BY <2>2, <2>5 DEF Abstract!Next
<1>6. ASSUME NEW c \in Callers, Deliver(c)
      PROVE  PendingIsNow' /\ Abstract!Next
  <2>1. /\ pending[c] # NONE /\ output' = pending[c] /\ pending' = [pending EXCEPT ![c] = NONE]
        /\ table' = table /\ shaping' = shaping
    BY <1>6 DEF Deliver
  <2>2. Hands' = Hands
    BY <2>1 DEF Hands
  <2>3. \A d \in Callers : pending'[d] = NONE
    BY <2>1 DEF OneCaller, TypeOK
  <2>4. PendingIsNow'
    BY <2>3 DEF PendingIsNow
  <2>5. pending[c] \in Report /\ pending[c].shape = shaping /\ pending[c].state \in CombinedOf(Hands)
    BY <2>1 DEF TypeOK, PendingIsNow
  <2>6. Abstract!Combined = CombinedOf(Hands)
    BY DEF Abstract!Combined, Abstract!Present, Abstract!Abs, CombinedOf, Sticks, Largest, Playing, Abs
  <2>7. output' \in [state : Abstract!Combined, shape : {shaping}]
    <3> HIDE DEF CombinedOf
    <3> QED BY <2>1, <2>5, <2>6 DEF Report
  <2>8. Abstract!Show
    BY <2>1, <2>2, <2>7 DEF Abstract!Show
  <2> QED BY <2>4, <2>8 DEF Abstract!Next
<1>7. CASE UNCHANGED vars
  <2>1. table' = table /\ pending' = pending /\ shaping' = shaping /\ output' = output
    BY <1>7 DEF vars
  <2>2. Hands' = Hands
    BY <2>1 DEF Hands
  <2> QED BY <2>1, <2>2 DEF PendingIsNow
<1> QED BY <1>1, <1>2, <1>3, <1>4, <1>5, <1>6, <1>7 DEF Next, Tick

\* With one calling thread the bridge does what it promises: each client's hand is kept
\* apart, and the console is told the combination of the hands that are on it, never an
\* earlier one after a later.
THEOREM OneThreadMerges == ASSUME OneCaller PROVE Spec => MergesHands
<1>1. Init => MergeInv /\ Abstract!Init
  <2> SUFFICES ASSUME Init PROVE MergeInv /\ Abstract!Init
      OBVIOUS
  <2>1. TypeOK /\ OneSlotPerSource
    BY FreeIsSlotState DEF Init, TypeOK, Report, OneSlotPerSource, InUse, Free
  <2>2. PendingIsNow
    BY DEF Init, PendingIsNow
  <2>3. Hands = [s \in Sources |-> NONE]
    <3>1. \A i \in Slot : table[i].key = NONE
      BY DEF Init, Free
    <3> QED BY <3>1, SourcesAssumption DEF Hands
  <2>4. Abstract!Init
    BY <2>3 DEF Init, Abstract!Init, Abstract!Neutral, Neutral
  <2> QED BY <2>1, <2>2, <2>4 DEF MergeInv
<1>2. MergeInv /\ [Next]_vars => MergeInv' /\ [Abstract!Next]_(Abstract!vars)
  BY TypeStep, OneSlotStep, MergeStep DEF MergeInv
<1>3. QED
  BY <1>1, <1>2, PTL DEF Spec, MergesHands, Abstract!Spec

=============================================================================
