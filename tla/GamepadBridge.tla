--------------------------- MODULE GamepadBridge ---------------------------
(***************************************************************************)
(* The controller merge (server/gamepad_bridge.c): every hand on the       *)
(* console - browsers, native clients, the pad plugged in here - is one    *)
(* slot of a table of eight; each event combines the slots under           *)
(* g_sources_mutex and hands the result to the output backend AFTER        *)
(* unlocking.  With the transports that report hands and their departures: *)
(* switch_stream.c, gst_webrtc.c and local_pad.c.                          *)
(*                                                                         *)
(* A controller state is abstracted to a set of buttons held and one axis; *)
(* the calibration applied to it to a tag.  The ages of the slots stand    *)
(* for SDL_GetTicks() - last_ms.                                           *)
(***************************************************************************)
EXTENDS Integers, FiniteSets

CONSTANTS
    Natives,     \* sources whose transport calls gamepad_bridge_forget()
    Browsers,    \* WebRTC sources
    Buttons,
    Reach,       \* how far a stick deflects
    Shapings,    \* output calibrations
    MaxSources,  \* GAMEPAD_MAX_SOURCES
    Timeout,     \* GAMEPAD_SOURCE_TIMEOUT_MS, in ticks
    Callers,     \* threads that call into the bridge
    CallerOf,    \* the thread each source's events come from
    Settings,    \* threads that change the calibration
    NONE

Sources == Natives \cup Browsers
Slot == 1..MaxSources

ASSUME SourcesAssumption ==
    /\ Natives \cap Browsers = {} /\ NONE \notin Sources
    /\ CallerOf \in [Sources -> Callers] /\ Settings \subseteq Callers
ASSUME BoundsAssumption ==
    /\ Reach \in Nat /\ Timeout \in Nat /\ MaxSources \in Nat \ {0}

VARIABLES
    on,       \* where each client is: away, playing, or cut off unnoticed
    held,     \* what each client last reported
    table,    \* g_sources
    shaping,  \* g_output_shaping
    pending,  \* what each thread has combined and not yet handed over
    output    \* the state the output backend works from

vars == <<on, held, table, shaping, pending, output>>

State == [press : SUBSET Buttons, stick : -Reach..Reach]
Neutral == [press |-> {}, stick |-> 0]
Report == [state : State, shape : Shapings]
Free == [key |-> NONE, age |-> 0, state |-> Neutral]

\* NONE is neither a state nor a report.
ASSUME NoneAssumption == NONE \notin State /\ NONE \notin Report

Abs(v) == IF v < 0 THEN -v ELSE v

----------------------------------------------------------------------------
(* recombine(): slots silent for longer than the timeout are freed, the    *)
(* others combined - a button is held if anybody holds it, and the largest *)
(* deflection wins, the first of equal ones - and calibrated.              *)

InUse(t) == {i \in Slot : t[i].key # NONE}

\* Mutant of Fresh: a source is never dropped for its silence.
FreshForEver(t) == InUse(t)

Fresh(t) == {i \in InUse(t) : t[i].age <= Timeout}

\* Mutant of Stick: deflections add up.
StickAdds(t) ==
    LET a(i) == IF i \in Fresh(t) THEN t[i].state.stick ELSE 0
    IN  IF MaxSources = 1 THEN a(1) ELSE a(1) + a(2)

Stick(t) ==
    LET wins(i) == \A j \in Fresh(t) :
                       /\ Abs(t[j].state.stick) <= Abs(t[i].state.stick)
                       /\ j < i => Abs(t[j].state.stick) < Abs(t[i].state.stick)
    IN  IF \E i \in Fresh(t) : wins(i)
        THEN t[CHOOSE i \in Fresh(t) : wins(i)].state.stick ELSE 0

\* Mutant of Merge: what is about to expire is still combined.
MergeStale(t) == [press |-> UNION {t[i].state.press : i \in InUse(t)}, stick |-> Stick(t)]

Merge(t) == [press |-> UNION {t[i].state.press : i \in Fresh(t)}, stick |-> Stick(t)]

\* The rest of a call, under the mutex: expire, combine, keep for delivery.
Recombine(c, t, shape) ==
    /\ pending[c] = NONE
    /\ table' = [i \in Slot |-> IF i \in Fresh(t) THEN t[i] ELSE Free]
    /\ pending' = [pending EXCEPT ![c] = [state |-> Merge(t), shape |-> shape]]

----------------------------------------------------------------------------
(* The calls. *)

\* Mutant of SlotFor: the first free slot is taken before looking further.
SlotForFree(s) ==
    LET fit == {i \in Slot : table[i].key \in {s, NONE}}
    IN  {i \in fit : \A j \in fit : i <= j}

\* Mutant of SlotFor: a newcomer evicts the first source when all are taken.
SlotForEvicts(s) ==
    LET own  == {i \in Slot : table[i].key = s}
        free == Slot \ InUse(table)
        fit  == IF own # {} THEN own ELSE IF free # {} THEN free ELSE {1}
    IN  {i \in fit : \A j \in fit : i <= j}

\* The slot a source writes: its own, or else the first free one; none when
\* all are taken (an expired slot counts as taken until the next recombine).
SlotFor(s) ==
    LET own  == {i \in Slot : table[i].key = s}
        free == Slot \ InUse(table)
        fit  == IF own # {} THEN own ELSE free
    IN  {i \in fit : \A j \in fit : i <= j}

\* gamepad_bridge_update(), for an input message of a client that may play
Update(s) ==
    /\ on[s] = "playing"
    /\ \E v \in State :
          /\ held' = [held EXCEPT ![s] = v]
          /\ Recombine(CallerOf[s],
                       [i \in Slot |-> IF i \in SlotFor(s)
                                       THEN [key |-> s, age |-> 0, state |-> v]
                                       ELSE table[i]],
                       shaping)
    /\ UNCHANGED <<on, shaping, output>>

\* Mutant of Without: the first slot is left in use.
WithoutKept(s) == [i \in Slot |-> IF i > 1 /\ table[i].key = s THEN Free ELSE table[i]]

Without(s) == [i \in Slot |-> IF table[i].key = s THEN Free ELSE table[i]]

\* gamepad_bridge_forget(), from drop_client() or local_pad_poll()
Forget(s) ==
    /\ s \in Natives
    /\ on[s] \in {"playing", "vanished"}
    /\ on' = [on EXCEPT ![s] = "away"]
    /\ Recombine(CallerOf[s], Without(s), shaping)
    /\ UNCHANGED <<held, shaping, output>>

\* teardown_client(): the slot of the connection is freed, and nobody tells
\* the bridge.
Teardown(s) ==
    /\ s \in Browsers
    /\ on[s] \in {"playing", "vanished"}
    /\ on' = [on EXCEPT ![s] = "away"]
    /\ UNCHANGED <<held, table, shaping, pending, output>>

\* gamepad_bridge_set_output_shaping(): "Recombine NOW"
SetShaping(c, shape) ==
    /\ c \in Settings /\ shape # shaping
    /\ shaping' = shape
    /\ Recombine(c, table, shape)
    /\ UNCHANGED <<on, held, output>>

\* g_backend->update(merged), after the mutex was released
Deliver(c) ==
    /\ pending[c] # NONE
    /\ output' = pending[c]
    /\ pending' = [pending EXCEPT ![c] = NONE]
    /\ UNCHANGED <<on, held, table, shaping>>

----------------------------------------------------------------------------
(* The clients and the clock. *)

\* A client connects, holding nothing.
Join(s) ==
    /\ on[s] = "away"
    /\ on' = [on EXCEPT ![s] = "playing"]
    /\ held' = [held EXCEPT ![s] = Neutral]
    /\ UNCHANGED <<table, shaping, pending, output>>

\* A client's network disappears; the server has not noticed.
Vanish(s) ==
    /\ on[s] = "playing"
    /\ on' = [on EXCEPT ![s] = "vanished"]
    /\ UNCHANGED <<held, table, shaping, pending, output>>

\* Ages stop counting once past the timeout.
Tick ==
    /\ \E i \in InUse(table) : table[i].age <= Timeout
    /\ table' = [i \in Slot |-> IF i \in InUse(table) /\ table[i].age <= Timeout
                                THEN [table[i] EXCEPT !.age = @ + 1] ELSE table[i]]
    /\ UNCHANGED <<on, held, shaping, pending, output>>

Init ==
    /\ on = [s \in Sources |-> "away"]
    /\ held = [s \in Sources |-> Neutral]
    /\ table = [i \in Slot |-> Free]
    /\ shaping \in Shapings
    /\ pending = [c \in Callers |-> NONE]
    /\ output = [state |-> Neutral, shape |-> shaping]

Next ==
    \/ \E s \in Sources : Join(s) \/ Update(s) \/ Vanish(s) \/ Forget(s) \/ Teardown(s)
    \/ \E c \in Callers : Deliver(c) \/ \E shape \in Shapings : SetShaping(c, shape)
    \/ Tick

Spec == Init /\ [][Next]_vars

\* Threads run, time passes, and a transport notices in the end that a client
\* is gone: the native one probes and drops it after its idle timeout, the
\* WebRTC one after its heartbeat's or the connection's.
Fairness ==
    /\ WF_vars(Tick)
    /\ \A c \in Callers : WF_vars(Deliver(c))
    /\ \A s \in Sources : SF_vars(on[s] = "vanished" /\ (Forget(s) \/ Teardown(s)))

FairSpec == Spec /\ Fairness

----------------------------------------------------------------------------
(* Properties. *)

SlotState == {Free} \cup [key : Sources, age : 0..(Timeout + 1), state : State]

TypeOK ==
    /\ on \in [Sources -> {"away", "playing", "vanished"}]
    /\ held \in [Sources -> State]
    /\ table \in [Slot -> SlotState]
    /\ shaping \in Shapings
    /\ pending \in [Callers -> Report \cup {NONE}]
    /\ output \in Report

\* However updates, departures, expiries and a full table alternate, a source
\* never comes to own two slots: a second one would keep an old press alive
\* beside the new state.
OneSlotPerSource ==
    \A i, j \in InUse(table) : table[i].key = table[j].key => i = j

\* tests/c/test_gamepad_bridge.c: extras that find the table full are ignored
\* and "the ones already playing keep working": a source heard within the
\* timeout loses its slot only by leaving.
PlayersKeepTheirSlot ==
    [][\A i \in Fresh(table) : table'[i].key = table[i].key \/ Forget(table[i].key)]_vars

\* A button pressed on the console that no client still playing holds.
Stuck(b) ==
    /\ b \in output.state.press
    /\ \A s \in Sources : on[s] = "playing" => b \notin held[s].press

\* A hand is on the console while it has a slot.
Hands == [s \in Sources |->
            IF \E i \in Slot : table[i].key = s
            THEN table[CHOOSE i \in Slot : table[i].key = s].state ELSE NONE]

Abstract == INSTANCE ControllerMerge WITH hands <- Hands, console <- output

\* gamepad_bridge.h: what the output backend works from is always the
\* combination of the hands in the table.  This is what a single calling
\* thread gets; with two, a combination can be delivered after a later one.
MergesHands == Abstract!Spec

\* As long as somebody's input keeps arriving, a press whose client is gone is
\* released, even if its departure was never reported and even if a stale
\* combination was delivered last.
ReleasedByOthers ==
    []<><<\E s \in Sources : Update(s)>>_vars => \A b \in Buttons : Stuck(b) ~> ~Stuck(b)

\* switch_stream.c, drop_client(): what a client was holding "goes with it,
\* rather than staying pressed on the console until something else happens to
\* overwrite it".
ReleasedOnLeaving == \A b \in Buttons : Stuck(b) ~> ~Stuck(b)

\* output_titan.c, at GAMEPAD_SOURCE_TIMEOUT_MS: "Both transports announce
\* their own departure": a browser that is gone leaves the table.
DeparturesAnnounced ==
    \A s \in Browsers :
        (on[s] = "away" /\ \E i \in Slot : table[i].key = s)
            ~> (on[s] # "away" \/ \A i \in Slot : table[i].key # s)

=============================================================================
