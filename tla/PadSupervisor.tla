--------------------------- MODULE PadSupervisor ---------------------------
(***************************************************************************)
(* The host's side of the Wii U GamePad (wiiu_pad.c): the pad's client is  *)
(* a separate program that the main loop starts, stops and starts again.   *)
(* The settings window runs on the GTK thread: it leaves a request for the *)
(* main loop, and when a port moves it stops the child itself              *)
(* (capture2cloud.c, on_settings).                                         *)
(*                                                                         *)
(* Left out: the child's log and the status line drawn from it, except the *)
(* statuses that say why there is no child.  A child is one of Pids; one   *)
(* more than that cannot be started, as when fork() fails.                 *)
(***************************************************************************)
EXTENDS Naturals, FiniteSets

CONSTANT Pids \* process identifiers, positive numbers

ASSUME PidsAssumption == Pids \subseteq Nat \ {0} /\ IsFiniteSet(Pids)

VARIABLES
    padRequest,    \* g_wiiu_pad_request
    enabled,    \* the setting wiiu_pad_enabled
    native,     \* whether the native transport runs (g_switch)
    wiiuPad,        \* *g_wiiu_pad, or NoPad for NULL
    child,      \* what each process does: none, runs, told, or how it ended
    mainAt,     \* the main loop: poll, then request
    gtkAt,      \* the GTK thread: idle, or where it is in wiiu_pad_stop
    lastAsk,    \* what the pad was last asked for: start or stop
    raced       \* the main loop started a child of a pad being freed

supervisorVars == <<padRequest, enabled, native, wiiuPad, child, mainAt, gtkAt, lastAsk, raced>>

NoPad == [built |-> FALSE, pid |-> 0, asked |-> FALSE, again |-> FALSE,
          due |-> FALSE, status |-> "off"]

Failures == {"not built", "could not start it", "could not be run"}
Endings == {"exited", "could not be run"}

SupervisorTypeOK ==
    /\ padRequest \in {"none", "enable", "disable", "restart", "stop"}
    /\ enabled \in BOOLEAN /\ native \in BOOLEAN
    /\ wiiuPad \in [built : BOOLEAN, pid : Pids \cup {0}, asked : BOOLEAN,
                again : BOOLEAN, due : BOOLEAN, status : {"off", "ok"} \cup Failures]
    /\ child \in [Pids -> {"none", "runs", "told"} \cup Endings]
    /\ mainAt \in {"poll", "request"}
    /\ gtkAt \in {"idle", "waiting", "freeing"}
    /\ lastAsk \in {"start", "stop"} /\ raced \in BOOLEAN

HasPad == wiiuPad # NoPad
Alive == {p \in Pids : child[p] \in {"runs", "told"}}

-----------------------------------------------------------------------------
(***************************************************************************)
(* The pieces of wiiu_pad.c: each says what it leaves of the pad and of    *)
(* the children.                                                           *)
(***************************************************************************)

\* spawn(), of the pad w and the children kids: fork() may fail.
Spawn(w, kids) ==
    \/ \E p \in {q \in Pids : kids[q] = "none"} :
         /\ wiiuPad' = [w EXCEPT !.pid = p, !.status = "ok"]
         /\ child' = [kids EXCEPT ![p] = "runs"]
    \/ wiiuPad' = [w EXCEPT !.status = "could not start it"] /\ child' = kids

\* kill(): SIGTERM reaches a process that runs, SIGKILL one that is left.
Tell(p) == IF child[p] = "runs" THEN [child EXCEPT ![p] = "told"] ELSE child
ForceEnd(p) == IF p \in Alive THEN [child EXCEPT ![p] = "exited"] ELSE child

\* wiiu_pad_start(): a program that was not built leaves a pad that says so.
MakePad ==
    \/ wiiuPad' = [NoPad EXCEPT !.status = "not built"] /\ child' = child
    \/ Spawn([NoPad EXCEPT !.built = TRUE, !.status = "ok"], child)

\* Mutant of MayFork: a child that was told to end is not waited for.
MayForkTold == wiiuPad.pid = 0 \/ wiiuPad.asked

\* spawn() only while there is no child.
MayFork == wiiuPad.pid = 0

StartPad ==
    LET w == [wiiuPad EXCEPT !.due = FALSE] IN
    \/ ~wiiuPad.built /\ UNCHANGED <<wiiuPad, child>>
    \/ /\ wiiuPad.built /\ ~MayFork
       /\ wiiuPad' = [w EXCEPT !.again = wiiuPad.again \/ wiiuPad.asked] /\ child' = child
    \/ /\ wiiuPad.built /\ MayFork
       /\ Spawn([w EXCEPT !.asked = FALSE, !.again = FALSE], child)

\* Mutant of NotAgain: a start that was asked for is not taken back.
NotAgainDue(w) == [w EXCEPT !.due = FALSE]

\* The stop takes back every start that was planned.
NotAgain(w) == [w EXCEPT !.due = FALSE, !.again = FALSE]

StopPad ==
    /\ wiiuPad' = [NotAgain(wiiuPad) EXCEPT !.asked = wiiuPad.asked \/ wiiuPad.pid > 0, !.status = "ok"]
    /\ child' = IF wiiuPad.pid > 0 /\ ~wiiuPad.asked THEN Tell(wiiuPad.pid) ELSE child

RestartPad ==
    \/ ~wiiuPad.built /\ UNCHANGED <<wiiuPad, child>>
    \/ wiiuPad.built /\ wiiuPad.pid = 0 /\ StartPad
    \/ /\ wiiuPad.built /\ wiiuPad.pid > 0
       /\ wiiuPad' = [wiiuPad EXCEPT !.due = FALSE, !.again = TRUE, !.asked = TRUE]
       /\ child' = IF wiiuPad.asked THEN child ELSE Tell(wiiuPad.pid)

Gone(p) == child[p] \in Endings

\* waitpid() said the child is gone: it was asked to, it never ran, or it is
\* to be started again in a second.
Reap ==
    LET w == [wiiuPad EXCEPT !.pid = 0, !.asked = FALSE, !.again = FALSE]
        kids == [child EXCEPT ![wiiuPad.pid] = "none"]
    IN \/ wiiuPad.asked /\ wiiuPad.again /\ Spawn(w, kids)
       \/ wiiuPad.asked /\ ~wiiuPad.again /\ wiiuPad' = [w EXCEPT !.status = "ok"] /\ child' = kids
       \/ /\ ~wiiuPad.asked /\ child[wiiuPad.pid] = "could not be run"
          /\ wiiuPad' = [wiiuPad EXCEPT !.pid = 0, !.status = "could not be run"]
          /\ child' = kids
       \/ /\ ~wiiuPad.asked /\ child[wiiuPad.pid] = "exited"
          /\ wiiuPad' = [wiiuPad EXCEPT !.pid = 0, !.due = TRUE, !.status = "ok"]
          /\ child' = kids

\* The main loop started a child of the pad that the GTK thread stops.
Races == raced' = (raced \/ (gtkAt # "idle" /\ \E p \in Pids : child[p] = "none" /\ child'[p] = "runs"))

-----------------------------------------------------------------------------
(***************************************************************************)
(* The main loop: wiiu_pad_poll(), then process_wiiu_pad_request().        *)
(***************************************************************************)

\* One call of wiiu_pad_poll(); late says that the second it waits for before
\* a new start, or the grace period of a stop, has passed.
PollPad(late) ==
    /\ mainAt = "poll" /\ mainAt' = "request"
    /\ \/ wiiuPad.pid = 0 /\ wiiuPad.due /\ late /\ Spawn([wiiuPad EXCEPT !.due = FALSE], child)
       \/ wiiuPad.pid = 0 /\ ~(wiiuPad.due /\ late) /\ UNCHANGED <<wiiuPad, child>>
       \/ wiiuPad.pid > 0 /\ Gone(wiiuPad.pid) /\ Reap
       \/ /\ wiiuPad.pid > 0 /\ ~Gone(wiiuPad.pid) /\ wiiuPad' = wiiuPad
          /\ child' = IF wiiuPad.asked /\ late THEN ForceEnd(wiiuPad.pid) ELSE child
    /\ Races
    /\ UNCHANGED <<padRequest, enabled, native, gtkAt, lastAsk>>

\* A request that wants the pad, by start() or by restart(): without the
\* native transport there is nothing for it to connect to.
Want(byStart) ==
    \/ ~native /\ UNCHANGED <<wiiuPad, child, lastAsk>>
    \/ /\ native /\ lastAsk' = "start"
       /\ \/ HasPad /\ byStart /\ StartPad
          \/ HasPad /\ ~byStart /\ RestartPad
          \/ ~HasPad /\ MakePad

ProcessRequest ==
    /\ mainAt = "request" /\ mainAt' = "poll" /\ padRequest' = "none"
    /\ \/ padRequest = "none" /\ UNCHANGED <<wiiuPad, child, lastAsk>>
       \/ padRequest = "enable" /\ Want(TRUE)
       \/ padRequest = "restart" /\ Want(FALSE)
       \/ /\ padRequest \in {"disable", "stop"} /\ lastAsk' = "stop"
          /\ IF HasPad THEN StopPad ELSE UNCHANGED <<wiiuPad, child>>
    /\ Races
    /\ UNCHANGED <<enabled, native, gtkAt>>

-----------------------------------------------------------------------------
(***************************************************************************)
(* The GTK thread: the two buttons and on_settings().                      *)
(***************************************************************************)

Press(button) ==
    /\ gtkAt = "idle" /\ padRequest' = button
    /\ UNCHANGED <<enabled, native, wiiuPad, child, mainAt, gtkAt, lastAsk, raced>>

\* A change that leaves the ports alone: the pad is asked for when its switch
\* moved, and when it is wanted and there is none.
OnSettings(on) ==
    /\ gtkAt = "idle" /\ enabled' = on
    /\ padRequest' = IF on # enabled \/ (on /\ ~HasPad)
                  THEN IF on THEN "enable" ELSE "disable" ELSE padRequest
    /\ UNCHANGED <<native, wiiuPad, child, mainAt, gtkAt, lastAsk, raced>>

\* A port moved or the transport was switched: the transport starts again, and
\* wiiu_pad_stop() runs here.
PortsMoved(on) ==
    /\ gtkAt = "idle" /\ native' = on
    /\ \/ /\ HasPad /\ wiiuPad.pid > 0 /\ gtkAt' = "waiting" /\ StopPad
       \/ /\ HasPad /\ wiiuPad.pid = 0 /\ gtkAt' = "freeing" /\ UNCHANGED <<wiiuPad, child>>
       \/ /\ ~HasPad /\ UNCHANGED <<wiiuPad, child, gtkAt>>
    /\ padRequest' = IF enabled /\ ~HasPad THEN "enable" ELSE padRequest
    /\ UNCHANGED <<enabled, mainAt, lastAsk, raced>>

\* It waits for the child that the pad has by then, or for the grace period
\* to pass, and then kills that child and waits for it.
StopWaits(late) ==
    /\ gtkAt = "waiting" /\ gtkAt' = "freeing"
    /\ late \/ wiiuPad.pid \notin Alive
    /\ wiiuPad' = [wiiuPad EXCEPT !.pid = 0]
    /\ child' = IF wiiuPad.pid > 0 THEN [child EXCEPT ![wiiuPad.pid] = "none"] ELSE child
    /\ UNCHANGED <<padRequest, enabled, native, mainAt, lastAsk, raced>>

\* The pad is freed, and asked for again if it is still wanted.
FreePad ==
    /\ gtkAt = "freeing" /\ gtkAt' = "idle"
    /\ wiiuPad' = NoPad /\ lastAsk' = "stop"
    /\ padRequest' = IF enabled THEN "enable" ELSE padRequest
    /\ UNCHANGED <<enabled, native, child, mainAt, raced>>

-----------------------------------------------------------------------------
\* The child ends by itself, or on its SIGTERM if it has taken it.
ChildEnds(p) ==
    /\ p \in Alive
    /\ \E how \in Endings : /\ how = "could not be run" => child[p] = "runs"
                            /\ child' = [child EXCEPT ![p] = how]
    /\ UNCHANGED <<padRequest, enabled, native, wiiuPad, mainAt, gtkAt, lastAsk, raced>>

SupervisorInit ==
    /\ padRequest = "none" /\ enabled \in BOOLEAN /\ native \in BOOLEAN
    /\ lastAsk = (IF enabled /\ native THEN "start" ELSE "stop")
    /\ raced = FALSE /\ mainAt = "poll" /\ gtkAt = "idle"
    /\ wiiuPad \in {NoPad} \cup {[NoPad EXCEPT !.built = TRUE, !.pid = p, !.status = "ok"] : p \in Pids}
    /\ (wiiuPad.pid > 0) <=> (enabled /\ native)
    /\ child = [p \in Pids |-> IF p = wiiuPad.pid THEN "runs" ELSE "none"]

MainLoop == (\E late \in BOOLEAN : PollPad(late)) \/ ProcessRequest
Gtk == \/ \E b \in {"restart", "stop"} : Press(b)
       \/ \E on \in BOOLEAN : OnSettings(on) \/ PortsMoved(on)
       \/ (\E late \in BOOLEAN : StopWaits(late)) \/ FreePad
SupervisorNext == MainLoop \/ Gtk \/ \E p \in Pids : ChildEnds(p)

SupervisorSpec ==
    /\ SupervisorInit /\ [][SupervisorNext]_supervisorVars
    /\ WF_supervisorVars(MainLoop) /\ SF_supervisorVars(PollPad(TRUE))
    /\ WF_supervisorVars(StopWaits(TRUE)) /\ WF_supervisorVars(FreePad)

-----------------------------------------------------------------------------
\* No two pads' programs run at once; only a start in the middle of a stop by
\* the settings window could make it two.
OneChild == raced \/ Cardinality(Alive) <= 1

\* A pad that was asked to stop has no start planned any more.
AskedToStop == (lastAsk = "stop" /\ HasPad /\ gtkAt = "idle") => ~wiiuPad.due /\ ~wiiuPad.again

\* A stopped pad's program ends and stays so until it is asked for again, even if
\* it does not listen to its SIGTERM.
StopIsFinal == []<>(lastAsk = "stop" => raced \/ Alive = {})

\* A pad that is asked for runs or says why not, however its program ends.
WantedRuns ==
    []<>(lastAsk = "start" => \/ Alive # {} \/ wiiuPad.status \in Failures
                              \/ HasPad /\ ~wiiuPad.built)
=============================================================================
