--------------------------- MODULE PcbleRecovery ---------------------------
(***************************************************************************)
(* The Bluetooth recovery engine of the pcble controller-output backend    *)
(* (server/output_pcble.c) with the console wake that borrows the same     *)
(* Bluetooth stack (server/reset_method.c).                                *)
(*                                                                         *)
(* Five kinds of thread share a handful of words of memory:                *)
(*   Main       the main loop, calling output_pcble_service();             *)
(*   Worker     the IPC thread that forwards input to the helper and       *)
(*              learns from its answers whether the console is linked;     *)
(*   Slots      one launcher_wait_thread per helper process;               *)
(*   Resetters  callers of gamepad_bridge_reset() (HTTP, native, GTK, and  *)
(*              the main loop itself);                                     *)
(*   Wakers     bluetooth_wake callers and the wake thread they start;     *)
(*   Panels     the GTK controller-output page.                            *)
(* The SDL atomics and the two plain ints are read and written one at a    *)
(* time, without a common lock, so each access is a step of its own.       *)
(* Time is abstracted to whether g_reconnect_not_before has passed.        *)
(***************************************************************************)
EXTENDS Naturals, FiniteSets

CONSTANTS
    Slots,      \* helper processes (with their waiter threads) that may overlap
    Resetters,  \* threads that may call gamepad_bridge_reset()
    Wakers,     \* threads that may ask for a Bluetooth console wake
    Panels,     \* GTK controller-output pages: one or none
    NONE        \* no launcher

Main   == "main"
Worker == "worker"

\* The thread names are distinct; only the main loop may double as a resetter.
ASSUME ThreadsAssumption ==
    /\ NONE \notin Slots
    /\ Slots \cap (Resetters \cup Wakers \cup Panels \cup {Main, Worker}) = {}
    /\ Wakers \cap (Resetters \cup Panels \cup {Main, Worker}) = {}
    /\ Panels \cap (Resetters \cup {Main, Worker}) = {}
    /\ Worker \notin Resetters

\* "Three REAL helper launches, not three failures to execute pkexec."
MaxAttempts == 3

Threads == {Main, Worker} \cup Slots \cup Resetters \cup Wakers \cup Panels

VARIABLES
    requested,  \* g_reconnect_requested
    active,     \* g_reconnect_active
    owned,      \* g_recovery_launch_owned
    suspended,  \* g_wake_suspended
    attempt,    \* g_reconnect_attempt
    settling,   \* g_reconnect_not_before lies in the future
    launcher,   \* g_launcher
    stopping,   \* g_session_stopping
    link,       \* g_ipc_up and g_link_up
    wakeActive, \* g_bluetooth_wake_active
    proc,       \* what each helper process is doing
    pc,         \* where each thread is
    reply,      \* the helper's answer the worker is about to record
    seen,       \* each waiter's snapshot of owned && active
    counted,    \* the copy of g_reconnect_attempt the main loop compared with 3
    page        \* the buttons of the GTK page that are enabled, as last refreshed

recovery == <<requested, active, owned, suspended, attempt, settling>>
session  == <<launcher, stopping, proc>>
others   == <<link, wakeActive, reply, seen, counted, page>>
vars == <<requested, active, owned, suspended, attempt, settling, launcher,
          stopping, link, wakeActive, proc, pc, reply, seen, counted, page>>

\* A helper process holds the Bluetooth stack from its spawn until it exits.
Live == {"starting", "linked", "draining", "drainingLinked"}
Alive == {s \in Slots : proc[s] \in Live}
\* The states in which the helper answers "initialized":true.
Initialized == {"linked", "drainingLinked"}

Init ==
    /\ requested = FALSE /\ active = FALSE /\ owned = FALSE
    /\ suspended = FALSE /\ attempt = 0 /\ settling = FALSE
    /\ launcher = NONE /\ stopping = FALSE
    /\ link = "down" /\ wakeActive = FALSE
    /\ proc = [s \in Slots |-> "none"]
    /\ pc = [t \in Threads |-> "idle"]
    /\ reply = "fail"
    /\ seen = [s \in Slots |-> FALSE]
    /\ counted = 0
    /\ page = {}

Goto(t, from, to) == pc[t] = from /\ pc' = [pc EXCEPT ![t] = to]

\* The worker keeps g_lock from recording an answer to its last assignment.
GLockFree == pc[Worker] \notin {"wActive", "wOwned", "wRequested", "wAttempt"}

----------------------------------------------------------------------------
(* output_pcble_reset(): five unlocked assignments, in this order. *)

ResetCall(t) ==
    /\ Goto(t, "idle", "rSuspended")
    /\ UNCHANGED <<recovery, session, others>>

ResetSuspended(t) ==
    /\ Goto(t, "rSuspended", "rRequested")
    /\ suspended' = FALSE
    /\ UNCHANGED <<requested, active, owned, attempt, settling, session, others>>

ResetRequested(t) ==
    /\ Goto(t, "rRequested", "rActive")
    /\ requested' = TRUE
    /\ UNCHANGED <<active, owned, suspended, attempt, settling, session, others>>

ResetActive(t) ==
    /\ Goto(t, "rActive", "rAttempt")
    /\ active' = TRUE
    /\ UNCHANGED <<requested, owned, suspended, attempt, settling, session, others>>

ResetAttempt(t) ==
    /\ Goto(t, "rAttempt", "rSettle")
    /\ attempt' = 0
    /\ UNCHANGED <<requested, active, owned, suspended, settling, session, others>>

\* The wake thread goes on to clear g_bluetooth_wake_active, the GTK thread to
\* refresh its page.
ResetSettle(t) ==
    /\ Goto(t, "rSettle", IF t \in Wakers THEN "kDone"
                          ELSE IF t \in Panels THEN "gRefresh" ELSE "idle")
    /\ settling' = FALSE
    /\ UNCHANGED <<requested, active, owned, suspended, attempt, session, others>>

Reset(t) ==
    \/ t \in Resetters /\ ResetCall(t)
    \/ ResetSuspended(t)
    \/ ResetRequested(t)
    \/ ResetActive(t)
    \/ ResetAttempt(t)
    \/ ResetSettle(t)

----------------------------------------------------------------------------
(* output_pcble_stop_session(): ask the helper over its socket, then mark  *)
(* the session as stopping.  Nobody may listen on the socket yet, and the  *)
(* answer may miss its 150 ms.  SIGTERM is the fallback; sent to a process *)
(* pkexec has made root's it is refused, so it may do nothing.             *)

Drain(s) ==
    proc' = [proc EXCEPT ![s] = IF @ \in Initialized THEN "drainingLinked"
                                                     ELSE "draining"]

StopSend(t) ==
    /\ pc[t] = "stopSend"
    /\ GLockFree
    /\ \/ /\ \E s \in Alive : Drain(s)
          /\ \E next \in {"stopMark", "stopKill"} : pc' = [pc EXCEPT ![t] = next]
       \/ /\ pc' = [pc EXCEPT ![t] = "stopKill"]
          /\ UNCHANGED proc
    /\ UNCHANGED <<recovery, launcher, stopping, link, wakeActive, reply, seen,
                   counted, page>>

AfterStop(t) ==
    CASE t = Main -> "backoff" [] t \in Wakers -> "kAwait" [] t \in Panels -> "gRefresh"

\* Mutant of StopMark: the session is taken to be over once asked to stop.
StopMarkForgets(t) ==
    /\ pc[t] \in {"stopMark", "stopKill"}
    /\ pc' = [pc EXCEPT ![t] = AfterStop(t)]
    /\ stopping' = FALSE /\ launcher' = NONE
    /\ UNCHANGED <<recovery, proc, others>>

StopMark(t) ==
    /\ pc[t] \in {"stopMark", "stopKill"}
    /\ pc' = [pc EXCEPT ![t] = AfterStop(t)]
    /\ stopping' = TRUE
    /\ \/ /\ pc[t] = "stopKill" /\ launcher \in Alive
          /\ Drain(launcher)
       \/ UNCHANGED proc
    /\ UNCHANGED <<recovery, launcher, others>>

----------------------------------------------------------------------------
(* output_pcble_start_session(): one launcher at a time, under             *)
(* g_session_lock; the waiter thread starts before the lock is released.   *)

FreeSlot(s) == proc[s] = "none" /\ pc[s] = "idle"

Spawn(s, t, next, reconnect) ==
    /\ launcher = NONE
    /\ FreeSlot(s)
    /\ launcher' = s
    /\ stopping' = FALSE
    /\ active' = reconnect
    /\ proc' = [proc EXCEPT ![s] = "starting"]
    /\ pc' = [pc EXCEPT ![t] = next, ![s] = "tWait"]

----------------------------------------------------------------------------
(* output_pcble_service(), one pass of the main loop. *)

ServiceRequested ==
    /\ requested
    /\ Goto(Main, "idle", "running")
    /\ UNCHANGED <<recovery, session, others>>

\* output_pcble_session_running()
ServiceRunning ==
    /\ Goto(Main, "running", IF launcher # NONE THEN "stopping" ELSE "due")
    /\ UNCHANGED <<recovery, session, others>>

\* output_pcble_session_stopping(): a stop already asked for is not repeated.
ServiceStopping ==
    /\ Goto(Main, "stopping", IF stopping THEN "idle" ELSE "stopSend")
    /\ UNCHANGED <<recovery, session, others>>

ServiceBackoff ==
    /\ Goto(Main, "backoff", "idle")
    /\ settling' = TRUE
    /\ UNCHANGED <<requested, active, owned, suspended, attempt, session, others>>

\* Mutant of ServiceDue: the bound on the attempts is off by one.
ServiceDueOffByOne ==
    /\ Goto(Main, "due", IF settling THEN "idle"
                         ELSE IF attempt > MaxAttempts THEN "giveRequested" ELSE "count")
    /\ counted' = IF settling \/ attempt > MaxAttempts THEN 0 ELSE attempt
    /\ UNCHANGED <<recovery, session, link, wakeActive, reply, seen, page>>

\* The settling delay, then the bound on the attempts.
ServiceDue ==
    /\ Goto(Main, "due", IF settling THEN "idle"
                         ELSE IF attempt >= MaxAttempts THEN "giveRequested" ELSE "count")
    /\ counted' = IF settling \/ attempt >= MaxAttempts THEN 0 ELSE attempt
    /\ UNCHANGED <<recovery, session, link, wakeActive, reply, seen, page>>

\* g_reconnect_attempt++ on a plain int other threads clear: the build may
\* load it again or use the copy it has just compared.
ServiceCount ==
    /\ Goto(Main, "count", "own")
    /\ \E base \in {attempt, counted} : attempt' = base + 1
    /\ counted' = 0
    /\ UNCHANGED <<requested, active, owned, suspended, settling, session, link,
                   wakeActive, reply, seen, page>>

\* "Mark ownership BEFORE spawning."
ServiceOwn ==
    /\ Goto(Main, "own", "launch")
    /\ owned' = TRUE
    /\ UNCHANGED <<requested, active, suspended, attempt, settling, session, others>>

ServiceLaunch ==
    /\ pc[Main] = "launch"
    /\ \E s \in Slots : Spawn(s, Main, "setController", TRUE)
    /\ UNCHANGED <<requested, owned, suspended, attempt, settling, others>>

\* No paired Switch or adapter saved, adapter gone, backend not installed,
\* pkexec not spawned, or a session already running.
ServiceLaunchFails ==
    /\ Goto(Main, "launch", "disown")
    /\ UNCHANGED <<recovery, session, others>>

\* output_pcble_set_controller(profile), under g_lock
ServiceSetController ==
    /\ GLockFree
    /\ Goto(Main, "setController", "consume")
    /\ link' = "down"
    /\ UNCHANGED <<recovery, session, wakeActive, reply, seen, counted, page>>

\* Mutant of ServiceConsume: a launch clears the counter instead of the request.
ServiceConsumeSwaps ==
    /\ Goto(Main, "consume", "idle")
    /\ attempt' = 0
    /\ UNCHANGED <<requested, active, owned, suspended, settling, session, others>>

\* "Stop asking service() to launch another helper while this one is alive."
ServiceConsume ==
    /\ Goto(Main, "consume", "idle")
    /\ requested' = FALSE
    /\ UNCHANGED <<active, owned, suspended, attempt, settling, session, others>>

\* Mutant of ServiceDisown: the ownership of the failed launch is kept.
ServiceDisownForgets ==
    /\ Goto(Main, "disown", IF attempt < MaxAttempts THEN "backoff" ELSE "failRequested")
    /\ UNCHANGED <<recovery, session, others>>

ServiceDisown ==
    /\ Goto(Main, "disown", IF attempt < MaxAttempts THEN "backoff" ELSE "failRequested")
    /\ owned' = FALSE
    /\ UNCHANGED <<requested, active, suspended, attempt, settling, session, others>>

\* Mutant of GiveUpRequested: the request outlives the last attempt.
GiveUpRequestedForgets ==
    /\ \/ Goto(Main, "giveRequested", "giveActive")
       \/ Goto(Main, "failRequested", "failActive")
    /\ UNCHANGED <<recovery, session, others>>

\* Giving up clears the request, the activity, the ownership (only when the
\* attempts were used up by helpers) and the counter, one after the other.
GiveUpRequested ==
    /\ \/ Goto(Main, "giveRequested", "giveActive")
       \/ Goto(Main, "failRequested", "failActive")
    /\ requested' = FALSE
    /\ UNCHANGED <<active, owned, suspended, attempt, settling, session, others>>

GiveUpActive ==
    /\ \/ Goto(Main, "giveActive", "giveOwned")
       \/ Goto(Main, "failActive", "giveAttempt")
    /\ active' = FALSE
    /\ UNCHANGED <<requested, owned, suspended, attempt, settling, session, others>>

GiveUpOwned ==
    /\ Goto(Main, "giveOwned", "giveAttempt")
    /\ owned' = FALSE
    /\ UNCHANGED <<requested, active, suspended, attempt, settling, session, others>>

GiveUpAttempt ==
    /\ Goto(Main, "giveAttempt", "idle")
    /\ attempt' = 0
    /\ UNCHANGED <<requested, active, owned, suspended, settling, session, others>>

Service ==
    \/ ServiceRequested \/ ServiceRunning \/ ServiceStopping \/ ServiceBackoff
    \/ StopSend(Main) \/ StopMark(Main)
    \/ ServiceDue \/ ServiceCount \/ ServiceOwn
    \/ ServiceLaunch \/ ServiceLaunchFails \/ ServiceSetController
    \/ ServiceConsume \/ ServiceDisown
    \/ GiveUpRequested \/ GiveUpActive \/ GiveUpOwned \/ GiveUpAttempt

\* The clock reaches g_reconnect_not_before.
Settle ==
    /\ settling
    /\ settling' = FALSE
    /\ UNCHANGED <<requested, active, owned, suspended, attempt, session, link,
                   wakeActive, pc, reply, seen, counted, page>>

----------------------------------------------------------------------------
(* worker(): one input frame to whichever helper listens, then, under      *)
(* g_lock, what its answer says.                                           *)

WorkerAsk ==
    /\ Goto(Worker, "idle", "record")
    /\ \/ reply' = "fail"
       \/ \E s \in Alive : reply' = IF proc[s] \in Initialized THEN "init" ELSE "ok"
    /\ UNCHANGED <<recovery, session, link, wakeActive, seen, counted, page>>

WorkerRecord ==
    /\ Goto(Worker, "record", IF reply = "init" THEN "wActive" ELSE "idle")
    /\ link' = CASE reply = "init" -> "up" [] reply = "ok" -> "ipc" [] OTHER -> "down"
    /\ reply' = "fail"
    /\ UNCHANGED <<recovery, session, wakeActive, seen, counted, page>>

\* "THIS is recovery success."
WorkerActive ==
    /\ Goto(Worker, "wActive", "wOwned")
    /\ active' = FALSE
    /\ UNCHANGED <<requested, owned, suspended, attempt, settling, session, others>>

WorkerOwned ==
    /\ Goto(Worker, "wOwned", "wRequested")
    /\ owned' = FALSE
    /\ UNCHANGED <<requested, active, suspended, attempt, settling, session, others>>

WorkerRequested ==
    /\ Goto(Worker, "wRequested", "wAttempt")
    /\ requested' = FALSE
    /\ UNCHANGED <<active, owned, suspended, attempt, settling, session, others>>

\* g_reconnect_attempt = 0; g_reconnect_not_before = 0
WorkerAttempt ==
    /\ Goto(Worker, "wAttempt", "idle")
    /\ attempt' = 0
    /\ settling' = FALSE
    /\ UNCHANGED <<requested, active, owned, suspended, session, others>>

WorkerRun ==
    \/ WorkerAsk \/ WorkerRecord \/ WorkerActive
    \/ WorkerOwned \/ WorkerRequested \/ WorkerAttempt

----------------------------------------------------------------------------
(* launcher_wait_thread(): blocks until its child exits. *)

\* g_subprocess_wait_check() returned; the first half of the snapshot
WaiterOwned(s) ==
    /\ proc[s] = "exited"
    /\ Goto(s, "tWait", "tActive")
    /\ seen' = [seen EXCEPT ![s] = owned]
    /\ UNCHANGED <<recovery, session, link, wakeActive, reply, counted, page>>

WaiterActive(s) ==
    /\ Goto(s, "tActive", "tClear")
    /\ seen' = [seen EXCEPT ![s] = @ /\ active]
    /\ UNCHANGED <<recovery, session, link, wakeActive, reply, counted, page>>

\* under g_session_lock
WaiterClear(s) ==
    /\ Goto(s, "tClear", IF seen[s] THEN "tSuspended" ELSE "tDisown")
    /\ launcher' = IF launcher = s THEN NONE ELSE launcher
    /\ stopping' = FALSE
    /\ seen' = [seen EXCEPT ![s] = FALSE]
    /\ UNCHANGED <<recovery, proc, link, wakeActive, reply, counted, page>>

\* the last conjunct of "owned && active && !suspended"
WaiterSuspended(s) ==
    /\ Goto(s, "tSuspended", IF suspended THEN "tDisown" ELSE "tOwned")
    /\ UNCHANGED <<recovery, session, others>>

\* "recovery helper exited before link-up; retry queued"
WaiterOwnedOff(s) ==
    /\ \/ Goto(s, "tOwned", "tRearm")
       \/ Goto(s, "tDisown", "tPending")
    /\ owned' = FALSE
    /\ UNCHANGED <<requested, active, suspended, attempt, settling, session, others>>

WaiterRearm(s) ==
    /\ Goto(s, "tRearm", "tActiveOn")
    /\ requested' = TRUE
    /\ UNCHANGED <<active, owned, suspended, attempt, settling, session, others>>

WaiterActiveOn(s) ==
    /\ Goto(s, "tActiveOn", "tBackoff")
    /\ active' = TRUE
    /\ UNCHANGED <<requested, owned, suspended, attempt, settling, session, others>>

\* g_reconnect_not_before = now + 1000; the thread ends
WaiterBackoff(s) ==
    /\ Goto(s, "tBackoff", "idle")
    /\ settling' = TRUE
    /\ proc' = [proc EXCEPT ![s] = "none"]
    /\ UNCHANGED <<requested, active, owned, suspended, attempt, launcher, stopping,
                   others>>

\* "If another recovery request is already pending ... keep the UI in
\* recovery state"; otherwise the thread clears the activity and ends.
WaiterPending(s) ==
    /\ pc[s] = "tPending"
    /\ pc' = [pc EXCEPT ![s] = IF requested THEN "idle" ELSE "tActiveOff"]
    /\ proc' = IF requested THEN [proc EXCEPT ![s] = "none"] ELSE proc
    /\ UNCHANGED <<recovery, launcher, stopping, link, wakeActive, reply, seen,
                   counted, page>>

WaiterActiveOff(s) ==
    /\ Goto(s, "tActiveOff", "idle")
    /\ active' = FALSE
    /\ proc' = [proc EXCEPT ![s] = "none"]
    /\ UNCHANGED <<requested, owned, suspended, attempt, settling, launcher, stopping,
                   others>>

Waiter(s) ==
    \/ WaiterOwned(s) \/ WaiterActive(s) \/ WaiterClear(s) \/ WaiterSuspended(s)
    \/ WaiterOwnedOff(s) \/ WaiterRearm(s) \/ WaiterActiveOn(s) \/ WaiterBackoff(s)
    \/ WaiterPending(s) \/ WaiterActiveOff(s)

----------------------------------------------------------------------------
(* The helper itself: run-classic.sh and pro-controller, behind pkexec. *)

HelperLinks(s) ==
    /\ proc[s] = "starting"
    /\ proc' = [proc EXCEPT ![s] = "linked"]
    /\ UNCHANGED <<recovery, launcher, stopping, link, wakeActive, pc, reply, seen,
                   counted, page>>

HelperExits(s) ==
    /\ proc[s] \in Live
    /\ proc' = [proc EXCEPT ![s] = "exited"]
    /\ UNCHANGED <<recovery, launcher, stopping, link, wakeActive, pc, reply, seen,
                   counted, page>>

Helper(s) == HelperLinks(s) \/ HelperExits(s)

----------------------------------------------------------------------------
(* bluetooth_wake() and bluetooth_wake_thread(), with                      *)
(* output_pcble_suspend_for_wake() in the middle.                          *)

\* Mutant of WakeAccept: the flag is set without being compared.
WakeAcceptUnchecked(w) ==
    /\ Goto(w, "idle", "kAdapter")
    /\ wakeActive' = TRUE
    /\ UNCHANGED <<recovery, session, link, reply, seen, counted, page>>

\* SDL_AtomicCAS(&g_bluetooth_wake_active, 0, 1)
WakeAccept(w) ==
    /\ ~wakeActive
    /\ Goto(w, "idle", "kAdapter")
    /\ wakeActive' = TRUE
    /\ UNCHANGED <<recovery, session, link, reply, seen, counted, page>>

\* The configured adapter resolves and the thread starts, or nothing happens.
WakeAdapter(w) ==
    /\ \/ Goto(w, "kAdapter", "kSuspend")
       \/ Goto(w, "kAdapter", "kDone")
    /\ UNCHANGED <<recovery, session, others>>

SuspendSet(w) ==
    /\ Goto(w, "kSuspend", "kRequested")
    /\ suspended' = TRUE
    /\ UNCHANGED <<requested, active, owned, attempt, settling, session, others>>

SuspendRequested(w) ==
    /\ Goto(w, "kRequested", "kActive")
    /\ requested' = FALSE
    /\ UNCHANGED <<active, owned, suspended, attempt, settling, session, others>>

SuspendActive(w) ==
    /\ Goto(w, "kActive", "kOwned")
    /\ active' = FALSE
    /\ UNCHANGED <<requested, owned, suspended, attempt, settling, session, others>>

SuspendOwned(w) ==
    /\ Goto(w, "kOwned", "kAttempt")
    /\ owned' = FALSE
    /\ UNCHANGED <<requested, active, suspended, attempt, settling, session, others>>

SuspendAttempt(w) ==
    /\ Goto(w, "kAttempt", "kRunning")
    /\ attempt' = 0
    /\ settling' = FALSE
    /\ UNCHANGED <<requested, active, owned, suspended, session, others>>

\* running && !stopping, under two separate acquisitions of g_session_lock
SuspendRunning(w) ==
    /\ Goto(w, "kRunning", IF launcher # NONE THEN "kStopping" ELSE "kAwait")
    /\ UNCHANGED <<recovery, session, others>>

SuspendStopping(w) ==
    /\ Goto(w, "kStopping", IF stopping THEN "kAwait" ELSE "stopSend")
    /\ UNCHANGED <<recovery, session, others>>

\* gamepad_bridge_console_wake_ready()
WakeReady(w) ==
    /\ launcher = NONE
    /\ Goto(w, "kAwait", "kBeacon")
    /\ UNCHANGED <<recovery, session, others>>

\* Mutant of WakeTimeout: nothing is sent and nothing is recovered.
WakeTimeoutReturns(w) ==
    /\ launcher # NONE
    /\ Goto(w, "kAwait", "kDone")
    /\ UNCHANGED <<recovery, session, others>>

\* ten seconds without the session going away: recover, send nothing
WakeTimeout(w) ==
    /\ launcher # NONE
    /\ Goto(w, "kAwait", "rSuspended")
    /\ UNCHANGED <<recovery, session, others>>

\* reset_method_test_bluetooth_beacon() and the second that follows it
WakeBeacon(w) ==
    /\ Goto(w, "kBeacon", "rSuspended")
    /\ UNCHANGED <<recovery, session, others>>

WakeDone(w) ==
    /\ Goto(w, "kDone", "idle")
    /\ wakeActive' = FALSE
    /\ UNCHANGED <<recovery, session, link, reply, seen, counted, page>>

Wake(w) ==
    \/ WakeAccept(w) \/ WakeAdapter(w)
    \/ SuspendSet(w) \/ SuspendRequested(w) \/ SuspendActive(w) \/ SuspendOwned(w)
    \/ SuspendAttempt(w) \/ SuspendRunning(w) \/ SuspendStopping(w)
    \/ StopSend(w) \/ StopMark(w)
    \/ WakeReady(w) \/ WakeTimeout(w) \/ WakeBeacon(w) \/ WakeDone(w)

----------------------------------------------------------------------------
(* The GTK page: buttons are enabled from an earlier look at the state.    *)

\* pcble_update_controls(), from the page's timer or at the end of a handler:
\* pairing and reconnecting need an idle backend, stopping a running one.
PanelRefresh(g) ==
    /\ pc[g] \in {"idle", "gRefresh"}
    /\ pc' = [pc EXCEPT ![g] = "idle"]
    /\ LET running == launcher # NONE \/ link # "down"
           busy    == running \/ requested \/ active \/ stopping
       IN  page' = {b \in {"start", "stop"} : IF b = "start" THEN ~busy ELSE running}
    /\ UNCHANGED <<recovery, session, link, wakeActive, reply, seen, counted>>

\* pcble_start_pair(): a session with no address to reconnect to.  (When a
\* session runs already it shows the error and changes nothing.)
PanelPair(g) ==
    /\ pc[g] = "idle"
    /\ "start" \in page
    /\ \E s \in Slots : Spawn(s, g, "gController", FALSE)
    /\ UNCHANGED <<requested, owned, suspended, attempt, settling, others>>

PanelController(g) ==
    /\ GLockFree
    /\ Goto(g, "gController", "gRefresh")
    /\ link' = "down"
    /\ UNCHANGED <<recovery, session, wakeActive, reply, seen, counted, page>>

\* pcble_reconnect_clicked(): gamepad_bridge_reset()
PanelReconnect(g) ==
    /\ "start" \in page
    /\ Goto(g, "idle", "rSuspended")
    /\ UNCHANGED <<recovery, session, others>>

\* pcble_stop_clicked()
PanelStop(g) ==
    /\ "stop" \in page
    /\ Goto(g, "idle", "stopSend")
    /\ UNCHANGED <<recovery, session, others>>

Panel(g) ==
    \/ PanelRefresh(g) \/ PanelPair(g) \/ PanelController(g)
    \/ PanelReconnect(g) \/ PanelStop(g)
    \/ StopSend(g) \/ StopMark(g)

----------------------------------------------------------------------------
Next ==
    \/ Service
    \/ Settle
    \/ WorkerRun
    \/ \E t \in Resetters \cup Wakers \cup Panels : Reset(t)
    \/ \E s \in Slots : Waiter(s) \/ Helper(s)
    \/ \E w \in Wakers : Wake(w)
    \/ \E g \in Panels : Panel(g)

Spec == Init /\ [][Next]_vars

\* Fairness.  The operating system runs every runnable thread, the clock
\* advances, and a helper does not start or shut down for ever; but nobody has
\* to press a button, ask for a reset or a wake, or drop a working link.  Every
\* pass of the main loop calls output_pcble_service(), whatever it resets, a
\* mutex the worker keeps releasing is obtained in the end (strong fairness),
\* and the local socket does not fail for ever.
WorkerHears == WorkerAsk /\ reply' # "fail"

HelperSettles(s) ==
    \/ HelperLinks(s)
    \/ proc[s] # "linked" /\ HelperExits(s)

WakeOngoing(w) == pc[w] # "idle" /\ (Wake(w) \/ Reset(w))

Fairness ==
    /\ SF_vars(Service)
    /\ WF_vars(Settle)
    /\ WF_vars(WorkerRun)
    /\ SF_vars(WorkerHears)
    /\ \A t \in Resetters : WF_vars(pc[t] # "idle" /\ Reset(t))
    /\ \A s \in Slots : WF_vars(Waiter(s)) /\ WF_vars(HelperSettles(s))
    /\ \A w \in Wakers : SF_vars(WakeOngoing(w))
    /\ \A g \in Panels : SF_vars(pc[g] # "idle" /\ (Panel(g) \/ Reset(g)))

FairSpec == Spec /\ Fairness

----------------------------------------------------------------------------
(* Properties. *)

ResetPC  == {"rSuspended", "rRequested", "rActive", "rAttempt", "rSettle"}
StopPC   == {"stopSend", "stopMark", "stopKill"}
MainPC   == {"idle", "running", "stopping", "backoff", "due", "count", "own",
             "launch", "setController", "consume", "disown",
             "giveRequested", "giveActive", "giveOwned", "giveAttempt",
             "failRequested", "failActive"} \cup StopPC \cup ResetPC
WorkerPC == {"idle", "record", "wActive", "wOwned", "wRequested", "wAttempt"}
WaiterPC == {"idle", "tWait", "tActive", "tClear", "tSuspended", "tOwned",
             "tDisown", "tRearm", "tActiveOn", "tBackoff", "tPending", "tActiveOff"}
SuspendPC == {"kRequested", "kActive", "kOwned", "kAttempt", "kRunning",
              "kStopping", "kAwait", "kBeacon", "rSuspended"} \cup StopPC
WakerPC  == {"idle", "kAdapter", "kSuspend", "kDone"} \cup SuspendPC \cup ResetPC
PanelPC  == {"idle", "gController", "gRefresh"} \cup StopPC \cup ResetPC

\* Where each kind of thread can be.
PCof(t) ==
    CASE t = Main     -> MainPC
      [] t = Worker   -> WorkerPC
      [] t \in Slots  -> WaiterPC
      [] t \in Wakers -> WakerPC
      [] t \in Panels -> PanelPC
      [] OTHER        -> ResetPC \cup {"idle"}

PcOK ==
    /\ pc \in [Threads -> UNION {PCof(t) : t \in Threads}]
    /\ \A t \in Threads : pc[t] \in PCof(t)

TypeOK ==
    /\ requested \in BOOLEAN /\ active \in BOOLEAN /\ owned \in BOOLEAN
    /\ suspended \in BOOLEAN /\ settling \in BOOLEAN
    /\ stopping \in BOOLEAN /\ wakeActive \in BOOLEAN
    /\ attempt \in 0..MaxAttempts
    /\ counted \in 0..(MaxAttempts - 1)
    /\ launcher \in Slots \cup {NONE}
    /\ link \in {"down", "ipc", "up"}
    /\ reply \in {"fail", "ok", "init"}
    /\ proc \in [Slots -> Live \cup {"none", "exited"}]
    /\ seen \in [Slots -> BOOLEAN]
    /\ page \subseteq {"start", "stop"}
    /\ PcOK

\* Whatever the interleaving of launches, stops, exits and their waiters, a
\* helper that still holds the Bluetooth stack is the session g_launcher
\* names: so at most one lives, and none lives that a stop cannot reach.
SingleSession == \A s \in Slots : proc[s] \in Live => launcher = s

\* Two wake requests never work on the adapter at once, and
\* g_bluetooth_wake_active is set exactly while one does.
WakeExclusive ==
    /\ \A v, w \in Wakers : pc[v] # "idle" /\ pc[w] # "idle" => v = w
    /\ wakeActive <=> \E w \in Wakers : pc[w] # "idle"

\* "Never leave controller output deliberately suspended": g_wake_suspended is
\* only ever set while the wake that set it is still on its way to the
\* recovery that clears it, on the path that times out as well.
SuspensionIsOwned == suspended => \E w \in Wakers : pc[w] \in SuspendPC

\* The mark "this helper was launched by the recovery" never outlives the
\* launch: once the helper's waiter is through, or no helper came to be,
\* nobody can mistake a later helper (a pairing one) for a recovery's.
OwnershipIsLaunch ==
    owned => \/ launcher # NONE
             \/ pc[Main] \in {"launch", "disown"}
             \/ \E s \in Slots : pc[s] \in {"tSuspended", "tOwned", "tDisown"}

\* A pending recovery request does not stay pending for ever: it is consumed
\* by a launch, by a link-up, by a wake or by giving up, however often a stop
\* request is lost on the way; unless resets keep arriving.
RequestIsServed ==
    []<>(~requested \/ \E t \in Threads : pc[t] = "rRequested")

\* output_pcble.c, in output_pcble_service(): "Stop it first, but do NOT consume
\* the recovery request": a session that agreed to stop is replaced.
StopThenReconnect == pc[Main] = "stopMark" ~> pc[Main] = "launch"

=============================================================================
