------------------------ MODULE PcbleRecoveryProofs ------------------------
(***************************************************************************)
(* What holds of PcbleRecovery for any number of helpers, resetters, wakes *)
(* and pages: type correctness, one Bluetooth session at a time, wakes one *)
(* at a time, a suspension that always has its wake, an ownership mark     *)
(* that always has its launch, and (PcbleRetries) a bound on the helpers   *)
(* launched for one recovery.  Each invariant is proved inductive by one   *)
(* step per action of the threads that can disturb it.                     *)
(***************************************************************************)
EXTENDS PcbleRetries, TLAPS

----------------------------------------------------------------------------
(* The threads, and what a step does to their program counters. *)

LEMMA ThreadKinds ==
  /\ Main \in Threads /\ Worker \in Threads /\ Main # Worker
  /\ Slots \subseteq Threads \ {Main, Worker}
  /\ Wakers \subseteq Threads \ ({Main, Worker} \cup Slots)
  /\ Panels \subseteq Threads \ ({Main, Worker} \cup Slots \cup Wakers)
  /\ Resetters \subseteq Threads \ ({Worker} \cup Slots \cup Wakers \cup Panels)
  /\ NONE \notin Slots
  BY ThreadsAssumption DEF Threads, Main, Worker

LEMMA PCofs ==
  /\ PCof(Main) = MainPC
  /\ PCof(Worker) = WorkerPC
  /\ \A s \in Slots : PCof(s) = WaiterPC
  /\ \A w \in Wakers : PCof(w) = WakerPC
  /\ \A g \in Panels : PCof(g) = PanelPC
  /\ \A t \in Resetters \ {Main} : PCof(t) = ResetPC \cup {"idle"}
  BY ThreadKinds DEF PCof

LEMMA PcStep ==
  ASSUME PcOK, NEW t \in Threads, NEW x \in PCof(t), pc' = [pc EXCEPT ![t] = x]
  PROVE  PcOK'
  BY DEF PcOK

LEMMA PcTwoSteps ==
  ASSUME PcOK, NEW t \in Threads, NEW u \in Threads, NEW x \in PCof(t), NEW y \in PCof(u),
         pc' = [pc EXCEPT ![t] = x, ![u] = y]
  PROVE  PcOK'
  BY DEF PcOK

----------------------------------------------------------------------------
(* Types.  That g_reconnect_attempt stays within its bound needs that only *)
(* the main loop raises it, and only after having compared it.             *)

CountOK == pc[Main] = "count" => attempt < MaxAttempts

TypeInv == TypeOK /\ CountOK

LEMMA ResetPcs ==
  ASSUME NEW t \in Resetters \cup Wakers \cup Panels
  PROVE  /\ t \in Threads /\ ResetPC \subseteq PCof(t)
         /\ (IF t \in Wakers THEN "kDone" ELSE IF t \in Panels THEN "gRefresh" ELSE "idle")
              \in PCof(t)
<1>1. t \in Threads
  BY ThreadKinds
<1>2. CASE t \in Wakers
  BY <1>1, <1>2, PCofs DEF WakerPC
<1>3. CASE t \in Panels
  BY <1>1, <1>3, PCofs, ThreadKinds DEF PanelPC
<1>4. CASE t = Main
  BY <1>1, <1>4, PCofs, ThreadKinds DEF MainPC
<1>5. CASE t \in Resetters \ {Main}
  BY <1>1, <1>5, PCofs, ThreadKinds
<1>6. QED
  BY <1>2, <1>3, <1>4, <1>5

LEMMA ResetGoes ==
  ASSUME PcOK, NEW t \in Resetters \cup Wakers \cup Panels, Reset(t)
  PROVE  PcOK'
<1>1. \A x \in PCof(t) : pc' = [pc EXCEPT ![t] = x] => PcOK'
  BY PcStep, ResetPcs
<1>2. CASE ResetCall(t)
  BY <1>1, <1>2, ResetPcs DEF ResetCall, Goto, ResetPC
<1>3. CASE ResetSuspended(t)
  BY <1>1, <1>3, ResetPcs DEF ResetSuspended, Goto, ResetPC
<1>4. CASE ResetRequested(t)
  BY <1>1, <1>4, ResetPcs DEF ResetRequested, Goto, ResetPC
<1>5. CASE ResetActive(t)
  BY <1>1, <1>5, ResetPcs DEF ResetActive, Goto, ResetPC
<1>6. CASE ResetAttempt(t)
  BY <1>1, <1>6, ResetPcs DEF ResetAttempt, Goto, ResetPC
<1>7. CASE ResetSettle(t)
  BY <1>1, <1>7, ResetPcs DEF ResetSettle, Goto
<1>8. QED
  BY <1>2, <1>3, <1>4, <1>5, <1>6, <1>7 DEF Reset

LEMMA ResetTypes ==
  ASSUME TypeInv, NEW t \in Resetters \cup Wakers \cup Panels, Reset(t)
  PROVE  TypeInv'
<1>0. PcOK'
  BY ResetGoes DEF TypeInv, TypeOK
<1>. USE <1>0, ThreadKinds DEF TypeInv, TypeOK, CountOK, recovery, session, others, Goto
<1>1. CASE ResetCall(t)
  BY <1>1 DEF ResetCall, PcOK
<1>2. CASE ResetSuspended(t)
  BY <1>2 DEF ResetSuspended, PcOK
<1>3. CASE ResetRequested(t)
  BY <1>3 DEF ResetRequested, PcOK
<1>4. CASE ResetActive(t)
  BY <1>4 DEF ResetActive, PcOK
<1>5. CASE ResetAttempt(t)
  BY <1>5 DEF ResetAttempt, PcOK, MaxAttempts
<1>6. CASE ResetSettle(t)
  BY <1>6 DEF ResetSettle, PcOK
<1>7. QED
  BY <1>1, <1>2, <1>3, <1>4, <1>5, <1>6 DEF Reset

LEMMA StopTypes ==
  ASSUME TypeInv, NEW t \in {Main} \cup Wakers \cup Panels, StopSend(t) \/ StopMark(t)
  PROVE  TypeInv'
<1>. USE ThreadKinds DEF TypeInv, TypeOK, CountOK, recovery, session, others, Goto
<1>1. CASE StopSend(t)
  <2>1. PcOK'
    BY <1>1, PcStep, PCofs DEF StopSend, MainPC, WakerPC, PanelPC, SuspendPC, StopPC
  <2>2. QED
    BY <1>1, <2>1 DEF StopSend, PcOK, Drain, Initialized, Live, Alive
<1>2. CASE StopMark(t)
  <2>1. PcOK'
    BY <1>2, PcStep, PCofs DEF StopMark, AfterStop, MainPC, WakerPC, PanelPC, SuspendPC, StopPC
  <2>2. QED
    BY <1>2, <2>1 DEF StopMark, PcOK, AfterStop, Drain, Initialized, Live
<1>3. QED
  BY <1>1, <1>2

LEMMA ServiceTypes ==
  ASSUME TypeInv, Service
  PROVE  TypeInv'
<1>. USE ThreadKinds DEF TypeInv, TypeOK, CountOK, recovery, session, others, Goto
<1>1. CASE ServiceRequested
  <2>1. PcOK'
    BY <1>1, PcStep, PCofs DEF ServiceRequested, MainPC, StopPC
  <2>2. QED
    BY <1>1, <2>1 DEF ServiceRequested, PcOK
<1>2. CASE ServiceRunning
  <2>1. PcOK'
    BY <1>2, PcStep, PCofs DEF ServiceRunning, MainPC, StopPC
  <2>2. QED
    BY <1>2, <2>1 DEF ServiceRunning, PcOK
<1>3. CASE ServiceStopping
  <2>1. PcOK'
    BY <1>3, PcStep, PCofs DEF ServiceStopping, MainPC, StopPC
  <2>2. QED
    BY <1>3, <2>1 DEF ServiceStopping, PcOK
<1>4. CASE ServiceBackoff
  <2>1. PcOK'
    BY <1>4, PcStep, PCofs DEF ServiceBackoff, MainPC, StopPC
  <2>2. QED
    BY <1>4, <2>1 DEF ServiceBackoff, PcOK
<1>5. CASE ServiceDue
  <2>1. PcOK'
    BY <1>5, PcStep, PCofs DEF ServiceDue, MainPC, StopPC
  <2>2. QED
    BY <1>5, <2>1 DEF ServiceDue, PcOK, MaxAttempts
<1>6. CASE ServiceCount
  <2>1. PcOK'
    BY <1>6, PcStep, PCofs DEF ServiceCount, MainPC, StopPC
  <2>2. QED
    BY <1>6, <2>1 DEF ServiceCount, PcOK, MaxAttempts
<1>7. CASE ServiceOwn
  <2>1. PcOK'
    BY <1>7, PcStep, PCofs DEF ServiceOwn, MainPC, StopPC
  <2>2. QED
    BY <1>7, <2>1 DEF ServiceOwn, PcOK
<1>8. CASE ServiceLaunch
  <2>1. PICK s \in Slots : Spawn(s, Main, "setController", TRUE)
    BY <1>8 DEF ServiceLaunch
  <2>2. PcOK'
    BY <2>1, PcTwoSteps, PCofs DEF Spawn, WaiterPC, MainPC, StopPC
  <2>3. QED
    BY <1>8, <2>1, <2>2 DEF ServiceLaunch, Spawn, PcOK, Live
<1>9. CASE ServiceLaunchFails
  <2>1. PcOK'
    BY <1>9, PcStep, PCofs DEF ServiceLaunchFails, MainPC, StopPC
  <2>2. QED
    BY <1>9, <2>1 DEF ServiceLaunchFails, PcOK
<1>10. CASE ServiceSetController
  <2>1. PcOK'
    BY <1>10, PcStep, PCofs DEF ServiceSetController, MainPC, StopPC
  <2>2. QED
    BY <1>10, <2>1 DEF ServiceSetController, PcOK
<1>11. CASE ServiceConsume
  <2>1. PcOK'
    BY <1>11, PcStep, PCofs DEF ServiceConsume, MainPC, StopPC
  <2>2. QED
    BY <1>11, <2>1 DEF ServiceConsume, PcOK
<1>12. CASE ServiceDisown
  <2>1. PcOK'
    BY <1>12, PcStep, PCofs DEF ServiceDisown, MainPC, StopPC
  <2>2. QED
    BY <1>12, <2>1 DEF ServiceDisown, PcOK
<1>13. CASE GiveUpRequested
  <2>1. PcOK'
    BY <1>13, PcStep, PCofs DEF GiveUpRequested, MainPC, StopPC
  <2>2. QED
    BY <1>13, <2>1 DEF GiveUpRequested, PcOK
<1>14. CASE GiveUpActive
  <2>1. PcOK'
    BY <1>14, PcStep, PCofs DEF GiveUpActive, MainPC, StopPC
  <2>2. QED
    BY <1>14, <2>1 DEF GiveUpActive, PcOK
<1>15. CASE GiveUpOwned
  <2>1. PcOK'
    BY <1>15, PcStep, PCofs DEF GiveUpOwned, MainPC, StopPC
  <2>2. QED
    BY <1>15, <2>1 DEF GiveUpOwned, PcOK
<1>16. CASE GiveUpAttempt
  <2>1. PcOK'
    BY <1>16, PcStep, PCofs DEF GiveUpAttempt, MainPC, StopPC
  <2>2. QED
    BY <1>16, <2>1 DEF GiveUpAttempt, PcOK, MaxAttempts
<1>17. CASE StopSend(Main) \/ StopMark(Main)
  BY <1>17, StopTypes
<1>18. QED
  BY <1>1, <1>2, <1>3, <1>4, <1>5, <1>6, <1>7, <1>8, <1>9, <1>10, <1>11, <1>12, <1>13, <1>14, <1>15, <1>16, <1>17 DEF Service

LEMMA WorkerTypes ==
  ASSUME TypeInv, WorkerRun
  PROVE  TypeInv'
<1>. USE ThreadKinds DEF TypeInv, TypeOK, CountOK, recovery, session, others, Goto
<1>1. CASE WorkerAsk
  <2>1. PcOK'
    BY <1>1, PcStep, PCofs DEF WorkerAsk, WorkerPC
  <2>2. QED
    BY <1>1, <2>1 DEF WorkerAsk, PcOK
<1>2. CASE WorkerRecord
  <2>1. PcOK'
    BY <1>2, PcStep, PCofs DEF WorkerRecord, WorkerPC
  <2>2. QED
    BY <1>2, <2>1 DEF WorkerRecord, PcOK
<1>3. CASE WorkerActive
  <2>1. PcOK'
    BY <1>3, PcStep, PCofs DEF WorkerActive, WorkerPC
  <2>2. QED
    BY <1>3, <2>1 DEF WorkerActive, PcOK
<1>4. CASE WorkerOwned
  <2>1. PcOK'
    BY <1>4, PcStep, PCofs DEF WorkerOwned, WorkerPC
  <2>2. QED
    BY <1>4, <2>1 DEF WorkerOwned, PcOK
<1>5. CASE WorkerRequested
  <2>1. PcOK'
    BY <1>5, PcStep, PCofs DEF WorkerRequested, WorkerPC
  <2>2. QED
    BY <1>5, <2>1 DEF WorkerRequested, PcOK
<1>6. CASE WorkerAttempt
  <2>1. PcOK'
    BY <1>6, PcStep, PCofs DEF WorkerAttempt, WorkerPC
  <2>2. attempt' \in 0..MaxAttempts /\ CountOK'
    BY <1>6 DEF WorkerAttempt, PcOK, MaxAttempts
  <2>3. settling' \in BOOLEAN
    BY <1>6 DEF WorkerAttempt
  <2>4. QED
    BY <1>6, <2>1, <2>2, <2>3 DEF WorkerAttempt
<1>7. QED
  BY <1>1, <1>2, <1>3, <1>4, <1>5, <1>6 DEF WorkerRun

LEMMA WaiterTypes ==
  ASSUME TypeInv, NEW s \in Slots, Waiter(s)
  PROVE  TypeInv'
<1>. USE ThreadKinds DEF TypeInv, TypeOK, CountOK, recovery, session, others, Goto
<1>1. CASE WaiterOwned(s)
  <2>1. PcOK'
    BY <1>1, PcStep, PCofs DEF WaiterOwned, WaiterPC
  <2>2. QED
    BY <1>1, <2>1 DEF WaiterOwned, PcOK, Live
<1>2. CASE WaiterActive(s)
  <2>1. PcOK'
    BY <1>2, PcStep, PCofs DEF WaiterActive, WaiterPC
  <2>2. QED
    BY <1>2, <2>1 DEF WaiterActive, PcOK, Live
<1>3. CASE WaiterClear(s)
  <2>1. PcOK'
    BY <1>3, PcStep, PCofs DEF WaiterClear, WaiterPC
  <2>2. QED
    BY <1>3, <2>1 DEF WaiterClear, PcOK, Live
<1>4. CASE WaiterSuspended(s)
  <2>1. PcOK'
    BY <1>4, PcStep, PCofs DEF WaiterSuspended, WaiterPC
  <2>2. QED
    BY <1>4, <2>1 DEF WaiterSuspended, PcOK, Live
<1>5. CASE WaiterOwnedOff(s)
  <2>1. PcOK'
    BY <1>5, PcStep, PCofs DEF WaiterOwnedOff, WaiterPC
  <2>2. pc'[Main] = pc[Main]
    BY <1>5 DEF WaiterOwnedOff, PcOK
  <2>3. QED
    BY <1>5, <2>1, <2>2 DEF WaiterOwnedOff
<1>6. CASE WaiterRearm(s)
  <2>1. PcOK'
    BY <1>6, PcStep, PCofs DEF WaiterRearm, WaiterPC
  <2>2. QED
    BY <1>6, <2>1 DEF WaiterRearm, PcOK, Live
<1>7. CASE WaiterActiveOn(s)
  <2>1. PcOK'
    BY <1>7, PcStep, PCofs DEF WaiterActiveOn, WaiterPC
  <2>2. QED
    BY <1>7, <2>1 DEF WaiterActiveOn, PcOK, Live
<1>8. CASE WaiterBackoff(s)
  <2>1. PcOK'
    BY <1>8, PcStep, PCofs DEF WaiterBackoff, WaiterPC
  <2>2. QED
    BY <1>8, <2>1 DEF WaiterBackoff, PcOK, Live
<1>9. CASE WaiterPending(s)
  <2>1. PcOK'
    BY <1>9, PcStep, PCofs DEF WaiterPending, WaiterPC
  <2>2. QED
    BY <1>9, <2>1 DEF WaiterPending, PcOK, Live
<1>10. CASE WaiterActiveOff(s)
  <2>1. PcOK'
    BY <1>10, PcStep, PCofs DEF WaiterActiveOff, WaiterPC
  <2>2. QED
    BY <1>10, <2>1 DEF WaiterActiveOff, PcOK, Live
<1>11. QED
  BY <1>1, <1>2, <1>3, <1>4, <1>5, <1>6, <1>7, <1>8, <1>9, <1>10 DEF Waiter

LEMMA WakeTypes ==
  ASSUME TypeInv, NEW w \in Wakers, Wake(w)
  PROVE  TypeInv'
<1>. USE ThreadKinds DEF TypeInv, TypeOK, CountOK, recovery, session, others, Goto
<1>1. CASE WakeAccept(w)
  <2>1. PcOK'
    BY <1>1, PcStep, PCofs DEF WakeAccept, WakerPC, SuspendPC, ResetPC, StopPC
  <2>2. QED
    BY <1>1, <2>1 DEF WakeAccept, PcOK
<1>2. CASE WakeAdapter(w)
  <2>1. PcOK'
    BY <1>2, PcStep, PCofs DEF WakeAdapter, WakerPC, SuspendPC, ResetPC, StopPC
  <2>2. QED
    BY <1>2, <2>1 DEF WakeAdapter, PcOK
<1>3. CASE SuspendSet(w)
  <2>1. PcOK'
    BY <1>3, PcStep, PCofs DEF SuspendSet, WakerPC, SuspendPC, ResetPC, StopPC
  <2>2. QED
    BY <1>3, <2>1 DEF SuspendSet, PcOK
<1>4. CASE SuspendRequested(w)
  <2>1. PcOK'
    BY <1>4, PcStep, PCofs DEF SuspendRequested, WakerPC, SuspendPC, ResetPC, StopPC
  <2>2. QED
    BY <1>4, <2>1 DEF SuspendRequested, PcOK
<1>5. CASE SuspendActive(w)
  <2>1. PcOK'
    BY <1>5, PcStep, PCofs DEF SuspendActive, WakerPC, SuspendPC, ResetPC, StopPC
  <2>2. QED
    BY <1>5, <2>1 DEF SuspendActive, PcOK
<1>6. CASE SuspendOwned(w)
  <2>1. PcOK'
    BY <1>6, PcStep, PCofs DEF SuspendOwned, WakerPC, SuspendPC, ResetPC, StopPC
  <2>2. QED
    BY <1>6, <2>1 DEF SuspendOwned, PcOK
<1>7. CASE SuspendAttempt(w)
  <2>1. PcOK'
    BY <1>7, PcStep, PCofs DEF SuspendAttempt, WakerPC, SuspendPC, ResetPC, StopPC
  <2>2. attempt' \in 0..MaxAttempts /\ CountOK'
    BY <1>7 DEF SuspendAttempt, PcOK, MaxAttempts
  <2>3. settling' \in BOOLEAN
    BY <1>7 DEF SuspendAttempt
  <2>4. QED
    BY <1>7, <2>1, <2>2, <2>3 DEF SuspendAttempt
<1>8. CASE SuspendRunning(w)
  <2>1. PcOK'
    BY <1>8, PcStep, PCofs DEF SuspendRunning, WakerPC, SuspendPC, ResetPC, StopPC
  <2>2. QED
    BY <1>8, <2>1 DEF SuspendRunning, PcOK
<1>9. CASE SuspendStopping(w)
  <2>1. PcOK'
    BY <1>9, PcStep, PCofs DEF SuspendStopping, WakerPC, SuspendPC, ResetPC, StopPC
  <2>2. QED
    BY <1>9, <2>1 DEF SuspendStopping, PcOK
<1>10. CASE WakeReady(w)
  <2>1. PcOK'
    BY <1>10, PcStep, PCofs DEF WakeReady, WakerPC, SuspendPC, ResetPC, StopPC
  <2>2. QED
    BY <1>10, <2>1 DEF WakeReady, PcOK
<1>11. CASE WakeTimeout(w)
  <2>1. PcOK'
    BY <1>11, PcStep, PCofs DEF WakeTimeout, WakerPC, SuspendPC, ResetPC, StopPC
  <2>2. QED
    BY <1>11, <2>1 DEF WakeTimeout, PcOK
<1>12. CASE WakeBeacon(w)
  <2>1. PcOK'
    BY <1>12, PcStep, PCofs DEF WakeBeacon, WakerPC, SuspendPC, ResetPC, StopPC
  <2>2. QED
    BY <1>12, <2>1 DEF WakeBeacon, PcOK
<1>13. CASE WakeDone(w)
  <2>1. PcOK'
    BY <1>13, PcStep, PCofs DEF WakeDone, WakerPC, SuspendPC, ResetPC, StopPC
  <2>2. QED
    BY <1>13, <2>1 DEF WakeDone, PcOK
<1>14. CASE StopSend(w) \/ StopMark(w)
  BY <1>14, StopTypes
<1>15. QED
  BY <1>1, <1>2, <1>3, <1>4, <1>5, <1>6, <1>7, <1>8, <1>9, <1>10, <1>11, <1>12, <1>13, <1>14 DEF Wake

LEMMA PanelTypes ==
  ASSUME TypeInv, NEW g \in Panels, Panel(g)
  PROVE  TypeInv'
<1>. USE ThreadKinds DEF TypeInv, TypeOK, CountOK, recovery, session, others, Goto
<1>1. CASE PanelRefresh(g)
  <2>1. PcOK'
    BY <1>1, PcStep, PCofs DEF PanelRefresh, PanelPC, ResetPC, StopPC
  <2>2. QED
    BY <1>1, <2>1 DEF PanelRefresh, PcOK
<1>2. CASE PanelPair(g)
  <2>1. PICK s \in Slots : Spawn(s, g, "gController", FALSE)
    BY <1>2 DEF PanelPair
  <2>2. PcOK'
    BY <2>1, PcTwoSteps, PCofs DEF Spawn, WaiterPC, PanelPC, ResetPC, StopPC
  <2>3. QED
    BY <1>2, <2>1, <2>2 DEF PanelPair, Spawn, PcOK, Live
<1>3. CASE PanelController(g)
  <2>1. PcOK'
    BY <1>3, PcStep, PCofs DEF PanelController, PanelPC, ResetPC, StopPC
  <2>2. QED
    BY <1>3, <2>1 DEF PanelController, PcOK
<1>4. CASE PanelReconnect(g)
  <2>1. PcOK'
    BY <1>4, PcStep, PCofs DEF PanelReconnect, PanelPC, ResetPC, StopPC
  <2>2. QED
    BY <1>4, <2>1 DEF PanelReconnect, PcOK
<1>5. CASE PanelStop(g)
  <2>1. PcOK'
    BY <1>5, PcStep, PCofs DEF PanelStop, PanelPC, ResetPC, StopPC
  <2>2. QED
    BY <1>5, <2>1 DEF PanelStop, PcOK
<1>6. CASE StopSend(g) \/ StopMark(g)
  BY <1>6, StopTypes
<1>7. QED
  BY <1>1, <1>2, <1>3, <1>4, <1>5, <1>6 DEF Panel
LEMMA HelperTypes ==
  ASSUME TypeInv, NEW s \in Slots, Helper(s)
  PROVE  TypeInv'
  BY DEF TypeInv, TypeOK, PcOK, CountOK, Helper, HelperLinks, HelperExits, Live,
         recovery, others

LEMMA TypeStep ==
  ASSUME TypeInv, [Next]_vars
  PROVE  TypeInv'
<1>1. CASE Service
  BY <1>1, ServiceTypes
<1>2. CASE Settle
  BY <1>2 DEF Settle, TypeInv, TypeOK, PcOK, CountOK, session, others
<1>3. CASE WorkerRun
  BY <1>3, WorkerTypes
<1>4. CASE \E t \in Resetters \cup Wakers \cup Panels : Reset(t)
  BY <1>4, ResetTypes
<1>5. CASE \E s \in Slots : Waiter(s) \/ Helper(s)
  BY <1>5, WaiterTypes, HelperTypes
<1>6. CASE \E w \in Wakers : Wake(w)
  BY <1>6, WakeTypes
<1>7. CASE \E g \in Panels : Panel(g)
  BY <1>7, PanelTypes
<1>8. CASE UNCHANGED vars
  BY <1>8 DEF vars, TypeInv, TypeOK, PcOK, CountOK
<1>9. QED
  BY <1>1, <1>2, <1>3, <1>4, <1>5, <1>6, <1>7, <1>8 DEF Next

LEMMA TypeInit == Init => TypeInv
<1>. SUFFICES ASSUME Init PROVE TypeInv
  OBVIOUS
<1>1. \A t \in Threads : "idle" \in PCof(t)
  BY DEF PCof, MainPC, WorkerPC, WaiterPC, WakerPC, PanelPC
<1>2. PcOK
  BY <1>1 DEF Init, PcOK
<1>3. CountOK
  BY ThreadKinds DEF Init, CountOK
<1>4. attempt \in 0..MaxAttempts /\ counted \in 0..(MaxAttempts - 1)
  BY DEF Init, MaxAttempts
<1>5. TypeOK
  BY <1>2, <1>4 DEF Init, TypeOK
<1>6. QED
  BY <1>3, <1>5 DEF TypeInv

\* Type correctness: every variable of the recovery engine keeps its type and
\* g_reconnect_attempt never exceeds three, whatever the threads clear under
\* the main loop's feet.
THEOREM TypeCorrect == Spec => []TypeOK
<1>1. TypeInv /\ [Next]_vars => TypeInv'
  BY TypeStep
<1>2. TypeInv => TypeOK
  BY DEF TypeInv
<1>3. QED
  BY TypeInit, <1>1, <1>2, PTL DEF Spec

LEMMA TypesHold == Spec => []TypeInv
<1>1. TypeInv /\ [Next]_vars => TypeInv'
  BY TypeStep
<1>2. QED
  BY TypeInit, <1>1, PTL DEF Spec

----------------------------------------------------------------------------
(* One Bluetooth session at a time.  The strengthening: the waiter of a    *)
(* helper that lives still waits for it, so no waiter clears g_launcher    *)
(* under a helper it does not name.                                        *)

SessionInv == \A s \in Slots : proc[s] \in Live => launcher = s /\ pc[s] = "tWait"

SessionFrame == UNCHANGED <<launcher, proc>> /\ \A s \in Slots : pc'[s] = pc[s]

LEMMA ResetFrame ==
  ASSUME TypeInv, NEW t \in Resetters \cup Wakers \cup Panels, Reset(t)
  PROVE  SessionFrame
<1>. USE ThreadKinds DEF TypeInv, TypeOK, PcOK, SessionFrame, session, Goto
<1>1. CASE t \in Resetters /\ ResetCall(t)
  BY <1>1 DEF ResetCall
<1>2. CASE ResetSuspended(t)
  BY <1>2 DEF ResetSuspended
<1>3. CASE ResetRequested(t)
  BY <1>3 DEF ResetRequested
<1>4. CASE ResetActive(t)
  BY <1>4 DEF ResetActive
<1>5. CASE ResetAttempt(t)
  BY <1>5 DEF ResetAttempt
<1>6. CASE ResetSettle(t)
  BY <1>6 DEF ResetSettle
<1>7. QED
  BY <1>1, <1>2, <1>3, <1>4, <1>5, <1>6 DEF Reset

LEMMA ServiceFrame ==
  ASSUME TypeInv, Service
  PROVE  SessionFrame \/ ServiceLaunch \/ StopSend(Main) \/ StopMark(Main)
<1>. USE ThreadKinds DEF TypeInv, TypeOK, PcOK, SessionFrame, session, Goto
<1>1. CASE ServiceRequested \/ ServiceRunning \/ ServiceStopping \/ ServiceBackoff
  BY <1>1 DEF ServiceRequested, ServiceRunning, ServiceStopping, ServiceBackoff
<1>2. CASE ServiceDue \/ ServiceCount \/ ServiceOwn
  BY <1>2 DEF ServiceDue, ServiceCount, ServiceOwn
<1>3. CASE ServiceLaunchFails \/ ServiceSetController \/ ServiceConsume \/ ServiceDisown
  BY <1>3 DEF ServiceLaunchFails, ServiceSetController, ServiceConsume, ServiceDisown
<1>4. CASE GiveUpRequested \/ GiveUpActive \/ GiveUpOwned \/ GiveUpAttempt
  BY <1>4 DEF GiveUpRequested, GiveUpActive, GiveUpOwned, GiveUpAttempt
<1>5. QED
  BY <1>1, <1>2, <1>3, <1>4 DEF Service

LEMMA WorkerFrame ==
  ASSUME TypeInv, WorkerRun
  PROVE  SessionFrame
  BY ThreadKinds DEF TypeInv, TypeOK, PcOK, SessionFrame, session, Goto, WorkerRun,
     WorkerAsk, WorkerRecord, WorkerActive, WorkerOwned, WorkerRequested, WorkerAttempt

LEMMA WakeFrame ==
  ASSUME TypeInv, NEW w \in Wakers, Wake(w)
  PROVE  SessionFrame \/ StopSend(w) \/ StopMark(w)
<1>. USE ThreadKinds DEF TypeInv, TypeOK, PcOK, SessionFrame, session, Goto
<1>1. CASE WakeAccept(w) \/ WakeAdapter(w) \/ SuspendSet(w) \/ SuspendRequested(w)
  BY <1>1 DEF WakeAccept, WakeAdapter, SuspendSet, SuspendRequested
<1>2. CASE SuspendActive(w) \/ SuspendOwned(w) \/ SuspendAttempt(w) \/ SuspendRunning(w)
  BY <1>2 DEF SuspendActive, SuspendOwned, SuspendAttempt, SuspendRunning
<1>3. CASE SuspendStopping(w) \/ WakeReady(w) \/ WakeTimeout(w) \/ WakeBeacon(w) \/ WakeDone(w)
  BY <1>3 DEF SuspendStopping, WakeReady, WakeTimeout, WakeBeacon, WakeDone
<1>4. QED
  BY <1>1, <1>2, <1>3 DEF Wake

LEMMA PanelFrame ==
  ASSUME TypeInv, NEW g \in Panels, Panel(g)
  PROVE  SessionFrame \/ PanelPair(g) \/ StopSend(g) \/ StopMark(g)
<1>. USE ThreadKinds DEF TypeInv, TypeOK, PcOK, SessionFrame, session, Goto
<1>1. CASE PanelRefresh(g) \/ PanelController(g) \/ PanelReconnect(g) \/ PanelStop(g)
  BY <1>1 DEF PanelRefresh, PanelController, PanelReconnect, PanelStop
<1>2. QED
  BY <1>1 DEF Panel

LEMMA SpawnSession ==
  ASSUME TypeInv, SessionInv, NEW s \in Slots, NEW t \in Threads \ Slots,
         NEW next, NEW reconnect, Spawn(s, t, next, reconnect)
  PROVE  SessionInv'
  BY ThreadKinds DEF TypeInv, TypeOK, PcOK, SessionInv, Spawn, FreeSlot, Live

LEMMA StopSession ==
  ASSUME TypeInv, SessionInv, NEW t \in Threads \ Slots, StopSend(t) \/ StopMark(t)
  PROVE  SessionInv'
<1>. USE ThreadKinds DEF TypeInv, TypeOK, PcOK, SessionInv
<1>1. (\A s \in Slots : pc'[s] = pc[s]) /\ launcher' = launcher
  BY DEF StopSend, StopMark
<1>2. UNCHANGED proc \/ \E s \in Alive : Drain(s)
  BY DEF StopSend, StopMark
<1>3. QED
  BY <1>1, <1>2 DEF Drain, Alive, Live, Initialized

LEMMA WaiterSession ==
  ASSUME TypeInv, SessionInv, NEW s \in Slots, Waiter(s)
  PROVE  SessionInv'
<1>. USE ThreadKinds DEF TypeInv, TypeOK, PcOK, SessionInv, session, Goto
<1>1. CASE WaiterOwned(s)
  BY <1>1 DEF WaiterOwned, Live
<1>2. CASE WaiterActive(s) \/ WaiterSuspended(s) \/ WaiterOwnedOff(s)
  BY <1>2 DEF WaiterActive, WaiterSuspended, WaiterOwnedOff
<1>3. CASE WaiterClear(s)
  BY <1>3 DEF WaiterClear
<1>4. CASE WaiterRearm(s) \/ WaiterActiveOn(s)
  BY <1>4 DEF WaiterRearm, WaiterActiveOn
<1>5. CASE WaiterBackoff(s) \/ WaiterPending(s) \/ WaiterActiveOff(s)
  BY <1>5 DEF WaiterBackoff, WaiterPending, WaiterActiveOff, Live
<1>6. QED
  BY <1>1, <1>2, <1>3, <1>4, <1>5 DEF Waiter

LEMMA SessionStep ==
  ASSUME TypeInv, SessionInv, [Next]_vars
  PROVE  SessionInv'
<1>1. SessionFrame => SessionInv'
  BY DEF SessionFrame, SessionInv
<1>2. CASE Service
  <2>1. CASE ServiceLaunch
    BY <2>1, SpawnSession, ThreadKinds DEF ServiceLaunch
  <2>2. QED
    BY <1>1, <1>2, <2>1, ServiceFrame, StopSession, ThreadKinds
<1>3. CASE Settle \/ UNCHANGED vars
  BY <1>1, <1>3 DEF Settle, vars, session, SessionFrame
<1>4. CASE WorkerRun
  BY <1>1, <1>4, WorkerFrame
<1>5. CASE \E t \in Resetters \cup Wakers \cup Panels : Reset(t)
  BY <1>1, <1>5, ResetFrame
<1>6. CASE \E s \in Slots : Waiter(s)
  BY <1>6, WaiterSession
<1>7. CASE \E s \in Slots : Helper(s)
  BY <1>7 DEF Helper, HelperLinks, HelperExits, TypeInv, TypeOK, SessionInv, Live
<1>8. CASE \E w \in Wakers : Wake(w)
  BY <1>1, <1>8, WakeFrame, StopSession, ThreadKinds
<1>9. CASE \E g \in Panels : Panel(g)
  <2>. PICK g \in Panels : Panel(g)
    BY <1>9
  <2>1. CASE PanelPair(g)
    BY <2>1, SpawnSession, ThreadKinds DEF PanelPair
  <2>2. QED
    BY <1>1, <2>1, PanelFrame, StopSession, ThreadKinds
<1>10. QED
  BY <1>2, <1>3, <1>4, <1>5, <1>6, <1>7, <1>8, <1>9 DEF Next

\* However launches, stops, exits and waiters interleave, the only helper that
\* can be alive is the one g_launcher names.
THEOREM OneSession == Spec => []SingleSession
<1>1. Init => SessionInv
  BY DEF Init, SessionInv, Live
<1>2. TypeInv /\ SessionInv /\ [Next]_vars => SessionInv'
  BY SessionStep
<1>3. SessionInv => SingleSession
  BY DEF SessionInv, SingleSession
<1>4. QED
  BY TypesHold, <1>1, <1>2, <1>3, PTL DEF Spec

----------------------------------------------------------------------------
(* Wakes.  Both invariants are inductive as they stand: only a wake's own  *)
(* steps move a waker, and each keeps it where the invariants want it.     *)

WakeCalm == UNCHANGED <<suspended, wakeActive>> /\ \A w \in Wakers : pc'[w] = pc[w]

LEMMA CalmSteps ==
  ASSUME TypeInv,
         \/ Service \/ Settle \/ WorkerRun \/ UNCHANGED vars
         \/ \E s \in Slots : Waiter(s) \/ Helper(s)
         \/ \E g \in Panels : Panel(g)
  PROVE  WakeCalm
<1>. USE ThreadKinds DEF TypeInv, TypeOK, PcOK, WakeCalm, recovery, session, others, Goto
<1>1. CASE ServiceRequested \/ ServiceRunning \/ ServiceStopping \/ ServiceBackoff
  BY <1>1 DEF ServiceRequested, ServiceRunning, ServiceStopping, ServiceBackoff
<1>2. CASE ServiceDue \/ ServiceCount \/ ServiceOwn
  BY <1>2 DEF ServiceDue, ServiceCount, ServiceOwn
<1>3. CASE ServiceLaunchFails \/ ServiceSetController \/ ServiceConsume \/ ServiceDisown
  BY <1>3 DEF ServiceLaunchFails, ServiceSetController, ServiceConsume, ServiceDisown
<1>4. CASE GiveUpRequested \/ GiveUpActive \/ GiveUpOwned \/ GiveUpAttempt
  BY <1>4 DEF GiveUpRequested, GiveUpActive, GiveUpOwned, GiveUpAttempt
<1>5. CASE ServiceLaunch
  BY <1>5 DEF ServiceLaunch, Spawn
<1>6. CASE \E t \in {Main} \cup Panels : StopSend(t) \/ StopMark(t)
  BY <1>6 DEF StopSend, StopMark
<1>7. CASE Settle \/ UNCHANGED vars
  BY <1>7 DEF Settle, vars
<1>8. CASE WorkerRun
  BY <1>8 DEF WorkerRun, WorkerAsk, WorkerRecord, WorkerActive, WorkerOwned,
              WorkerRequested, WorkerAttempt
<1>9. CASE \E s \in Slots : Waiter(s)
  <2>. PICK s \in Slots : Waiter(s)
    BY <1>9
  <2>1. CASE WaiterOwned(s) \/ WaiterActive(s) \/ WaiterClear(s) \/ WaiterSuspended(s)
    BY <2>1 DEF WaiterOwned, WaiterActive, WaiterClear, WaiterSuspended
  <2>2. CASE WaiterOwnedOff(s) \/ WaiterRearm(s) \/ WaiterActiveOn(s)
    BY <2>2 DEF WaiterOwnedOff, WaiterRearm, WaiterActiveOn
  <2>3. CASE WaiterBackoff(s) \/ WaiterPending(s) \/ WaiterActiveOff(s)
    BY <2>3 DEF WaiterBackoff, WaiterPending, WaiterActiveOff
  <2>4. QED
    BY <2>1, <2>2, <2>3 DEF Waiter
<1>10. CASE \E s \in Slots : Helper(s)
  BY <1>10 DEF Helper, HelperLinks, HelperExits
<1>11. CASE \E g \in Panels : PanelRefresh(g) \/ PanelController(g) \/ PanelReconnect(g)
                              \/ PanelStop(g)
  BY <1>11 DEF PanelRefresh, PanelController, PanelReconnect, PanelStop
<1>12. CASE \E g \in Panels : PanelPair(g)
  BY <1>12 DEF PanelPair, Spawn
<1>13. QED
  BY <1>1, <1>2, <1>3, <1>4, <1>5, <1>6, <1>7, <1>8, <1>9, <1>10, <1>11, <1>12
     DEF Service, Panel

\* What the steps of a reset do to a wake: a waker that resets has its
\* suspension behind it, and ends with its flag to clear.
LEMMA ResetOfWake ==
  ASSUME TypeInv, NEW t \in Resetters \cup Wakers \cup Panels, Reset(t)
  PROVE  /\ wakeActive' = wakeActive
         /\ \A w \in Wakers : pc'[w] = "idle" <=> pc[w] = "idle"
         /\ \/ ~suspended'
            \/ suspended' = suspended /\ \A w \in Wakers : pc[w] \in SuspendPC => pc'[w] = pc[w]
<1>. USE ThreadKinds DEF TypeInv, TypeOK, PcOK, SuspendPC, StopPC, session, others, Goto
<1>1. CASE t \in Resetters /\ ResetCall(t)
  BY <1>1 DEF ResetCall, recovery
<1>2. CASE ResetSuspended(t)
  BY <1>2 DEF ResetSuspended
<1>3. CASE ResetRequested(t)
  BY <1>3 DEF ResetRequested
<1>4. CASE ResetActive(t)
  BY <1>4 DEF ResetActive
<1>5. CASE ResetAttempt(t)
  BY <1>5 DEF ResetAttempt
<1>6. CASE ResetSettle(t)
  BY <1>6 DEF ResetSettle
<1>7. QED
  BY <1>1, <1>2, <1>3, <1>4, <1>5, <1>6 DEF Reset

\* What a wake's own steps do: it accepts, it ends, or it stays busy; and it
\* leaves the suspension's stretch only through the reset.
LEMMA OwnWake ==
  ASSUME TypeInv, NEW w \in Wakers, Wake(w)
  PROVE  /\ \A v \in Wakers \ {w} : pc'[v] = pc[v]
         /\ \/ WakeAccept(w)
            \/ WakeDone(w)
            \/ pc[w] # "idle" /\ pc'[w] # "idle" /\ wakeActive' = wakeActive
         /\ \/ pc'[w] \in SuspendPC
            \/ pc[w] \notin SuspendPC /\ suspended' = suspended
<1>. USE ThreadKinds DEF TypeInv, TypeOK, PcOK, SuspendPC, StopPC, recovery, session, others, Goto
<1>1. CASE WakeAccept(w) \/ WakeDone(w) \/ WakeAdapter(w) \/ SuspendSet(w)
  BY <1>1 DEF WakeAccept, WakeDone, WakeAdapter, SuspendSet
<1>2. CASE SuspendRequested(w) \/ SuspendActive(w) \/ SuspendOwned(w) \/ SuspendAttempt(w)
  BY <1>2 DEF SuspendRequested, SuspendActive, SuspendOwned, SuspendAttempt
<1>3. CASE SuspendRunning(w) \/ SuspendStopping(w)
  BY <1>3 DEF SuspendRunning, SuspendStopping
<1>4. CASE WakeReady(w) \/ WakeTimeout(w) \/ WakeBeacon(w)
  BY <1>4 DEF WakeReady, WakeTimeout, WakeBeacon
<1>5. CASE StopSend(w)
  BY <1>5 DEF StopSend
<1>6. CASE StopMark(w)
  <2>1. AfterStop(w) = "kAwait"
    BY DEF AfterStop
  <2>2. QED
    BY <1>6, <2>1 DEF StopMark
<1>7. QED
  BY <1>1, <1>2, <1>3, <1>4, <1>5, <1>6 DEF Wake

LEMMA WakeSplit ==
  ASSUME TypeInv, [Next]_vars
  PROVE  \/ WakeCalm
         \/ \E t \in Resetters \cup Wakers \cup Panels : Reset(t)
         \/ \E w \in Wakers : Wake(w)
  BY CalmSteps DEF Next

\* Never two wakes on the adapter, and the flag set exactly while one runs.
THEOREM OneWake == Spec => []WakeExclusive
<1>1. Init => WakeExclusive
  BY ThreadKinds DEF Init, WakeExclusive
<1>2. TypeInv /\ WakeExclusive /\ [Next]_vars => WakeExclusive'
  <2>. SUFFICES ASSUME TypeInv, WakeExclusive, [Next]_vars PROVE WakeExclusive'
    OBVIOUS
  <2>1. CASE WakeCalm
    BY <2>1 DEF WakeCalm, WakeExclusive
  <2>2. CASE \E t \in Resetters \cup Wakers \cup Panels : Reset(t)
    BY <2>2, ResetOfWake DEF WakeExclusive
  <2>3. CASE \E w \in Wakers : Wake(w)
    <3>. PICK w \in Wakers : Wake(w)
      BY <2>3
    <3>1. CASE WakeAccept(w)
      BY <3>1, ThreadKinds DEF WakeAccept, WakeExclusive, Goto, TypeInv, TypeOK, PcOK
    <3>2. CASE WakeDone(w)
      BY <3>2, ThreadKinds DEF WakeDone, WakeExclusive, Goto, TypeInv, TypeOK, PcOK
    <3>3. QED
      BY <3>1, <3>2, OwnWake DEF WakeExclusive
  <2>4. QED
    BY <2>1, <2>2, <2>3, WakeSplit
<1>3. QED
  BY TypesHold, <1>1, <1>2, PTL DEF Spec

\* A suspension of the recovery always has the wake that will end it.
THEOREM SuspensionOwned == Spec => []SuspensionIsOwned
<1>1. Init => SuspensionIsOwned
  BY DEF Init, SuspensionIsOwned
<1>2. TypeInv /\ SuspensionIsOwned /\ [Next]_vars => SuspensionIsOwned'
  <2>. SUFFICES ASSUME TypeInv, SuspensionIsOwned, [Next]_vars PROVE SuspensionIsOwned'
    OBVIOUS
  <2>1. CASE WakeCalm
    BY <2>1 DEF WakeCalm, SuspensionIsOwned
  <2>2. CASE \E t \in Resetters \cup Wakers \cup Panels : Reset(t)
    BY <2>2, ResetOfWake DEF SuspensionIsOwned
  <2>3. CASE \E w \in Wakers : Wake(w)
    BY <2>3, OwnWake DEF SuspensionIsOwned
  <2>4. QED
    BY <2>1, <2>2, <2>3, WakeSplit
<1>3. QED
  BY TypesHold, <1>1, <1>2, PTL DEF Spec

----------------------------------------------------------------------------
(* The ownership mark.  Inductive as it stands: whoever takes away the     *)
(* session it rests on goes on to clear it.                                *)

Owning == {"tSuspended", "tOwned", "tDisown"}

\* Steps that neither set the mark nor move what it rests on.
OwnFrame ==
    /\ owned' => owned
    /\ launcher' = launcher
    /\ pc[Main] \in {"launch", "disown"} => pc'[Main] = pc[Main]
    /\ \A s \in Slots : pc[s] \in Owning => pc'[s] = pc[s]

LEMMA OwnFrameKeeps == ASSUME OwnershipIsLaunch, OwnFrame PROVE OwnershipIsLaunch'
  BY DEF OwnershipIsLaunch, OwnFrame, Owning

LEMMA OwnService ==
  ASSUME TypeInv, OwnershipIsLaunch, Service
  PROVE  OwnershipIsLaunch'
<1>. USE ThreadKinds DEF TypeInv, TypeOK, PcOK, Goto
<1>1. CASE ServiceRequested \/ ServiceRunning \/ ServiceStopping \/ ServiceBackoff
  BY <1>1, OwnFrameKeeps DEF OwnFrame, Owning, session, recovery,
     ServiceRequested, ServiceRunning, ServiceStopping, ServiceBackoff
<1>2. CASE ServiceDue \/ ServiceCount
  BY <1>2, OwnFrameKeeps DEF OwnFrame, Owning, session, recovery, ServiceDue, ServiceCount
<1>3. CASE ServiceOwn \/ ServiceLaunchFails
  BY <1>3 DEF OwnershipIsLaunch, ServiceOwn, ServiceLaunchFails, recovery, session
<1>4. CASE ServiceLaunch
  BY <1>4 DEF OwnershipIsLaunch, ServiceLaunch, Spawn
<1>5. CASE ServiceSetController \/ ServiceConsume
  BY <1>5, OwnFrameKeeps DEF OwnFrame, Owning, session, recovery,
     ServiceSetController, ServiceConsume
<1>6. CASE ServiceDisown \/ GiveUpOwned
  BY <1>6 DEF OwnershipIsLaunch, ServiceDisown, GiveUpOwned
<1>7. CASE GiveUpRequested \/ GiveUpActive \/ GiveUpAttempt
  BY <1>7, OwnFrameKeeps DEF OwnFrame, Owning, session,
     GiveUpRequested, GiveUpActive, GiveUpAttempt
<1>8. CASE StopSend(Main) \/ StopMark(Main)
  BY <1>8, OwnFrameKeeps DEF OwnFrame, Owning, recovery, StopSend, StopMark
<1>9. QED
  BY <1>1, <1>2, <1>3, <1>4, <1>5, <1>6, <1>7, <1>8 DEF Service

LEMMA OwnWaiter ==
  ASSUME TypeInv, OwnershipIsLaunch, NEW s \in Slots, Waiter(s)
  PROVE  OwnershipIsLaunch'
<1>. USE ThreadKinds DEF TypeInv, TypeOK, PcOK, Goto
<1>1. CASE WaiterOwned(s) \/ WaiterActive(s)
  BY <1>1, OwnFrameKeeps DEF OwnFrame, Owning, session, recovery, WaiterOwned, WaiterActive
<1>2. CASE WaiterClear(s) \/ WaiterSuspended(s)
  BY <1>2 DEF OwnershipIsLaunch, WaiterClear, WaiterSuspended, recovery, session
<1>3. CASE WaiterOwnedOff(s)
  BY <1>3 DEF OwnershipIsLaunch, WaiterOwnedOff
<1>4. CASE WaiterRearm(s) \/ WaiterActiveOn(s) \/ WaiterBackoff(s)
  BY <1>4, OwnFrameKeeps DEF OwnFrame, Owning, session,
     WaiterRearm, WaiterActiveOn, WaiterBackoff
<1>5. CASE WaiterPending(s) \/ WaiterActiveOff(s)
  BY <1>5, OwnFrameKeeps DEF OwnFrame, Owning, recovery, WaiterPending, WaiterActiveOff
<1>6. QED
  BY <1>1, <1>2, <1>3, <1>4, <1>5 DEF Waiter

LEMMA OwnWakes ==
  ASSUME TypeInv, NEW w \in Wakers, Wake(w)
  PROVE  OwnFrame
<1>. USE ThreadKinds DEF TypeInv, TypeOK, PcOK, OwnFrame, Owning, recovery, session, Goto
<1>1. CASE WakeAccept(w) \/ WakeDone(w) \/ WakeAdapter(w) \/ SuspendSet(w)
  BY <1>1 DEF WakeAccept, WakeDone, WakeAdapter, SuspendSet
<1>2. CASE SuspendRequested(w) \/ SuspendActive(w) \/ SuspendOwned(w) \/ SuspendAttempt(w)
  BY <1>2 DEF SuspendRequested, SuspendActive, SuspendOwned, SuspendAttempt
<1>3. CASE SuspendRunning(w) \/ SuspendStopping(w)
  BY <1>3 DEF SuspendRunning, SuspendStopping
<1>4. CASE WakeReady(w) \/ WakeTimeout(w) \/ WakeBeacon(w)
  BY <1>4 DEF WakeReady, WakeTimeout, WakeBeacon
<1>5. CASE StopSend(w) \/ StopMark(w)
  BY <1>5 DEF StopSend, StopMark
<1>6. QED
  BY <1>1, <1>2, <1>3, <1>4, <1>5 DEF Wake

LEMMA OwnReset ==
  ASSUME TypeInv, NEW t \in Resetters \cup Wakers \cup Panels, Reset(t)
  PROVE  OwnFrame
<1>. USE ThreadKinds DEF TypeInv, TypeOK, PcOK, OwnFrame, Owning, recovery, session, Goto
<1>1. CASE ResetCall(t) \/ ResetSuspended(t) \/ ResetRequested(t)
  BY <1>1 DEF ResetCall, ResetSuspended, ResetRequested
<1>2. CASE ResetActive(t) \/ ResetAttempt(t) \/ ResetSettle(t)
  BY <1>2 DEF ResetActive, ResetAttempt, ResetSettle
<1>3. QED
  BY <1>1, <1>2 DEF Reset

LEMMA OwnPanel ==
  ASSUME TypeInv, OwnershipIsLaunch, NEW g \in Panels, Panel(g)
  PROVE  OwnershipIsLaunch'
<1>. USE ThreadKinds DEF TypeInv, TypeOK, PcOK, Goto
<1>1. CASE PanelRefresh(g) \/ PanelController(g) \/ PanelReconnect(g) \/ PanelStop(g)
  BY <1>1, OwnFrameKeeps DEF OwnFrame, Owning, recovery, session,
     PanelRefresh, PanelController, PanelReconnect, PanelStop
<1>2. CASE PanelPair(g)
  BY <1>2 DEF OwnershipIsLaunch, PanelPair, Spawn
<1>3. CASE StopSend(g) \/ StopMark(g)
  BY <1>3, OwnFrameKeeps DEF OwnFrame, Owning, recovery, StopSend, StopMark
<1>4. QED
  BY <1>1, <1>2, <1>3 DEF Panel

\* The mark "launched by the recovery" never outlives the launch it is about.
THEOREM OwnershipLaunched == Spec => []OwnershipIsLaunch
<1>1. Init => OwnershipIsLaunch
  BY DEF Init, OwnershipIsLaunch
<1>2. TypeInv /\ OwnershipIsLaunch /\ [Next]_vars => OwnershipIsLaunch'
  <2>. SUFFICES ASSUME TypeInv, OwnershipIsLaunch, [Next]_vars PROVE OwnershipIsLaunch'
    OBVIOUS
  <2>1. CASE WorkerRun
    BY <2>1, OwnFrameKeeps, ThreadKinds DEF TypeInv, TypeOK, PcOK, OwnFrame, Owning, recovery,
       session, Goto, WorkerRun, WorkerAsk, WorkerRecord, WorkerActive, WorkerOwned,
       WorkerRequested, WorkerAttempt
  <2>2. CASE Settle \/ UNCHANGED vars
    BY <2>2, OwnFrameKeeps DEF OwnFrame, Settle, vars, session
  <2>3. CASE \E s \in Slots : Helper(s)
    BY <2>3, OwnFrameKeeps DEF OwnFrame, Helper, HelperLinks, HelperExits, recovery
  <2>4. QED
    BY <2>1, <2>2, <2>3, OwnService, OwnWaiter, OwnWakes, OwnReset, OwnPanel, OwnFrameKeeps
       DEF Next
<1>3. QED
  BY TypesHold, <1>1, <1>2, PTL DEF Spec

----------------------------------------------------------------------------
(* The bound on the helpers launched for one recovery (PcbleRetries). *)

\* A helper is launched after the last one's waiter has ended, and the page
\* starts none while the main loop is about to: what RetriesBounded supposes of
\* every step.
LaunchedApart ==
    \A s \in Slots :
        pc[s] = "idle" /\ pc'[s] # "idle"
        => /\ \A r \in Slots : pc[r] = "idle"
           /\ Launches \/ pc[Main] \notin {"due", "count", "own", "launch", "disown"}

\* A helper the recovery does not own, nor is about to: the page's.
Pairs(s) == launcher = s /\ ~owned /\ ~seen[s] /\ pc[Main] \notin {"due", "count", "own"}

\* A waiter that may still ask for another helper.
CanRearm(s) == \/ pc[s] \in {"tSuspended", "tOwned", "tRearm"}
               \/ pc[s] \in {"tWait", "tActive", "tClear"} /\ ~Pairs(s)
NoneRearms == \A s \in Slots : ~CanRearm(s)

\* The main loop has launched and the request is not consumed yet; it is in the
\* middle of a pass; it is giving up.
Launched == {"setController", "consume"}
Pass == (MainPC \ ResetPC) \ (Launched \cup {"idle"})
GivingUp == {"giveActive", "failActive", "giveOwned", "giveAttempt"}

\* Nothing is left of a recovery that was given up.
Quiet == ~requested /\ NoneRearms /\ pc[Main] \notin Pass \cup Launched

OneWaiter == \A r, s \in Slots : pc[r] # "idle" /\ pc[s] # "idle" => r = s
NoneSaw == \A s \in Slots : seen[s] => pc[s] \in {"tActive", "tClear"}

\* The counter the code compares follows the launches, one behind at most, until
\* it is cleared by giving up; a request that is made of an old one (a waiter's)
\* leaves no waiter that could make another.
TriesInv ==
    /\ tries \in Nat /\ OneWaiter /\ NoneSaw
    /\ pc[Main] \in {"own", "launch"} => tries <= attempt
    /\ tries <= attempt + 1 \/ (Quiet /\ tries <= MaxAttempts + 1)
    /\ (requested \/ pc[Main] \in Pass) /\ pc[Main] \notin Launched => NoneRearms \/ tries = 0
    /\ pc[Main] \in GivingUp /\ requested => tries = 0
    /\ pc[Main] = "count" => attempt <= counted

\* What a step of another thread than the main loop leaves alone.
Calm ==
    /\ pc'[Main] = pc[Main] /\ counted' = counted
    /\ attempt' = attempt \/ (attempt' = 0 /\ Clears)
    /\ \/ requested' => requested
       \/ Clears
       \/ \E s \in Slots : pc[s] = "tRearm" /\ pc'[s] = "tActiveOn"
    /\ \A s \in Slots : /\ CanRearm(s)' => CanRearm(s)
                        /\ pc'[s] # "idle" => pc[s] # "idle"
    /\ NoneSaw => NoneSaw'

LEMMA SlotFrame ==
    ASSUME pc'[Main] = pc[Main], \A s \in Slots : pc'[s] = pc[s], counted' = counted,
           launcher' = launcher, seen' = seen, owned' => owned,
           attempt' = attempt \/ (attempt' = 0 /\ Clears), (requested' => requested) \/ Clears
    PROVE  Calm
<1>1. \A s \in Slots : CanRearm(s)' => CanRearm(s)
  BY DEF CanRearm, Pairs
<1>2. NoneSaw => NoneSaw'
  BY DEF NoneSaw
<1> QED BY <1>1, <1>2 DEF Calm

LEMMA ResetCalm ==
    ASSUME TypeInv, NEW t \in (Resetters \cup Wakers \cup Panels) \ {Main}, Reset(t)
    PROVE  Calm
<1>1. t \in Threads /\ t \notin Slots
  BY ThreadKinds DEF Threads
<1>2. pc \in [Threads -> UNION {PCof(u) : u \in Threads}]
  BY DEF TypeInv, TypeOK, PcOK
<1>3. /\ pc'[Main] = pc[Main] /\ (\A s \in Slots : pc'[s] = pc[s]) /\ counted' = counted
      /\ launcher' = launcher /\ seen' = seen /\ owned' = owned
  BY <1>1, <1>2, ThreadKinds
     DEF recovery, session, Reset, ResetCall, ResetSuspended, ResetRequested, ResetActive,
            ResetAttempt, ResetSettle, Goto, others
<1>4. CASE ResetRequested(t)
  <2>1. Clears
    BY <1>1, <1>2, <1>4 DEF ResetRequested, Goto, Clears
  <2> QED BY <1>3, <1>4, <2>1, SlotFrame DEF ResetRequested
<1>5. CASE ResetAttempt(t)
  <2>1. Clears
    BY <1>1, <1>2, <1>5 DEF ResetAttempt, Goto, Clears
  <2> QED BY <1>3, <1>5, <2>1, SlotFrame DEF ResetAttempt
<1>6. CASE ResetCall(t) \/ ResetSuspended(t) \/ ResetActive(t) \/ ResetSettle(t)
  BY <1>3, <1>6, SlotFrame DEF ResetCall, ResetSuspended, ResetActive, ResetSettle, recovery
<1> QED BY <1>4, <1>5, <1>6 DEF Reset

LEMMA WorkerCalm == ASSUME TypeInv, WorkerRun PROVE Calm
<1>2. pc \in [Threads -> UNION {PCof(u) : u \in Threads}]
  BY DEF TypeInv, TypeOK, PcOK
<1>3. /\ pc'[Main] = pc[Main] /\ (\A s \in Slots : pc'[s] = pc[s]) /\ counted' = counted
      /\ launcher' = launcher /\ seen' = seen /\ (owned' => owned)
  BY <1>2, ThreadKinds
     DEF recovery, session, WorkerRun, WorkerAsk, WorkerRecord, WorkerActive, WorkerOwned,
            WorkerRequested, WorkerAttempt, Goto, others
<1>4. CASE WorkerAttempt
  <2>1. Clears
    BY <1>2, <1>4, ThreadKinds DEF WorkerAttempt, Goto, Clears
  <2> QED BY <1>3, <1>4, <2>1, SlotFrame DEF WorkerAttempt
<1>5. CASE WorkerAsk \/ WorkerRecord \/ WorkerActive \/ WorkerOwned \/ WorkerRequested
  BY <1>3, <1>5, SlotFrame DEF WorkerAsk, WorkerRecord, WorkerActive, WorkerOwned,
         WorkerRequested, recovery
<1> QED BY <1>4, <1>5 DEF WorkerRun

LEMMA WaiterCalm ==
    ASSUME TypeInv, NEW s \in Slots, Waiter(s) \/ Helper(s)
    PROVE  Calm
<1>1. s \in Threads /\ s # Main
  BY ThreadKinds
<1>2. pc \in [Threads -> UNION {PCof(u) : u \in Threads}]
  BY DEF TypeInv, TypeOK, PcOK
<1>3. pc'[Main] = pc[Main] /\ counted' = counted /\ attempt' = attempt
  BY <1>1, <1>2, ThreadKinds
     DEF Waiter, WaiterOwned, WaiterActive, WaiterClear, WaiterSuspended, WaiterOwnedOff,
            WaiterRearm,
         WaiterActiveOn, WaiterBackoff, WaiterPending, WaiterActiveOff, Helper, HelperLinks,
                HelperExits,
         Goto, others, recovery
<1>4. \A r \in Slots \ {s} : pc'[r] = pc[r]
  BY <1>1, <1>2, ThreadKinds
     DEF Waiter, WaiterOwned, WaiterActive, WaiterClear, WaiterSuspended, WaiterOwnedOff,
            WaiterRearm,
         WaiterActiveOn, WaiterBackoff, WaiterPending, WaiterActiveOff, Helper, HelperLinks,
                HelperExits,
         Goto
<1>5. /\ pc'[s] # "idle" => pc[s] # "idle"
      /\ owned' => owned
      /\ \A r \in Slots \ {s} : seen'[r] = seen[r] /\ (launcher = r => launcher' = r)
  BY <1>1, <1>2, ThreadKinds
     DEF Waiter, WaiterOwned, WaiterActive, WaiterClear, WaiterSuspended, WaiterOwnedOff,
            WaiterRearm,
         WaiterActiveOn, WaiterBackoff, WaiterPending, WaiterActiveOff, Helper, HelperLinks,
                HelperExits,
         Goto, recovery, session, others, TypeInv, TypeOK
<1>7. \A r \in Slots : CanRearm(r)' => CanRearm(r)
  <2>1. \A r \in Slots \ {s} : CanRearm(r)' => CanRearm(r)
    BY <1>3, <1>4, <1>5 DEF CanRearm, Pairs
  <2>2. CanRearm(s)' => CanRearm(s)
    BY <1>1, <1>2, <1>3, ThreadKinds
       DEF Waiter, WaiterOwned, WaiterActive, WaiterClear, WaiterSuspended, WaiterOwnedOff,
              WaiterRearm,
         WaiterActiveOn, WaiterBackoff, WaiterPending, WaiterActiveOff, Helper, HelperLinks,
                HelperExits,
         Goto, recovery, session, others, TypeInv, TypeOK, CanRearm, Pairs
  <2> QED BY <2>1, <2>2
<1>8. NoneSaw => NoneSaw'
  <2>1. NoneSaw => \A r \in Slots \ {s} : seen'[r] => pc'[r] \in {"tActive", "tClear"}
    BY <1>4, <1>5 DEF NoneSaw
  <2>2. (seen[s] => pc[s] \in {"tActive", "tClear"}) => (seen'[s] => pc'[s] \in {"tActive", "tClear"})
    BY <1>1, <1>2, ThreadKinds
       DEF Waiter, WaiterOwned, WaiterActive, WaiterClear, WaiterSuspended, WaiterOwnedOff,
              WaiterRearm,
         WaiterActiveOn, WaiterBackoff, WaiterPending, WaiterActiveOff, Helper, HelperLinks,
                HelperExits,
         Goto, recovery, session, others, TypeInv, TypeOK
  <2> QED BY <2>1, <2>2 DEF NoneSaw
<1>6. \/ requested' => requested
      \/ pc[s] = "tRearm" /\ pc'[s] = "tActiveOn"
  BY <1>1, <1>2, ThreadKinds
     DEF Waiter, WaiterOwned, WaiterActive, WaiterClear, WaiterSuspended, WaiterOwnedOff,
            WaiterRearm,
         WaiterActiveOn, WaiterBackoff, WaiterPending, WaiterActiveOff, Helper, HelperLinks,
                HelperExits,
         Goto, recovery
<1> QED BY <1>3, <1>4, <1>5, <1>6, <1>7, <1>8 DEF Calm

LEMMA WakeCalmly == ASSUME TypeInv, NEW w \in Wakers, Wake(w) PROVE Calm
<1>1. w \in Threads /\ w # Main /\ w \notin Slots
  BY ThreadKinds
<1>2. pc \in [Threads -> UNION {PCof(u) : u \in Threads}]
  BY DEF TypeInv, TypeOK, PcOK
<1>3. CASE SuspendAttempt(w)
  <2>1. Clears
    BY <1>1, <1>2, <1>3 DEF SuspendAttempt, Goto, Clears
  <2> QED BY <1>1, <1>2, <1>3, <2>1, SlotFrame, ThreadKinds DEF SuspendAttempt, Goto, others,
         session
<1>4. CASE StopSend(w) \/ StopMark(w)
  BY <1>1, <1>2, <1>4, SlotFrame, ThreadKinds DEF StopSend, StopMark, recovery, others, session
<1>5. CASE \/ WakeAccept(w) \/ WakeAdapter(w) \/ SuspendSet(w) \/ SuspendRequested(w)
           \/ SuspendActive(w) \/ SuspendOwned(w) \/ SuspendRunning(w) \/ SuspendStopping(w)
           \/ WakeReady(w) \/ WakeTimeout(w) \/ WakeBeacon(w) \/ WakeDone(w)
  <2>1. pc'[Main] = pc[Main] /\ \A s \in Slots : pc'[s] = pc[s]
    BY <1>1, <1>2, <1>5, ThreadKinds
       DEF WakeAccept, WakeAdapter, SuspendSet, SuspendRequested, SuspendActive, SuspendOwned,
              SuspendRunning,
           SuspendStopping, WakeReady, WakeTimeout, WakeBeacon, WakeDone, Goto
  <2>2. /\ counted' = counted /\ attempt' = attempt /\ (requested' => requested)
        /\ launcher' = launcher /\ seen' = seen /\ (owned' => owned)
    BY <1>5
       DEF WakeAccept, WakeAdapter, SuspendSet, SuspendRequested, SuspendActive, SuspendOwned,
              SuspendRunning,
           SuspendStopping, WakeReady, WakeTimeout, WakeBeacon, WakeDone, others, recovery, session
  <2> QED BY <2>1, <2>2, SlotFrame
<1> QED BY <1>3, <1>4, <1>5 DEF Wake

LEMMA PanelCalm == ASSUME TypeInv, NEW g \in Panels, Panel(g), ~PanelPair(g) PROVE Calm
<1>1. g \in Threads /\ g # Main /\ g \notin Slots
  BY ThreadKinds
<1>2. pc \in [Threads -> UNION {PCof(u) : u \in Threads}]
  BY DEF TypeInv, TypeOK, PcOK
<1>4. CASE StopSend(g) \/ StopMark(g)
  BY <1>1, <1>2, <1>4, SlotFrame, ThreadKinds DEF StopSend, StopMark, recovery, others, session
<1>5. CASE PanelRefresh(g) \/ PanelController(g) \/ PanelReconnect(g) \/ PanelStop(g)
  BY <1>1, <1>2, <1>5, SlotFrame, ThreadKinds
     DEF PanelRefresh, PanelController, PanelReconnect, PanelStop, Goto, recovery, others, session
<1> QED BY <1>4, <1>5 DEF Panel

\* A calm step keeps the invariant: the counter is only cleared with the count
\* of the launches, and a waiter's request leaves no waiter to make another.
LEMMA CalmKeeps ==
    ASSUME TriesInv, TypeInv, TypeInv', Calm, CountTries
    PROVE  TriesInv'
<1>0. ~Launches /\ attempt \in Nat /\ attempt' \in Nat /\ tries \in Nat
  BY DEF Calm, Launches, TypeInv, TypeOK, TriesInv, MaxAttempts
<1>1. \A s \in Slots : /\ pc'[s] # "idle" => pc[s] # "idle"
                       /\ CanRearm(s)' => CanRearm(s)
  BY DEF Calm
<1>2. OneWaiter' /\ NoneSaw'
  BY <1>1 DEF TriesInv, OneWaiter, Calm
<1>3. pc'[Main] = "count" => attempt' <= counted'
  <2>1. counted \in Nat
    BY DEF TypeInv, TypeOK, MaxAttempts
  <2> QED BY <1>0, <2>1 DEF Calm, TriesInv
<1>4. CASE Clears
  <2>1. tries' = 0
    BY <1>4 DEF CountTries
  <2>2. tries' \in Nat /\ tries' <= attempt' /\ tries' <= attempt' + 1
    <3>1. \A n \in Nat : 0 \in Nat /\ 0 <= n /\ 0 <= n + 1
      OBVIOUS
    <3> QED BY <1>0, <2>1, <3>1
  <2> QED BY <1>0, <1>2, <1>3, <2>1, <2>2 DEF TriesInv
<1>5. CASE ~Clears
  <2>1. tries' = tries /\ attempt' = attempt /\ pc'[Main] = pc[Main]
    BY <1>0, <1>5 DEF CountTries, Calm
  <2>2. NoneRearms => NoneRearms'
    BY <1>1 DEF NoneRearms
  <2>3. CASE requested' => requested
    BY <1>0, <1>2, <1>3, <2>1, <2>2, <2>3 DEF TriesInv, Quiet
  <2>4. ASSUME NEW s \in Slots, pc[s] = "tRearm", pc'[s] = "tActiveOn" PROVE TriesInv'
    <3>1. ~NoneRearms
      BY <2>4 DEF NoneRearms, CanRearm
    <3>2. NoneRearms'
      <4>1. \A r \in Slots : r # s => pc[r] = "idle"
        BY <2>4 DEF TriesInv, OneWaiter
      <4>2. \A r \in Slots : r # s => pc'[r] = "idle"
        BY <1>1, <4>1
      <4>3. \A r \in Slots : pc'[r] \in {"idle", "tActiveOn"}
        BY <2>4, <4>2
      <4> QED BY <4>3 DEF NoneRearms, CanRearm
    <3>3. tries <= attempt + 1
      BY <3>1 DEF TriesInv, Quiet
    <3>4. pc[Main] \in GivingUp => tries = 0
      <4>1. GivingUp \subseteq Pass /\ GivingUp \cap Launched = {}
        BY DEF GivingUp, Pass, Launched, MainPC, ResetPC, StopPC
      <4> QED BY <3>1, <4>1 DEF TriesInv
    <3> QED BY <1>0, <1>2, <1>3, <2>1, <3>2, <3>3, <3>4 DEF TriesInv
  <2> QED BY <1>5, <2>3, <2>4 DEF Calm
<1> QED BY <1>4, <1>5

\* The main loop, resetting.
LEMMA OwnResetKeeps ==
    ASSUME TriesInv, TypeInv, TypeInv', Reset(Main), CountTries
    PROVE  TriesInv'
<1>1. pc \in [Threads -> UNION {PCof(u) : u \in Threads}] /\ Main \in Threads
  BY ThreadKinds DEF TypeInv, TypeOK, PcOK
<1>2. /\ \A s \in Slots : pc'[s] = pc[s]
      /\ launcher' = launcher /\ seen' = seen /\ owned' = owned
      /\ pc'[Main] \in ResetPC \cup {"idle"} /\ pc[Main] \in ResetPC \cup {"idle"}
  BY <1>1, ThreadKinds
     DEF Reset, ResetCall, ResetSuspended, ResetRequested, ResetActive, ResetAttempt,
            ResetSettle, Goto, ResetPC,
         recovery, session, others
<1>3. ~Launches /\ attempt \in Nat /\ attempt' \in Nat /\ tries \in Nat
  BY <1>2 DEF Launches, TypeInv, TypeOK, TriesInv, MaxAttempts, ResetPC
<1>4. OneWaiter' /\ NoneSaw' /\ (NoneRearms => NoneRearms')
  BY <1>2 DEF TriesInv, OneWaiter, NoneSaw, NoneRearms, CanRearm, Pairs, ResetPC
<1>5. (ResetPC \cup {"idle"}) \cap (Pass \cup Launched \cup GivingUp \cup {"own", "launch", "count"}) = {}
  BY DEF ResetPC, Pass, Launched, GivingUp
<1>6. CASE Clears
  <2>1. tries' = 0
    BY <1>6 DEF CountTries
  <2>2. tries' \in Nat /\ tries' <= attempt' /\ tries' <= attempt' + 1
    <3>1. \A n \in Nat : 0 \in Nat /\ 0 <= n /\ 0 <= n + 1
      OBVIOUS
    <3> QED BY <1>3, <2>1, <3>1
  <2> QED BY <1>2, <1>3, <1>4, <1>5, <2>1, <2>2 DEF TriesInv
<1>7. CASE ~Clears
  <2>1. ~ResetRequested(Main) /\ ~ResetAttempt(Main)
    BY <1>1, <1>7 DEF ResetRequested, ResetAttempt, Goto, Clears
  <2>2. attempt' = attempt /\ requested' = requested /\ tries' = tries
    BY <1>3, <1>7, <2>1 DEF Reset, ResetCall, ResetSuspended, ResetActive, ResetSettle, recovery,
           CountTries
  <2> QED BY <1>2, <1>3, <1>4, <1>5, <2>2 DEF TriesInv, Quiet
<1> QED BY <1>6, <1>7

\* What a launch, the recovery's or the page's, makes of the waiters.
LEMMA LaunchesApart ==
    ASSUME TriesInv, TypeInv, LaunchedApart, NEW s \in Slots, NEW t \in Threads \ Slots,
           NEW next, NEW reconnect, Spawn(s, t, next, reconnect), seen' = seen
    PROVE  OneWaiter' /\ NoneSaw' /\ launcher' = s /\ ~seen'[s]
           /\ (\A r \in Slots : pc[r] = "idle")
           /\ \A r \in Slots \ {s} : pc'[r] = "idle"
<1>1. pc \in [Threads -> UNION {PCof(u) : u \in Threads}]
  BY DEF TypeInv, TypeOK, PcOK
<1>2. pc' = [pc EXCEPT ![t] = next, ![s] = "tWait"] /\ pc[s] = "idle" /\ launcher' = s
  BY DEF Spawn, FreeSlot
<1>3. pc'[s] = "tWait" /\ \A r \in Slots \ {s} : pc'[r] = pc[r]
  BY <1>1, <1>2, ThreadKinds
<1>4. \A r \in Slots : pc[r] = "idle"
  BY <1>2, <1>3 DEF LaunchedApart
<1>5. \A r \in Slots : ~seen[r]
  BY <1>4 DEF TriesInv, NoneSaw
<1> QED BY <1>2, <1>3, <1>4, <1>5 DEF OneWaiter, NoneSaw

\* The recovery's own launch is counted on both sides.
LEMMA LaunchKeeps ==
    ASSUME TriesInv, TypeInv, TypeInv', ServiceLaunch, CountTries, LaunchedApart
    PROVE  TriesInv'
<1>1. pc \in [Threads -> UNION {PCof(u) : u \in Threads}] /\ Main \in Threads \ Slots
  BY ThreadKinds DEF TypeInv, TypeOK, PcOK
<1>2. PICK s \in Slots : Spawn(s, Main, "setController", TRUE)
  BY DEF ServiceLaunch
<1>3. /\ pc' = [pc EXCEPT ![Main] = "setController", ![s] = "tWait"]
      /\ pc[Main] = "launch" /\ attempt' = attempt /\ requested' = requested /\ seen' = seen
  BY <1>2 DEF Spawn, ServiceLaunch, others
<1>4. pc'[Main] = "setController"
  BY <1>1, <1>3, ThreadKinds
<1>6. OneWaiter' /\ NoneSaw'
  BY <1>1, <1>2, <1>3, LaunchesApart
<1>7. tries \in Nat /\ attempt \in Nat /\ tries <= attempt
  BY <1>3 DEF TriesInv, TypeInv, TypeOK, MaxAttempts
<1>8. tries' = 0 \/ tries' = tries + 1
  BY <1>3, <1>4 DEF CountTries, Launches
<1> QED BY <1>3, <1>4, <1>6, <1>7, <1>8 DEF TriesInv, Launched, Pass, GivingUp

\* The page's helper is nobody's to try again.
LEMMA PairKeeps ==
    ASSUME TriesInv, TypeInv, TypeInv', NEW g \in Panels, PanelPair(g), CountTries, LaunchedApart,
           OwnershipIsLaunch
    PROVE  TriesInv'
<1>1. pc \in [Threads -> UNION {PCof(u) : u \in Threads}] /\ g \in Threads \ Slots /\ g # Main
  BY ThreadKinds DEF TypeInv, TypeOK, PcOK
<1>2. PICK s \in Slots : Spawn(s, g, "gController", FALSE)
  BY DEF PanelPair
<1>3. /\ pc' = [pc EXCEPT ![g] = "gController", ![s] = "tWait"] /\ pc[g] = "idle" /\ pc[s] = "idle"
      /\ UNCHANGED <<attempt, requested, seen, owned, counted>> /\ launcher = NONE
  BY <1>2 DEF Spawn, FreeSlot, PanelPair, others
<1>4. pc'[Main] = pc[Main] /\ pc'[g] = "gController" /\ pc'[s] = "tWait" /\ ~Launches
  BY <1>1, <1>3, ThreadKinds DEF Launches
<1>5. /\ OneWaiter' /\ NoneSaw' /\ launcher' = s /\ ~seen'[s]
      /\ \A r \in Slots : pc[r] = "idle"
      /\ \A r \in Slots \ {s} : pc'[r] = "idle"
  BY <1>1, <1>2, <1>3, LaunchesApart
<1>6. pc[Main] \notin {"due", "count", "own", "launch", "disown"}
  BY <1>3, <1>4 DEF LaunchedApart
<1>7. ~owned
  BY <1>3, <1>5, <1>6 DEF OwnershipIsLaunch
<1>8. NoneRearms'
  BY <1>3, <1>4, <1>5, <1>6, <1>7 DEF NoneRearms, CanRearm, Pairs
<1>9. tries' \in {0, tries} /\ tries \in Nat /\ attempt \in Nat
  BY <1>4 DEF CountTries, TriesInv, TypeInv, TypeOK, MaxAttempts
<1> QED BY <1>3, <1>4, <1>5, <1>6, <1>8, <1>9 DEF TriesInv, Quiet

\* A step of the main loop that launches nothing.
LEMMA ServiceKeeps ==
    ASSUME TriesInv, TypeInv, TypeInv', Service, ~ServiceLaunch, CountTries
    PROVE  TriesInv'
<1>1. pc \in [Threads -> UNION {PCof(u) : u \in Threads}] /\ Main \in Threads
  BY ThreadKinds DEF TypeInv, TypeOK, PcOK
<1>2. \A s \in Slots : pc'[s] = pc[s]
  BY <1>1, ThreadKinds
     DEF Service, ServiceRequested, ServiceRunning, ServiceStopping, ServiceBackoff, StopSend,
            StopMark,
         ServiceDue, ServiceCount, ServiceOwn, ServiceLaunchFails, ServiceSetController,
                ServiceConsume,
         ServiceDisown, GiveUpRequested, GiveUpActive, GiveUpOwned, GiveUpAttempt, Goto
<1>s. /\ seen' = seen /\ launcher' = launcher
      /\ owned' => owned \/ pc[Main] = "own"
      /\ pc'[Main] \in {"due", "count", "own"} => pc[Main] \in {"due", "count", "own"} \/ launcher = NONE
  <2>1. AfterStop(Main) = "backoff"
    BY ThreadKinds DEF AfterStop
  <2> QED BY <1>1, <2>1, ThreadKinds
     DEF Service, ServiceRequested, ServiceRunning, ServiceStopping, ServiceBackoff, StopSend,
            StopMark,
         ServiceDue, ServiceCount, ServiceOwn, ServiceLaunchFails, ServiceSetController,
                ServiceConsume,
         ServiceDisown, GiveUpRequested, GiveUpActive, GiveUpOwned, GiveUpAttempt, Goto,
                recovery, session, others
<1>3. OneWaiter' /\ NoneSaw' /\ (NoneRearms => NoneRearms')
  <2>1. OneWaiter' /\ NoneSaw'
    BY <1>2, <1>s DEF TriesInv, OneWaiter, NoneSaw
  <2>2. \A s \in Slots : CanRearm(s)' => CanRearm(s)
    BY <1>2, <1>s, ThreadKinds DEF CanRearm, Pairs
  <2> QED BY <2>1, <2>2 DEF NoneRearms
<1>4. /\ attempt \in Nat /\ attempt' \in Nat /\ tries \in Nat /\ counted \in Nat /\ attempt <= MaxAttempts
      /\ attempt' <= MaxAttempts
  BY DEF TypeInv, TypeOK, TriesInv, MaxAttempts
<1>5. ASSUME \A t \in Threads \ {Main} : pc'[t] = pc[t], pc[Main] \notin ResetPC,
             ~(pc[Main] = "launch" /\ pc'[Main] = "setController")
      PROVE  tries' = tries
  <2>1. \A t \in Threads : <<pc[t], pc'[t]>> \notin {<<"rRequested", "rActive">>, <<"rAttempt", "rSettle">>}
    <3>1. \A t \in Threads \ {Main} : <<pc[t], pc'[t]>> \notin {<<"rRequested", "rActive">>, <<"rAttempt", "rSettle">>}
      BY <1>5
    <3> QED BY <1>5, <3>1 DEF ResetPC
  <2>2. ~(pc[Worker] = "wAttempt" /\ pc'[Worker] = "idle")
    BY <1>5, ThreadKinds
  <2>3. ~\E w \in Wakers : pc[w] = "kAttempt" /\ pc'[w] = "kRunning"
    BY <1>5, ThreadKinds
  <2> QED BY <1>5, <2>1, <2>2, <2>3 DEF CountTries, Clears, Launches
<1>6. tries' = tries
  <2>1. pc' = [pc EXCEPT ![Main] = pc'[Main]]
    BY <1>1 DEF Service, ServiceRequested, ServiceRunning, ServiceStopping, ServiceBackoff,
           StopSend, StopMark,
         ServiceDue, ServiceCount, ServiceOwn, ServiceLaunchFails, ServiceSetController,
                ServiceConsume,
         ServiceDisown, GiveUpRequested, GiveUpActive, GiveUpOwned, GiveUpAttempt, Goto
  <2>2. pc[Main] \notin ResetPC /\ ~(pc[Main] = "launch" /\ pc'[Main] = "setController")
    BY <1>1, ThreadKinds DEF Service, ServiceRequested, ServiceRunning, ServiceStopping,
           ServiceBackoff, StopSend, StopMark,
         ServiceDue, ServiceCount, ServiceOwn, ServiceLaunchFails, ServiceSetController,
                ServiceConsume,
         ServiceDisown, GiveUpRequested, GiveUpActive, GiveUpOwned, GiveUpAttempt, Goto, ResetPC
  <2> QED BY <1>1, <1>5, <2>1, <2>2
<1> DEFINE Goes(P, Q) == pc[Main] \in P /\ pc'[Main] \in Q
           InPass == {"running", "stopping", "stopSend", "stopMark", "stopKill", "backoff", "due"}
<1>p. /\ Pass = InPass \cup {"count", "own", "launch", "disown", "giveRequested", "giveActive", "giveOwned",
                             "giveAttempt", "failRequested", "failActive"}
      /\ "idle" \notin Pass /\ Launched \cap Pass = {} /\ "idle" \notin Launched
  BY DEF Pass, Launched, MainPC, ResetPC, StopPC
<1>7. CASE ServiceRequested
  <2>1. pc[Main] = "idle" /\ pc'[Main] = "running" /\ requested /\ attempt' = attempt /\ requested' = requested
    BY <1>1, <1>7 DEF ServiceRequested, Goto, recovery
  <2> QED BY <1>3, <1>4, <1>6, <1>p, <2>1 DEF TriesInv, Quiet, GivingUp
<1>8. CASE \/ ServiceRunning \/ ServiceStopping \/ ServiceBackoff \/ StopSend(Main) \/ StopMark(Main)
           \/ ServiceOwn \/ ServiceLaunchFails \/ ServiceDisown
  <2>1. attempt' = attempt /\ requested' = requested
    BY <1>8 DEF ServiceRunning, ServiceStopping, ServiceBackoff, StopSend, StopMark, ServiceOwn,
         ServiceLaunchFails, ServiceDisown, recovery
  <2>2. \/ Goes({"running", "stopping", "stopSend", "stopMark", "stopKill", "backoff"},
                InPass \cup {"idle"})
        \/ Goes({"own"}, {"launch"})
        \/ Goes({"launch", "disown"}, {"disown", "backoff", "failRequested"})
    <3>1. AfterStop(Main) = "backoff"
      BY ThreadKinds DEF AfterStop
    <3> QED BY <1>1, <1>8, <3>1 DEF ServiceRunning, ServiceStopping, ServiceBackoff, StopSend,
           StopMark,
         ServiceOwn, ServiceLaunchFails, ServiceDisown, Goto
  <2> QED BY <1>3, <1>4, <1>6, <1>p, <2>1, <2>2 DEF TriesInv, Quiet, GivingUp
<1>9. CASE ServiceDue
  <2>1. /\ attempt' = attempt /\ requested' = requested /\ Goes({"due"}, {"idle", "giveRequested", "count"})
        /\ pc'[Main] = "count" => counted' = attempt
    BY <1>1, <1>9 DEF ServiceDue, Goto, recovery
  <2> QED BY <1>3, <1>4, <1>6, <1>p, <2>1 DEF TriesInv, Quiet, GivingUp
<1>10. CASE ServiceCount
  <2>1. requested' = requested /\ Goes({"count"}, {"own"})
    BY <1>1, <1>10 DEF ServiceCount, Goto
  <2>2. attempt' = attempt + 1 \/ attempt' = counted + 1
    BY <1>10 DEF ServiceCount
  <2>3. tries <= attempt + 1 /\ attempt <= counted
    BY <1>p, <2>1 DEF TriesInv, Quiet
  <2>4. tries' <= attempt'
    BY <1>4, <1>6, <2>2, <2>3
  <2>5. NoneRearms' \/ tries' = 0
    BY <1>3, <1>6, <1>p, <2>1 DEF TriesInv
  <2>6. tries' <= attempt' + 1
    <3>1. \A m, n \in Nat : m <= n => m <= n + 1
      OBVIOUS
    <3> QED BY <1>4, <1>6, <2>4, <3>1
  <2> QED BY <1>3, <1>4, <1>6, <2>1, <2>4, <2>5, <2>6 DEF TriesInv, GivingUp
<1>11. CASE ServiceSetController
  <2>1. attempt' = attempt /\ requested' = requested /\ Goes({"setController"}, {"consume"})
    BY <1>1, <1>11 DEF ServiceSetController, Goto, recovery
  <2> QED BY <1>3, <1>4, <1>6, <1>p, <2>1 DEF TriesInv, Quiet, Launched, GivingUp
<1>12. CASE ServiceConsume
  <2>1. attempt' = attempt /\ requested' = FALSE /\ Goes({"consume"}, {"idle"})
    BY <1>1, <1>12 DEF ServiceConsume, Goto
  <2> QED BY <1>3, <1>4, <1>6, <1>p, <2>1 DEF TriesInv, Quiet, Launched, GivingUp
<1>13. CASE GiveUpRequested \/ GiveUpActive \/ GiveUpOwned
  <2>1. /\ attempt' = attempt /\ Goes(Pass, GivingUp)
        /\ requested' => requested /\ pc[Main] \in GivingUp
    BY <1>1, <1>13, <1>p DEF GiveUpRequested, GiveUpActive, GiveUpOwned, Goto, GivingUp
  <2>2. pc'[Main] \in Pass /\ pc'[Main] \notin {"own", "launch", "count"} /\ pc[Main] \notin Launched
    BY <1>p, <2>1 DEF GivingUp
  <2> QED BY <1>3, <1>4, <1>6, <1>p, <2>1, <2>2 DEF TriesInv, Quiet
<1>14. CASE GiveUpAttempt
  <2>1. attempt' = 0 /\ requested' = requested /\ Goes({"giveAttempt"}, {"idle"})
    BY <1>1, <1>14 DEF GiveUpAttempt, Goto
  <2>2. tries = 0 \/ (NoneRearms /\ ~requested)
    BY <1>p, <2>1 DEF TriesInv, GivingUp
  <2>3. tries <= MaxAttempts + 1
    BY <1>4 DEF TriesInv, MaxAttempts
  <2> QED BY <1>3, <1>4, <1>6, <1>p, <2>1, <2>2, <2>3 DEF TriesInv, Quiet, GivingUp
<1> QED BY <1>7, <1>8, <1>9, <1>10, <1>11, <1>12, <1>13, <1>14 DEF Service

LEMMA TriesStart == InitT => TriesInv
<1> SUFFICES ASSUME InitT PROVE TriesInv
    OBVIOUS
<1>1. pc[Main] = "idle" /\ (\A s \in Slots : pc[s] = "idle" /\ ~seen[s]) /\ tries = 0 /\ attempt = 0 /\ ~requested
  BY ThreadKinds DEF InitT, Init
<1> QED BY <1>1 DEF TriesInv, OneWaiter, NoneSaw, Pass, Launched, GivingUp

\* Every step keeps the bound's invariant.
LEMMA TriesKept ==
    ASSUME TriesInv, TypeInv, TypeInv', OwnershipIsLaunch, [NextT]_varsT, [LaunchedApart]_varsT
    PROVE  TriesInv'
<1>1. CASE UNCHANGED varsT
  BY <1>1 DEF varsT, vars, TriesInv, OneWaiter, NoneSaw, Quiet, NoneRearms, CanRearm, Pairs
<1>2. CASE ~UNCHANGED varsT
  <2>0. Next /\ CountTries /\ LaunchedApart
    BY <1>2 DEF NextT
  <2>1. CASE Service
    BY <2>0, <2>1, LaunchKeeps, ServiceKeeps
  <2>2. CASE Settle
    <3>1. Calm
      BY <2>2, SlotFrame DEF Settle, session
    <3> QED BY <2>0, <3>1, CalmKeeps
  <2>3. CASE WorkerRun
    BY <2>0, <2>3, WorkerCalm, CalmKeeps
  <2>4. ASSUME NEW t \in Resetters \cup Wakers \cup Panels, Reset(t) PROVE TriesInv'
    BY <2>0, <2>4, ResetCalm, CalmKeeps, OwnResetKeeps
  <2>5. ASSUME NEW s \in Slots, Waiter(s) \/ Helper(s) PROVE TriesInv'
    BY <2>0, <2>5, WaiterCalm, CalmKeeps
  <2>6. ASSUME NEW w \in Wakers, Wake(w) PROVE TriesInv'
    BY <2>0, <2>6, WakeCalmly, CalmKeeps
  <2>7. ASSUME NEW g \in Panels, Panel(g) PROVE TriesInv'
    BY <2>0, <2>7, PanelCalm, CalmKeeps, PairKeeps
  <2> QED BY <2>0, <2>1, <2>2, <2>3, <2>4, <2>5, <2>6, <2>7 DEF Next
<1> QED BY <1>1, <1>2

\* However resets, wakes, link-ups, exits and the page interleave, a recovery
\* launches at most four helpers (RetriesBounded), as long as each is launched
\* after the last one's waiter has ended and the page starts none under the
\* main loop's launch (LaunchedApart).
THEOREM RecoveryIsBounded == SpecT /\ [][LaunchedApart]_varsT => []RetriesBounded
<1>1. SpecT => Spec
  <2>1. [NextT]_varsT => [Next]_vars
    BY DEF NextT, varsT
  <2> QED BY <2>1, PTL DEF SpecT, InitT, Spec
<1>2. TriesInv /\ TypeInv => RetriesBounded
  BY DEF TriesInv, TypeInv, TypeOK, RetriesBounded, MaxAttempts
<1> QED BY <1>1, <1>2, TypesHold, OwnershipLaunched, TriesStart, TriesKept, PTL DEF SpecT

=============================================================================
