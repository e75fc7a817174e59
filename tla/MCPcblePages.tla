---------------------------- MODULE MCPcblePages ----------------------------
(***************************************************************************)
(* PcbleRetries with two groups of threads: in a behaviour one group asks  *)
(* for wakes, while the main loop resets, or the other, the                *)
(* controller-output page, starts and stops sessions.  What is counted is  *)
(* counted for the page only; the thread that asks the helper how it goes, *)
(* which writes neither the wake's flag nor the suspension, runs with the  *)
(* page only.                                                              *)
(***************************************************************************)
EXTENDS PcbleRetries, TLC

VARIABLE group

groupVars == <<varsT, group>>

GroupInit == InitT /\ group \in {"wakes", "pages"}

Always == Service \/ Settle \/ \E s \in Slots : Waiter(s) \/ Helper(s)
WakesNext == Always \/ (\E t \in Resetters \cup Wakers : Reset(t)) \/ \E w \in Wakers : Wake(w)
PagesNext == Always \/ WorkerRun \/ \E g \in Panels : Reset(g) \/ Panel(g)

GroupNext ==
    /\ \/ group = "wakes" /\ WakesNext /\ UNCHANGED tries
       \/ group = "pages" /\ PagesNext /\ CountTries
    /\ UNCHANGED group

GroupSpec == GroupInit /\ [][GroupNext]_groupVars

WakerSymmetry == Permutations(Wakers)

=============================================================================
