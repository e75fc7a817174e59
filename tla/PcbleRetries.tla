---------------------------- MODULE PcbleRetries ----------------------------
(***************************************************************************)
(* PcbleRecovery with a history variable: how many recovery helpers have   *)
(* been launched since g_reconnect_attempt was last cleared by a reset, a  *)
(* link-up or a wake.  "Three REAL helper launches" (output_pcble.c) is a  *)
(* statement about this number, not about the counter the code compares.   *)
(***************************************************************************)
EXTENDS PcbleRecovery

VARIABLE tries

varsT == <<vars, tries>>

\* A step that clears the counter for a new recovery (not one that gives up).
Clears ==
    \/ \E t \in Threads : <<pc[t], pc'[t]>> \in {<<"rRequested", "rActive">>,
                                                <<"rAttempt", "rSettle">>}
    \/ pc[Worker] = "wAttempt" /\ pc'[Worker] = "idle"
    \/ \E w \in Wakers : pc[w] = "kAttempt" /\ pc'[w] = "kRunning"

Launches == pc[Main] = "launch" /\ pc'[Main] = "setController"

InitT == Init /\ tries = 0

CountTries == tries' = IF Clears THEN 0 ELSE IF Launches THEN tries + 1 ELSE tries

NextT == Next /\ CountTries

SpecT == InitT /\ [][NextT]_varsT

\* At most three helpers are launched for one recovery, or four when the
\* counter was cleared under a launch already counted; neither the waiter
\* that re-arms the request nor the failed launches stretch the series, as
\* long as no helper is launched before the last one's waiter is through.
RetriesBounded == tries <= MaxAttempts + 1

=============================================================================
