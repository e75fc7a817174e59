--------------------------- MODULE MCPcbleServed ---------------------------
(***************************************************************************)
(* What the two ends of the control socket owe: the recovery of the        *)
(* desktop, and the backend with one request in the air.  A behaviour is   *)
(* one of one side while the other stays as it starts.                     *)
(***************************************************************************)
EXTENDS PcbleRecovery, PcbleBackend

VARIABLE side

servedVars == <<vars, backendVars, side>>

Desktop(A) == side = "desktop" /\ A /\ UNCHANGED <<backendVars, side>>
Backend(A) == side = "backend" /\ A /\ UNCHANGED <<vars, side>>

\* The settings of the adapter are those it usually has.
ServedInit ==
    /\ Init /\ BackendInit /\ side \in {"desktop", "backend"}
    /\ \A key \in Keys : ~found[key]
    /\ side = "desktop" => keyed = {} /\ ~pairing

ServedNext == Desktop(Next) \/ Backend(BackendNext)

\* The fairness of the side that runs.  The side never changes, so fairness of
\* one action of each is fairness of both.
ServedFairness ==
    /\ SF_servedVars(Desktop(Service))
    /\ SF_servedVars(Desktop(WorkerHears))
    /\ WF_servedVars(Desktop(Settle) \/ Backend(StartNext))
    /\ WF_servedVars(Desktop(WorkerRun) \/ Backend(CleanupNext))
    /\ \A t \in Resetters :
           WF_servedVars(Desktop(pc[t] # "idle" /\ Reset(t)) \/ Backend(HandoffNext))
    /\ \A s \in Slots : /\ WF_servedVars(Desktop(Waiter(s)) \/ Backend(Released))
                        /\ WF_servedVars(Desktop(HelperSettles(s)) \/ Backend(stopAsked /\ Quits))
    /\ \A q \in Clients : WF_servedVars(Backend(ClientGone(q)))

ServedSpec == ServedInit /\ [][ServedNext]_servedVars /\ ServedFairness

=============================================================================
