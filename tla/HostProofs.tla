----------------------------- MODULE HostProofs -----------------------------
(***************************************************************************)
(* What the supervisor of the local pad (PadSupervisor), the console's     *)
(* picture chain (ConsoleChain) and the pad's own encode (PadPicture)      *)
(* guarantee; and that the host (MCHost) is one of its components at a     *)
(* time: every behaviour of it is a behaviour of each of them, so that     *)
(* what is proved of a component alone holds in the host.                  *)
(***************************************************************************)
EXTENDS MCHost, DeviceProofs, ServerProofs

----------------------------------------------------------------------------
(* The supervisor of the local pad: one program, no start awaited after a stop. *)

\* While no start came in the middle of a stop, the pad knows its only program,
\* and a pad that was asked to stop has no start planned and waits for its end.
PadInv ==
    /\ SupervisorTypeOK
    /\ raced \/ /\ \A p \in Pids : child[p] # "none" => p = wiiuPad.pid
                /\ gtkAt = "freeing" => wiiuPad.pid = 0
    /\ (lastAsk = "stop" /\ HasPad /\ gtkAt = "idle") =>
           ~wiiuPad.due /\ ~wiiuPad.again /\ (wiiuPad.pid = 0 \/ wiiuPad.asked)

PadRecord == [built : BOOLEAN, pid : Pids \cup {0}, asked : BOOLEAN,
              again : BOOLEAN, due : BOOLEAN, status : {"off", "ok"} \cup Failures]
Children == [Pids -> {"none", "runs", "told"} \cup Endings]

\* The program the pad knows is the only one that is there.
Known(w, kids) == \A p \in Pids : kids[p] # "none" => p = w.pid

\* A start that a stop left behind.
NoStart(w) == ~w.due /\ ~w.again /\ (w.pid = 0 \/ w.asked)

LEMMA PadStarts == SupervisorInit => PadInv
<1> SUFFICES ASSUME SupervisorInit PROVE PadInv
    OBVIOUS
<1>1. wiiuPad \in {NoPad} \cup {[NoPad EXCEPT !.built = TRUE, !.pid = p, !.status = "ok"] : p \in Pids}
  BY DEF SupervisorInit
<1>2. wiiuPad \in PadRecord
  <2>1. NoPad \in PadRecord
    BY DEF PadRecord, NoPad
  <2>2. \A p \in Pids : [NoPad EXCEPT !.built = TRUE, !.pid = p, !.status = "ok"] \in PadRecord
    BY DEF PadRecord, NoPad
  <2> QED BY <1>1, <2>1, <2>2
<1>3. lastAsk = "stop" => wiiuPad.pid = 0
  <2>1. (wiiuPad.pid > 0) <=> (enabled /\ native)
    BY DEF SupervisorInit
  <2>0. lastAsk = (IF enabled /\ native THEN "start" ELSE "stop")
    BY DEF SupervisorInit
  <2>2. wiiuPad.pid \in Pids \cup {0}
    BY <1>2 DEF PadRecord
  <2>3. CASE enabled /\ native
    BY <2>0, <2>3
  <2>4. CASE ~(enabled /\ native)
    <3>1. ~(wiiuPad.pid > 0)
      BY <2>1, <2>4
    <3>2. wiiuPad.pid \in Nat
      <4>1. \A p \in Pids : p \in Nat
        BY PidsAssumption
      <4> QED BY <2>2, <4>1
    <3>3. wiiuPad.pid = 0
      BY <3>1, <3>2
    <3> QED BY <3>3
  <2> QED BY <2>3, <2>4
<1>4. wiiuPad.pid = 0 => wiiuPad = NoPad
  BY <1>1, PidsAssumption DEF NoPad
<1>5. child = [p \in Pids |-> IF p = wiiuPad.pid THEN "runs" ELSE "none"]
  BY DEF SupervisorInit
<1>6. child \in Children /\ Known(wiiuPad, child)
  BY <1>5 DEF Children, Known
<1>7. SupervisorTypeOK
  BY <1>2, <1>6 DEF SupervisorInit, SupervisorTypeOK, PadRecord, Children
<1> QED BY <1>3, <1>4, <1>6, <1>7 DEF PadInv, SupervisorInit, HasPad, Known


\* What a start leaves of the pad w and the children kids.
LEMMA SpawnLeaves ==
    ASSUME NEW w \in PadRecord, NEW kids \in Children, Spawn(w, kids)
    PROVE  /\ wiiuPad' \in PadRecord /\ child' \in Children
           /\ wiiuPad'.due = w.due /\ wiiuPad'.again = w.again /\ wiiuPad'.asked = w.asked
           /\ wiiuPad'.pid = w.pid \/ \E p \in Pids : kids[p] = "none" /\ child'[p] = "runs"
           /\ w.pid = 0 /\ Known(w, kids) => Known(wiiuPad', child')
<1>1. CASE wiiuPad' = [w EXCEPT !.status = "could not start it"] /\ child' = kids
  BY <1>1 DEF PadRecord, Known, Failures
<1>2. ASSUME NEW p \in Pids, kids[p] = "none", wiiuPad' = [w EXCEPT !.pid = p, !.status = "ok"],
             child' = [kids EXCEPT ![p] = "runs"]
      PROVE  /\ wiiuPad' \in PadRecord /\ child' \in Children
             /\ wiiuPad'.due = w.due /\ wiiuPad'.again = w.again /\ wiiuPad'.asked = w.asked
             /\ kids[p] = "none" /\ child'[p] = "runs"
             /\ w.pid = 0 /\ Known(w, kids) => Known(wiiuPad', child')
  <2>1. wiiuPad' \in PadRecord /\ wiiuPad'.pid = p
    BY <1>2 DEF PadRecord
  <2>2. child' \in Children /\ child'[p] = "runs"
    BY <1>2 DEF Children
  <2>3. ASSUME w.pid = 0, Known(w, kids) PROVE Known(wiiuPad', child')
    <3>1. \A q \in Pids : kids[q] = "none"
      <4>1. \A q \in Pids : q # 0
        BY PidsAssumption
      <4> QED BY <2>3, <4>1 DEF Known
    <3> QED BY <1>2, <2>1, <3>1 DEF Known, Children
  <2> QED BY <1>2, <2>1, <2>2, <2>3 DEF PadRecord
<1> QED BY <1>1, <1>2 DEF Spawn

\* What the main loop owes after a step of its own, its start apart.
Started == \E p \in Pids : child[p] = "none" /\ child'[p] = "runs"
Owed == /\ wiiuPad' \in PadRecord /\ child' \in Children
        /\ raced \/ /\ Known(wiiuPad', child')
                    /\ gtkAt = "freeing" => wiiuPad'.pid = 0 \/ Started

LEMMA InvSays ==
    ASSUME PadInv
    PROVE  /\ wiiuPad \in PadRecord /\ child \in Children
           /\ raced \/ (Known(wiiuPad, child) /\ (gtkAt = "freeing" => wiiuPad.pid = 0))
           /\ wiiuPad.pid \in Nat /\ (wiiuPad.pid > 0 <=> wiiuPad.pid \in Pids)
           /\ wiiuPad.pid = 0 \/ HasPad
<1>1. wiiuPad \in PadRecord /\ child \in Children
  BY DEF PadInv, SupervisorTypeOK, PadRecord, Children
<1>2. wiiuPad.pid \in Pids \cup {0}
  BY <1>1 DEF PadRecord
<1>3. \A p \in Pids : p \in Nat /\ p > 0
  BY PidsAssumption
<1>4. wiiuPad.pid = 0 \/ HasPad
  BY DEF HasPad, NoPad
<1>5. wiiuPad.pid \in Nat /\ (wiiuPad.pid > 0 <=> wiiuPad.pid \in Pids)
  BY <1>2, <1>3
<1>6. raced \/ (Known(wiiuPad, child) /\ (gtkAt = "freeing" => wiiuPad.pid = 0))
  BY DEF PadInv, Known
<1> QED BY <1>1, <1>4, <1>5, <1>6

LEMMA SpawnOwed ==
    ASSUME PadInv, NEW w \in PadRecord, w.pid = 0, wiiuPad.pid = 0, Spawn(w, child)
    PROVE  Owed
<1>1. raced \/ Known(w, child)
  BY InvSays DEF Known
<1> QED BY <1>1, InvSays, SpawnLeaves DEF Owed, Started

LEMMA StopOwed ==
    ASSUME PadInv, StopPad
    PROVE  Owed /\ NoStart(wiiuPad')
<1>1. wiiuPad' = [NotAgain(wiiuPad) EXCEPT !.asked = wiiuPad.asked \/ wiiuPad.pid > 0, !.status = "ok"]
  BY DEF StopPad
<1>2. wiiuPad' \in PadRecord /\ wiiuPad'.pid = wiiuPad.pid
  BY <1>1, InvSays DEF PadRecord, NotAgain
<1>3. NoStart(wiiuPad')
  BY <1>1, InvSays DEF PadRecord, NotAgain, NoStart
<1>4. child' = Tell(wiiuPad.pid) \/ child' = child
  BY DEF StopPad
<1>5. child' \in Children /\ \A p \in Pids : child'[p] # "none" => child[p] # "none"
  BY <1>4, InvSays DEF Tell, Children
<1> QED BY <1>2, <1>3, <1>5, InvSays DEF Owed, Known

LEMMA StartOwed ==
    ASSUME PadInv, StartPad
    PROVE  Owed
<1> DEFINE w == [wiiuPad EXCEPT !.due = FALSE]
<1>1. CASE ~wiiuPad.built /\ UNCHANGED <<wiiuPad, child>>
  BY <1>1, InvSays DEF Owed, Known
<1>2. CASE ~MayFork /\ wiiuPad' = [w EXCEPT !.again = wiiuPad.again \/ wiiuPad.asked] /\ child' = child
  <2>1. wiiuPad' \in PadRecord /\ wiiuPad'.pid = wiiuPad.pid
    BY <1>2, InvSays DEF PadRecord
  <2> QED BY <1>2, <2>1, InvSays DEF Owed, Known
<1>3. CASE MayFork /\ Spawn([w EXCEPT !.asked = FALSE, !.again = FALSE], child)
  <2>1. [w EXCEPT !.asked = FALSE, !.again = FALSE] \in PadRecord
    BY InvSays DEF PadRecord
  <2>2. wiiuPad.pid = 0
    BY <1>3 DEF MayFork
  <2>3. [w EXCEPT !.asked = FALSE, !.again = FALSE].pid = 0
    BY <2>2, InvSays DEF PadRecord
  <2> QED BY <1>3, <2>1, <2>2, <2>3, SpawnOwed
<1> QED BY <1>1, <1>2, <1>3 DEF StartPad

LEMMA RestartOwed ==
    ASSUME PadInv, RestartPad
    PROVE  Owed
<1>1. CASE UNCHANGED <<wiiuPad, child>>
  BY <1>1, InvSays DEF Owed, Known
<1>2. CASE StartPad
  BY <1>2, StartOwed
<1>3. CASE wiiuPad' = [wiiuPad EXCEPT !.due = FALSE, !.again = TRUE, !.asked = TRUE]
           /\ child' = IF wiiuPad.asked THEN child ELSE Tell(wiiuPad.pid)
  <2>1. wiiuPad' \in PadRecord /\ wiiuPad'.pid = wiiuPad.pid
    BY <1>3, InvSays DEF PadRecord
  <2>2. child' \in Children /\ \A p \in Pids : child'[p] # "none" => child[p] # "none"
    BY <1>3, InvSays DEF Tell, Children
  <2> QED BY <2>1, <2>2, InvSays DEF Owed, Known
<1> QED BY <1>1, <1>2, <1>3 DEF RestartPad

LEMMA MakeOwed ==
    ASSUME PadInv, ~HasPad, MakePad
    PROVE  Owed
<1>1. wiiuPad.pid = 0
  BY DEF HasPad, NoPad
<1>2. CASE wiiuPad' = [NoPad EXCEPT !.status = "not built"] /\ child' = child
  <2>1. wiiuPad' \in PadRecord /\ wiiuPad'.pid = 0
    BY <1>2 DEF PadRecord, NoPad, Failures
  <2> QED BY <1>1, <1>2, <2>1, InvSays DEF Owed, Known
<1>3. CASE Spawn([NoPad EXCEPT !.built = TRUE, !.status = "ok"], child)
  <2>1. [NoPad EXCEPT !.built = TRUE, !.status = "ok"] \in PadRecord
        /\ [NoPad EXCEPT !.built = TRUE, !.status = "ok"].pid = 0
    BY DEF PadRecord, NoPad
  <2> QED BY <1>1, <1>3, <2>1, SpawnOwed
<1> QED BY <1>2, <1>3 DEF MakePad

LEMMA ReapOwed ==
    ASSUME PadInv, wiiuPad.pid > 0, Reap
    PROVE  /\ Owed
           /\ wiiuPad.again \/ ~wiiuPad.asked \/ (wiiuPad'.due = wiiuPad.due /\ ~wiiuPad'.again /\ wiiuPad'.pid = 0)
<1> DEFINE w == [wiiuPad EXCEPT !.pid = 0, !.asked = FALSE, !.again = FALSE]
           kids == [child EXCEPT ![wiiuPad.pid] = "none"]
<1>0. wiiuPad.pid \in Pids /\ wiiuPad \in PadRecord /\ child \in Children
      /\ (raced \/ (Known(wiiuPad, child) /\ gtkAt # "freeing"))
  BY InvSays
<1>1. w \in PadRecord /\ w.pid = 0 /\ w.due = wiiuPad.due /\ ~w.again
  BY <1>0 DEF PadRecord
<1>2. kids \in Children /\ (raced \/ \A p \in Pids : kids[p] = "none")
  BY <1>0 DEF Children, Known
<1>3. CASE wiiuPad.asked /\ wiiuPad.again /\ Spawn(w, kids)
  <2>1. raced \/ Known(w, kids)
    BY <1>2 DEF Known
  <2> QED BY <1>0, <1>1, <1>2, <1>3, <2>1, SpawnLeaves DEF Owed
<1>4. CASE wiiuPad.asked /\ ~wiiuPad.again /\ wiiuPad' = [w EXCEPT !.status = "ok"] /\ child' = kids
  <2>1. wiiuPad' \in PadRecord /\ wiiuPad'.pid = 0 /\ wiiuPad'.due = wiiuPad.due /\ ~wiiuPad'.again
    BY <1>1, <1>4 DEF PadRecord
  <2> QED BY <1>0, <1>2, <1>4, <2>1 DEF Owed, Known
<1>5. CASE ~wiiuPad.asked /\ wiiuPad' = [wiiuPad EXCEPT !.pid = 0, !.status = "could not be run"]
           /\ child' = kids
  <2>1. wiiuPad' \in PadRecord
    BY <1>0, <1>5 DEF PadRecord, Failures
  <2> QED BY <1>0, <1>2, <1>5, <2>1 DEF Owed, Known
<1>6. CASE ~wiiuPad.asked /\ wiiuPad' = [wiiuPad EXCEPT !.pid = 0, !.due = TRUE, !.status = "ok"]
           /\ child' = kids
  <2>1. wiiuPad' \in PadRecord
    BY <1>0, <1>6 DEF PadRecord
  <2> QED BY <1>0, <1>2, <1>6, <2>1 DEF Owed, Known
<1> QED BY <1>3, <1>4, <1>5, <1>6 DEF Reap

LEMMA PollOwed ==
    ASSUME PadInv, NEW passed \in BOOLEAN, PollPad(passed)
    PROVE  Owed
<1>1. CASE wiiuPad.pid = 0 /\ wiiuPad.due /\ Spawn([wiiuPad EXCEPT !.due = FALSE], child)
  <2>1. [wiiuPad EXCEPT !.due = FALSE] \in PadRecord /\ [wiiuPad EXCEPT !.due = FALSE].pid = 0
    BY <1>1, InvSays DEF PadRecord
  <2> QED BY <1>1, <2>1, SpawnOwed
<1>2. CASE UNCHANGED <<wiiuPad, child>>
  BY <1>2, InvSays DEF Owed, Known
<1>3. CASE wiiuPad.pid > 0 /\ Reap
  BY <1>3, ReapOwed
<1>4. CASE wiiuPad' = wiiuPad /\ child' = ForceEnd(wiiuPad.pid)
  <2>1. CASE wiiuPad.pid \in Alive
    <3>1. child' = [child EXCEPT ![wiiuPad.pid] = "exited"] /\ child[wiiuPad.pid] # "none"
      BY <1>4, <2>1 DEF ForceEnd, Alive
    <3>2. child' \in Children /\ \A p \in Pids : child'[p] # "none" => child[p] # "none"
      BY <3>1, InvSays DEF Children, Endings
    <3>3. wiiuPad' \in PadRecord /\ wiiuPad'.pid = wiiuPad.pid
      BY <1>4, InvSays
    <3> QED BY <3>2, <3>3, InvSays DEF Owed, Known
  <2>2. CASE wiiuPad.pid \notin Alive
    <3>1. UNCHANGED <<wiiuPad, child>>
      BY <1>4, <2>2 DEF ForceEnd
    <3> QED BY <1>2, <3>1
  <2> QED BY <2>1, <2>2
<1>5. \/ wiiuPad.pid = 0 /\ wiiuPad.due /\ Spawn([wiiuPad EXCEPT !.due = FALSE], child)
      \/ UNCHANGED <<wiiuPad, child>>
      \/ wiiuPad.pid > 0 /\ Reap
      \/ wiiuPad' = wiiuPad /\ child' = ForceEnd(wiiuPad.pid)
  BY DEF PollPad
<1> QED BY <1>1, <1>2, <1>3, <1>4, <1>5

LEMMA RequestOwed ==
    ASSUME PadInv, ProcessRequest
    PROVE  Owed
<1>1. CASE UNCHANGED <<wiiuPad, child>>
  BY <1>1, InvSays DEF Owed, Known
<1>2. ASSUME NEW byStart \in BOOLEAN, Want(byStart) PROVE Owed
  BY <1>1, <1>2, StartOwed, RestartOwed, MakeOwed DEF Want
<1>3. CASE StopPad
  BY <1>3, StopOwed
<1> QED BY <1>1, <1>2, <1>3 DEF ProcessRequest

\* With its start seen as a race, the main loop keeps the invariant's first parts.
LEMMA OwedKeeps ==
    ASSUME PadInv, Owed, Races, gtkAt' = gtkAt
    PROVE  /\ wiiuPad' \in PadRecord /\ child' \in Children /\ raced' \in BOOLEAN
           /\ raced' \/ (Known(wiiuPad', child') /\ (gtkAt' = "freeing" => wiiuPad'.pid = 0))
<1>1. raced' \in BOOLEAN
  BY DEF Races
<1>2. CASE raced
  BY <1>1, <1>2 DEF Races, Owed
<1>3. CASE ~raced /\ gtkAt = "freeing" /\ Started
  BY <1>1, <1>3 DEF Races, Owed, Started
<1>4. CASE ~raced /\ ~(gtkAt = "freeing" /\ Started)
  BY <1>1, <1>4 DEF Races, Owed
<1> QED BY <1>2, <1>3, <1>4

\* Every step of the main loop, the settings window and the programs keeps the
\* invariant.
LEMMA PadKept == PadInv /\ [SupervisorNext]_supervisorVars => PadInv'
<1> SUFFICES ASSUME PadInv, [SupervisorNext]_supervisorVars PROVE PadInv'
    OBVIOUS
<1> DEFINE Types == /\ padRequest' \in {"none", "enable", "disable", "restart", "stop"}
                    /\ enabled' \in BOOLEAN /\ native' \in BOOLEAN
                    /\ mainAt' \in {"poll", "request"}
                    /\ gtkAt' \in {"idle", "waiting", "freeing"}
                    /\ lastAsk' \in {"start", "stop"}
           Pad == /\ wiiuPad' \in PadRecord /\ child' \in Children /\ raced' \in BOOLEAN
                  /\ raced' \/ (Known(wiiuPad', child') /\ (gtkAt' = "freeing" => wiiuPad'.pid = 0))
           Stop == (lastAsk' = "stop" /\ HasPad' /\ gtkAt' = "idle") => NoStart(wiiuPad')
<1>s. ASSUME Types, Pad, Stop PROVE PadInv'
  BY <1>s DEF PadInv, SupervisorTypeOK, PadRecord, Children, Known, NoStart
<1>t. /\ padRequest \in {"none", "enable", "disable", "restart", "stop"}
      /\ enabled \in BOOLEAN /\ native \in BOOLEAN /\ mainAt \in {"poll", "request"}
      /\ gtkAt \in {"idle", "waiting", "freeing"} /\ lastAsk \in {"start", "stop"} /\ raced \in BOOLEAN
  BY DEF PadInv, SupervisorTypeOK
<1>q. lastAsk = "stop" /\ HasPad /\ gtkAt = "idle" => NoStart(wiiuPad)
  BY DEF PadInv, NoStart
<1> HIDE DEF Types, Pad, Stop
<1>1. ASSUME NEW passed \in BOOLEAN, PollPad(passed) PROVE PadInv'
  <2>1. UNCHANGED <<padRequest, enabled, native, gtkAt, lastAsk>> /\ mainAt' = "request" /\ Races
    BY <1>1 DEF PollPad
  <2>2. Types
    BY <1>t, <2>1 DEF Types
  <2>3. Pad
    BY <1>1, <2>1, PollOwed, OwedKeeps DEF Pad
  <2>4. Stop
    <3>1. SUFFICES ASSUME lastAsk = "stop", HasPad', gtkAt = "idle" PROVE NoStart(wiiuPad')
      BY <2>1 DEF Stop
    <3>2. CASE HasPad
      <4>1. NoStart(wiiuPad)
        BY <1>q, <3>1, <3>2
      <4>2. CASE UNCHANGED wiiuPad
        BY <4>1, <4>2
      <4>3. CASE wiiuPad.pid > 0 /\ Reap
        BY <4>1, <4>3, ReapOwed, InvSays DEF NoStart
      <4> QED BY <1>1, <4>1, <4>2, <4>3 DEF PollPad, NoStart
    <3>3. CASE ~HasPad
      <4>1. wiiuPad.pid = 0 /\ ~wiiuPad.due
        BY <3>3 DEF HasPad, NoPad
      <4>2. UNCHANGED wiiuPad
        BY <1>1, <4>1 DEF PollPad
      <4> QED BY <3>1, <3>3, <4>2 DEF HasPad, NoPad
    <3> QED BY <3>2, <3>3
  <2> QED BY <1>s, <2>2, <2>3, <2>4
<1>2. CASE ProcessRequest
  <2>1. UNCHANGED <<enabled, native, gtkAt>> /\ mainAt' = "poll" /\ padRequest' = "none" /\ Races
    BY <1>2 DEF ProcessRequest
  <2>2. lastAsk' \in {"start", "stop"}
    BY <1>2, <1>t DEF ProcessRequest, Want
  <2>3. Types
    BY <1>t, <2>1, <2>2 DEF Types
  <2>4. Pad
    BY <1>2, <2>1, RequestOwed, OwedKeeps DEF Pad
  <2>5. Stop
    <3>1. CASE lastAsk' = "start"
      BY <3>1 DEF Stop
    <3>2. CASE UNCHANGED <<wiiuPad, lastAsk>>
      BY <1>q, <2>1, <3>2 DEF Stop, HasPad, NoPad
    <3>3. CASE StopPad
      BY <3>3, StopOwed DEF Stop
    <3>4. CASE ~HasPad /\ UNCHANGED wiiuPad
      BY <3>4 DEF Stop, HasPad, NoPad
    <3> QED BY <1>2, <3>1, <3>2, <3>3, <3>4 DEF ProcessRequest, Want
  <2> QED BY <1>s, <2>3, <2>4, <2>5
<1>3. ASSUME NEW b \in {"restart", "stop"}, Press(b) PROVE PadInv'
  <2>1. UNCHANGED <<enabled, native, wiiuPad, child, mainAt, gtkAt, lastAsk, raced>> /\ padRequest' = b
    BY <1>3 DEF Press
  <2>2. Types
    BY <1>t, <2>1 DEF Types
  <2>3. Pad /\ Stop
    BY <1>t, <1>q, <2>1, InvSays DEF Pad, Stop, Known, HasPad, NoPad
  <2> QED BY <1>s, <2>2, <2>3
<1>4. ASSUME NEW on \in BOOLEAN, OnSettings(on) PROVE PadInv'
  <2>1. UNCHANGED <<native, wiiuPad, child, mainAt, gtkAt, lastAsk, raced>> /\ enabled' = on
    BY <1>4 DEF OnSettings
  <2>2. padRequest' \in {padRequest, "enable", "disable"}
    BY <1>4 DEF OnSettings
  <2>3. Types
    BY <1>t, <2>1, <2>2 DEF Types
  <2>4. Pad /\ Stop
    BY <1>t, <1>q, <2>1, InvSays DEF Pad, Stop, Known, HasPad, NoPad
  <2> QED BY <1>s, <2>3, <2>4
<1>5. ASSUME NEW on \in BOOLEAN, PortsMoved(on) PROVE PadInv'
  <2>1. UNCHANGED <<enabled, mainAt, lastAsk, raced>> /\ native' = on
    BY <1>5 DEF PortsMoved
  <2>2. padRequest' \in {padRequest, "enable"}
    BY <1>5 DEF PortsMoved
  <2>3. gtkAt' \in {"idle", "waiting", "freeing"}
    BY <1>5, <1>t DEF PortsMoved
  <2>4. Types
    BY <1>t, <2>1, <2>2, <2>3 DEF Types
  <2>5. CASE HasPad /\ gtkAt' = "waiting" /\ StopPad
    <3>1. Owed /\ NoStart(wiiuPad')
      BY <2>5, StopOwed
    <3>2. gtkAt = "idle"
      BY <1>5 DEF PortsMoved
    <3> QED BY <1>s, <1>t, <2>1, <2>4, <2>5, <3>1, <3>2 DEF Pad, Stop, Owed
  <2>6. CASE wiiuPad.pid = 0 /\ gtkAt' = "freeing" /\ UNCHANGED <<wiiuPad, child>>
    BY <1>s, <1>t, <2>1, <2>4, <2>6, InvSays DEF Pad, Stop, Known
  <2>7. CASE UNCHANGED <<wiiuPad, child, gtkAt>>
    <3>1. Pad /\ Stop
      BY <1>t, <1>q, <2>1, <2>7, InvSays DEF Pad, Stop, Known, HasPad, NoPad
    <3> QED BY <1>s, <2>4, <3>1
  <2> QED BY <1>5, <2>5, <2>6, <2>7 DEF PortsMoved
<1>6. ASSUME NEW passed \in BOOLEAN, StopWaits(passed) PROVE PadInv'
  <2>1. UNCHANGED <<padRequest, enabled, native, mainAt, lastAsk, raced>> /\ gtkAt' = "freeing"
    BY <1>6 DEF StopWaits
  <2>2. Types
    BY <1>t, <2>1 DEF Types
  <2>3. wiiuPad' \in PadRecord /\ wiiuPad'.pid = 0
    BY <1>6, InvSays DEF StopWaits, PadRecord
  <2>4. child' = IF wiiuPad.pid > 0 THEN [child EXCEPT ![wiiuPad.pid] = "none"] ELSE child
    BY <1>6 DEF StopWaits
  <2>5. child' \in Children
    BY <2>4, InvSays DEF Children
  <2>6. raced \/ \A p \in Pids : child'[p] = "none"
    <3>1. CASE wiiuPad.pid > 0
      BY <2>4, <3>1, InvSays DEF Children, Known
    <3>2. CASE wiiuPad.pid = 0
      <4>1. \A p \in Pids : p # 0
        BY PidsAssumption
      <4> QED BY <2>4, <3>2, <4>1, InvSays DEF Known
    <3> QED BY <3>1, <3>2, InvSays
  <2> QED BY <1>s, <1>t, <2>1, <2>2, <2>3, <2>5, <2>6 DEF Pad, Stop, Known
<1>7. CASE FreePad
  <2>1. UNCHANGED <<enabled, native, child, mainAt, raced>> /\ gtkAt' = "idle" /\ gtkAt = "freeing"
        /\ wiiuPad' = NoPad /\ lastAsk' = "stop"
    BY <1>7 DEF FreePad
  <2>2. padRequest' \in {padRequest, "enable"}
    BY <1>7 DEF FreePad
  <2>3. Types
    BY <1>t, <2>1, <2>2 DEF Types
  <2>4. NoPad \in PadRecord /\ NoPad.pid = 0
    BY DEF PadRecord, NoPad
  <2>5. Pad
    BY <1>t, <2>1, <2>4, InvSays DEF Pad, Known
  <2>6. Stop
    BY <2>1 DEF Stop, HasPad, NoPad
  <2> QED BY <1>s, <2>3, <2>5, <2>6
<1>8. ASSUME NEW p \in Pids, ChildEnds(p) PROVE PadInv'
  <2>1. UNCHANGED <<padRequest, enabled, native, wiiuPad, mainAt, gtkAt, lastAsk, raced>>
    BY <1>8 DEF ChildEnds
  <2>2. Types
    BY <1>t, <2>1 DEF Types
  <2>3. child' \in Children /\ \A q \in Pids : child'[q] # "none" => child[q] # "none"
    BY <1>8, InvSays DEF ChildEnds, Alive, Children
  <2>4. Pad /\ Stop
    BY <1>t, <1>q, <2>1, <2>3, InvSays DEF Pad, Stop, Known, HasPad, NoPad
  <2> QED BY <1>s, <2>2, <2>4
<1>9. CASE UNCHANGED supervisorVars
  <2>1. UNCHANGED <<padRequest, enabled, native, wiiuPad, child, mainAt, gtkAt, lastAsk, raced>>
    BY <1>9 DEF supervisorVars
  <2>2. Types
    BY <1>t, <2>1 DEF Types
  <2>3. Pad /\ Stop
    BY <1>t, <1>q, <2>1, InvSays DEF Pad, Stop, Known, HasPad, NoPad
  <2> QED BY <1>s, <2>2, <2>3
<1> QED BY <1>1, <1>2, <1>3, <1>4, <1>5, <1>6, <1>7, <1>8, <1>9 DEF SupervisorNext, MainLoop, Gtk

\* The same without the fairness, as the composition needs it.
LEMMA PadStaysOne ==
    SupervisorInit /\ [][SupervisorNext]_supervisorVars
        => [](SupervisorTypeOK /\ OneChild /\ AskedToStop)
<1>1. PadInv => SupervisorTypeOK /\ AskedToStop
  BY DEF PadInv, AskedToStop
<1>2. PadInv => OneChild
  <2> SUFFICES ASSUME PadInv, ~raced PROVE Cardinality(Alive) <= 1
      BY DEF OneChild
  <2>1. Alive \subseteq {wiiuPad.pid}
    BY InvSays DEF Known, Alive
  <2>2. IsFiniteSet({wiiuPad.pid}) /\ Cardinality({wiiuPad.pid}) = 1
    BY FS_Singleton
  <2>3. Cardinality(Alive) <= Cardinality({wiiuPad.pid})
    BY <2>1, <2>2, FS_Subset
  <2> QED BY <2>2, <2>3
<1> QED BY <1>1, <1>2, PadStarts, PadKept, PTL

\* Whatever is asked of the pad, and whoever asks in the middle of a stop
\* (raced): its program is the only one, and after a stop no start is planned.
THEOREM OnePad == SupervisorSpec => [](SupervisorTypeOK /\ OneChild /\ AskedToStop)
BY PadStaysOne, PTL DEF SupervisorSpec

----------------------------------------------------------------------------
(* The console's chain, and the pad's offer and demand. *)

\* What the pad's offer and demand follow, whatever the two sides do.
LEMMA OfferStarts == PadPictureInit => OfferIsHonest
BY DEF PadPictureInit, OfferIsHonest

LEMMA OfferKept == OfferIsHonest /\ [PadPictureNext]_padPictureVars => OfferIsHonest'
<1> SUFFICES ASSUME OfferIsHonest, [PadPictureNext]_padPictureVars PROVE OfferIsHonest'
    OBVIOUS
<1> USE DEF OfferIsHonest, drcVars, Wants
<1>1. CASE HostChanges
  BY <1>1 DEF HostChanges
<1>2. ASSUME NEW hears \in BOOLEAN, HostHears(hears) PROVE OfferIsHonest'
  BY <1>2 DEF HostHears
<1>3. ASSUME NEW restarts \in BOOLEAN, NEW arrives \in BOOLEAN, PushDrc(restarts, arrives)
      PROVE OfferIsHonest'
  <2>1. UNCHANGED <<drcAllowed, drcAvailable, drcWanted>> /\ drcEnc # "none"
    BY <1>3 DEF PushDrc
  <2>2. drcEnc' = IF DrcIdr THEN Restarted(restarts) ELSE drcEnc
    BY <1>3 DEF PushDrc
  <2>3. drcEnc' # "none"
    BY <2>1, <2>2 DEF Restarted
  <2> QED BY <2>1, <2>3
<1>4. ASSUME NEW arrives \in BOOLEAN, PushDrcH264(arrives) PROVE OfferIsHonest'
  BY <1>4 DEF PushDrcH264
<1>5. CASE PushSound
  BY <1>5 DEF PushSound
<1>6. CASE DrcTime
  BY <1>6 DEF DrcTime
<1>7. ASSUME NEW on \in BOOLEAN, SetDrcEnabled(on) PROVE OfferIsHonest'
  BY <1>7 DEF SetDrcEnabled, OfferedToPad
<1>8. CASE NewTransport
  BY <1>8 DEF NewTransport, OfferedToPad
<1>9. ASSUME NEW want \in Encodes, NEW ownPort \in BOOLEAN, PadConnects(want, ownPort)
      PROVE OfferIsHonest'
  BY <1>9 DEF PadConnects
<1>10. CASE PadLeaves
  BY <1>10 DEF PadLeaves
<1>11. CASE DeadlinePasses
  BY <1>11 DEF DeadlinePasses
<1>12. ASSUME NEW loses \in BOOLEAN, PadReads(loses) PROVE OfferIsHonest'
  BY <1>12 DEF PadReads
<1>13. CASE UNCHANGED padPictureVars
  BY <1>13 DEF padPictureVars
<1> QED BY <1>1, <1>2, <1>3, <1>4, <1>5, <1>6, <1>7, <1>8, <1>9, <1>10, <1>11, <1>12, <1>13
        DEF PadPictureNext

\* The scaler the chain keeps was made for the source it has, as long as no
\* profile moved the source in the middle of a push.
ChainInv ==
    /\ ConsoleTypeOK
    /\ moved \/ /\ appCaps = source
                /\ scaler # NoScaler => scaler.to = source /\ buffer = source
                /\ pushAt # "idle" => picture.to = source
                /\ pushAt = "built" => scaler = picture

LEMMA ChainStarts == ConsoleInit => ChainInv
<1> SUFFICES ASSUME ConsoleInit PROVE ChainInv
    OBVIOUS
<1> USE DEF ConsoleInit
<1>1. (CHOOSE f \in CaptureFormats : TRUE) \in CaptureFormats
  BY CaptureFormatsAssumption
<1>2. picture \in [to : Heights, format : CaptureFormats]
  BY <1>1 DEF Heights
<1>3. ConsoleTypeOK
  BY <1>2 DEF ConsoleTypeOK, Heights
<1> QED BY <1>3 DEF ChainInv

LEMMA ChainKept == ChainInv /\ [ConsoleNext]_consoleVars => ChainInv'
<1> SUFFICES ASSUME ChainInv, [ConsoleNext]_consoleVars PROVE ChainInv'
    OBVIOUS
<1>1. CASE ConsoleComes \/ ConsoleGoes
  <2>1. watched' \in BOOLEAN /\ wiiuWanted' = watched'
    BY <1>1 DEF ConsoleComes, ConsoleGoes, Demand
  <2>2. UNCHANGED <<source, appCaps, scaler, buffer, pushAt, picture, moved>>
    BY <1>1 DEF ConsoleComes, ConsoleGoes, Demand
  <2> QED BY <2>1, <2>2 DEF ChainInv, ConsoleTypeOK
<1>2. ASSUME NEW height \in {480, 720, 1080}, SetWiiuProfile(height) PROVE ChainInv'
  <2>1. UNCHANGED <<watched, wiiuWanted, buffer, pushAt, picture>> /\ SourceOf(height) \in Heights
    BY <1>2 DEF SetWiiuProfile, SourceOf, Heights
  <2>2. CASE ~wiiuWanted /\ source # SourceOf(height)
    <3>1. /\ source' = SourceOf(height) /\ appCaps' = SourceOf(height) /\ scaler' = NoScaler
          /\ moved' = (moved \/ pushAt # "idle")
      BY <1>2, <2>2 DEF SetWiiuProfile, AfterMove
    <3>2. ConsoleTypeOK'
      BY <2>1, <3>1 DEF ChainInv, ConsoleTypeOK
    <3>3. moved' \/ pushAt' = "idle"
      BY <2>1, <3>1 DEF ChainInv, ConsoleTypeOK
    <3>4. CASE moved'
      BY <3>2, <3>4 DEF ChainInv
    <3>5. CASE pushAt' = "idle"
      BY <3>1, <3>2, <3>5 DEF ChainInv, NoScaler
    <3> QED BY <3>3, <3>4, <3>5
  <2>3. CASE ~(~wiiuWanted /\ source # SourceOf(height))
    <3>1. UNCHANGED <<source, appCaps, scaler, moved>>
      <4>1. moved \in BOOLEAN
        BY DEF ChainInv, ConsoleTypeOK
      <4> QED BY <1>2, <2>3, <4>1 DEF SetWiiuProfile, AfterMove
    <3> QED BY <2>1, <3>1 DEF ChainInv, ConsoleTypeOK
  <2> QED BY <2>2, <2>3
<1>3. CASE PushChooses
  BY <1>3 DEF PushChooses, ChainInv, ConsoleTypeOK
<1>4. CASE PushBuilds
  BY <1>4 DEF PushBuilds, ChainInv, ConsoleTypeOK, Heights, NoScaler
<1>5. CASE PushScales
  BY <1>5 DEF PushScales, ChainInv, ConsoleTypeOK
<1>6. CASE UNCHANGED consoleVars
  BY <1>6 DEF consoleVars, ChainInv, ConsoleTypeOK
<1> QED BY <1>1, <1>2, <1>3, <1>4, <1>5, <1>6 DEF ConsoleNext

\* No picture of the console's chain is scaled by a scaler made for another
\* size, unless a profile moved the source in the middle of a push.
THEOREM ChainFits == ConsoleSpec => [](ConsoleTypeOK /\ PictureFits)
<1>1. ChainInv => ConsoleTypeOK /\ PictureFits
  BY DEF ChainInv, PictureFits, ConsoleTypeOK, NoScaler, Heights
<1> QED BY <1>1, ChainStarts, ChainKept, PTL DEF ConsoleSpec

----------------------------------------------------------------------------
(* The pad's picture: the types of what is on its way. *)

ToHost == Seq(Encodes \cup {"key"})

LEMMA PadTypesStart == PadPictureInit => PadPictureTypeOK
<1> SUFFICES ASSUME PadPictureInit PROVE PadPictureTypeOK
    OBVIOUS
<1>1. drcAge \in 0 .. Never
  BY PadPictureAssumption DEF PadPictureInit, Never
<1>2. toHost \in ToHost /\ toPad \in Seq(Wires)
  BY DEF PadPictureInit, ToHost
<1> QED BY <1>1, <1>2 DEF PadPictureInit, PadPictureTypeOK, Encodes, ToHost

LEMMA ShortSeqs ==
    ASSUME NEW S, NEW x \in S
    PROVE  <<x>> \in Seq(S) /\ <<>> \in Seq(S)
OBVIOUS

\* The announcement of a stream, and what the host says of it.
LEMMA Announcements ==
    ASSUME NEW codec, NEW own, NEW may, NEW starts
    PROVE  /\ <<Info(codec, own)>> \in Seq(Wires) /\ Announced(starts) \in Seq(Wires)
           /\ Wants(codec, own, may) \in BOOLEAN /\ Starts(codec, own, may) \in BOOLEAN
<1>1. Info(codec, own) \in Wires
  BY DEF Info, Wires, Infos
<1>2. "info drc" \in Wires
  BY DEF Wires, Infos
<1>3. Announced(starts) \in Seq(Wires)
  <2>1. <<"info drc">> \in Seq(Wires) /\ <<>> \in Seq(Wires)
    BY <1>2, ShortSeqs
  <2>2. Announced(starts) = <<"info drc">> \/ Announced(starts) = <<>>
    BY Zenon DEF Announced
  <2> QED BY <2>1, <2>2
<1> QED BY <1>1, <1>3 DEF Wants, Starts

\* Every step of the host and the pad keeps the types of the pad's picture.
LEMMA PadTypesKept == PadPictureTypeOK /\ [PadPictureNext]_padPictureVars => PadPictureTypeOK'
<1> SUFFICES ASSUME PadPictureTypeOK, [PadPictureNext]_padPictureVars PROVE PadPictureTypeOK'
    OBVIOUS
<1>0. drcAge \in 0 .. Never /\ MinGap \in Nat /\ Never = MinGap + 1
  BY PadPictureAssumption DEF PadPictureTypeOK, Never
<1>h. toHost # <<>> => Head(toHost) \in Encodes \cup {"key"} /\ Tail(toHost) \in ToHost
  BY DEF PadPictureTypeOK, ToHost
<1>p. toPad # <<>> => Head(toPad) \in Wires /\ Tail(toPad) \in Seq(Wires)
  BY DEF PadPictureTypeOK
<1>s. toPad \in Seq(Wires) /\ toHost \in ToHost
  BY DEF PadPictureTypeOK, ToHost
<1>d. \A item \in Wires, arrives \in BOOLEAN : Deliver(item, arrives) => toPad' \in Seq(Wires)
  BY <1>s DEF Deliver
<1>1. CASE HostChanges
  <2>1. UNCHANGED <<drcAllowed, drcEnc, drcAvailable, drcAge, ownDoor, padSideVars, steady>>
    BY <1>1 DEF HostChanges
  <2>2. toHost' \in ToHost
    BY <1>1, <1>h DEF HostChanges
  <2>3. CASE UNCHANGED <<record, toPad, drcAsked, drcWanted>>
    BY <2>1, <2>2, <2>3 DEF PadPictureTypeOK, padSideVars, ToHost
  <2>4. CASE ~UNCHANGED <<record, toPad, drcAsked, drcWanted>>
    <3> DEFINE codec == Head(toHost)
               starts == Starts(codec, ownDoor, drcAllowed)
    <3>1. /\ record' = codec /\ codec \in Encodes /\ drcAsked' = TRUE
          /\ toPad' = toPad \o <<Info(codec, ownDoor)>> \o Announced(starts)
          /\ drcWanted' = Wants(codec, ownDoor, drcAllowed)
      BY <1>1, <2>4 DEF HostChanges
    <3>2. toPad' \in Seq(Wires)
      BY <1>s, <3>1, Announcements
    <3>3. drcWanted' \in BOOLEAN /\ record' \in Encodes
      BY <3>1, Announcements
    <3> QED BY <2>1, <2>2, <3>1, <3>2, <3>3 DEF PadPictureTypeOK, padSideVars, ToHost
  <2> QED BY <2>3, <2>4
<1>2. ASSUME NEW hears \in BOOLEAN, HostHears(hears) PROVE PadPictureTypeOK'
  BY <1>2, <1>h DEF HostHears, PadPictureTypeOK, padSideVars, ToHost
<1>3. ASSUME NEW restarts \in BOOLEAN, NEW arrives \in BOOLEAN, PushDrc(restarts, arrives)
      PROVE PadPictureTypeOK'
  <2>1. UNCHANGED <<drcAllowed, drcAvailable, drcWanted, record, ownDoor, toHost, padSideVars,
                    steady>>
    BY <1>3 DEF PushDrc
  <2>2. drcEnc' \in {"none", "open", "broken"}
    BY <1>3 DEF PushDrc, Restarted, PadPictureTypeOK
  <2>3. drcAsked' \in BOOLEAN
    <3>1. PICK again \in Skips(FiveChunks(drcEnc', arrives)) \cup BOOLEAN : drcAsked' = (AskedAfter \/ again)
      BY <1>3 DEF PushDrc, Skips
    <3> QED BY <3>1 DEF Skips
  <2>4. drcAge' \in 0 .. Never
    BY <1>0, <1>3 DEF PushDrc
  <2>5. toPad' \in Seq(Wires)
    <3>1. {"idr", "wave"} \subseteq Wires /\ FiveChunks(drcEnc', arrives) \in BOOLEAN
      BY DEF Wires, FiveChunks
    <3> QED BY <1>3, <1>d, <3>1 DEF PushDrc
  <2> QED BY <2>1, <2>2, <2>3, <2>4, <2>5 DEF PadPictureTypeOK, padSideVars
<1>4. ASSUME NEW arrives \in BOOLEAN, PushDrcH264(arrives) PROVE PadPictureTypeOK'
  <2>1. UNCHANGED <<drcAllowed, drcEnc, drcAvailable, drcWanted, drcAge, record, ownDoor, toHost,
                    padSideVars, steady>>
    BY <1>4 DEF PushDrcH264
  <2>2. drcAsked' \in BOOLEAN
    BY <1>4 DEF PushDrcH264, Skips
  <2>3. toPad' \in Seq(Wires)
    <3>1. "h264" \in Wires
      BY DEF Wires
    <3> QED BY <1>4, <1>d, <3>1 DEF PushDrcH264
  <2> QED BY <2>1, <2>2, <2>3 DEF PadPictureTypeOK, padSideVars
<1>5. CASE PushSound
  <2>1. "audio" \in Wires
    BY DEF Wires
  <2>2. toPad' \in Seq(Wires)
    BY <1>5, <1>s, <2>1 DEF PushSound
  <2> QED BY <1>5, <2>2 DEF PushSound, PadPictureTypeOK, padSideVars, drcVars
<1>6. CASE DrcTime
  <2>1. drcAge' \in 0 .. Never
    BY <1>0, <1>6 DEF DrcTime
  <2> QED BY <1>6, <2>1 DEF DrcTime, PadPictureTypeOK, padSideVars
<1>7. ASSUME NEW on \in BOOLEAN, SetDrcEnabled(on) PROVE PadPictureTypeOK'
  <2>1. UNCHANGED <<drcAge, record, ownDoor, toHost, padSideVars>> /\ drcAllowed' = on /\ steady' = FALSE
    BY <1>7 DEF SetDrcEnabled
  <2>2. drcEnc' \in {"none", "open", "broken"}
    BY <1>7 DEF SetDrcEnabled, OpensEncoder
  <2>3. drcAvailable' \in BOOLEAN
    BY <1>7 DEF SetDrcEnabled, OfferedToPad
  <2>4. drcWanted' \in BOOLEAN
    BY <1>7, Announcements DEF SetDrcEnabled
  <2>5. drcAsked' \in BOOLEAN
    BY <1>7 DEF SetDrcEnabled
  <2>6. toPad' \in Seq(Wires)
    BY <1>7, <1>s, Announcements DEF SetDrcEnabled
  <2> QED BY <2>1, <2>2, <2>3, <2>4, <2>5, <2>6 DEF PadPictureTypeOK, padSideVars
<1>8. CASE NewTransport
  <2>1. /\ UNCHANGED <<drcAllowed, drcEnc, drcAsked, drcAge, ownDoor, padSideVars, steady>>
        /\ record' = "none" /\ drcWanted' = FALSE /\ toHost' = <<>> /\ toPad' = <<>>
    BY <1>8 DEF NewTransport
  <2>2. drcAvailable' \in BOOLEAN
    BY <1>8 DEF NewTransport, OfferedToPad
  <2>3. toHost' \in ToHost /\ toPad' \in Seq(Wires)
    BY <2>1 DEF ToHost
  <2> QED BY <2>1, <2>2, <2>3 DEF PadPictureTypeOK, padSideVars, ToHost
<1>9. ASSUME NEW want \in Encodes, NEW ownPort \in BOOLEAN, PadConnects(want, ownPort)
      PROVE PadPictureTypeOK'
  <2>1. /\ UNCHANGED <<drcAllowed, drcEnc, drcAvailable, drcAge>> /\ wantCodec' = want
        /\ confirmed' = FALSE /\ late' = FALSE /\ lostTrack' = TRUE /\ ownDoor' = ownPort
        /\ steady' = drcAllowed
    BY <1>9 DEF PadConnects
  <2>2. record' \in Encodes
    BY <1>9 DEF PadConnects, Encodes
  <2>3. drcWanted' \in BOOLEAN
    BY <1>9, Announcements DEF PadConnects
  <2>4. drcAsked' \in BOOLEAN
    BY <1>9 DEF PadConnects
  <2>5. toPad' \in Seq(Wires)
    <3>1. toPad' = <<Info(record', ownPort)>> \o Announced(Starts(record', ownPort, drcAllowed))
      BY <1>9 DEF PadConnects
    <3>2. /\ <<Info(record', ownPort)>> \in Seq(Wires)
          /\ Announced(Starts(record', ownPort, drcAllowed)) \in Seq(Wires)
      BY Announcements
    <3> QED BY <3>1, <3>2
  <2>6. toHost' \in ToHost
    <3>1. toHost' = IF ownPort THEN <<>> ELSE <<want>>
      BY <1>9 DEF PadConnects
    <3>2. <<>> \in ToHost /\ <<want>> \in ToHost
      BY DEF ToHost
    <3> QED BY <3>1, <3>2
  <2> QED BY <2>1, <2>2, <2>3, <2>4, <2>5, <2>6 DEF PadPictureTypeOK, ToHost
<1>10. CASE PadLeaves
  <2>1. toHost' \in ToHost /\ toPad' \in Seq(Wires)
    BY <1>10 DEF PadLeaves, ToHost
  <2> QED BY <1>10, <2>1 DEF PadLeaves, PadPictureTypeOK, padSideVars, ToHost
<1>11. CASE DeadlinePasses
  BY <1>11 DEF DeadlinePasses, PadPictureTypeOK, drcVars
<1>12. ASSUME NEW loses \in BOOLEAN, PadReads(loses) PROVE PadPictureTypeOK'
  <2> DEFINE message == Head(toPad)
             gives == ~confirmed /\ wantCodec = "drc" /\ late
             want == IF gives THEN "h264" ELSE wantCodec
             again == message \in Infos /\ message # (IF want = "drc" THEN "info drc" ELSE "info h264")
             gone == (lostTrack /\ ~Follows(want, message)) \/ loses
  <2>1. UNCHANGED <<drcVars, record, ownDoor, late, steady>>
    BY <1>12 DEF PadReads
  <2>2. toPad' \in Seq(Wires)
    BY <1>12, <1>p DEF PadReads
  <2>3. wantCodec' = want
    BY <1>12 DEF PadReads
  <2>4. want \in Encodes
    BY DEF PadPictureTypeOK, Encodes
  <2>5. confirmed' \in BOOLEAN /\ lostTrack' \in BOOLEAN
    BY <1>12 DEF PadReads
  <2>6. toHost' = toHost \o (IF gives THEN <<"h264">> ELSE <<>>)
                         \o (IF again THEN <<want>> ELSE <<>>)
                         \o (IF want = "drc" /\ gone THEN <<"key">> ELSE <<>>)
    BY <1>12 DEF PadReads
  <2>7. /\ (IF gives THEN <<"h264">> ELSE <<>>) \in ToHost
        /\ (IF again THEN <<want>> ELSE <<>>) \in ToHost
        /\ (IF want = "drc" /\ gone THEN <<"key">> ELSE <<>>) \in ToHost
    <3> HIDE DEF gives, again, gone, want
    <3>1. <<>> \in ToHost /\ <<"h264">> \in ToHost /\ <<"key">> \in ToHost
      BY DEF ToHost, Encodes
    <3>2. <<want>> \in ToHost
      BY <2>4 DEF ToHost
    <3> QED BY <3>1, <3>2
  <2>8. toHost' \in ToHost
    <3>1. \A q, r \in ToHost : q \o r \in ToHost
      BY DEF ToHost
    <3> HIDE DEF gives, again, gone, want
    <3> QED BY <1>s, <2>6, <2>7, <3>1
  <2> QED BY <2>1, <2>2, <2>3, <2>4, <2>5, <2>8 DEF PadPictureTypeOK, drcVars, ToHost
<1>13. CASE UNCHANGED padPictureVars
  BY <1>13 DEF padPictureVars, padSideVars, drcVars, PadPictureTypeOK
<1> QED BY <1>1, <1>2, <1>3, <1>4, <1>5, <1>6, <1>7, <1>8, <1>9, <1>10, <1>11, <1>12, <1>13
        DEF PadPictureNext

\* The pad's own encode is offered exactly when it may be and can be, whatever
\* the settings, the transport and the messages on their way do.
THEOREM PadIsOfferedOnly == PadPictureSpec => [](PadPictureTypeOK /\ OfferIsHonest)
BY PadTypesStart, PadTypesKept, OfferStarts, OfferKept, PTL DEF PadPictureSpec

----------------------------------------------------------------------------
(* The host implements every one of its components. *)

\* The first state of the host is a first state of each component.
LEMMA HostStarts ==
    Init => /\ TitanInit /\ NativeInit /\ RtcInit /\ WebInit /\ WakeInit /\ DeviceInit
            /\ BackendInit /\ SupervisorInit /\ ConsoleInit /\ PaceInit /\ AudioInit /\ PadPictureInit
BY DEF Init

\* A step of the host is a step of each component or leaves it alone.
LEMMA HostStepsOutputs ==
    [Next]_hostVars => /\ [TitanNext]_titanVars /\ [WakeNext]_wakeVars /\ [BackendNext]_backendVars
BY DEF Next, hostVars, notTitan, notNative, notRtc, notWeb, notWake, notDevice, notBackend,
       notSupervisor, notConsole, notPace, notAudio, notPadPicture

LEMMA HostStepsServers ==
    [Next]_hostVars => /\ [NativeNext]_nativeVars /\ [RtcNext]_rtcVars /\ [WebNext]_webVars
BY DEF Next, hostVars, notTitan, notNative, notRtc, notWeb, notWake, notDevice, notBackend,
       notSupervisor, notConsole, notPace, notAudio, notPadPicture

LEMMA HostStepsCapture ==
    [Next]_hostVars => /\ [DeviceNext]_deviceVars /\ [PaceNext]_paceVars /\ [AudioNext]_audioVars
BY DEF Next, hostVars, notTitan, notNative, notRtc, notWeb, notWake, notDevice, notBackend,
       notSupervisor, notConsole, notPace, notAudio, notPadPicture

LEMMA HostStepsPads ==
    [Next]_hostVars =>
        /\ [SupervisorNext]_supervisorVars /\ [ConsoleNext]_consoleVars
        /\ [PadPictureNext]_padPictureVars
BY DEF Next, hostVars, notTitan, notNative, notRtc, notWeb, notWake, notDevice, notBackend,
       notSupervisor, notConsole, notPace, notAudio, notPadPicture

\* The host implements each of its components: a behaviour of the host is one
\* of the component that runs, and the others stutter.
THEOREM HostIsItsParts ==
    Spec => /\ TitanSpec /\ NativeSpec /\ RtcSpec /\ WebSpec /\ WakeSpec /\ DeviceSpec
            /\ BackendSpec /\ ConsoleSpec /\ PaceSpec /\ AudioSpec /\ PadPictureSpec
            /\ SupervisorInit /\ [][SupervisorNext]_supervisorVars
BY HostStarts, HostStepsOutputs, HostStepsServers, HostStepsCapture, HostStepsPads, PTL
   DEF Spec, TitanSpec, NativeSpec, RtcSpec, WebSpec, WakeSpec, DeviceSpec, BackendSpec,
       ConsoleSpec, PaceSpec, AudioSpec, PadPictureSpec

\* The variables of every component keep their types, together (HostTypes).
THEOREM HostKeepsTypes == Spec => []HostTypes
<1>1. PaceInv => PaceTypeOK
  BY DEF PaceInv
<1> QED
  BY <1>1, HostIsItsParts, TitanOwnsCapture, NativeServerIsExact, SlotsAreTheirOwners,
     ServerOwnsWhatItHas, HelperClean, DeviceTypes, BackendLendsTheAdapter, PadStaysOne,
     ChainFits, PaceInvariant, SpeakersAreKnown, PadIsOfferedOnly, PTL DEF HostTypes

\* What two threads share is of one mind (ThreadsAgree): the pad's supervisor
\* and its settings window, the chain and a profile, the speakers and the
\* thread that writes to them, the pad's offer and its encode, the bucket and
\* the screen's clock.
THEOREM HostThreadsAgree == Spec => []ThreadsAgree
BY HostIsItsParts, PadStaysOne, ChainFits, SpeakersAreKnown, PadIsOfferedOnly, PaceInvariant,
   PaceIsBounded, PTL DEF ThreadsAgree

\* The Bluetooth adapter is lent, driven by one owner and given back
\* (AdapterIsLent).
THEOREM HostLendsTheAdapter == Spec => []AdapterIsLent
BY HostIsItsParts, BackendLendsTheAdapter, PTL DEF AdapterIsLent

\* The outputs keep their promises in the host: no adapter is forgotten in
\* capture mode, and a wake program that ends by itself leaves the radio silent but
\* for the exceptions that HelperLeavesClean names.
THEOREM HostOutputsAreClean == Spec => [](CaptureIsOwned /\ HelperLeavesClean)
BY HostIsItsParts, TitanOwnsCapture, HelperClean, PTL

\* And so do the servers: the web server owns its sockets and sessions alone,
\* the slots of the browsers have their owners, and the native table is exact,
\* with a reference for every frame that is predicted from one.
THEOREM HostServersAreExact ==
    Spec => [](/\ ServerIsExclusive /\ SlotsAreOwned
               /\ TableIsExact /\ PredictedNeedsReference)
BY HostIsItsParts, ServerOwnsWhatItHas, SlotsAreTheirOwners, NativeServerIsExact, PTL

\* No frame of another size reaches the stream (FramesFitStream).
THEOREM HostFramesFit == Spec => []FramesFitStream
BY HostIsItsParts, OnlyStreamFrames, PTL

\* No picture of a chain that is due is left out (PaceKeepsUp).
THEOREM HostPaceKeepsUp == Spec => PaceKeepsUp
BY HostIsItsParts, PaceNeverStarves, PTL

=============================================================================
