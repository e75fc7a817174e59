---------------------------- MODULE WebRtcClients ----------------------------
(***************************************************************************)
(* The browsers' WebRTC connections (server/gst_webrtc.c).  Each offer is  *)
(* answered on a thread of its own, which takes a slot - taking back the   *)
(* dead ones when none is free - and hangs a branch from the encoders'     *)
(* tees.  The branch comes off again on the private main loop's thread,    *)
(* asked for by the connection's state, by the page or by a sweep.         *)
(*                                                                         *)
(* A page offers once, and its name stands for its webrtcbin too.          *)
(* GStreamer's insides are external: a connection's state moves by itself, *)
(* a negotiation step may fail.                                            *)
(***************************************************************************)
EXTENDS Integers, FiniteSets, Sequences

CONSTANTS
    Pages,      \* the pages that offer
    MaxRtc,     \* max_clients
    NoPage

RtcSlots == 0 .. MaxRtc - 1

ASSUME RtcAssumption == MaxRtc \in Nat \ {0} /\ NoPage \notin Pages /\ "main" \notin Pages

VARIABLES
    slot,       \* clients[]
    offer,      \* where a page's offer is
    at,         \* the slot that thread works on (client, or i while reclaiming)
    reclaimed,  \* reclaim_dead_clients(): it has torn something down
    request,    \* struct make_webrtcbin_req, and
    calls,      \* the requests the context's thread has still to look at
    conn,       \* connection-state of the page's webrtcbin
    notice,     \* where on_connection_state_notify() is
    here,       \* the pages that have not left
    piped, linked, \* webrtcbins in the pipeline; branches on the tees
    lost,       \* history: elements no slot points to any more: a failed offer's,
                \* and those of a slot freed under an offer and taken again
    doomed,     \* what a teardown has taken from a slot and not destroyed yet
    idles,      \* idle sources attached to the context, by slot
    loop        \* where the context's thread is

Main == "main"
Threads == Pages \cup {Main}
slotVars == <<slot, idles>>
requestVars == <<request, calls>>
offerVars == <<offer, at, reclaimed, requestVars>>
pageVars == <<conn, notice, here>>
pipeVars == <<piped, linked, lost, doomed>>
rtcVars == <<slotVars, offerVars, pageVars, pipeVars, loop>>

----------------------------------------------------------------------------
(* Slots. *)

FreeSlot == [page |-> NoPage, bin |-> NoPage, ringing |-> FALSE,
             since |-> "never", quiet |-> FALSE]
InUseRtc(i) == slot[i].page # NoPage

Dead == {"failed", "closed"}
OfferAnswered == {"there", "bye", "gone"}
StateOf(b) == IF b = NoPage THEN "none" ELSE conn[b]

\* schedule_client_teardown(): once for each occupant.
Schedule(i) ==
    IF InUseRtc(i) /\ ~slot[i].ringing
    THEN /\ slot' = [slot EXCEPT ![i].ringing = TRUE]
         /\ idles' = Append(idles, i)
    ELSE UNCHANGED slotVars

\* Mutant of Detach: the slot is freed once its elements are gone.
DetachLate(t, i) ==
    /\ doomed' = [doomed EXCEPT ![t] = IF InUseRtc(i) THEN slot[i].bin ELSE NoPage]
    /\ slot' = [slot EXCEPT ![i].ringing = FALSE]

\* teardown_client(), under the lock: the elements move out, the slot is free.
Detach(t, i) ==
    /\ doomed' = [doomed EXCEPT ![t] = IF InUseRtc(i) THEN slot[i].bin ELSE NoPage]
    /\ slot' = [slot EXCEPT ![i] = IF InUseRtc(i) THEN FreeSlot ELSE [@ EXCEPT !.ringing = FALSE]]

\* Mutant of Destroy: the branch is not unlinked from the tees.
DestroyHanging(t) ==
    LET b == doomed[t]
    IN /\ IF b = NoPage THEN UNCHANGED <<conn, notice>>
          ELSE /\ conn' = [conn EXCEPT ![b] = "ended"]
               /\ notice' = [notice EXCEPT ![b] = "none"]
       /\ piped' = piped \ {b}
       /\ doomed' = [doomed EXCEPT ![t] = NoPage]
       /\ UNCHANGED <<linked, lost, here>>

\* ... and after it: they are stopped, unlinked and removed.  Stopping a
\* webrtcbin waits for the notification it is in the middle of.
Destroy(t) ==
    LET b == doomed[t]
    IN /\ b # NoPage => notice[b] # "ring"
       /\ IF b = NoPage THEN UNCHANGED <<conn, notice>>
          ELSE /\ conn' = [conn EXCEPT ![b] = "ended"]
               /\ notice' = [notice EXCEPT ![b] = "none"]
       /\ piped' = piped \ {b} /\ linked' = linked \ {b}
       /\ doomed' = [doomed EXCEPT ![t] = NoPage]
       /\ UNCHANGED <<lost, here>>

----------------------------------------------------------------------------
(* gst_webrtc_stream_handle_offer(), on the offer's own thread. *)

To(p, place) == offer' = [offer EXCEPT ![p] = place]

\* take_free_slot(); the second time is after a reclaim.
Take(p) ==
    /\ offer[p] \in {"take", "retake"}
    /\ LET free == {i \in RtcSlots : ~InUseRtc(i)}
       IN IF free # {}
          THEN \E i \in free :
                   /\ \A j \in free : i <= j
                   /\ slot' = [slot EXCEPT ![i] = [FreeSlot EXCEPT !.page = p]]
                   /\ lost' = lost \cup ({slot[i].bin} \ {NoPage})
                   /\ at' = [at EXCEPT ![p] = i] /\ To(p, "make")
          ELSE /\ To(p, IF offer[p] = "take" THEN "look" ELSE "refused")
               /\ at' = [at EXCEPT ![p] = 0] /\ UNCHANGED <<slot, lost>>
    /\ UNCHANGED <<idles, reclaimed, requestVars, pageVars, piped, linked, doomed, loop>>

\* reclaim_dead_clients(): the state is read without the lock, and the slot
\* may be another's by the time it is torn down.
\* Mutant of NextLook: it looks one slot too far.
NextLookPast(p, done) ==
    /\ at' = [at EXCEPT ![p] = @ + 1]
    /\ To(p, IF at[p] < MaxRtc THEN "look" ELSE IF done THEN "retake" ELSE "refused")

NextLook(p, done) ==
    /\ at' = [at EXCEPT ![p] = (@ + 1) % MaxRtc]
    /\ To(p, IF at[p] + 1 < MaxRtc THEN "look" ELSE IF done THEN "retake" ELSE "refused")

Look(p) ==
    /\ offer[p] = "look"
    /\ LET i == at[p]
       IN IF InUseRtc(i) /\ StateOf(slot[i].bin) \in Dead \cup {"disconnected"}
          THEN To(p, "tear") /\ UNCHANGED at
          ELSE NextLook(p, reclaimed[p])
    /\ UNCHANGED <<slotVars, reclaimed, requestVars, pageVars, pipeVars, loop>>

Tear(p) ==
    /\ offer[p] = "tear"
    /\ Detach(p, at[p])
    /\ reclaimed' = [reclaimed EXCEPT ![p] = TRUE] /\ To(p, "destroy")
    /\ UNCHANGED <<idles, at, requestVars, pageVars, piped, linked, lost, loop>>

Reclaimed(p) ==
    /\ offer[p] = "destroy"
    /\ Destroy(p) /\ NextLook(p, TRUE)
    /\ UNCHANGED <<slotVars, reclaimed, requestVars, loop>>

\* client->webrtcbin: every step of an offer goes through the slot, whatever
\* page's elements it has by then.
Bin(p) == slot[at[p]].bin

\* release_client_slot(): the slot is free, and what was already put in the
\* pipeline stays there (only the failure to link takes the webrtcbin out).
Release(p, left) ==
    /\ slot' = [slot EXCEPT ![at[p]].page = NoPage, ![at[p]].ringing = FALSE]
    /\ lost' = (IF left THEN lost \cup {Bin(p)} ELSE lost)
    /\ To(p, "refused")

\* make_webrtcbin_on_gst_thread(): asked of the context's thread, for as long
\* as the deadline lets it.
Ask(p) ==
    /\ offer[p] = "make" /\ request[p] = "none"
    /\ request' = [request EXCEPT ![p] = "asked"] /\ calls' = calls \cup {p}
    /\ UNCHANGED <<slotVars, offer, at, reclaimed, pageVars, pipeVars, loop>>

\* Mutant of GiveUp: it is not told that nobody waits any more.
GiveUpSilently(p) == request[p] = "asked" /\ request' = [request EXCEPT ![p] = "freed"]

GiveUp(p) == request[p] = "asked" /\ request' = [request EXCEPT ![p] = "abandoned"]

Made(p) ==
    /\ offer[p] = "make" /\ request[p] # "none"
    /\ \/ request[p] = "done" /\ request' = [request EXCEPT ![p] = "freed"]
       \/ GiveUp(p)
    /\ \/ /\ slot' = [slot EXCEPT ![at[p]].bin = p]
          /\ piped' = piped \cup {p} /\ To(p, "negotiate")
          /\ lost' = lost \cup ({Bin(p)} \ {NoPage})
       \/ Release(p, FALSE) /\ UNCHANGED piped
    /\ UNCHANGED <<idles, at, reclaimed, calls, pageVars, linked, doomed, loop>>

\* A slot that was torn down meanwhile has no webrtcbin to answer.
Stuck(p) ==
    /\ offer[p] \in {"negotiate", "answer"} /\ Bin(p) = NoPage
    /\ To(p, "stuck")
    /\ UNCHANGED <<slotVars, at, reclaimed, requestVars, pageVars, pipeVars, loop>>

\* The offer is set; it may be nonsense or want other codecs.  The branches
\* are linked to both tees, or the video's only, or to none.
Negotiate(p) ==
    /\ offer[p] = "negotiate" /\ Bin(p) # NoPage
    /\ \/ /\ To(p, "answer") /\ linked' = linked \cup {Bin(p)}
          /\ UNCHANGED <<slot, piped, lost, conn>>
       \/ Release(p, TRUE) /\ UNCHANGED <<piped, linked, conn>>
       \/ /\ \E branch \in {{}, {Bin(p)}} : linked' = linked \cup branch
          /\ Release(p, TRUE)
          /\ piped' = piped \ {Bin(p)} /\ conn' = [conn EXCEPT ![Bin(p)] = "ended"]
    /\ UNCHANGED <<idles, at, reclaimed, requestVars, notice, here, doomed, loop>>

\* An answer is made and set, candidates are gathered for three seconds at
\* most, and the page is told its id.
Answer(p) ==
    /\ offer[p] = "answer" /\ Bin(p) # NoPage
    /\ \/ To(p, "there") /\ UNCHANGED <<slot, lost>>
       \/ Release(p, TRUE)
    /\ UNCHANGED <<idles, at, reclaimed, requestVars, pageVars, piped, linked, doomed, loop>>

OfferThread(p) ==
    \/ Take(p) \/ Look(p) \/ Tear(p) \/ Reclaimed(p) \/ Ask(p)
    \/ Made(p) \/ Stuck(p) \/ Negotiate(p) \/ Answer(p)

----------------------------------------------------------------------------
(* The page and its connection. *)

Offer(p) ==
    /\ offer[p] = "away" /\ To(p, "take")
    /\ UNCHANGED <<slotVars, at, reclaimed, requestVars, pageVars, pipeVars, loop>>

\* From its answer on, the connection's state moves; a closed one stays closed.
Connection(p) ==
    /\ offer[p] \in OfferAnswered /\ p \in piped /\ conn[p] \notin Dead \cup {"ended"} /\ notice[p] # "ring"
    /\ \E s \in {"connected", "disconnected", "failed", "closed"} \ {conn[p]} :
           /\ s = "connected" => p \in here
           /\ s = "disconnected" => conn[p] = "connected"
           /\ conn' = [conn EXCEPT ![p] = s]
    /\ notice' = [notice EXCEPT ![p] = "due"]
    /\ UNCHANGED <<slotVars, offerVars, here, pipeVars, loop>>

\* on_connection_state_notify(): the time of a disconnection is noted on the
\* slot the connection began with, a dead one rings.
Notice(p) ==
    /\ notice[p] = "due"
    /\ slot' = [slot EXCEPT ![at[p]].since =
                   IF conn[p] = "disconnected"
                   THEN (IF @ = "never" THEN "noted" ELSE @) ELSE "never"]
    /\ notice' = [notice EXCEPT ![p] = IF conn[p] \in Dead THEN "ring" ELSE "none"]
    /\ UNCHANGED <<idles, offerVars, conn, here, pipeVars, loop>>

NoticeRings(p) ==
    /\ notice[p] = "ring"
    /\ Schedule(at[p])
    /\ notice' = [notice EXCEPT ![p] = "none"]
    /\ UNCHANGED <<offerVars, conn, here, pipeVars, loop>>

\* A page goes without a word.
Leave(p) ==
    /\ p \in here /\ here' = here \ {p}
    /\ UNCHANGED <<slotVars, offerVars, conn, notice, pipeVars, loop>>

\* gst_webrtc_stream_client_seen(): found by its id, while it has a slot.
Seen(p) ==
    /\ offer[p] = "there" /\ p \in here
    /\ \E i \in RtcSlots : slot[i].page = p /\ slot' = [slot EXCEPT ![i].quiet = FALSE]
    /\ UNCHANGED <<idles, offerVars, pageVars, pipeVars, loop>>

\* gst_webrtc_stream_client_bye(): the slot is found under the lock and
\* scheduled after it.
Bye(p) ==
    /\ offer[p] = "there"
    /\ \E i \in RtcSlots : slot[i].page = p /\ at' = [at EXCEPT ![p] = i]
    /\ here' = here \ {p} /\ To(p, "bye")
    /\ UNCHANGED <<slotVars, reclaimed, requestVars, conn, notice, pipeVars, loop>>

ByeRings(p) ==
    /\ offer[p] = "bye"
    /\ Schedule(at[p]) /\ To(p, "gone")
    /\ UNCHANGED <<at, reclaimed, requestVars, pageVars, pipeVars, loop>>

\* Time passes: a page that has left (or sleeps: its timers are throttled) is
\* silent for the heartbeat's timeout, a disconnection outlasts its grace.
Silence(i) ==
    /\ InUseRtc(i) /\ ~slot[i].quiet
    /\ offer[slot[i].page] \in OfferAnswered \cup {"stuck"}
    /\ slot' = [slot EXCEPT ![i].quiet = TRUE]
    /\ UNCHANGED <<idles, offerVars, pageVars, pipeVars, loop>>

Grace(i) ==
    /\ slot[i].since = "noted"
    /\ slot' = [slot EXCEPT ![i].since = "long"]
    /\ UNCHANGED <<idles, offerVars, pageVars, pipeVars, loop>>

----------------------------------------------------------------------------
(* gst_thread_main(): the context's loop. *)

At(place, i) == loop' = <<place, i>>
Idling == loop[1] = "idle"

\* make_webrtcbin_cb()
\* Mutant of MakeOne: it does not ask whether anybody waits.
MakeOneBlind(p) ==
    /\ Idling /\ p \in calls /\ calls' = calls \ {p}
    /\ request' = [request EXCEPT ![p] = "done"]
    /\ UNCHANGED <<slotVars, offer, at, reclaimed, pageVars, pipeVars, loop>>

MakeOne(p) ==
    /\ Idling /\ p \in calls /\ calls' = calls \ {p}
    /\ request' = [request EXCEPT ![p] = IF @ = "asked" THEN "done" ELSE "freed"]
    /\ UNCHANGED <<slotVars, offer, at, reclaimed, pageVars, pipeVars, loop>>

\* teardown_client_idle()
TearIdle ==
    /\ Idling /\ idles # <<>>
    /\ Detach(Main, Head(idles)) /\ idles' = Tail(idles)
    /\ At("destroy", 0)
    /\ UNCHANGED <<offerVars, pageVars, piped, linked, lost>>

DestroyIdle ==
    /\ loop[1] = "destroy"
    /\ Destroy(Main) /\ At("idle", 0)
    /\ UNCHANGED <<slotVars, offerVars>>

\* sweep_dead_clients(): again, what is looked at is scheduled after the lock.
\* Mutant of Hopeless: nobody asks how long the page has been silent.
HopelessDead(c) == StateOf(c.bin) \in Dead \/ (StateOf(c.bin) = "disconnected" /\ c.since = "long")

Hopeless(c) ==
    \/ StateOf(c.bin) \in Dead
    \/ StateOf(c.bin) = "disconnected" /\ c.since = "long"
    \/ c.quiet

SweepNext(i) == IF i + 1 < MaxRtc THEN At("look", i + 1) ELSE At("idle", 0)
SweepLook(i) ==
    /\ IF InUseRtc(i) /\ ~slot[i].ringing /\ slot[i].bin # NoPage /\ Hopeless(slot[i])
       THEN At("ring", i) ELSE SweepNext(i)
    /\ UNCHANGED <<slotVars, offerVars, pageVars, pipeVars>>

Sweep == Idling /\ SweepLook(0)
SweepGoesOn == loop[1] = "look" /\ SweepLook(loop[2])

SweepRings ==
    /\ loop[1] = "ring"
    /\ Schedule(loop[2]) /\ SweepNext(loop[2])
    /\ UNCHANGED <<offerVars, pageVars, pipeVars>>

LoopThread == (\E p \in Pages : MakeOne(p)) \/ TearIdle \/ DestroyIdle \/ SweepGoesOn \/ SweepRings

----------------------------------------------------------------------------
RtcInit ==
    /\ slot = [i \in RtcSlots |-> FreeSlot]
    /\ offer = [p \in Pages |-> "away"] /\ at = [p \in Pages |-> 0]
    /\ reclaimed = [p \in Pages |-> FALSE]
    /\ request = [p \in Pages |-> "none"] /\ calls = {}
    /\ conn = [p \in Pages |-> "new"] /\ notice = [p \in Pages |-> "none"]
    /\ here = Pages
    /\ piped = {} /\ linked = {} /\ lost = {}
    /\ doomed = [t \in Threads |-> NoPage]
    /\ idles = <<>> /\ loop = <<"idle", 0>>

RtcNext ==
    \/ \E p \in Pages :
           \/ Offer(p) \/ OfferThread(p) \/ Connection(p) \/ Notice(p) \/ NoticeRings(p)
           \/ Leave(p) \/ Seen(p) \/ Bye(p) \/ ByeRings(p)
    \/ \E i \in RtcSlots : Silence(i) \/ Grace(i)
    \/ LoopThread \/ Sweep

\* Threads run on, the loop turns (its sweep comes round among its idles), a
\* page that looks says so, and a silence lasts.
RtcFairness ==
    /\ \A p \in Pages : /\ WF_rtcVars(OfferThread(p)) /\ WF_rtcVars(Notice(p))
                        /\ WF_rtcVars(NoticeRings(p)) /\ WF_rtcVars(ByeRings(p))
                        /\ SF_rtcVars(MakeOne(p))
    /\ WF_rtcVars(LoopThread) /\ SF_rtcVars(TearIdle) /\ SF_rtcVars(Sweep)
    /\ \A i \in RtcSlots : WF_rtcVars(Silence(i) /\ slot[i].page \notin here)

RtcSpec == RtcInit /\ [][RtcNext]_rtcVars

----------------------------------------------------------------------------
RtcTypeOK ==
    /\ slot \in [RtcSlots -> [page : Pages \cup {NoPage}, bin : Pages \cup {NoPage},
                             ringing : BOOLEAN, since : {"never", "noted", "long"},
                             quiet : BOOLEAN]]
    /\ offer \in [Pages -> {"away", "take", "retake", "look", "tear", "destroy", "make",
                            "negotiate", "answer", "there", "bye", "gone", "refused", "stuck"}]
    /\ at \in [Pages -> RtcSlots] /\ reclaimed \in [Pages -> BOOLEAN]
    /\ request \in [Pages -> {"none", "asked", "done", "abandoned", "freed"}]
    /\ conn \in [Pages -> {"new", "connected", "disconnected", "failed", "closed", "ended"}]
    /\ notice \in [Pages -> {"none", "due", "ring"}]
    /\ here \subseteq Pages /\ calls \subseteq Pages
    /\ piped \subseteq Pages /\ linked \subseteq Pages /\ lost \subseteq Pages
    /\ doomed \in [Threads -> Pages \cup {NoPage}]
    /\ idles \in Seq(RtcSlots) /\ loop \in {"idle", "destroy", "look", "ring"} \X RtcSlots

\* Two teardowns never have the same elements, and what one is destroying is
\* in no slot: releasing a pad twice would break the pipeline for everyone.
TornDownOnce ==
    /\ \A t, u \in Threads : t # u /\ doomed[t] # NoPage => doomed[t] # doomed[u]
    /\ \A t \in Threads, i \in RtcSlots : InUseRtc(i) /\ slot[i].bin # NoPage => slot[i].bin # doomed[t]

\* A branch on the tees belongs to a slot, or to the teardown that is taking
\* it off, unless it was lost as said above.
BranchesAreOwned ==
    \A p \in linked \ lost : \/ \E i \in RtcSlots : slot[i].bin = p
                             \/ \E t \in Threads : doomed[t] = p

\* make_webrtcbin_req is freed by the last of the two to look at it, whichever
\* that is: neither the thread that waits nor the callback finds it gone.
RequestsOutliveTheirUsers ==
    /\ \A p \in calls : request[p] \in {"asked", "abandoned"}
    /\ \A p \in Pages : offer[p] = "make" => request[p] \in {"none", "asked", "done"}

\* Pages, slots and teardowns agree about who owns which elements, and about
\* the requests for them.
SlotsAreOwned == TornDownOnce /\ BranchesAreOwned /\ RequestsOutliveTheirUsers

\* A page that has left - in whatever state its connection stayed - gives its
\* slot back.
LeaversMakeRoom ==
    \A p \in Pages : (p \notin here /\ offer[p] \in OfferAnswered \cup {"stuck"})
                         ~> ~\E i \in RtcSlots : slot[i].page = p
=============================================================================
