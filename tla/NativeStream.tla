---------------------------- MODULE NativeStream ----------------------------
(***************************************************************************)
(* The native stream server (server/switch_stream.c) and the encoder       *)
(* chains that feed it (server/gst_webrtc.c).  One thread accepts clients  *)
(* at four doors, polls them without the lock and serves what the poll     *)
(* saw with it; the HTTP server hands over browsers; the encoders' threads *)
(* write frames to every client of a stream and drop the ones that fail.   *)
(* What the thread sets under the lock for the encoders (somebody watches, *)
(* a keyframe is due) it acts on after it, from flags.                     *)
(*                                                                         *)
(* A client is the record of its slot.  Peers, sockets and the encoders'   *)
(* insides are external: a write goes whole, leaves a tail, finds the      *)
(* socket too full or the peer gone.  Everything a pass does for clients,  *)
(* the measure of their silence included, waits for poll() to find         *)
(* something ready; a pass on which it found nothing serves nobody.        *)
(***************************************************************************)
EXTENDS Integers, FiniteSets

CONSTANTS
    MaxClients,  \* SS_MAX_CLIENTS
    MaxWeb,      \* SS_MAX_WS_CLIENTS
    Doors,       \* the listening sockets: native, drc, wiiu, old3ds
    NativeCodecs,\* what a client on the native door may ask for
    Players,     \* the kinds of client that come with a player's token
    MaxEvents    \* bound: connections made and settings changed in a behaviour

Slots == 0 .. MaxClients - 1
Predictive == {"mpeg"}             \* c2s_old3ds_predictive_codec
OldCodecs == {"jpeg"} \cup Predictive

ASSUME NativeAssumption ==
    /\ MaxClients \in Nat \ {0}
    /\ Doors \subseteq {"native", "drc", "wiiu", "old3ds"}
    /\ Players \subseteq Doors \cup {"web"}
    /\ NativeCodecs \subseteq {"vp8", "h264", "drc"}
    /\ {MaxWeb, MaxEvents} \subseteq Nat

VARIABLES
    nativeClient,     \* clients[], and what its peer is up to
    live,       \* live[]
    demandDirty, keyPending, \* flags for after the lock
    keyRecent,  \* SS_KEYFRAME_MIN_INTERVAL_MS not passed since last_keyframe_ms
    groupCodec, \* old3ds_codec
    npc,        \* where the accepting thread is
    polled,     \* pfds[], map[]: what poll() said of the slots it asked about
    wanted,     \* switch_wanted[]
    allowed,    \* drc_allowed (and drc_available), wiiu_allowed
    wantKeyframe, encoderCodec, \* old3ds_want_keyframe, the old 3DS encoder's codec
    old3dsFrame,\* what an old 3DS encode has just returned
    hands,      \* gamepad bridge: the native sources that hold something
    stranded,   \* history: sources still holding when the server was replaced
    events

Event == events < MaxEvents /\ events' = events + 1

Streams == {"vp8", "h264", "drc", "web", "wiiu", "old3ds"}
Messages == {"input", "release", "keyframe", "oversized", "other"}

table == <<nativeClient, live, demandDirty>>
flags == <<keyPending, keyRecent, wantKeyframe>>
chains == <<wanted, allowed>>
encoder == <<encoderCodec, old3dsFrame>>
bridge == <<hands, stranded>>
nativeVars == <<table, flags, groupCodec, npc, polled, chains, encoder, bridge, events>>

----------------------------------------------------------------------------
(* The clients' table. *)

Nobody == [stage |-> "free", kind |-> "none", control |-> FALSE, codec |-> "none",
           waiting |-> FALSE, synced |-> FALSE, garbled |-> FALSE,
           peer |-> "there"]

\* client_slot(), codec_slot()
StreamOf(c) == IF c.kind = "native" THEN c.codec ELSE c.kind

InUse(t) == {i \in Slots : t[i].stage # "free"}
FreeSlots == Slots \ InUse(nativeClient)
Lowest(S) == CHOOSE i \in S : \A j \in S : i <= j
Watching(t, k) == {i \in Slots : t[i].stage = "ready" /\ StreamOf(t[i]) = k}

\* recount(): the counts follow the table, and the encoders are told later.
Counts(t) == [k \in Streams |-> Cardinality(Watching(t, k))]
Recounted(t) ==
    /\ nativeClient' = t
    /\ live' = Counts(t)
    /\ demandDirty' = (demandDirty \/ live' # live)

\* drop_client(): what it held goes with it.
Dropped(t, gone) == [i \in Slots |-> IF i \in gone THEN Nobody ELSE t[i]]

\* Mutant of Forget: what a client held stays pressed when it goes.
ForgetNone(gone) == gone \subseteq Slots /\ UNCHANGED bridge

Forget(gone) == hands' = hands \ gone /\ stranded' = stranded \ gone

----------------------------------------------------------------------------
(* accept_thread(). *)

\* Nobody has the lock: a thread other than the accepting one may take it.
Unlocked == npc # "serve"

\* The slots in use are listed under the lock; poll() is called without it.
\* Of a client it says: something to read (or, for all the model tells apart,
\* nothing yet), hung up, or nothing.  What is said by some of those who are
\* there is said by all of them: reading may find nothing to act on.
NativePoll ==
    /\ npc = "poll"
    /\ \E hup \in SUBSET {i \in InUse(nativeClient) : nativeClient[i].peer = "ended"},
          talking \in {{"ended"}, {"there", "ended"}} :
           polled' = [i \in InUse(nativeClient) |->
                         IF i \in hup THEN "hup"
                         ELSE IF nativeClient[i].peer \in talking THEN "in" ELSE "none"]
    /\ npc' = "doors"
    /\ UNCHANGED <<table, flags, groupCodec, chains, encoder, bridge, events>>

\* poll() found no client to look at.
NothingSaid == \A i \in DOMAIN polled : polled[i] = "none"

\* Somebody at a door is enough for ready > 0.
Knock == npc \in {"doors", "accepted"} /\ npc' = IF NothingSaid THEN "accepted" ELSE npc

\* A full table closes the door, or accept() finds who knocked gone.
NativeRefuse ==
    /\ Knock
    /\ UNCHANGED <<table, flags, groupCodec, polled, chains, encoder, bridge, events>>

\* A new session of a Wii U takes the place of an older one of its address; of
\* each address there is one at most.
NativeAccept(door) ==
    /\ Knock /\ Event
    /\ \E older \in {{}} \cup {{i} : i \in {j \in Slots : door = "wiiu" /\ nativeClient[j].kind = "wiiu"}} :
       LET t == Dropped(nativeClient, older)
           codec == CASE door = "drc" -> "drc"
                      [] door = "wiiu" -> "h264"
                      [] door = "old3ds" -> groupCodec
                      [] OTHER -> "vp8"
           new == [Nobody EXCEPT !.stage = "hello", !.kind = door, !.codec = codec]
       IN /\ InUse(t) # Slots
          /\ Recounted([t EXCEPT ![Lowest(Slots \ InUse(t))] = new])
          /\ Forget(older)
    /\ UNCHANGED <<flags, groupCodec, polled, chains, encoder>>

\* The lock is taken for the clients the poll asked about, if ready > 0.
TakeLock ==
    /\ npc = "accepted" \/ (npc = "doors" /\ ~NothingSaid)
    /\ npc' = "serve"
    /\ UNCHANGED <<table, flags, groupCodec, polled, chains, encoder, bridge, events>>

Served(i) == polled' = [j \in DOMAIN polled \ {i} |-> polled[j]]
Drop(i) ==
    /\ Recounted(Dropped(nativeClient, {i})) /\ Forget({i})
    /\ UNCHANGED <<keyPending, groupCodec>>

\* handle_hello(): refused, unanswerable, or accepted.  The codec is the one
\* the slot was given when the door opened.
HelloOk(i) ==
    LET c == nativeClient[i]
        predicts == c.kind = "old3ds" /\ groupCodec \in Predictive
        ready == [c EXCEPT !.stage = "ready",
                           !.control = (c.codec = "drc" \/ c.kind \in Players),
                           !.codec = IF @ = "vp8" THEN "h264" ELSE @,
                           !.waiting = predicts]
    IN /\ Recounted([nativeClient EXCEPT ![i] = ready])
       /\ keyPending' = (keyPending \/ c.kind # "old3ds" \/ predicts)
       /\ UNCHANGED <<groupCodec, bridge>>
Hello(i) == Drop(i) \/ HelloOk(i)

\* C2S_MSG_CODEC from an old 3DS: the whole group changes with it.
GroupCodec(i, new) ==
    /\ nativeClient[i].kind = "old3ds" /\ new \in OldCodecs
    /\ IF new = groupCodec THEN UNCHANGED <<table, groupCodec>>
       ELSE /\ groupCodec' = new
            /\ Recounted([j \in Slots |->
                   IF nativeClient[j].stage = "ready" /\ nativeClient[j].kind = "old3ds"
                   THEN [nativeClient[j] EXCEPT !.codec = new, !.waiting = (new \in Predictive),
                                          !.garbled = FALSE]
                   ELSE nativeClient[j]])
    /\ UNCHANGED <<keyPending, bridge>>

\* C2S_MSG_CODEC from another: it changes its stream, or only its codec.
OwnCodec(i, new) ==
    /\ nativeClient[i].kind # "old3ds" /\ new \in NativeCodecs
    /\ IF new = nativeClient[i].codec \/ (new = "drc" /\ "drc" \notin allowed)
       THEN UNCHANGED <<table, keyPending>>
       ELSE /\ Recounted([nativeClient EXCEPT ![i].codec = new])
            /\ keyPending' = TRUE
    /\ UNCHANGED <<groupCodec, bridge>>

\* The other messages (handle_messages()); only a player's reach the console.
Message(i, m) ==
    CASE m = "oversized" -> Drop(i)
      [] m \in {"input", "release"} ->
            /\ IF nativeClient[i].control
               THEN /\ hands' = (IF m = "input" THEN hands \cup {i} ELSE hands \ {i})
                    /\ stranded' = stranded \ {i}
               ELSE UNCHANGED bridge
            /\ UNCHANGED <<table, keyPending, groupCodec>>
      [] OTHER ->
            /\ keyPending' = (keyPending \/ (m = "keyframe" /\ ~keyRecent))
            /\ UNCHANGED <<table, groupCodec, bridge>>

\* Something to read: an end, a hello, a message, or - the slot is another's
\* by now - nothing.
NativeReadable(i) ==
    \/ nativeClient[i].peer = "ended" /\ Drop(i)
    \/ /\ nativeClient[i].peer = "there"
       /\ \/ nativeClient[i].stage = "hello" /\ Hello(i)
          \/ /\ nativeClient[i].stage = "ready"
             /\ \/ \E m \in Messages : Message(i, m)
                \/ \E new \in OldCodecs \cup NativeCodecs : GroupCodec(i, new) \/ OwnCodec(i, new)
    \/ nativeClient[i].peer # "ended" /\ UNCHANGED <<table, keyPending, groupCodec, bridge>>

\* Mutant of Silent: a client that has not said hello is not timed.
SilentReady(i) ==
    IF nativeClient[i].peer = "late" /\ nativeClient[i].stage = "ready" THEN Drop(i)
    ELSE UNCHANGED <<table, keyPending, groupCodec, bridge>>

\* Nothing from it: asked whether it is there, and dropped when it has been
\* quiet for SS_IDLE_TIMEOUT_MS.  So may be one that is there: it is asked by
\* the passes that come here only.
Silent(i) ==
    \/ nativeClient[i].peer \in {"late", "there"} /\ Drop(i)
    \/ nativeClient[i].peer # "late" /\ UNCHANGED <<table, keyPending, groupCodec, bridge>>

\* What the poll said of a slot is applied to whoever is in it now.
Serve ==
    /\ npc = "serve" /\ polled # <<>>
    /\ LET i == Lowest(DOMAIN polled)
       IN /\ Served(i)
          /\ CASE nativeClient[i].stage = "free" -> UNCHANGED <<table, keyPending, groupCodec, bridge>>
               [] polled[i] = "hup" -> Drop(i)
               [] polled[i] = "none" -> Silent(i)
               [] OTHER -> NativeReadable(i)
    /\ UNCHANGED <<keyRecent, wantKeyframe, npc, chains, encoder, events>>

\* The lock is given back, or the poll timed out and no client was looked at.
\* Somebody watches, or stopped watching: the flag is cleared before the counts
\* are read.
TakeDemand ==
    /\ \/ npc = "serve" /\ polled = <<>>
       \/ npc = "doors" /\ NothingSaid
    /\ npc' = IF demandDirty THEN "demand" ELSE "keyframe"
    /\ demandDirty' = FALSE /\ polled' = <<>>
    /\ UNCHANGED <<nativeClient, live, flags, groupCodec, chains, encoder, bridge, events>>

Gated == {"drc", "wiiu"}

\* on_switch_keyframe_request(): every chain makes one.
AskKeyframe == wantKeyframe' = TRUE

\* on_switch_demand_changed(): the counts and the settings are read, and the
\* chains fed or not; one that starts begins with a keyframe.
Evaluate(settings) ==
    /\ wanted' = {k \in Streams : live[k] > 0 /\ (k \in Gated => k \in settings)}
    /\ IF wanted' \subseteq wanted THEN UNCHANGED wantKeyframe ELSE AskKeyframe

ReadDemand ==
    /\ npc = "demand"
    /\ Evaluate(allowed)
    /\ npc' = "keyframe"
    /\ UNCHANGED <<table, keyPending, keyRecent, groupCodec, polled, allowed, encoder, bridge,
                   events>>

\* A keyframe is due: the flag is cleared before it is asked for.
TakeKeyframe ==
    /\ npc = "keyframe"
    /\ npc' = "poll"
    /\ keyPending' = FALSE
    /\ IF keyPending THEN keyRecent' = TRUE /\ AskKeyframe ELSE UNCHANGED <<keyRecent, wantKeyframe>>
    /\ UNCHANGED <<table, groupCodec, polled, chains, encoder, bridge, events>>

AcceptThread ==
    \/ NativePoll \/ TakeLock \/ Serve \/ TakeDemand \/ ReadDemand \/ TakeKeyframe

----------------------------------------------------------------------------
(* The HTTP server's thread: switch_stream_adopt_websocket(). *)

\* Mutant of Adopt: the browser is not counted.
AdoptUncounted ==
    /\ Unlocked /\ Event
    /\ IF FreeSlots = {} \/ Cardinality({i \in Slots : nativeClient[i].kind = "web"}) >= MaxWeb
       THEN UNCHANGED <<table, keyPending>>
       ELSE LET new == [Nobody EXCEPT !.stage = "ready", !.kind = "web", !.codec = "h264",
                                      !.control = ("web" \in Players)]
            IN \/ nativeClient' = [nativeClient EXCEPT ![Lowest(FreeSlots)] = new] /\ keyPending' = TRUE
                  /\ UNCHANGED <<live, demandDirty>>
               \/ UNCHANGED <<table, keyPending>>
    /\ UNCHANGED <<keyRecent, wantKeyframe, groupCodec, npc, polled, chains, encoder, bridge>>

Adopt ==
    /\ Unlocked /\ Event
    /\ IF FreeSlots = {} \/ Cardinality({i \in Slots : nativeClient[i].kind = "web"}) >= MaxWeb
       THEN UNCHANGED <<table, keyPending>>
       ELSE LET new == [Nobody EXCEPT !.stage = "ready", !.kind = "web", !.codec = "h264",
                                      !.control = ("web" \in Players)]
            IN \/ Recounted([nativeClient EXCEPT ![Lowest(FreeSlots)] = new]) /\ keyPending' = TRUE
               \/ UNCHANGED <<table, keyPending>>
    /\ UNCHANGED <<keyRecent, wantKeyframe, groupCodec, npc, polled, chains, encoder, bridge>>

----------------------------------------------------------------------------
(* The encoders' threads: broadcast_filtered(). *)

\* How a write to a client may end.  A part of a message that could not be
\* written is kept and comes before the next: until it is, frames are kept back.
\* The memory for that part is always found (realloc() does not fail).
Outcomes(c) == {"written", "behind"} \cup (IF c.peer # "there" THEN {"gone"} ELSE {})

Predicts(c) == c.kind = "old3ds" /\ c.codec \in Predictive

\* A frame is kept from a client that waits for a keyframe or is behind.
Kept(c, f, out) == (Predicts(c) /\ c.waiting /\ ~f.key) \/ out = "behind"

\* A client is given a frame: it decodes it or, without the frames before it,
\* garbles it.
Given(c, f) ==
    [c EXCEPT !.waiting = @ /\ ~(Predicts(c) /\ f.key),
              !.garbled = @ \/ (Predicts(c) /\ f.codec \in Predictive /\ ~f.key /\ ~c.synced),
              !.synced = c.kind = "old3ds" /\ f.codec \in Predictive /\ (f.key \/ @)]

\* Mutant of Wrote: the client that was kept from a frame gets the next.
WroteOn(c, f, out) == IF Kept(c, f, out) THEN [c EXCEPT !.synced = FALSE] ELSE Given(c, f)

\* What a frame does to a client that is not lost: kept from it, it waits for
\* a keyframe if its codec predicts.
Wrote(c, f, out) ==
    IF Kept(c, f, out) THEN [c EXCEPT !.waiting = @ \/ Predicts(c), !.synced = FALSE]
    ELSE Given(c, f)

\* Mutant of AfterSkip: nothing is asked of the old 3DS encoder.
AfterSkipOthers(k, skipped) ==
    IF skipped /\ k # "old3ds" /\ ~keyRecent
    THEN keyRecent' = TRUE /\ AskKeyframe
    ELSE UNCHANGED <<keyRecent, wantKeyframe>>

\* Somebody was kept from a frame: a keyframe is asked for, once a second.
AfterSkip(k, skipped) ==
    IF skipped /\ (k = "old3ds" => groupCodec \in Predictive) /\ ~keyRecent
    THEN keyRecent' = TRUE /\ AskKeyframe
    ELSE UNCHANGED <<keyRecent, wantKeyframe>>

Broadcast(k, f) ==
    /\ Unlocked
    /\ \E out \in [Watching(nativeClient, k) -> {"written", "behind", "gone"}] :
           LET lost == {i \in DOMAIN out : out[i] = "gone"}
               sent == [i \in Slots |-> IF i \in DOMAIN out THEN Wrote(nativeClient[i], f, out[i])
                                        ELSE nativeClient[i]]
           IN /\ \A i \in DOMAIN out : out[i] \in Outcomes(nativeClient[i])
              /\ Recounted(Dropped(sent, lost)) /\ Forget(lost)
              /\ AfterSkip(k, \E i \in DOMAIN out \ lost : Kept(nativeClient[i], f, out[i]))
    /\ UNCHANGED <<keyPending, groupCodec, npc, polled, chains, encoderCodec, events>>

\* on_switch_video_sample(): what an encoder made goes to its stream's clients.
VideoSample(k, key) == Broadcast(k, [codec |-> "jpeg", key |-> key])

\* push_switch_chain(), push_drc_chain(): a chain's frame, through its encoder.
ChainFrame(k, key) ==
    /\ k \in wanted \ {"old3ds"}
    /\ VideoSample(k, key)
    /\ UNCHANGED old3dsFrame

\* Mutant of StreamCodec: the first client's, whatever it watches.
StreamCodecFirst(k) == IF Watching(nativeClient, k) = {} THEN nativeClient[0].codec
                       ELSE nativeClient[Lowest(Watching(nativeClient, k))].codec

\* switch_stream_stream_codec(): that of the first client on the stream.
StreamCodec(k) ==
    IF Watching(nativeClient, k) = {} THEN "jpeg" ELSE nativeClient[Lowest(Watching(nativeClient, k))].codec

\* push_old3ds_chain(): the codec and the wish for a keyframe are taken, one
\* frame is encoded; the first after either changed is a keyframe ...
EncodeOld3ds ==
    /\ "old3ds" \in wanted /\ old3dsFrame = <<>> /\ Unlocked
    /\ LET codec == StreamCodec("old3ds")
           fresh == wantKeyframe \/ codec # encoderCodec
       IN \E key \in BOOLEAN :
              /\ fresh \/ codec = "jpeg" => key
              /\ old3dsFrame' = <<[codec |-> codec, key |-> key]>>
              /\ encoderCodec' = codec
    /\ wantKeyframe' = FALSE
    /\ UNCHANGED <<table, keyPending, keyRecent, groupCodec, npc, polled, chains, bridge, events>>

\* ... and then sent to whoever is there by then.
SendOld3ds ==
    /\ old3dsFrame # <<>>
    /\ Broadcast("old3ds", old3dsFrame[1])
    /\ old3dsFrame' = <<>>

\* Mutant of Said: who is lost is not counted out.
SaidUncounted(S, sound) ==
    /\ Unlocked
    /\ \E lost \in SUBSET {i \in S : sound \/ nativeClient[i].peer # "there"} \ {{}} :
           nativeClient' = Dropped(nativeClient, lost) /\ Forget(lost) /\ UNCHANGED <<live, demandDirty>>
    /\ UNCHANGED <<flags, groupCodec, npc, polled, chains, encoder, events>>

\* Sound, or what a stream's settings are now, to every client of S.  The ones
\* whose socket fails are lost, and those too far behind with the sound; an
\* announcement to one that is behind is not made again.  If nobody is lost,
\* nothing changes.
Said(S, sound) ==
    /\ Unlocked
    /\ \E lost \in SUBSET {i \in S : sound \/ nativeClient[i].peer # "there"} \ {{}} :
           Recounted(Dropped(nativeClient, lost)) /\ Forget(lost)
    /\ UNCHANGED <<flags, groupCodec, npc, polled, chains, encoder, events>>

Sound == Said({i \in Slots : nativeClient[i].stage = "ready"}, TRUE)
Announce(k) == Said(Watching(nativeClient, k), FALSE)

----------------------------------------------------------------------------
(* Settings, time and peers. *)

\* gst_webrtc_stream_set_wiiu_enabled(): the chain is not looked at again.
SetWiiu(on) ==
    /\ Event /\ "wiiu" \in Doors
    /\ allowed' = IF on THEN allowed \cup {"wiiu"} ELSE allowed \ {"wiiu"}
    /\ wanted' = IF on THEN wanted ELSE wanted \ {"wiiu"}
    /\ UNCHANGED <<table, flags, groupCodec, npc, polled, encoder, bridge>>

\* gst_webrtc_stream_set_drc_enabled(): every chain is.
SetDrc(on) ==
    /\ Event /\ "drc" \in Doors /\ on # ("drc" \in allowed)
    /\ allowed' = IF on THEN allowed \cup {"drc"} ELSE allowed \ {"drc"}
    /\ Evaluate(allowed')
    /\ UNCHANGED <<table, keyPending, keyRecent, groupCodec, npc, polled, encoder,
                   bridge>>

\* The ports change: switch_stream_stop(), and another server in its place.
\* The clients are closed, not dropped.
Replace ==
    /\ Event /\ npc = "poll" /\ old3dsFrame = <<>>
    /\ nativeClient' = [i \in Slots |-> Nobody]
    /\ live' = [k \in Streams |-> 0]
    /\ demandDirty' = FALSE /\ keyPending' = FALSE /\ keyRecent' = FALSE
    /\ groupCodec' = "mpeg"
    /\ stranded' = hands
    /\ UNCHANGED <<wantKeyframe, npc, polled, chains, encoder, hands>>

\* A second passes since the last keyframe.
KeyTick ==
    /\ keyRecent /\ keyRecent' = FALSE
    /\ UNCHANGED <<table, keyPending, wantKeyframe, groupCodec, npc, polled, chains, encoder, bridge, events>>

\* A peer ends its connection, or is never heard of again; SS_IDLE_TIMEOUT_MS
\* later it is late.  The kernel may give up on what was written to it.
PeerLeaves(i) ==
    /\ nativeClient[i].stage # "free" /\ nativeClient[i].peer # "ended"
    /\ \E how \in {"ended"} \cup (IF nativeClient[i].peer = "there" THEN {"silent"} ELSE {}) :
           nativeClient' = [nativeClient EXCEPT ![i].peer = how]
    /\ UNCHANGED <<live, demandDirty, flags, groupCodec, npc, polled, chains, encoder, bridge, events>>
PeerLate(i) ==
    /\ nativeClient[i].peer = "silent"
    /\ nativeClient' = [nativeClient EXCEPT ![i].peer = "late"]
    /\ UNCHANGED <<live, demandDirty, flags, groupCodec, npc, polled, chains, encoder, bridge, events>>

----------------------------------------------------------------------------

NativeInit ==
    /\ nativeClient = [i \in Slots |-> Nobody]
    /\ live = [k \in Streams |-> 0]
    /\ demandDirty = FALSE /\ keyPending = FALSE /\ keyRecent = FALSE
    /\ groupCodec = "mpeg" /\ npc = "poll" /\ polled = <<>>
    /\ wanted = {} /\ allowed = Gated
    /\ wantKeyframe = FALSE /\ encoderCodec = "mpeg" /\ old3dsFrame = <<>>
    /\ hands = {} /\ stranded = {} /\ events = 0

NativeNext ==
    \/ AcceptThread
    \/ NativeRefuse \/ \E door \in Doors : NativeAccept(door)
    \/ Adopt
    \/ \E k \in Streams, key \in BOOLEAN : ChainFrame(k, key)
    \/ EncodeOld3ds \/ SendOld3ds
    \/ Sound \/ \E k \in Streams : Announce(k)
    \/ \E on \in BOOLEAN : SetWiiu(on) \/ SetDrc(on)
    \/ Replace \/ KeyTick
    \/ \E i \in Slots : PeerLeaves(i) \/ PeerLate(i)

NativeSpec == NativeInit /\ [][NativeNext]_nativeVars

\* A keyframe reaches the client of slot i.
Reached(i) == SendOld3ds /\ old3dsFrame[1].key /\ nativeClient'[i].stage = "ready" /\ ~nativeClient'[i].waiting

\* The threads and time run, and a client is not behind at every keyframe.
NativeFairness ==
    /\ WF_nativeVars(AcceptThread)
    /\ SF_nativeVars(EncodeOld3ds) /\ SF_nativeVars(SendOld3ds)
    /\ WF_nativeVars(KeyTick)
    /\ \A i \in Slots : WF_nativeVars(PeerLate(i)) /\ SF_nativeVars(Reached(i))

----------------------------------------------------------------------------
(* Properties *)

\* The variables have their types, and what the poll saw was there.
NativeTypeOK ==
    /\ nativeClient \in [Slots -> [stage : {"free", "hello", "ready"},
                             kind : Doors \cup {"web", "none"}, control : BOOLEAN,
                             codec : OldCodecs \cup {"vp8", "h264", "drc", "none"},
                             waiting : BOOLEAN, synced : BOOLEAN,
                             garbled : BOOLEAN,
                             peer : {"there", "ended", "silent", "late"}]]
    /\ live \in [Streams -> 0 .. Cardinality(Slots)]
    /\ \A b \in {demandDirty, keyPending, keyRecent, wantKeyframe} : b \in BOOLEAN
    /\ {groupCodec, encoderCodec} \subseteq OldCodecs
    /\ npc \in {"poll", "doors", "accepted", "serve", "demand", "keyframe"}
    /\ DOMAIN polled \subseteq Slots
    /\ wanted \subseteq Streams /\ allowed \subseteq Gated
    /\ hands \subseteq Slots /\ stranded \subseteq hands

\* The counts the video path reads without the lock are those of the table,
\* whichever thread changed it last (recount()).
CountsAreExact == \A k \in Streams : live[k] = Cardinality(Watching(nativeClient, k))

\* What a native source holds on the console, a player who is still there
\* holds ("Whatever it was holding goes with it", drop_client()) - or one who
\* was there when the server was replaced, which is not a drop.
HandsHaveOwners ==
    \A i \in hands \ stranded : nativeClient[i].stage = "ready" /\ nativeClient[i].control

\* What is kept beside the table of clients says what the table says.
TableIsExact == CountsAreExact /\ HandsHaveOwners

\* A client that knows the group's codec never gets a predicted frame without
\* the frames it is predicted from (waiting_keyframe).
PredictedNeedsReference ==
    \A i \in Slots : nativeClient[i].garbled => nativeClient[i].codec # groupCodec

\* A client that waits for a keyframe gets one, or leaves, or changes codec:
\* the wish is not lost between the lock and the encoder, nor in the second
\* in which no other is asked for.
PictureStarts ==
    \A i \in Slots : []<>(nativeClient[i].waiting => nativeClient[i].codec # groupCodec)

\* A stream that stays watched is fed in the end, however the flag, the counts
\* and the drops by other threads interleave (demand_dirty).  Of the streams
\* behind a setting this is not said: see the README.
WatchedIsFed ==
    \A k \in Streams \ Gated : <>[](Watching(nativeClient, k) # {}) => <>[](k \in wanted)

=============================================================================
