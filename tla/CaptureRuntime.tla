--------------------------- MODULE CaptureRuntime ---------------------------
(***************************************************************************)
(* vision_shark/runtime.py: the object that owns the current frame source, *)
(* its receive thread and the active recording.                            *)
(*                                                                         *)
(* API requests run in a thread pool, one `client' per request being       *)
(* served; each successful connect starts one receive thread.  A block     *)
(* under Runtime._lock is one action, whatever runs between two such       *)
(* blocks is an action of its own.  A source numbers the frames on its     *)
(* wire 1, 2, 3, ...; the ones lost in the kernel queue are skipped.       *)
(*                                                                         *)
(* An operator whose comment begins with `Slip' is no part of the model: it *)
(* is a mistake the operator after it could have been written with, and     *)
(* which the runs tell from the model.                                      *)
(***************************************************************************)
EXTENDS Integers, Sequences, FiniteSets

CONSTANTS
    Clients,        \* API threads
    MaxConnects,    \* bound on connects, hence on sources and receive threads
    MaxRecordings,  \* bound on recordings started
    MaxPos,         \* bound on a source's wire positions
    JoinMayTimeout, \* thread.join(timeout=2.) may give up on a live thread
    StorageMayFail, \* append_frame may raise
    None

ASSUME RuntimeAssumption ==
    /\ MaxConnects \in Nat /\ MaxRecordings \in Nat /\ MaxPos \in Nat
    /\ JoinMayTimeout \in BOOLEAN /\ StorageMayFail \in BOOLEAN
    /\ None \notin Int

VARIABLES
    running, source, kind,   \* Runtime.running, source, source_kind
    thread,                  \* Runtime._thread
    recording, baseline,     \* recording_id, _recording_drop_baseline
    receiveDrops,            \* receive_drops
    recent,                  \* the sources that frames in `recent' came from
    sources,                 \* every source object constructed, in order
    rx,                      \* receive threads: rx[i] was started for sources[i]
    client,                  \* API threads
    recordings               \* the recordings the store holds, in id order

control == <<running, source, kind, thread>>
capture == <<recording, baseline, receiveDrops>>
vars == <<control, capture, recent, sources, rx, client, recordings>>

Conns == 1..MaxConnects
Kinds == {"simulator", "socketcan", "replay"}

(* Only a SocketCAN socket has a queue that can overflow. *)
Source == [kind : Kinds, pos : 0..MaxPos, dropped : 0..MaxPos, open : BOOLEAN]
Receiver == [pc : {"unborn", "loop", "read", "got", "ingest", "eof", "failed", "dead",
                    "raised"},
             src : Conns \cup {None}, pos : 0..MaxPos, drops : 0..MaxPos]
Client == [pc : {"idle", "stopping", "dropping", "closing", "joining", "installing"},
           op : {"connect", "disconnect", "stop"}, conn : Conns \cup {None},
           rid : 1..MaxRecordings \cup {None}, complete : BOOLEAN,
           src : Conns \cup {None}, thread : Conns \cup {None}]
Recording == [kind : Kinds \cup {None}, frames : Seq([src : Conns, pos : 1..MaxPos]),
              open : BOOLEAN, complete : BOOLEAN]

(* A thread's or client's fields are reset when it has no more use for them. *)
NoFrame == 0
Unborn == [pc |-> "unborn", src |-> None, pos |-> NoFrame, drops |-> 0]
Dead == [Unborn EXCEPT !.pc = "dead"]
Idle == [pc |-> "idle", op |-> "stop", conn |-> None, rid |-> None,
         complete |-> FALSE, src |-> None, thread |-> None]

(* The thread has been started and has not ended. *)
Alive(i) == rx[i].pc \notin {"unborn", "dead", "raised"}

(* The transport reports the end of its input: ReplaySource.eof. *)
AtEof(s) == s.kind = "replay" /\ (s.pos = MaxPos \/ ~s.open)

Init ==
    /\ running = FALSE /\ source = None /\ kind = None /\ thread = None
    /\ recording = None /\ baseline = None /\ receiveDrops = 0
    /\ recent = {}
    /\ sources = <<>>
    /\ rx = [i \in Conns |-> Unborn]
    /\ client = [c \in Clients |-> Idle]
    /\ recordings = <<>>

-----------------------------------------------------------------------------
(* API threads.  connect, disconnect and stop_recording all begin by taking   *)
(* the active recording away from the runtime; the completeness verdict is    *)
(* computed from what was read under the lock.                                *)

DropDelta ==
    IF baseline = None \/ receiveDrops < baseline THEN 0 ELSE receiveDrops - baseline

(* Slip: the recording stays the active one until the store has stopped it. *)
TakeRecordingLate(c, op, conn) ==
    /\ client[c].pc = "idle"
    /\ client' = [client EXCEPT ![c] = [Idle EXCEPT !.pc = "stopping", !.op = op,
                    !.conn = conn, !.rid = recording,
                    !.complete = recording # None /\ DropDelta = 0]]
    /\ UNCHANGED <<control, recording, baseline, receiveDrops, recent, rx, recordings>>

(* Slip: a connection that ends its recording does not stop it in the store. *)
TakeRecordingForgetting(c, op, conn) ==
    /\ client[c].pc = "idle"
    /\ client' = [client EXCEPT ![c] = [Idle EXCEPT !.pc = "stopping", !.op = op,
                    !.conn = conn, !.rid = IF op = "stop" THEN recording ELSE None,
                    !.complete = recording # None /\ DropDelta = 0]]
    /\ recording' = None
    /\ baseline' = None
    /\ UNCHANGED <<control, receiveDrops, recent, rx, recordings>>

TakeRecording(c, op, conn) ==
    /\ client[c].pc = "idle"
    /\ client' = [client EXCEPT ![c] = [Idle EXCEPT !.pc = "stopping", !.op = op,
                    !.conn = conn, !.rid = recording,
                    !.complete = recording # None /\ DropDelta = 0]]
    /\ recording' = None
    /\ baseline' = None
    /\ UNCHANGED <<control, receiveDrops, recent, rx, recordings>>

(* The source object is constructed (and a SocketCAN socket bound) first. *)
Connect(c, k) ==
    /\ Len(sources) < MaxConnects
    /\ sources' = Append(sources, [kind |-> k, pos |-> 0, dropped |-> 0, open |-> TRUE])
    /\ TakeRecording(c, "connect", Len(sources) + 1)

Disconnect(c) == TakeRecording(c, "disconnect", None) /\ UNCHANGED sources

StopRecording(c) == TakeRecording(c, "stop", None) /\ UNCHANGED sources

(* storage.stop_recording, outside the runtime lock; if it raises, so does the
   request, and a connect or disconnect goes no further. *)
StoreStop(c) ==
    LET me == client[c] IN
    /\ me.pc = "stopping"
    /\ \/ /\ recordings' = IF me.rid = None THEN recordings
                           ELSE [recordings EXCEPT ![me.rid].open = FALSE,
                                                   ![me.rid].complete = me.complete]
          /\ client' = [client EXCEPT ![c] =
                          IF me.op = "stop" THEN Idle
                          ELSE [Idle EXCEPT !.pc = "dropping", !.op = me.op, !.conn = me.conn]]
       \/ /\ StorageMayFail /\ me.rid # None
          /\ client' = [client EXCEPT ![c] = Idle]
          /\ UNCHANGED recordings
    /\ UNCHANGED <<control, capture, recent, sources, rx>>

DropSource(c) ==
    /\ client[c].pc = "dropping"
    /\ client' = [client EXCEPT ![c].pc = "closing", ![c].src = source,
                                ![c].thread = thread]
    /\ running' = FALSE /\ source' = None /\ thread' = None
    /\ UNCHANGED <<kind, capture, recent, sources, rx, recordings>>

CloseSource(c) ==
    LET me == client[c] IN
    /\ me.pc = "closing"
    /\ sources' = IF me.src = None THEN sources
                  ELSE [sources EXCEPT ![me.src].open = FALSE]
    /\ client' = [client EXCEPT ![c].pc = "joining", ![c].src = None]
    /\ UNCHANGED <<control, capture, recent, rx, recordings>>

(* Slip: the receive thread is left to notice by itself. *)
JoinedUnwaited(i) == TRUE

Joined(i) == i # None => (~Alive(i) \/ JoinMayTimeout)

(* The join, and the block that clears what is left of the connection. *)
JoinReceiver(c) ==
    LET me == client[c] IN
    /\ me.pc = "joining"
    /\ Joined(me.thread)
    /\ kind' = None
    /\ baseline' = None
    /\ client' = [client EXCEPT ![c] =
                    IF me.op = "connect" THEN [me EXCEPT !.pc = "installing", !.thread = None]
                    ELSE Idle]
    /\ UNCHANGED <<running, source, thread, recording, receiveDrops, recent, sources,
                   rx, recordings>>

InstallSource(c) ==
    LET conn == client[c].conn IN
    /\ client[c].pc = "installing"
    /\ running' = TRUE /\ source' = conn /\ kind' = sources[conn].kind
    /\ thread' = conn
    /\ receiveDrops' = sources[conn].dropped
    /\ baseline' = None
    /\ recent' = {}
    /\ rx' = [rx EXCEPT ![conn].pc = "loop"]
    /\ client' = [client EXCEPT ![c] = Idle]
    /\ UNCHANGED <<recording, sources, recordings>>

(* One block under the lock; the refusals change nothing. *)
StartRecording(c) ==
    /\ client[c].pc = "idle"
    /\ running /\ kind # "replay" /\ recording = None
    /\ Len(recordings) < MaxRecordings
    /\ recording' = Len(recordings) + 1
    /\ baseline' = receiveDrops
    /\ recordings' = Append(recordings,
                        [kind |-> kind, frames |-> <<>>, open |-> TRUE, complete |-> FALSE])
    /\ UNCHANGED <<control, receiveDrops, recent, sources, rx, client>>

-----------------------------------------------------------------------------
(* Receive threads: Runtime._loop.                                            *)

(* Slip: the thread goes on with the source it was started for. *)
LoopTestOwnSource(i) ==
    /\ rx[i].pc = "loop"
    /\ rx' = [rx EXCEPT ![i] = [Unborn EXCEPT !.pc = "read", !.src = i]]
    /\ UNCHANGED <<control, capture, recent, sources, client, recordings>>

LoopTest(i) ==
    /\ rx[i].pc = "loop"
    /\ rx' = [rx EXCEPT ![i] = IF running /\ source # None
                               THEN [Unborn EXCEPT !.pc = "read", !.src = source]
                               ELSE Dead]
    /\ UNCHANGED <<control, capture, recent, sources, client, recordings>>

(* source.read returns a frame; `lost' frames were dropped just before it and
   are counted when it is received.  A simulator goes on after close(). *)
ReadFrame(i) ==
    LET s == rx[i].src IN
    /\ rx[i].pc = "read"
    /\ sources[s].open \/ sources[s].kind = "simulator"
    /\ ~AtEof(sources[s])
    /\ \E lost \in IF sources[s].kind = "socketcan" THEN {0, 1} ELSE {0} :
          LET pos == sources[s].pos + lost + 1
              dropped == sources[s].dropped + lost IN
          /\ pos <= MaxPos
          /\ sources' = [sources EXCEPT ![s].pos = pos, ![s].dropped = dropped]
          /\ rx' = [rx EXCEPT ![i].pc = "got", ![i].pos = pos, ![i].drops = dropped]
    /\ UNCHANGED <<control, capture, recent, client, recordings>>

(* source.read times out, or has reached its end. *)
ReadNothing(i) ==
    LET s == rx[i].src IN
    /\ rx[i].pc = "read"
    /\ \/ sources[s].open /\ sources[s].kind # "simulator"
       \/ AtEof(sources[s])
       \/ sources[s].pos = MaxPos /\ sources[s].kind = "simulator" \* at the bound
    /\ rx' = [rx EXCEPT ![i].pc = "got", ![i].pos = NoFrame,
                        ![i].drops = sources[s].dropped]
    /\ UNCHANGED <<control, capture, recent, sources, client, recordings>>

(* source.read raises: the interface went away, or the socket was closed. *)
ReadFails(i) ==
    /\ rx[i].pc = "read"
    /\ sources[rx[i].src].kind = "socketcan"
    /\ rx' = [rx EXCEPT ![i] = [Unborn EXCEPT !.pc = "failed"]]
    /\ UNCHANGED <<control, capture, recent, sources, client, recordings>>

(* Slip: the counter is only looked at when a read has timed out. *)
CopyDropsWhenQuiet(i) ==
    /\ rx[i].pc = "got"
    /\ \/ /\ rx[i].pos # NoFrame
          /\ rx' = [rx EXCEPT ![i].pc = "ingest", ![i].drops = 0]
          /\ UNCHANGED receiveDrops
       \/ /\ rx[i].pos = NoFrame
          /\ rx' = [rx EXCEPT ![i] = [Unborn EXCEPT !.pc =
                        IF AtEof(sources[rx[i].src]) THEN "eof" ELSE "loop"]]
          /\ receiveDrops' = rx[i].drops
    /\ UNCHANGED <<control, recording, baseline, recent, sources, client, recordings>>

(* self.receive_drops = source.dropped, without the lock. *)
CopyDrops(i) ==
    /\ rx[i].pc = "got"
    /\ receiveDrops' = rx[i].drops
    /\ \/ /\ rx[i].pos # NoFrame
          /\ rx' = [rx EXCEPT ![i].pc = "ingest", ![i].drops = 0]
       \/ /\ rx[i].pos = NoFrame
          /\ rx' = [rx EXCEPT ![i] = [Unborn EXCEPT !.pc =
                        IF AtEof(sources[rx[i].src]) THEN "eof" ELSE "loop"]]
    /\ UNCHANGED <<control, recording, baseline, recent, sources, client, recordings>>

(* ingest; an append_frame that raises leaves through _loop and ends the
   thread, without a word to the runtime: `running' stays set. *)
Ingest(i) ==
    LET frame == [src |-> rx[i].src, pos |-> rx[i].pos] IN
    /\ rx[i].pc = "ingest"
    /\ recent' = recent \cup {rx[i].src}
    /\ \/ /\ rx' = [rx EXCEPT ![i] = [Unborn EXCEPT !.pc = "loop"]]
          /\ recordings' = IF recording = None THEN recordings
                           ELSE [recordings EXCEPT ![recording].frames = Append(@, frame)]
       \/ /\ StorageMayFail /\ recording # None
          /\ rx' = [rx EXCEPT ![i] = [Unborn EXCEPT !.pc = "raised"]]
          /\ UNCHANGED recordings
    /\ UNCHANGED <<control, capture, sources, client>>

(* The two ways the loop ends by itself: under the lock, running is cleared. *)
EndReceive(i) ==
    /\ rx[i].pc \in {"eof", "failed"}
    /\ running' = FALSE
    /\ rx' = [rx EXCEPT ![i] = Dead]
    /\ UNCHANGED <<source, kind, thread, capture, recent, sources, client, recordings>>

Receive(i) ==
    LoopTest(i) \/ ReadFrame(i) \/ ReadNothing(i) \/ ReadFails(i) \/ CopyDrops(i)
    \/ Ingest(i) \/ EndReceive(i)

Proceed(c) ==
    StoreStop(c) \/ DropSource(c) \/ CloseSource(c) \/ JoinReceiver(c) \/ InstallSource(c)

Next ==
    \/ \E c \in Clients :
          \/ \E k \in Kinds : Connect(c, k)
          \/ Disconnect(c)
          \/ StopRecording(c)
          \/ StartRecording(c)
          \/ Proceed(c)
    \/ \E i \in Conns : Receive(i)

Spec == Init /\ [][Next]_vars

(* Threads are scheduled, and a read comes back within its 0.25 s timeout. *)
FairSpec ==
    /\ Spec
    /\ \A c \in Clients : WF_vars(Proceed(c))
    /\ \A i \in Conns : WF_vars(Receive(i))

-----------------------------------------------------------------------------
TypeOK ==
    /\ running \in BOOLEAN
    /\ source \in Conns \cup {None} /\ thread \in Conns \cup {None}
    /\ kind \in Kinds \cup {None}
    /\ recording \in 1..MaxRecordings \cup {None}
    /\ baseline \in 0..MaxPos \cup {None} /\ receiveDrops \in 0..MaxPos
    /\ recent \subseteq Conns
    /\ sources \in Seq(Source) /\ Len(sources) <= MaxConnects
    /\ rx \in [Conns -> Receiver]
    /\ client \in [Clients -> Client]
    /\ recordings \in Seq(Recording) /\ Len(recordings) <= MaxRecordings

(* capture_complete is only ever claimed for frames that followed each other on
   the wire of one source: every frame the kernel dropped between two recorded
   ones, or that the runtime put in another order, makes the claim false. *)
CompleteIsContiguous ==
    \A r \in DOMAIN recordings : recordings[r].complete =>
        \A k \in 1..Len(recordings[r].frames) - 1 :
            LET this == recordings[r].frames[k]
                next == recordings[r].frames[k + 1] IN
            next.src = this.src /\ next.pos = this.pos + 1

(* A recording holds only frames of a source of the kind its row names. *)
RecordedAsLabelled ==
    \A r \in DOMAIN recordings : \A k \in DOMAIN recordings[r].frames :
        sources[recordings[r].frames[k].src].kind = recordings[r].kind

(* `recent', from which a vehicle is identified and learned, never mixes the
   frames of the connected source with those of an earlier one. *)
RecentIsCurrent == source # None => recent \subseteq {source}

(* Two threads never receive at once, and no thread outlives its connection
   but for the client that is waiting for it. *)
OneReceiver ==
    /\ Cardinality({i \in Conns : Alive(i)}) <= 1
    /\ \A i \in Conns : Alive(i) =>
          i = thread \/ \E c \in Clients : client[c].thread = i

(* A connected runtime has a thread that receives for it, unless storing a frame
   of that connection has raised. *)
ConnectedIsReceiving ==
    running /\ source # None =>
        /\ thread # None
        /\ Alive(thread) \/ rx[thread].pc = "raised"

(* Whatever the order of requests and threads, the frames the runtime has and
   those it records come over the connection it is said to have, and over no
   other: one thread receives, for the source connected, and nothing of an
   earlier source is left. *)
OneConnectionAtATime ==
    TypeOK /\ RecordedAsLabelled /\ RecentIsCurrent /\ OneReceiver /\ ConnectedIsReceiving

(* A recording the store holds open is the active one, or some client is about
   to stop it: none is forgotten. *)
OpenIsOwned ==
    \A r \in DOMAIN recordings : recordings[r].open =>
        \/ r = recording
        \/ \E c \in Clients : client[c].pc = "stopping" /\ client[c].rid = r

(* A recording is stopped once, by one client, and gets no frame after that. *)
StoppedIsFinal ==
    [][\A r \in DOMAIN recordings :
          ~recordings[r].open => recordings'[r] = recordings[r]]_vars

(* Every connect, disconnect and stop comes back: the receive thread notices
   that it has been disconnected and the join ends. *)
RequestsReturn == \A c \in Clients : client[c].pc # "idle" ~> client[c].pc = "idle"
=============================================================================
