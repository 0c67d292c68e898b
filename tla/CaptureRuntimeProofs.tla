------------------------ MODULE CaptureRuntimeProofs ------------------------
(***************************************************************************)
(* Proofs about CaptureRuntime, for any number of clients, connections,    *)
(* recordings and frames, with joins that give up and storage that raises. *)
(*                                                                         *)
(* What makes a recording's end final is who holds its number: the runtime *)
(* or one client on its way to the store, never both and never two.  What  *)
(* makes the frames those of one connection is that a request takes the    *)
(* recording away first and the thread next, and waits for it: that needs  *)
(* requests one at a time and joins that do not give up (OneByOne).        *)
(***************************************************************************)
EXTENDS CaptureRuntime, FiniteSetTheorems, TLAPS

(* Whoever holds a source or a recording holds one that there is. *)
Bound ==
    /\ source # None => source \in DOMAIN sources
    /\ recording # None => recording \in DOMAIN recordings
    /\ \A i \in Conns :
          /\ rx[i].pc \in {"read", "got", "ingest"} => rx[i].src \in DOMAIN sources
          /\ rx[i].pc = "ingest" => rx[i].pos # NoFrame
    /\ \A c \in Clients :
          /\ client[c].pc # "idle" /\ client[c].op = "connect" => client[c].conn \in DOMAIN sources
          /\ client[c].pc = "installing" => client[c].op = "connect"
          /\ client[c].src # None => client[c].src \in DOMAIN sources
          /\ client[c].rid # None => client[c].pc = "stopping" /\ client[c].rid \in DOMAIN recordings
    /\ \A s \in DOMAIN sources : sources[s].dropped <= sources[s].pos

Holds(c, r) == client[c].pc = "stopping" /\ client[c].rid = r

(* A recording is held once, and only as long as it is open. *)
Held ==
    /\ recording # None => recordings[recording].open
    /\ \A c \in Clients : \A r \in DOMAIN recordings : Holds(c, r) =>
          /\ recordings[r].open /\ r # recording
          /\ \A d \in Clients : Holds(d, r) => d = c
    /\ StorageMayFail \/ OpenIsOwned

IInv == TypeOK /\ Bound /\ Held

-----------------------------------------------------------------------------
(* The values a thread or a client has when it has no more use for them. *)
LEMMA Rest ==
    /\ Idle \in Client /\ Unborn \in Receiver /\ Dead \in Receiver
    /\ \A pc \in {"loop", "eof", "failed", "raised"} : [Unborn EXCEPT !.pc = pc] \in Receiver
    /\ \A s \in Conns \cup {None} :
          [Unborn EXCEPT !.pc = "read", !.src = s] \in Receiver
<1>1. Idle \in Client
  BY DEF Idle, Client
<1>2. Unborn \in Receiver
  BY RuntimeAssumption DEF Unborn, Receiver, NoFrame
<1>3. Dead \in Receiver
  BY <1>2 DEF Dead, Receiver
<1>4. \A pc \in {"loop", "eof", "failed", "raised"} : [Unborn EXCEPT !.pc = pc] \in Receiver
  BY <1>2 DEF Receiver
<1>5. \A s \in Conns \cup {None} : [Unborn EXCEPT !.pc = "read", !.src = s] \in Receiver
  BY <1>2 DEF Receiver
<1> QED BY <1>1, <1>2, <1>3, <1>4, <1>5

LEMMA InitKeeps == Init => IInv
<1> SUFFICES ASSUME Init PROVE IInv
  OBVIOUS
<1> USE RuntimeAssumption DEF Init
<1>1. rx \in [Conns -> Receiver] /\ client \in [Clients -> Client]
  BY Rest
<1>2. sources \in Seq(Source) /\ recordings \in Seq(Recording)
      /\ Len(sources) = 0 /\ Len(recordings) = 0
  OBVIOUS
<1>3. TypeOK
  <2>0. source \in Conns \cup {None} /\ thread \in Conns \cup {None}
        /\ kind \in Kinds \cup {None}
    OBVIOUS
  <2>1. recording \in (1..MaxRecordings) \cup {None} /\ baseline \in (0..MaxPos) \cup {None}
    OBVIOUS
  <2>2. receiveDrops \in 0..MaxPos /\ recent \subseteq Conns
    OBVIOUS
  <2>3. running \in BOOLEAN
    OBVIOUS
  <2> QED BY <1>1, <1>2, <2>0, <2>1, <2>2, <2>3 DEF TypeOK
<1>4. Bound
  BY <1>2 DEF Bound, Unborn, Idle
<1>5. Held
  BY <1>2 DEF Held, Holds, OpenIsOwned, Idle
<1> QED BY <1>3, <1>4, <1>5 DEF IInv

(* Who holds what stays as it is when no client enters or leaves `stopping'. *)
LEMMA HeldStays ==
    ASSUME Held, recording' = recording, recordings' = recordings,
           \A c \in Clients : client'[c] = client[c]
                              \/ (client[c].pc # "stopping" /\ client'[c].pc # "stopping")
    PROVE  Held'
<1>1. \A c \in Clients : \A r : Holds(c, r)' <=> Holds(c, r)
  BY DEF Holds
<1> QED BY <1>1 DEF Held, OpenIsOwned, Holds

(* A row of a table that is a sequence or a function, replaced. *)
LEMMA Replaced ==
    ASSUME NEW S, NEW T, NEW f \in [S -> T], NEW x \in S, NEW v \in T
    PROVE  [f EXCEPT ![x] = v] \in [S -> T]
OBVIOUS

LEMMA ReplacedIn ==
    ASSUME NEW T, NEW q \in Seq(T), NEW x \in DOMAIN q, NEW v \in T
    PROVE  /\ [q EXCEPT ![x] = v] \in Seq(T)
           /\ Len([q EXCEPT ![x] = v]) = Len(q)
           /\ DOMAIN [q EXCEPT ![x] = v] = DOMAIN q
OBVIOUS

-----------------------------------------------------------------------------
(* The receive threads: they touch neither clients nor who holds a recording. *)
LEMMA ReceiverMoves ==
    ASSUME IInv, NEW i \in Conns, NEW next \in Receiver, rx' = [rx EXCEPT ![i] = next],
           next.pc \in {"read", "got", "ingest"} => next.src \in DOMAIN sources,
           next.pc = "ingest" => next.pos # NoFrame,
           UNCHANGED <<recording, baseline, client, recordings, source, thread, kind>>,
           running' \in BOOLEAN, receiveDrops' \in 0..MaxPos, recent' \subseteq Conns,
           sources' \in Seq(Source), DOMAIN sources' = DOMAIN sources, Len(sources') = Len(sources),
           \A s \in DOMAIN sources : sources'[s].dropped <= sources'[s].pos
    PROVE  IInv'
<1>1. rx' \in [Conns -> Receiver]
  BY Replaced DEF IInv, TypeOK
<1>2. TypeOK'
  BY <1>1 DEF IInv, TypeOK
<1>3. \A j \in Conns : rx'[j] = IF j = i THEN next ELSE rx[j]
  BY DEF IInv, TypeOK
<1>4. Bound'
  BY <1>3 DEF IInv, Bound
<1>5. Held'
  BY HeldStays DEF IInv
<1> QED BY <1>2, <1>4, <1>5 DEF IInv

LEMMA LoopTestKeeps == ASSUME IInv, NEW i \in Conns, LoopTest(i) PROVE IInv'
<1>1. source \in Conns \cup {None} /\ (source # None => source \in DOMAIN sources)
  BY DEF IInv, TypeOK, Bound
<1>2. CASE running /\ source # None
  <2> DEFINE next == [Unborn EXCEPT !.pc = "read", !.src = source]
  <2>1. next \in Receiver /\ next.src = source /\ next.pc = "read"
    BY <1>1, Rest DEF Unborn
  <2> QED BY <1>1, <1>2, <2>1, ReceiverMoves DEF LoopTest, control, capture, IInv, TypeOK, Bound
<1>3. CASE ~(running /\ source # None)
  <2>1. Dead.pc = "dead"
    BY DEF Dead, Unborn
  <2> QED BY <1>3, <2>1, Rest, ReceiverMoves DEF LoopTest, control, capture, IInv, TypeOK, Bound
<1> QED BY <1>2, <1>3

LEMMA ReadFrameKeeps == ASSUME IInv, NEW i \in Conns, ReadFrame(i) PROVE IInv'
<1> DEFINE s == rx[i].src
<1>1. s \in DOMAIN sources /\ sources[s] \in Source /\ rx[i] \in Receiver
      /\ sources[s].dropped <= sources[s].pos /\ sources \in Seq(Source)
  BY DEF IInv, TypeOK, Bound, ReadFrame
<1>2. PICK lost \in {0, 1} :
        /\ sources[s].pos + lost + 1 <= MaxPos
        /\ sources' = [sources EXCEPT ![s].pos = sources[s].pos + lost + 1,
                                      ![s].dropped = sources[s].dropped + lost]
        /\ rx' = [rx EXCEPT ![i].pc = "got", ![i].pos = sources[s].pos + lost + 1,
                            ![i].drops = sources[s].dropped + lost]
  BY DEF ReadFrame
<1> DEFINE pos == sources[s].pos + lost + 1
           dropped == sources[s].dropped + lost
           row == [sources[s] EXCEPT !.pos = pos, !.dropped = dropped]
           next == [rx[i] EXCEPT !.pc = "got", !.pos = pos, !.drops = dropped]
<1>3. pos \in 0..MaxPos /\ dropped \in 0..MaxPos /\ dropped <= pos
  <2>1. sources[s].pos \in 0..MaxPos /\ sources[s].dropped \in 0..MaxPos
    BY <1>1 DEF Source
  <2>2. lost \in Nat /\ pos <= MaxPos
    BY <1>2
  <2>3. sources[s].dropped <= sources[s].pos
    BY <1>1
  <2> HIDE DEF s
  <2> QED BY <2>1, <2>2, <2>3, RuntimeAssumption
<1>4. row \in Source /\ row.pos = pos /\ row.dropped = dropped
  BY <1>1, <1>3 DEF Source
<1>5. next \in Receiver /\ next.pc = "got" /\ next.src = s
  BY <1>1, <1>3 DEF Receiver
<1>6. rx' = [rx EXCEPT ![i] = next] /\ sources' = [sources EXCEPT ![s] = row]
  BY <1>1, <1>2 DEF IInv, TypeOK
<1>7. sources' \in Seq(Source) /\ DOMAIN sources' = DOMAIN sources /\ Len(sources') = Len(sources)
  BY <1>1, <1>4, <1>6, ReplacedIn
<1>8. \A t \in DOMAIN sources : sources'[t].dropped <= sources'[t].pos
  BY <1>1, <1>3, <1>4, <1>6 DEF IInv, Bound
<1> QED
  BY <1>1, <1>5, <1>6, <1>7, <1>8, ReceiverMoves DEF ReadFrame, control, capture, IInv, TypeOK

LEMMA ReadNothingKeeps == ASSUME IInv, NEW i \in Conns, ReadNothing(i) PROVE IInv'
<1> DEFINE s == rx[i].src
           next == [rx[i] EXCEPT !.pc = "got", !.pos = NoFrame, !.drops = sources[s].dropped]
<1>1. s \in DOMAIN sources /\ sources[s] \in Source /\ rx[i] \in Receiver
  BY DEF IInv, TypeOK, Bound, ReadNothing
<1>2. next \in Receiver /\ next.pc = "got" /\ next.src = s
  <2>1. sources[s].dropped \in 0..MaxPos /\ NoFrame \in 0..MaxPos
    BY <1>1, RuntimeAssumption DEF Source, NoFrame
  <2> QED BY <1>1, <2>1 DEF Receiver
<1>3. rx' = [rx EXCEPT ![i] = next]
  BY DEF IInv, TypeOK, ReadNothing
<1> QED
  BY <1>1, <1>2, <1>3, ReceiverMoves
  DEF ReadNothing, control, capture, IInv, TypeOK, Bound

LEMMA ReadFailsKeeps == ASSUME IInv, NEW i \in Conns, ReadFails(i) PROVE IInv'
<1> DEFINE next == [Unborn EXCEPT !.pc = "failed"]
<1>1. next \in Receiver /\ next.pc = "failed"
  BY Rest DEF Unborn
<1> QED
  BY <1>1, ReceiverMoves DEF ReadFails, control, capture, IInv, TypeOK, Bound

LEMMA CopyDropsKeeps == ASSUME IInv, NEW i \in Conns, CopyDrops(i) PROVE IInv'
<1>1. rx[i] \in Receiver /\ rx[i].pc = "got" /\ rx[i].src \in DOMAIN sources
  BY DEF IInv, TypeOK, Bound, CopyDrops
<1>2. receiveDrops' \in 0..MaxPos
  BY <1>1 DEF CopyDrops, Receiver
<1>3. CASE rx[i].pos # NoFrame
  <2> DEFINE next == [rx[i] EXCEPT !.pc = "ingest", !.drops = 0]
  <2>1. next \in Receiver /\ next.src = rx[i].src /\ next.pos = rx[i].pos
    <3>1. 0 \in 0..MaxPos
      BY RuntimeAssumption
    <3> QED BY <1>1, <3>1 DEF Receiver
  <2>2. rx' = [rx EXCEPT ![i] = next]
    BY <1>3 DEF IInv, TypeOK, CopyDrops
  <2> QED
    BY <1>1, <1>2, <1>3, <2>1, <2>2, ReceiverMoves DEF CopyDrops, control, IInv, TypeOK, Bound
<1>4. CASE rx[i].pos = NoFrame
  <2>1. PICK pc \in {"eof", "loop"} : rx' = [rx EXCEPT ![i] = [Unborn EXCEPT !.pc = pc]]
    BY <1>4 DEF CopyDrops
  <2> DEFINE next == [Unborn EXCEPT !.pc = pc]
  <2>2. next \in Receiver /\ next.pc = pc
    BY Rest DEF Unborn
  <2> QED
    BY <1>2, <2>1, <2>2, ReceiverMoves DEF CopyDrops, control, IInv, TypeOK, Bound
<1> QED BY <1>3, <1>4

LEMMA EndReceiveKeeps == ASSUME IInv, NEW i \in Conns, EndReceive(i) PROVE IInv'
<1>1. Dead.pc = "dead"
  BY DEF Dead, Unborn
<1> QED
  BY <1>1, Rest, ReceiverMoves DEF EndReceive, capture, IInv, TypeOK, Bound

-----------------------------------------------------------------------------
(* The clients.  A request begins by taking the recording over from the      *)
(* runtime, if there is one.                                                  *)
LEMMA TakeKeeps ==
    ASSUME IInv, NEW c \in Clients, NEW op \in {"connect", "disconnect", "stop"},
           NEW conn \in Conns \cup {None}, TakeRecording(c, op, conn),
           sources' \in Seq(Source), Len(sources') <= MaxConnects,
           DOMAIN sources \subseteq DOMAIN sources',
           \A s \in DOMAIN sources' : sources'[s].dropped <= sources'[s].pos,
           op = "connect" => conn \in DOMAIN sources'
    PROVE  IInv'
<1> DEFINE whole == recording # None /\ DropDelta = 0
           next == [Idle EXCEPT !.pc = "stopping", !.op = op, !.conn = conn, !.rid = recording,
                                !.complete = whole]
<1>1. client' = [client EXCEPT ![c] = next] /\ recording' = None /\ baseline' = None
  BY DEF TakeRecording
<1>2. recording \in 1..MaxRecordings \cup {None} /\ (recording # None => recording \in DOMAIN recordings)
  BY DEF IInv, TypeOK, Bound
<1>3. /\ next.pc = "stopping" /\ next.op = op /\ next.conn = conn
      /\ next.rid = recording /\ next.src = None
  BY DEF Idle
<1>4. next \in Client
  <2>1. whole \in BOOLEAN
    OBVIOUS
  <2> HIDE DEF whole
  <2> QED BY <1>2, <2>1, Rest DEF Client
<1>5. \A d \in Clients : client'[d] = IF d = c THEN next ELSE client[d]
  BY <1>1 DEF IInv, TypeOK
<1> HIDE DEF next
<1>6. TypeOK'
  <2>1. client' \in [Clients -> Client]
    BY <1>1, <1>4, Replaced DEF IInv, TypeOK
  <2> QED BY <1>1, <2>1 DEF IInv, TypeOK, TakeRecording, control
<1>7. Bound'
  <2>1. source' = source /\ rx' = rx /\ recordings' = recordings /\ recording' = None
    BY DEF TakeRecording, control
  <2>2. /\ source' # None => source' \in DOMAIN sources'
        /\ \A i \in Conns :
              /\ rx'[i].pc \in {"read", "got", "ingest"} => rx'[i].src \in DOMAIN sources'
              /\ rx'[i].pc = "ingest" => rx'[i].pos # NoFrame
    BY <2>1 DEF IInv, Bound
  <2>3. ASSUME NEW d \in Clients
        PROVE  /\ client'[d].pc # "idle" /\ client'[d].op = "connect" => client'[d].conn \in DOMAIN sources'
               /\ client'[d].pc = "installing" => client'[d].op = "connect"
               /\ client'[d].src # None => client'[d].src \in DOMAIN sources'
               /\ client'[d].rid # None => client'[d].pc = "stopping" /\ client'[d].rid \in DOMAIN recordings'
    <3>1. CASE d = c
      <4>1. client'[d] = next
        BY <1>5, <3>1
      <4> QED BY <1>2, <1>3, <2>1, <4>1
    <3>2. CASE d # c
      <4>1. client'[d] = client[d]
        BY <1>5, <3>2
      <4> QED BY <2>1, <4>1 DEF IInv, Bound
    <3> QED BY <3>1, <3>2
  <2> QED BY <2>1, <2>2, <2>3 DEF Bound
<1>8. Held'
  <2>1. recordings' = recordings /\ client[c].pc = "idle"
    BY DEF TakeRecording
  <2>2. \A d \in Clients, r \in DOMAIN recordings :
            Holds(d, r)' <=> IF d = c THEN r = recording ELSE Holds(d, r)
    BY <1>3, <1>5 DEF Holds
  <2>3. \A r \in DOMAIN recordings : ~Holds(c, r)
    BY <2>1 DEF Holds
  <2>4. None \notin DOMAIN recordings
    BY RuntimeAssumption DEF IInv, TypeOK
  <2>5. ASSUME NEW d \in Clients, NEW r \in DOMAIN recordings, Holds(d, r)'
        PROVE  /\ recordings[r].open /\ r # None
               /\ \A e \in Clients : Holds(e, r)' => e = d
    <3>1. CASE d = c
      <4>1. r = recording /\ recordings[r].open
        BY <1>2, <2>2, <2>4, <2>5, <3>1 DEF IInv, Held
      <4>2. \A e \in Clients : ~Holds(e, r)
        BY <4>1 DEF IInv, Held
      <4> QED BY <2>2, <2>4, <3>1, <4>1, <4>2
    <3>2. CASE d # c
      <4>1. Holds(d, r)
        BY <2>2, <2>5, <3>2
      <4>2. recordings[r].open /\ r # recording /\ \A e \in Clients : Holds(e, r) => e = d
        BY <4>1 DEF IInv, Held
      <4> QED BY <2>2, <2>4, <4>2
    <3> QED BY <3>1, <3>2
  <2>6. OpenIsOwned => OpenIsOwned'
    <3> SUFFICES ASSUME OpenIsOwned, NEW r \in DOMAIN recordings, recordings[r].open
                 PROVE  \E d \in Clients : Holds(d, r)'
      BY <2>1 DEF OpenIsOwned, Holds
    <3>1. r = recording \/ \E d \in Clients : Holds(d, r)
      BY DEF OpenIsOwned, Holds
    <3> QED BY <2>2, <2>3, <3>1
  <2> QED BY <1>1, <2>1, <2>5, <2>6 DEF IInv, Held
<1> QED BY <1>6, <1>7, <1>8 DEF IInv

LEMMA ConnectKeeps == ASSUME IInv, NEW c \in Clients, NEW k \in Kinds, Connect(c, k) PROVE IInv'
<1> DEFINE row == [kind |-> k, pos |-> 0, dropped |-> 0, open |-> TRUE]
<1>1. row \in Source /\ row.dropped <= row.pos
  BY RuntimeAssumption DEF Source
<1>2. sources \in Seq(Source) /\ sources' = Append(sources, row) /\ Len(sources) < MaxConnects
  BY DEF IInv, TypeOK, Connect
<1> HIDE DEF row
<1>3. sources' \in Seq(Source) /\ Len(sources') = Len(sources) + 1
      /\ \A s \in 1..Len(sources) + 1 :
            sources'[s] = IF s = Len(sources) + 1 THEN row ELSE sources[s]
  BY <1>1, <1>2
<1>4. \A s \in DOMAIN sources' : sources'[s].dropped <= sources'[s].pos
  BY <1>1, <1>2, <1>3 DEF IInv, Bound
<1>5. Len(sources) + 1 \in Conns /\ Len(sources') <= MaxConnects
      /\ DOMAIN sources \subseteq DOMAIN sources' /\ Len(sources) + 1 \in DOMAIN sources'
  BY <1>2, <1>3, RuntimeAssumption DEF Conns
<1> QED BY <1>3, <1>4, <1>5, TakeKeeps DEF Connect

LEMMA AskKeeps ==
    ASSUME IInv, NEW c \in Clients, Disconnect(c) \/ StopRecording(c) PROVE IInv'
<1>1. sources' = sources
  BY DEF Disconnect, StopRecording
<1> QED BY <1>1, TakeKeeps DEF Disconnect, StopRecording, IInv, TypeOK, Bound

(* A request that goes on after its recording has been stopped. *)
LEMMA ClientMoves ==
    ASSUME IInv, NEW c \in Clients, NEW next \in Client, client' = [client EXCEPT ![c] = next],
           client[c].pc # "stopping", next.pc # "stopping",
           next.pc # "idle" /\ next.op = "connect" => next.conn \in DOMAIN sources,
           next.pc = "installing" => next.op = "connect",
           next.src # None => next.src \in DOMAIN sources,
           next.rid = None,
           UNCHANGED <<recording, recordings>>,
           source' \in Conns \cup {None}, source' # None => source' \in DOMAIN sources,
           sources' \in Seq(Source), DOMAIN sources' = DOMAIN sources, Len(sources') = Len(sources),
           \A s \in DOMAIN sources : sources'[s].dropped <= sources'[s].pos,
           rx' \in [Conns -> Receiver],
           \A i \in Conns : rx'[i] = rx[i] \/ rx'[i].pc = "loop",
           running' \in BOOLEAN, thread' \in Conns \cup {None}, kind' \in Kinds \cup {None},
           baseline' \in (0..MaxPos) \cup {None}, receiveDrops' \in 0..MaxPos, recent' \subseteq Conns
    PROVE  IInv'
<1>1. \A d \in Clients : client'[d] = IF d = c THEN next ELSE client[d]
  BY DEF IInv, TypeOK
<1>2. TypeOK'
  <2>1. client' \in [Clients -> Client]
    BY Replaced DEF IInv, TypeOK
  <2> QED BY <2>1 DEF IInv, TypeOK
<1>3. Bound'
  BY <1>1 DEF IInv, Bound
<1>4. Held'
  BY <1>1, HeldStays DEF IInv
<1> QED BY <1>2, <1>3, <1>4 DEF IInv

(* What the steps of a request leave alone. *)
LEMMA Kept ==
    ASSUME IInv
    PROVE  /\ source \in Conns \cup {None} /\ thread \in Conns \cup {None}
           /\ kind \in Kinds \cup {None} /\ running \in BOOLEAN
           /\ baseline \in (0..MaxPos) \cup {None} /\ receiveDrops \in 0..MaxPos
           /\ recent \subseteq Conns /\ rx \in [Conns -> Receiver] /\ sources \in Seq(Source)
           /\ source # None => source \in DOMAIN sources
           /\ \A s \in DOMAIN sources : sources[s].dropped <= sources[s].pos
           /\ None \in Conns \cup {None} /\ None \in Kinds \cup {None}
           /\ None \in (0..MaxPos) \cup {None} /\ FALSE \in BOOLEAN
BY DEF IInv, TypeOK, Bound

LEMMA DropSourceKeeps == ASSUME IInv, NEW c \in Clients, DropSource(c) PROVE IInv'
<1> DEFINE next == [client[c] EXCEPT !.pc = "closing", !.src = source, !.thread = thread]
<1>1. client[c] \in Client /\ client[c].pc = "dropping"
      /\ source \in Conns \cup {None} /\ thread \in Conns \cup {None}
  BY DEF IInv, TypeOK, DropSource
<1>2. next \in Client /\ next.pc = "closing" /\ next.op = client[c].op /\ next.conn = client[c].conn
      /\ next.src = source /\ next.rid = client[c].rid
  BY <1>1 DEF Client
<1>3. client' = [client EXCEPT ![c] = next]
  BY DEF IInv, TypeOK, DropSource
<1>4. next.rid = None /\ (next.op = "connect" => next.conn \in DOMAIN sources)
  BY <1>1, <1>2 DEF IInv, Bound
<1>5. /\ running' = FALSE /\ source' = None /\ thread' = None
      /\ UNCHANGED <<kind, recording, baseline, receiveDrops, recent, sources, rx, recordings>>
  BY DEF DropSource, capture
<1> HIDE DEF next
<1> QED BY <1>1, <1>2, <1>3, <1>4, <1>5, Kept, ClientMoves

LEMMA CloseSourceKeeps == ASSUME IInv, NEW c \in Clients, CloseSource(c) PROVE IInv'
<1> DEFINE next == [client[c] EXCEPT !.pc = "joining", !.src = None]
           s == client[c].src
           row == [sources[s] EXCEPT !.open = FALSE]
<1>1. client[c] \in Client /\ client[c].pc = "closing" /\ (s # None => s \in DOMAIN sources)
      /\ sources \in Seq(Source)
  BY DEF IInv, TypeOK, Bound, CloseSource
<1>2. next \in Client /\ next.pc = "joining" /\ next.op = client[c].op /\ next.conn = client[c].conn
      /\ next.src = None /\ next.rid = client[c].rid
  BY <1>1 DEF Client
<1>3. client' = [client EXCEPT ![c] = next]
  BY DEF IInv, TypeOK, CloseSource
<1>4. /\ sources' \in Seq(Source) /\ DOMAIN sources' = DOMAIN sources /\ Len(sources') = Len(sources)
      /\ \A t \in DOMAIN sources : sources'[t].dropped <= sources'[t].pos
  <2>1. CASE s = None
    BY <1>1, <2>1 DEF CloseSource, IInv, Bound
  <2>2. CASE s # None
    <3>0. sources[s] \in Source
      BY <1>1, <2>2
    <3>1. row \in Source /\ row.dropped = sources[s].dropped /\ row.pos = sources[s].pos
      BY <3>0 DEF Source
    <3>2. sources' = [sources EXCEPT ![s] = row]
      BY <1>1, <2>2 DEF CloseSource
    <3>3. \A t \in DOMAIN sources : sources'[t] = IF t = s THEN row ELSE sources[t]
      BY <1>1, <3>2
    <3>4. sources' \in Seq(Source) /\ DOMAIN sources' = DOMAIN sources /\ Len(sources') = Len(sources)
      BY <1>1, <2>2, <3>1, <3>2, ReplacedIn
    <3> QED BY <3>1, <3>3, <3>4 DEF IInv, Bound
  <2> QED BY <2>1, <2>2
<1>5. next.rid = None /\ (next.op = "connect" => next.conn \in DOMAIN sources)
  BY <1>1, <1>2 DEF IInv, Bound
<1>6. UNCHANGED <<running, source, kind, thread, recording, baseline, receiveDrops, recent, rx,
                  recordings>>
  BY DEF CloseSource, control, capture
<1> HIDE DEF next
<1> QED BY <1>1, <1>2, <1>3, <1>4, <1>5, <1>6, Kept, ClientMoves

LEMMA JoinReceiverKeeps == ASSUME IInv, NEW c \in Clients, JoinReceiver(c) PROVE IInv'
<1> DEFINE on == [client[c] EXCEPT !.pc = "installing", !.thread = None]
           next == IF client[c].op = "connect" THEN on ELSE Idle
<1>1. client[c] \in Client /\ client[c].pc = "joining"
  BY DEF IInv, TypeOK, JoinReceiver
<1>2. /\ on \in Client /\ on.pc = "installing" /\ on.op = client[c].op /\ on.conn = client[c].conn
      /\ on.src = client[c].src /\ on.rid = client[c].rid
      /\ Idle \in Client /\ Idle.pc = "idle" /\ Idle.src = None /\ Idle.rid = None
  BY <1>1, Rest DEF Client, Idle
<1>3. client' = [client EXCEPT ![c] = next]
  BY DEF IInv, TypeOK, JoinReceiver
<1> HIDE DEF on
<1>4. /\ next \in Client /\ next.rid = None /\ next.pc # "stopping"
      /\ next.src # None => next.src \in DOMAIN sources
      /\ next.pc = "installing" => next.op = "connect"
      /\ next.pc # "idle" /\ next.op = "connect" => next.conn \in DOMAIN sources
  BY <1>1, <1>2 DEF IInv, Bound
<1>5. /\ kind' = None /\ baseline' = None
      /\ UNCHANGED <<running, source, thread, recording, receiveDrops, recent, sources, rx, recordings>>
  BY DEF JoinReceiver
<1> HIDE DEF next
<1> QED BY <1>1, <1>3, <1>4, <1>5, Kept, ClientMoves

LEMMA InstallSourceKeeps == ASSUME IInv, NEW c \in Clients, InstallSource(c) PROVE IInv'
<1> DEFINE conn == client[c].conn
           fresh == [rx[conn] EXCEPT !.pc = "loop"]
<1>1. /\ client[c] \in Client /\ client[c].pc = "installing"
      /\ conn \in DOMAIN sources /\ sources \in Seq(Source) /\ Len(sources) <= MaxConnects
  BY DEF IInv, TypeOK, Bound, InstallSource
<1>2. conn \in Conns /\ sources[conn] \in Source
  BY <1>1, RuntimeAssumption DEF Conns
<1>3. sources[conn].kind \in Kinds /\ sources[conn].dropped \in 0..MaxPos
  BY <1>2 DEF Source
<1>4. Idle \in Client /\ Idle.pc = "idle" /\ Idle.src = None /\ Idle.rid = None
  BY Rest DEF Idle
<1>5. rx' \in [Conns -> Receiver] /\ \A i \in Conns : rx'[i] = rx[i] \/ rx'[i].pc = "loop"
  <2>1. rx \in [Conns -> Receiver] /\ fresh \in Receiver /\ fresh.pc = "loop"
    BY <1>2 DEF IInv, TypeOK, Receiver
  <2>2. rx' = [rx EXCEPT ![conn] = fresh]
    BY <1>2, <2>1 DEF InstallSource
  <2> QED BY <1>2, <2>1, <2>2, Replaced
<1> QED
  BY <1>1, <1>2, <1>3, <1>4, <1>5, ClientMoves DEF InstallSource, IInv, TypeOK, Bound

(* storage.stop_recording: the client that holds the recording lets it go, and
   nobody else holds it. *)
LEMMA StoreStopKeeps == ASSUME IInv, NEW c \in Clients, StoreStop(c) PROVE IInv'
<1> DEFINE me == client[c]
           on == [Idle EXCEPT !.pc = "dropping", !.op = me.op, !.conn = me.conn]
           row == [recordings[me.rid] EXCEPT !.open = FALSE, !.complete = me.complete]
<1>1. /\ me \in Client /\ me.pc = "stopping" /\ recordings \in Seq(Recording)
      /\ me.rid # None => me.rid \in DOMAIN recordings
  BY DEF IInv, TypeOK, Bound, StoreStop
<1>2. /\ on \in Client /\ on.pc = "dropping" /\ on.op = me.op /\ on.conn = me.conn
      /\ on.src = None /\ on.rid = None
      /\ Idle \in Client /\ Idle.pc = "idle" /\ Idle.src = None /\ Idle.rid = None
  BY <1>1, Rest DEF Client, Idle
<1> HIDE DEF on
<1>3. PICK next \in {Idle, on} :
        /\ client' = [client EXCEPT ![c] = next]
        /\ \/ recordings' = recordings /\ me.rid = None
           \/ recordings' = recordings /\ StorageMayFail
           \/ me.rid # None /\ recordings' = [recordings EXCEPT ![me.rid].open = FALSE,
                                                                ![me.rid].complete = me.complete]
  BY DEF StoreStop, on
<1>4. \A d \in Clients : client'[d] = IF d = c THEN next ELSE client[d]
  BY <1>3 DEF IInv, TypeOK
<1>5. /\ recordings' \in Seq(Recording) /\ DOMAIN recordings' = DOMAIN recordings
      /\ Len(recordings') = Len(recordings)
      /\ \A r \in DOMAIN recordings :
            recordings'[r] = recordings[r] \/ (r = me.rid /\ ~recordings'[r].open)
      /\ StorageMayFail \/ \A r \in DOMAIN recordings : r = me.rid => ~recordings'[r].open
  <2>1. CASE recordings' = recordings /\ (StorageMayFail \/ me.rid = None)
    <3>1. None \notin DOMAIN recordings
      BY <1>1, RuntimeAssumption
    <3> QED BY <1>1, <2>1, <3>1
  <2>2. CASE me.rid # None /\ recordings' = [recordings EXCEPT ![me.rid].open = FALSE,
                                                               ![me.rid].complete = me.complete]
    <3>1. recordings[me.rid] \in Recording /\ me.complete \in BOOLEAN
      BY <1>1, <2>2 DEF Client
    <3>2. row \in Recording /\ ~row.open
      BY <3>1 DEF Recording
    <3>3. recordings' = [recordings EXCEPT ![me.rid] = row]
      BY <1>1, <2>2
    <3> HIDE DEF row
    <3>4. \A r \in DOMAIN recordings : recordings'[r] = IF r = me.rid THEN row ELSE recordings[r]
      BY <1>1, <3>3
    <3>5. /\ recordings' \in Seq(Recording) /\ DOMAIN recordings' = DOMAIN recordings
          /\ Len(recordings') = Len(recordings)
      BY <1>1, <2>2, <3>2, <3>3, ReplacedIn
    <3> QED BY <3>2, <3>4, <3>5
  <2> QED BY <1>3, <2>1, <2>2
<1>6. TypeOK'
  <2>1. client' \in [Clients -> Client]
    BY <1>2, <1>3, Replaced DEF IInv, TypeOK
  <2> QED BY <1>5, <2>1 DEF StoreStop, control, capture, IInv, TypeOK
<1>7. Bound'
  BY <1>1, <1>2, <1>4, <1>5 DEF StoreStop, control, capture, IInv, Bound
<1>8. Held'
  <2>1. recording' = recording
    BY DEF StoreStop, capture
  <2>2. \A d \in Clients, r \in DOMAIN recordings : Holds(d, r)' <=> d # c /\ Holds(d, r)
    BY <1>2, <1>4 DEF Holds
  <2>3. \A r \in DOMAIN recordings : r = me.rid => Holds(c, r)
    BY <1>1 DEF Holds
  <2>4. recording # None => recording \in DOMAIN recordings /\ recordings'[recording].open
    BY <1>5, <2>3 DEF IInv, Bound, Held
  <2>5. ASSUME NEW d \in Clients, NEW r \in DOMAIN recordings, Holds(d, r)'
        PROVE  /\ recordings'[r].open /\ r # recording
               /\ \A e \in Clients : Holds(e, r)' => e = d
    <3>1. Holds(d, r) /\ d # c
      BY <2>2, <2>5
    <3>2. recordings[r].open /\ r # recording /\ \A e \in Clients : Holds(e, r) => e = d
      BY <3>1 DEF IInv, Held
    <3>3. r # me.rid
      BY <2>3, <3>1, <3>2
    <3> QED BY <1>5, <2>2, <3>2, <3>3
  <2>6. ~StorageMayFail => OpenIsOwned'
    <3> SUFFICES ASSUME ~StorageMayFail, NEW r \in DOMAIN recordings, recordings'[r].open,
                        r # recording
                 PROVE  \E d \in Clients : Holds(d, r)'
      BY <1>5, <2>1 DEF OpenIsOwned, Holds
    <3>1. r # me.rid /\ recordings[r].open
      BY <1>5
    <3>2. PICK d \in Clients : Holds(d, r)
      BY <3>1 DEF IInv, Held, OpenIsOwned, Holds
    <3> QED BY <2>2, <3>1, <3>2 DEF Holds
  <2> QED BY <1>5, <2>1, <2>4, <2>5, <2>6 DEF Held
<1> QED BY <1>6, <1>7, <1>8 DEF IInv

LEMMA StartRecordingKeeps ==
    ASSUME IInv, NEW c \in Clients, StartRecording(c)
    PROVE  IInv' /\ \A r \in DOMAIN recordings : recordings'[r] = recordings[r]
<1> DEFINE row == [kind |-> kind, frames |-> <<>>, open |-> TRUE, complete |-> FALSE]
           n == Len(recordings) + 1
<1>1. row \in Recording /\ row.open
  BY DEF IInv, TypeOK, Recording
<1>2. /\ recordings \in Seq(Recording) /\ Len(recordings) < MaxRecordings
      /\ recordings' = Append(recordings, row) /\ recording = None /\ recording' = n
  BY DEF IInv, TypeOK, StartRecording
<1> HIDE DEF row
<1>3. /\ recordings' \in Seq(Recording) /\ Len(recordings') = n /\ DOMAIN recordings' = 1..n
      /\ \A r \in 1..n : recordings'[r] = IF r = n THEN row ELSE recordings[r]
  BY <1>1, <1>2
<1>4. n \in 1..MaxRecordings /\ n <= MaxRecordings /\ n \notin DOMAIN recordings
      /\ DOMAIN recordings = 1..n - 1 /\ n \in Nat
  BY <1>2, RuntimeAssumption
<1> HIDE DEF n
<1>5. TypeOK'
  BY <1>2, <1>3, <1>4 DEF StartRecording, control, IInv, TypeOK
<1>6. Bound'
  BY <1>2, <1>3, <1>4 DEF StartRecording, control, IInv, Bound
<1>7. \A d \in Clients : ~Holds(d, n)
  BY <1>4, RuntimeAssumption DEF Holds, IInv, Bound
<1>8. \A d \in Clients, r \in DOMAIN recordings' : Holds(d, r)' <=> Holds(d, r) /\ r \in DOMAIN recordings
  BY <1>3, <1>4, <1>7 DEF StartRecording, Holds
<1>9. Held'
  <2>1. recording' # None => recordings'[recording'].open
    BY <1>1, <1>2, <1>3, <1>4
  <2>2. ASSUME NEW d \in Clients, NEW r \in DOMAIN recordings', Holds(d, r)'
        PROVE  /\ recordings'[r].open /\ r # recording'
               /\ \A e \in Clients : Holds(e, r)' => e = d
    <3>1. r \in DOMAIN recordings /\ Holds(d, r) /\ r # n
      BY <1>4, <1>8, <2>2
    <3> QED BY <1>2, <1>3, <1>4, <1>8, <2>2, <3>1 DEF IInv, Held
  <2>3. OpenIsOwned => OpenIsOwned'
    <3> SUFFICES ASSUME OpenIsOwned, NEW r \in DOMAIN recordings', recordings'[r].open, r # n
                 PROVE  \E d \in Clients : Holds(d, r)'
      BY <1>2 DEF OpenIsOwned, Holds
    <3>1. r \in DOMAIN recordings /\ recordings[r].open /\ r # recording
      BY <1>2, <1>3, <1>4, RuntimeAssumption
    <3>2. PICK d \in Clients : Holds(d, r)
      BY <3>1 DEF OpenIsOwned, Holds
    <3> QED BY <1>8, <3>1, <3>2
  <2> QED BY <2>1, <2>2, <2>3 DEF IInv, Held
<1>10. \A r \in DOMAIN recordings : recordings'[r] = recordings[r]
  BY <1>3, <1>4
<1> QED BY <1>5, <1>6, <1>9, <1>10 DEF IInv

(* ingest: the frame goes to the active recording, which nobody is stopping. *)
LEMMA IngestKeeps ==
    ASSUME IInv, NEW i \in Conns, Ingest(i)
    PROVE  IInv' /\ \A r \in DOMAIN recordings :
                        ~recordings[r].open => recordings'[r] = recordings[r]
<1> DEFINE frame == [src |-> rx[i].src, pos |-> rx[i].pos]
           row == [recordings[recording] EXCEPT !.frames = Append(@, frame)]
<1>1. /\ rx[i] \in Receiver /\ rx[i].src \in DOMAIN sources /\ rx[i].pos # NoFrame
      /\ sources \in Seq(Source) /\ Len(sources) <= MaxConnects /\ recordings \in Seq(Recording)
      /\ recording # None => recording \in DOMAIN recordings /\ recordings[recording].open
      /\ UNCHANGED <<recording, sources, source, client>>
  BY DEF IInv, TypeOK, Bound, Held, Ingest, control, capture
<1>2. frame \in [src : Conns, pos : 1..MaxPos] /\ rx[i].src \in Conns
  <2>1. rx[i].src \in Conns
    BY <1>1, RuntimeAssumption DEF Conns
  <2>2. rx[i].pos \in 1..MaxPos
    BY <1>1, RuntimeAssumption DEF Receiver, NoFrame
  <2> QED BY <2>1, <2>2
<1>3. PICK pc \in {"loop", "raised"} : rx' = [rx EXCEPT ![i] = [Unborn EXCEPT !.pc = pc]]
  BY DEF Ingest
<1> DEFINE next == [Unborn EXCEPT !.pc = pc]
<1>4. next \in Receiver /\ next.pc = pc
  BY Rest DEF Unborn
<1>5. \A j \in Conns : rx'[j] = IF j = i THEN next ELSE rx[j]
  BY <1>3 DEF IInv, TypeOK
<1>6. /\ recordings' \in Seq(Recording) /\ DOMAIN recordings' = DOMAIN recordings
      /\ Len(recordings') = Len(recordings)
      /\ \A r \in DOMAIN recordings :
            \/ recordings'[r] = recordings[r]
            \/ r = recording /\ recording # None /\ recordings'[r].open
  <2>1. CASE recordings' = recordings
    BY <1>1, <2>1
  <2>2. CASE recordings' # recordings
    <3>1. recording # None /\ recordings' = [recordings EXCEPT ![recording].frames = Append(@, frame)]
      BY <2>2 DEF Ingest
    <3>2. recordings[recording] \in Recording
      BY <1>1, <3>1
    <3>3. row \in Recording /\ row.open = recordings[recording].open
      <4>1. Append(recordings[recording].frames, frame) \in Seq([src : Conns, pos : 1..MaxPos])
        BY <1>2, <3>2 DEF Recording
      <4> QED BY <3>2, <4>1 DEF Recording
    <3>4. recordings' = [recordings EXCEPT ![recording] = row]
      BY <1>1, <3>1
    <3> HIDE DEF row
    <3>5. \A r \in DOMAIN recordings : recordings'[r] = IF r = recording THEN row ELSE recordings[r]
      BY <1>1, <3>4
    <3>6. /\ recordings' \in Seq(Recording) /\ DOMAIN recordings' = DOMAIN recordings
          /\ Len(recordings') = Len(recordings)
      <4>1. recordings \in Seq(Recording) /\ recording \in DOMAIN recordings
        BY <1>1, <3>1
      <4> QED BY <3>3, <3>4, <4>1, ReplacedIn
    <3> QED BY <1>1, <3>1, <3>3, <3>5, <3>6
  <2> QED BY <2>1, <2>2
<1>7. recording' # None => recordings'[recording].open
  BY <1>1, <1>6
<1>8. TypeOK'
  <2>1. rx' \in [Conns -> Receiver]
    BY <1>3, <1>4, Replaced DEF IInv, TypeOK
  <2> QED BY <1>2, <1>6, <2>1 DEF Ingest, control, capture, IInv, TypeOK
<1>9. Bound'
  <2>1. source' = source /\ sources' = sources /\ recording' = recording /\ client' = client
    BY <1>1
  <2>2. DOMAIN recordings' = DOMAIN recordings
    BY <1>6
  <2>3. ASSUME NEW j \in Conns
        PROVE  /\ rx'[j].pc \in {"read", "got", "ingest"} => rx'[j].src \in DOMAIN sources'
               /\ rx'[j].pc = "ingest" => rx'[j].pos # NoFrame
    <3>1. rx'[j] = rx[j] \/ rx'[j].pc \in {"loop", "raised"}
      BY <1>4, <1>5
    <3> QED BY <2>1, <3>1 DEF IInv, Bound
  <2> QED BY <2>1, <2>2, <2>3 DEF IInv, Bound
<1>10. Held'
  <2>1. \A r \in DOMAIN recordings : recordings'[r].open <=> recordings[r].open
    BY <1>1, <1>6
  <2>2. \A d \in Clients, r \in DOMAIN recordings : Holds(d, r)' <=> Holds(d, r)
    BY <1>1 DEF Holds
  <2>3. OpenIsOwned => OpenIsOwned'
    BY <1>1, <1>6, <2>1 DEF OpenIsOwned
  <2> QED BY <1>1, <1>6, <1>7, <2>1, <2>2, <2>3 DEF IInv, Held
<1>11. \A r \in DOMAIN recordings : ~recordings[r].open => recordings'[r] = recordings[r]
  BY <1>1, <1>6
<1> QED BY <1>8, <1>9, <1>10, <1>11 DEF IInv

-----------------------------------------------------------------------------
LEMMA StepKeeps == IInv /\ [Next]_vars => IInv'
<1> SUFFICES ASSUME IInv, [Next]_vars PROVE IInv'
  OBVIOUS
<1>1. ASSUME NEW c \in Clients, NEW k \in Kinds, Connect(c, k) PROVE IInv'
  BY <1>1, ConnectKeeps
<1>2. ASSUME NEW c \in Clients, Disconnect(c) \/ StopRecording(c) PROVE IInv'
  BY <1>2, AskKeeps
<1>3. ASSUME NEW c \in Clients, StartRecording(c) PROVE IInv'
  BY <1>3, StartRecordingKeeps
<1>4. ASSUME NEW c \in Clients, Proceed(c) PROVE IInv'
  BY <1>4, StoreStopKeeps, DropSourceKeeps, CloseSourceKeeps, JoinReceiverKeeps,
     InstallSourceKeeps DEF Proceed
<1>5. ASSUME NEW i \in Conns, Receive(i) PROVE IInv'
  BY <1>5, LoopTestKeeps, ReadFrameKeeps, ReadNothingKeeps, ReadFailsKeeps, CopyDropsKeeps,
     IngestKeeps, EndReceiveKeeps DEF Receive
<1>6. CASE UNCHANGED vars
  <2>1. TypeOK' /\ Bound'
    BY <1>6 DEF vars, control, capture, IInv, TypeOK, Bound
  <2>2. Held'
    BY <1>6, HeldStays DEF vars, control, capture, IInv
  <2> QED BY <2>1, <2>2 DEF IInv
<1> QED
  BY <1>1, <1>2, <1>3, <1>4, <1>5, <1>6 DEF Next

THEOREM Invariance == Spec => []IInv
BY InitKeeps, StepKeeps, PTL DEF Spec

THEOREM TypeCorrect == Spec => []TypeOK
<1>1. IInv => TypeOK
  BY DEF IInv
<1> QED BY <1>1, Invariance, PTL

(* Unless the store has raised, a recording it holds open is never forgotten:
   it is the active one or on some client's way to be stopped. *)
THEOREM OpenStaysOwned == ~StorageMayFail /\ Spec => []OpenIsOwned
<1> SUFFICES ASSUME ~StorageMayFail PROVE Spec => []OpenIsOwned
  OBVIOUS
<1>1. IInv => OpenIsOwned
  BY DEF IInv, Held
<1> QED BY <1>1, Invariance, PTL

(* A recording is stopped once and gets no frame after that, however requests
   and receive threads overlap, and although a join may have given up. *)
THEOREM StoppedStaysFinal == Spec => StoppedIsFinal
<1>1. ASSUME IInv, Next
      PROVE  \A r \in DOMAIN recordings : ~recordings[r].open => recordings'[r] = recordings[r]
  <2>1. ASSUME NEW c \in Clients, StartRecording(c)
        PROVE  \A r \in DOMAIN recordings : recordings'[r] = recordings[r]
    BY <1>1, <2>1, StartRecordingKeeps
  <2>2. ASSUME NEW c \in Clients, StoreStop(c)
        PROVE  \A r \in DOMAIN recordings : ~recordings[r].open => recordings'[r] = recordings[r]
    <3>1. client[c].rid # None => client[c].rid \in DOMAIN recordings
                                  /\ recordings[client[c].rid].open
      BY <1>1, <2>2 DEF StoreStop, IInv, Bound, Held, Holds
    <3>2. \A r \in DOMAIN recordings : r # client[c].rid => recordings'[r] = recordings[r]
      BY <1>1, <2>2 DEF StoreStop, IInv, TypeOK
    <3>3. client[c].rid = None => recordings' = recordings
      BY <2>2 DEF StoreStop
    <3> QED BY <3>1, <3>2, <3>3
  <2>3. ASSUME NEW i \in Conns, Ingest(i)
        PROVE  \A r \in DOMAIN recordings : ~recordings[r].open => recordings'[r] = recordings[r]
    BY <1>1, <2>3, IngestKeeps
  <2>4. \/ recordings' = recordings
        \/ \E c \in Clients : StartRecording(c) \/ StoreStop(c)
        \/ \E i \in Conns : Ingest(i)
    <3>1. ASSUME NEW c \in Clients, NEW k \in Kinds, Connect(c, k) PROVE recordings' = recordings
      BY <3>1 DEF Connect, TakeRecording
    <3>2. ASSUME NEW c \in Clients, Disconnect(c) \/ StopRecording(c) PROVE recordings' = recordings
      BY <3>2 DEF Disconnect, StopRecording, TakeRecording
    <3>3. ASSUME NEW c \in Clients, Proceed(c) PROVE StoreStop(c) \/ recordings' = recordings
      BY <3>3 DEF Proceed, DropSource, CloseSource, JoinReceiver, InstallSource
    <3>4. ASSUME NEW i \in Conns, Receive(i) PROVE Ingest(i) \/ recordings' = recordings
      BY <3>4 DEF Receive, LoopTest, ReadFrame, ReadNothing, ReadFails, CopyDrops, EndReceive
    <3> QED BY <1>1, <3>1, <3>2, <3>3, <3>4 DEF Next
  <2> QED BY <2>1, <2>2, <2>3, <2>4
<1>2. IInv /\ [Next]_vars =>
        [\A r \in DOMAIN recordings : ~recordings[r].open => recordings'[r] = recordings[r]]_vars
  BY <1>1
<1> QED BY <1>2, Invariance, PTL DEF Spec, StoppedIsFinal

-----------------------------------------------------------------------------
(* Requests come one at a time, and a join waits for as long as it takes. *)
OneByOne == (\A c, d \in Clients : c = d) /\ ~JoinMayTimeout

(* The connection is one object: the thread that receives is the one started
   for the source, and what is kept of frames is of that source. *)
Attached ==
    /\ source = thread
    /\ running => thread # None /\ (Alive(thread) \/ rx[thread].pc = "raised")
    /\ thread # None =>
          /\ thread \in DOMAIN sources /\ kind = sources[thread].kind
          /\ rx[thread].pc # "unborn" /\ recent \subseteq {thread}

(* A thread that is not the connection's is waited for; a source no thread was
   started for has none. *)
Alone ==
    \A i \in Conns :
        /\ Alive(i) => i = thread \/ \E c \in Clients : client[c].thread = i
        /\ rx[i].pc \in {"read", "got", "ingest"} => rx[i].src = i
        /\ i > Len(sources) => rx[i] = Unborn

(* A request takes the recording away before it takes the connection apart. *)
Requested ==
    \A c \in Clients :
        /\ client[c].thread # None => client[c].pc \in {"closing", "joining"}
        /\ client[c].pc \in {"closing", "joining", "installing"} => thread = None
        /\ client[c].pc # "idle" => recording = None
        /\ client[c].pc # "idle" /\ client[c].op = "connect" =>
              client[c].conn = Len(sources) /\ rx[client[c].conn] = Unborn

(* What a thread has read of the wire, and what the drop counter has of that. *)
Follows(me, wire, drops) ==
    /\ me.pc \in {"loop", "read", "ingest"} => drops = wire.dropped
    /\ me.pc = "got" => drops <= me.drops /\ me.drops = wire.dropped
    /\ me.pc = "got" /\ me.pos = NoFrame => drops = me.drops
    /\ me.pc \in {"got", "ingest"} /\ me.pos # NoFrame => me.pos = wire.pos

Followed == thread # None => Follows(rx[thread], sources[thread], receiveDrops)

Contiguous(frames) ==
    \A k \in 1..Len(frames) - 1 :
        frames[k + 1].src = frames[k].src /\ frames[k + 1].pos = frames[k].pos + 1

(* The frame at `last' is the latest that was ingested. *)
Reaches(last, me, wire, drops) ==
    /\ me.pc \in {"loop", "read"} => wire.pos = last
    /\ me.pc = "got" /\ me.pos = NoFrame => wire.pos = last
    /\ me.pc = "got" /\ me.pos # NoFrame => me.pos = last + 1 + (me.drops - drops)
    /\ me.pc = "ingest" => me.pos = last + 1

(* A loss since the recording began shows in the drop counter, now or as soon as
   the thread has copied what it has read. *)
Accounted ==
    recording # None =>
        LET row == recordings[recording] IN
        /\ thread # None /\ baseline # None /\ baseline <= receiveDrops
        /\ row.kind = sources[thread].kind
        /\ \A k \in DOMAIN row.frames : row.frames[k].src = thread
        /\ receiveDrops = baseline =>
              /\ Contiguous(row.frames)
              /\ row.frames # <<>> =>
                    Reaches(row.frames[Len(row.frames)].pos, rx[thread], sources[thread],
                            receiveDrops)

(* A verdict that the frames are complete holds of them, from the moment a
   request has read the counters to the end. *)
Vouched ==
    /\ \A r \in DOMAIN recordings : recordings[r].complete =>
          ~recordings[r].open /\ Contiguous(recordings[r].frames)
    /\ \A c \in Clients : client[c].rid # None /\ client[c].complete =>
          Contiguous(recordings[client[c].rid].frames)

Labelled ==
    \A r \in DOMAIN recordings : \A k \in DOMAIN recordings[r].frames :
        LET src == recordings[r].frames[k].src IN
        src \in DOMAIN sources /\ sources[src].kind = recordings[r].kind

Lone == Attached /\ Alone /\ Requested /\ Followed /\ Accounted /\ Vouched /\ Labelled

LEMMA InitLone == Init => Lone
<1> SUFFICES ASSUME Init PROVE Lone
  OBVIOUS
<1> USE RuntimeAssumption DEF Init
<1>1. Attached /\ Followed /\ Accounted
  BY DEF Attached, Followed, Accounted
<1>2. Alone
  BY DEF Alone, Alive, Unborn
<1>3. Requested /\ Vouched /\ Labelled
  BY DEF Requested, Vouched, Labelled, Idle
<1> QED BY <1>1, <1>2, <1>3 DEF Lone

LEMMA LastIn == ASSUME NEW S, NEW q \in Seq(S), q # <<>> PROVE q[Len(q)] \in S
<1>1. Len(q) \in Nat /\ Len(q) # 0
  OBVIOUS
<1> QED BY <1>1

(* The kinds of the sources there are never change, and the recordings that keep
   their frames keep their label and the verdicts about them. *)
LEMMA LabelsStay ==
    ASSUME Labelled, recordings' = recordings, DOMAIN sources \subseteq DOMAIN sources',
           \A s \in DOMAIN sources : sources'[s].kind = sources[s].kind
    PROVE  Labelled'
BY DEF Labelled

LEMMA VerdictsStay ==
    ASSUME Vouched, recordings' = recordings,
           \A c \in Clients : client'[c].rid # None /\ client'[c].complete =>
               \/ client'[c].rid = client[c].rid /\ client[c].complete
               \/ Contiguous(recordings[client'[c].rid].frames)
    PROVE  Vouched'
<1>1. \A r \in DOMAIN recordings : recordings[r].complete =>
          ~recordings[r].open /\ Contiguous(recordings[r].frames)
  BY DEF Vouched
<1>2. ASSUME NEW c \in Clients, client'[c].rid # None, client'[c].complete
      PROVE  Contiguous(recordings[client'[c].rid].frames)
  BY <1>2 DEF Vouched
<1> QED BY <1>1, <1>2 DEF Vouched

(* A thread that is waited for is not the connection's: there is none. *)
LEMMA OthersAreJoined ==
    ASSUME OneByOne, IInv, Lone, NEW i \in Conns, Alive(i)
    PROVE  /\ i \in DOMAIN sources
           /\ i # thread => thread = None /\ source = None /\ recording = None
<1>1. rx[i] # Unborn
  BY DEF Alive, Unborn
<1>2. i \in DOMAIN sources
  BY <1>1, RuntimeAssumption DEF Lone, Alone, IInv, TypeOK, Conns
<1>3. ASSUME i # thread PROVE thread = None /\ source = None /\ recording = None
  <2>1. PICK c \in Clients : client[c].thread = i
    BY <1>3 DEF Lone, Alone
  <2>2. i # None
    BY RuntimeAssumption DEF Conns
  <2>3. client[c].pc \in {"closing", "joining"}
    BY <2>1, <2>2 DEF Lone, Requested
  <2> QED BY <2>3 DEF Lone, Requested, Attached
<1> QED BY <1>2, <1>3

-----------------------------------------------------------------------------
(* The receive threads. *)
LEMMA ReceiverLone ==
    ASSUME OneByOne, IInv, Lone, NEW i \in Conns, Alive(i), NEW next \in Receiver,
           rx' = [rx EXCEPT ![i] = next], next.pc # "unborn",
           next.pc \in {"read", "got", "ingest"} => next.src = i,
           UNCHANGED <<source, thread, kind, recording, baseline, client>>,
           running' => running /\ (i = thread => next.pc # "dead"),
           sources' \in Seq(Source), Len(sources') = Len(sources),
           \A s \in DOMAIN sources : sources'[s].kind = sources[s].kind,
           recent' \subseteq recent \cup {i},
           i = thread => Follows(next, sources'[i], receiveDrops'),
           Accounted', Vouched', Labelled'
    PROVE  Lone'
<1>1. \A j \in Conns : rx'[j] = IF j = i THEN next ELSE rx[j]
  BY DEF IInv, TypeOK
<1>2. i \in DOMAIN sources /\ (i # thread => thread = None)
  BY OthersAreJoined
<1>3. sources \in Seq(Source) /\ DOMAIN sources' = DOMAIN sources
  BY DEF IInv, TypeOK
<1>4. thread \in Conns \cup {None} /\ i # None
  BY RuntimeAssumption DEF IInv, TypeOK, Conns
<1>5. Attached'
  BY <1>1, <1>2, <1>3, <1>4 DEF Lone, Attached, Alive
<1>6. Alone'
  <2>1. \A j \in Conns : Alive(j)' => Alive(j)
    BY <1>1 DEF Alive
  <2>2. i <= Len(sources)
    BY <1>2, <1>3
  <2> QED BY <1>1, <2>1, <2>2 DEF Lone, Alone, Conns
<1>7. Requested'
  <2>1. \A c \in Clients : client[c].pc # "idle" /\ client[c].op = "connect" =>
            client[c].conn \in Conns /\ client[c].conn # i
    <3> SUFFICES ASSUME NEW c \in Clients, client[c].pc # "idle", client[c].op = "connect"
                 PROVE  client[c].conn \in Conns /\ client[c].conn # i
      OBVIOUS
    <3>1. rx[client[c].conn] = Unborn /\ client[c].conn \in DOMAIN sources
      BY DEF Lone, Requested, IInv, Bound
    <3>2. Len(sources) <= MaxConnects /\ DOMAIN sources \subseteq Conns
      BY RuntimeAssumption DEF IInv, TypeOK, Conns
    <3> QED BY <3>1, <3>2 DEF Alive, Unborn
  <2> QED BY <1>1, <2>1 DEF Lone, Requested
<1>8. Followed'
  BY <1>1, <1>2, <1>4 DEF Followed
<1> QED BY <1>5, <1>6, <1>7, <1>8 DEF Lone

(* What is accounted stays so when the threads' own fields move. *)
LEMMA AccountStays ==
    ASSUME IInv, Lone, NEW i \in Conns, i # thread => recording = None,
           NEW next, rx' = [rx EXCEPT ![i] = next],
           UNCHANGED <<thread, recording, baseline, recordings>>,
           \A s \in DOMAIN sources : sources'[s].kind = sources[s].kind,
           receiveDrops <= receiveDrops', receiveDrops' \in 0..MaxPos,
           i = thread =>
               \A last \in Int : receiveDrops' = receiveDrops
                   /\ Reaches(last, rx[i], sources[i], receiveDrops) =>
                          Reaches(last, next, sources'[i], receiveDrops')
    PROVE  Accounted'
<1> SUFFICES ASSUME recording # None PROVE Accounted'
  BY DEF Accounted
<1> DEFINE row == recordings[recording]
<1>1. rx'[i] = next /\ i = thread /\ thread \in DOMAIN sources
  BY DEF IInv, TypeOK, Lone, Attached, Accounted
<1>2. /\ thread # None /\ baseline # None /\ baseline <= receiveDrops
      /\ row.kind = sources[thread].kind
      /\ \A k \in DOMAIN row.frames : row.frames[k].src = thread
      /\ receiveDrops = baseline =>
              /\ Contiguous(row.frames)
              /\ row.frames # <<>> =>
                    Reaches(row.frames[Len(row.frames)].pos, rx[thread], sources[thread],
                            receiveDrops)
  BY DEF Lone, Accounted
<1>3. baseline \in Int /\ receiveDrops \in Int /\ receiveDrops' \in Int
  BY <1>2 DEF IInv, TypeOK
<1>4. baseline <= receiveDrops' /\ (receiveDrops' = baseline => receiveDrops' = receiveDrops)
  BY <1>2, <1>3
<1>5. row.frames # <<>> => row.frames[Len(row.frames)].pos \in Int
  <2>1. row \in Recording
    BY DEF IInv, TypeOK, Bound
  <2>2. row.frames \in Seq([src : Conns, pos : 1..MaxPos])
    BY <2>1 DEF Recording
  <2>3. row.frames # <<>> => row.frames[Len(row.frames)] \in [src : Conns, pos : 1..MaxPos]
    BY <2>2, LastIn
  <2> QED BY <2>3
<1> QED BY <1>1, <1>2, <1>4, <1>5 DEF Accounted, Contiguous

LEMMA LoopTestLone ==
    ASSUME OneByOne, IInv, Lone, NEW i \in Conns, LoopTest(i) PROVE Lone'
<1>1. Alive(i) /\ rx[i].pc = "loop"
  BY DEF LoopTest, Alive
<1>2. /\ UNCHANGED <<running, source, kind, thread, recording, baseline, receiveDrops, recent,
                     sources, client, recordings>>
      /\ sources \in Seq(Source) /\ receiveDrops \in 0..MaxPos
  BY DEF LoopTest, control, capture, IInv, TypeOK
<1>3. i # thread => source = None /\ recording = None
  BY <1>1, OthersAreJoined
<1>4. source = thread /\ source \in Conns \cup {None} /\ (i = thread => thread # None)
  BY RuntimeAssumption DEF Lone, Attached, IInv, TypeOK, Conns
<1>5. Vouched' /\ Labelled'
  BY <1>2, VerdictsStay, LabelsStay DEF Lone, Vouched
<1>6. CASE running /\ source # None
  <2> DEFINE next == [Unborn EXCEPT !.pc = "read", !.src = source]
  <2>1. next \in Receiver /\ next.src = i /\ next.pc = "read" /\ i = thread
    BY <1>3, <1>4, <1>6, Rest DEF Unborn
  <2>2. rx' = [rx EXCEPT ![i] = next]
    BY <1>6 DEF LoopTest
  <2> HIDE DEF next
  <2>3. Follows(next, sources'[i], receiveDrops')
    BY <1>1, <1>2, <1>4, <2>1 DEF Lone, Followed, Follows
  <2>4. \A last \in Int : Reaches(last, rx[i], sources[i], receiveDrops) =>
                             Reaches(last, next, sources'[i], receiveDrops')
    BY <1>1, <1>2, <2>1 DEF Reaches
  <2>5. receiveDrops <= receiveDrops'
    BY <1>2
  <2>6. Accounted'
    BY <1>2, <1>3, <2>2, <2>4, <2>5, AccountStays
  <2> QED BY <1>1, <1>2, <1>5, <2>1, <2>2, <2>3, <2>6, ReceiverLone
<1>7. CASE ~(running /\ source # None)
  <2>1. Dead \in Receiver /\ Dead.pc = "dead" /\ rx' = [rx EXCEPT ![i] = Dead]
    BY <1>7, Rest DEF LoopTest, Dead, Unborn
  <2>2. receiveDrops <= receiveDrops'
    BY <1>2
  <2>3. Accounted' /\ Follows(Dead, sources'[i], receiveDrops')
    BY <1>2, <1>3, <2>1, <2>2, AccountStays DEF Reaches, Follows
  <2>4. running' => running /\ (i = thread => Dead.pc # "dead")
    BY <1>2, <1>4, <1>7
  <2> QED BY <1>1, <1>2, <1>5, <2>1, <2>3, <2>4, ReceiverLone
<1> QED BY <1>6, <1>7

LEMMA ReadFrameLone ==
    ASSUME OneByOne, IInv, Lone, NEW i \in Conns, ReadFrame(i) PROVE Lone'
<1>1. Alive(i) /\ rx[i].pc = "read" /\ rx[i].src = i /\ rx[i] \in Receiver
  BY DEF ReadFrame, Alive, Lone, Alone, IInv, TypeOK
<1>2. /\ UNCHANGED <<running, source, kind, thread, recording, baseline, receiveDrops, recent,
                     client, recordings>>
      /\ sources \in Seq(Source) /\ receiveDrops \in 0..MaxPos
  BY DEF ReadFrame, control, capture, IInv, TypeOK
<1>3. i \in DOMAIN sources /\ (i # thread => recording = None) /\ sources[i] \in Source
  BY <1>1, <1>2, OthersAreJoined
<1>4. i = thread => thread # None
  BY RuntimeAssumption DEF Conns
<1>5. PICK lost \in {0, 1} :
        /\ sources[i].pos + lost + 1 <= MaxPos
        /\ sources' = [sources EXCEPT ![i].pos = sources[i].pos + lost + 1,
                                      ![i].dropped = sources[i].dropped + lost]
        /\ rx' = [rx EXCEPT ![i].pc = "got", ![i].pos = sources[i].pos + lost + 1,
                            ![i].drops = sources[i].dropped + lost]
  BY <1>1 DEF ReadFrame
<1> DEFINE pos == sources[i].pos + lost + 1
           dropped == sources[i].dropped + lost
           row == [sources[i] EXCEPT !.pos = pos, !.dropped = dropped]
           next == [rx[i] EXCEPT !.pc = "got", !.pos = pos, !.drops = dropped]
<1>6. /\ sources[i].pos \in 0..MaxPos /\ sources[i].dropped \in 0..MaxPos
      /\ sources[i].dropped <= sources[i].pos
  BY <1>3 DEF Source, IInv, Bound
<1>7. pos \in 0..MaxPos /\ dropped \in 0..MaxPos /\ pos # NoFrame
  BY <1>5, <1>6, RuntimeAssumption DEF NoFrame
<1>8. row \in Source /\ row.pos = pos /\ row.dropped = dropped /\ row.kind = sources[i].kind
  BY <1>3, <1>7 DEF Source
<1>9. next \in Receiver /\ next.pc = "got" /\ next.src = i /\ next.pos = pos /\ next.drops = dropped
  BY <1>1, <1>7 DEF Receiver
<1>10. rx' = [rx EXCEPT ![i] = next] /\ sources' = [sources EXCEPT ![i] = row]
  BY <1>1, <1>5 DEF IInv, TypeOK
<1> HIDE DEF row, next
<1>11. sources' \in Seq(Source) /\ Len(sources') = Len(sources) /\ DOMAIN sources' = DOMAIN sources
       /\ sources'[i] = row
  BY <1>2, <1>3, <1>8, <1>10, ReplacedIn
<1>12. \A s \in DOMAIN sources : sources'[s].kind = sources[s].kind
  BY <1>2, <1>8, <1>10
<1>13. Vouched' /\ Labelled'
  BY <1>2, <1>11, <1>12, VerdictsStay, LabelsStay DEF Lone, Vouched
<1>14. i = thread => receiveDrops = sources[i].dropped
  BY <1>1, <1>4 DEF Lone, Followed, Follows
<1>15. i = thread => Follows(next, sources'[i], receiveDrops')
  <2>1. receiveDrops = sources[i].dropped => receiveDrops <= dropped
    BY <1>5, <1>6
  <2> QED BY <1>2, <1>7, <1>8, <1>9, <1>11, <1>14, <2>1 DEF Follows
<1>16. i = thread =>
          \A last \in Int : Reaches(last, rx[i], sources[i], receiveDrops) =>
                              Reaches(last, next, sources'[i], receiveDrops')
  <2> SUFFICES ASSUME i = thread, NEW last \in Int, sources[i].pos = last
               PROVE  Reaches(last, next, sources'[i], receiveDrops')
    BY <1>1 DEF Reaches
  <2>1. pos = last + 1 + (dropped - receiveDrops)
    BY <1>5, <1>6, <1>14
  <2> QED BY <1>2, <1>7, <1>9, <2>1 DEF Reaches
<1>17. receiveDrops <= receiveDrops'
  BY <1>2
<1>18. Accounted'
  BY <1>2, <1>3, <1>10, <1>12, <1>16, <1>17, AccountStays
<1> QED
  BY <1>1, <1>2, <1>9, <1>10, <1>11, <1>12, <1>13, <1>15, <1>18, ReceiverLone

LEMMA ReadNothingLone ==
    ASSUME OneByOne, IInv, Lone, NEW i \in Conns, ReadNothing(i) PROVE Lone'
<1>1. Alive(i) /\ rx[i].pc = "read" /\ rx[i].src = i /\ rx[i] \in Receiver
  BY DEF ReadNothing, Alive, Lone, Alone, IInv, TypeOK
<1>2. /\ UNCHANGED <<running, source, kind, thread, recording, baseline, receiveDrops, recent,
                     sources, client, recordings>>
      /\ sources \in Seq(Source) /\ receiveDrops \in 0..MaxPos
  BY DEF ReadNothing, control, capture, IInv, TypeOK
<1>3. i \in DOMAIN sources /\ (i # thread => recording = None) /\ sources[i] \in Source
  BY <1>1, <1>2, OthersAreJoined
<1>4. i = thread => thread # None
  BY RuntimeAssumption DEF Conns
<1> DEFINE next == [rx[i] EXCEPT !.pc = "got", !.pos = NoFrame, !.drops = sources[i].dropped]
<1>5. sources[i].dropped \in 0..MaxPos /\ NoFrame \in 0..MaxPos
  BY <1>3, RuntimeAssumption DEF Source, NoFrame
<1>6. /\ next \in Receiver /\ next.pc = "got" /\ next.src = i /\ next.pos = NoFrame
      /\ next.drops = sources[i].dropped
  BY <1>1, <1>5 DEF Receiver
<1>7. rx' = [rx EXCEPT ![i] = next]
  BY <1>1 DEF IInv, TypeOK, ReadNothing
<1> HIDE DEF next
<1>8. Vouched' /\ Labelled'
  BY <1>2, VerdictsStay, LabelsStay DEF Lone, Vouched
<1>9. i = thread => Follows(next, sources'[i], receiveDrops')
  <2>1. i = thread => receiveDrops = sources[i].dropped
    BY <1>1, <1>4 DEF Lone, Followed, Follows
  <2>2. receiveDrops <= receiveDrops'
    BY <1>2
  <2> QED BY <1>2, <1>6, <2>1, <2>2 DEF Follows
<1>10. \A last \in Int : Reaches(last, rx[i], sources[i], receiveDrops) =>
                           Reaches(last, next, sources'[i], receiveDrops')
  BY <1>1, <1>2, <1>6 DEF Reaches
<1>11. receiveDrops <= receiveDrops'
  BY <1>2
<1>12. Accounted'
  BY <1>2, <1>3, <1>7, <1>10, <1>11, AccountStays
<1> QED BY <1>1, <1>2, <1>6, <1>7, <1>8, <1>9, <1>12, ReceiverLone

LEMMA ReadFailsLone ==
    ASSUME OneByOne, IInv, Lone, NEW i \in Conns, ReadFails(i) PROVE Lone'
<1> DEFINE next == [Unborn EXCEPT !.pc = "failed"]
<1>1. Alive(i) /\ next \in Receiver /\ next.pc = "failed" /\ rx' = [rx EXCEPT ![i] = next]
  BY Rest DEF ReadFails, Alive, Unborn
<1>2. /\ UNCHANGED <<running, source, kind, thread, recording, baseline, receiveDrops, recent,
                     sources, client, recordings>>
      /\ sources \in Seq(Source) /\ receiveDrops \in 0..MaxPos
  BY DEF ReadFails, control, capture, IInv, TypeOK
<1> HIDE DEF next
<1>3. Vouched' /\ Labelled'
  BY <1>2, VerdictsStay, LabelsStay DEF Lone, Vouched
<1>4. Follows(next, sources'[i], receiveDrops')
  BY <1>1 DEF Follows
<1>5. receiveDrops <= receiveDrops' /\ (i # thread => recording = None)
  BY <1>1, <1>2, OthersAreJoined
<1>6. Accounted'
  BY <1>1, <1>2, <1>5, AccountStays DEF Reaches
<1> QED BY <1>1, <1>2, <1>3, <1>4, <1>6, ReceiverLone

LEMMA EndReceiveLone ==
    ASSUME OneByOne, IInv, Lone, NEW i \in Conns, EndReceive(i) PROVE Lone'
<1>1. Alive(i) /\ Dead \in Receiver /\ Dead.pc = "dead" /\ rx' = [rx EXCEPT ![i] = Dead]
  BY Rest DEF EndReceive, Alive, Dead, Unborn
<1>2. /\ running' = FALSE
      /\ UNCHANGED <<source, kind, thread, recording, baseline, receiveDrops, recent,
                     sources, client, recordings>>
      /\ sources \in Seq(Source) /\ receiveDrops \in 0..MaxPos
  BY DEF EndReceive, capture, IInv, TypeOK
<1>3. Vouched' /\ Labelled'
  BY <1>2, VerdictsStay, LabelsStay DEF Lone, Vouched
<1>4. Follows(Dead, sources'[i], receiveDrops')
  BY <1>1 DEF Follows
<1>5. receiveDrops <= receiveDrops' /\ (i # thread => recording = None)
  BY <1>1, <1>2, OthersAreJoined
<1>6. Accounted'
  BY <1>1, <1>2, <1>5, AccountStays DEF Reaches
<1> QED BY <1>1, <1>2, <1>3, <1>4, <1>6, ReceiverLone

LEMMA CopyDropsLone ==
    ASSUME OneByOne, IInv, Lone, NEW i \in Conns, CopyDrops(i) PROVE Lone'
<1>1. Alive(i) /\ rx[i].pc = "got" /\ rx[i].src = i /\ rx[i] \in Receiver
  BY DEF CopyDrops, Alive, Lone, Alone, IInv, TypeOK
<1>2. /\ UNCHANGED <<running, source, kind, thread, recording, baseline, recent,
                     sources, client, recordings>>
      /\ receiveDrops' = rx[i].drops /\ receiveDrops' \in 0..MaxPos
      /\ sources \in Seq(Source) /\ receiveDrops \in 0..MaxPos
  BY <1>1 DEF CopyDrops, control, capture, IInv, TypeOK, Receiver
<1>3. i # thread => recording = None
  BY <1>1, OthersAreJoined
<1>4. i = thread => thread # None
  BY RuntimeAssumption DEF Conns
<1>5. i = thread => Follows(rx[i], sources[i], receiveDrops)
  BY <1>4 DEF Lone, Followed
<1>6. Vouched' /\ Labelled'
  BY <1>2, VerdictsStay, LabelsStay DEF Lone, Vouched
<1>7. i = thread => receiveDrops <= receiveDrops' /\ receiveDrops' = sources[i].dropped
  BY <1>1, <1>2, <1>5 DEF Follows
<1>8. CASE rx[i].pos # NoFrame
  <2> DEFINE next == [rx[i] EXCEPT !.pc = "ingest", !.drops = 0]
  <2>1. next \in Receiver /\ next.src = i /\ next.pos = rx[i].pos /\ next.pc = "ingest"
    <3>1. 0 \in 0..MaxPos
      BY RuntimeAssumption
    <3> QED BY <1>1, <3>1 DEF Receiver
  <2>2. rx' = [rx EXCEPT ![i] = next]
    BY <1>1, <1>8 DEF IInv, TypeOK, CopyDrops
  <2> HIDE DEF next
  <2>3. i = thread => Follows(next, sources'[i], receiveDrops')
    BY <1>1, <1>2, <1>5, <1>7, <2>1 DEF Follows
  <2>4. \A last \in Int : receiveDrops' = receiveDrops
              /\ Reaches(last, rx[i], sources[i], receiveDrops) =>
                    Reaches(last, next, sources'[i], receiveDrops')
    <3> SUFFICES ASSUME NEW last \in Int, rx[i].drops = receiveDrops,
                        rx[i].pos = last + 1 + (rx[i].drops - receiveDrops)
                 PROVE  Reaches(last, next, sources'[i], receiveDrops')
      BY <1>1, <1>2, <1>8 DEF Reaches
    <3>1. rx[i].pos = last + 1
      BY <1>2
    <3> QED BY <2>1, <3>1 DEF Reaches
  <2>5. Accounted'
    <3>1. CASE i = thread
      BY <1>2, <1>7, <2>2, <2>4, <3>1, AccountStays
    <3>2. CASE i # thread
      BY <1>2, <1>3, <3>2 DEF Accounted
    <3> QED BY <3>1, <3>2
  <2> QED BY <1>1, <1>2, <1>6, <2>1, <2>2, <2>3, <2>5, ReceiverLone
<1>9. CASE rx[i].pos = NoFrame
  <2>1. PICK pc \in {"eof", "loop"} : rx' = [rx EXCEPT ![i] = [Unborn EXCEPT !.pc = pc]]
    BY <1>9 DEF CopyDrops
  <2> DEFINE next == [Unborn EXCEPT !.pc = pc]
  <2>2. next \in Receiver /\ next.pc = pc
    BY Rest DEF Unborn
  <2> HIDE DEF next
  <2>3. i = thread => Follows(next, sources'[i], receiveDrops')
    BY <1>2, <1>7, <2>2 DEF Follows
  <2>4. \A last \in Int : Reaches(last, rx[i], sources[i], receiveDrops) =>
                             Reaches(last, next, sources'[i], receiveDrops')
    BY <1>1, <1>2, <1>9, <2>2 DEF Reaches
  <2>5. Accounted'
    <3>1. CASE i = thread
      BY <1>2, <1>7, <2>1, <2>4, <3>1, AccountStays DEF next
    <3>2. CASE i # thread
      BY <1>2, <1>3, <3>2 DEF Accounted
    <3> QED BY <3>1, <3>2
  <2> QED BY <1>1, <1>2, <1>6, <2>1, <2>2, <2>3, <2>5, ReceiverLone DEF next
<1> QED BY <1>8, <1>9

LEMMA ContiguousGrows ==
    ASSUME NEW S, NEW q \in Seq(S), NEW f, Contiguous(q),
           q # <<>> => f.src = q[Len(q)].src /\ f.pos = q[Len(q)].pos + 1
    PROVE  Contiguous(Append(q, f))
<1>1. /\ Len(q) \in Nat /\ Len(Append(q, f)) = Len(q) + 1
      /\ \A k \in 1..Len(q) : Append(q, f)[k] = q[k]
      /\ Append(q, f)[Len(q) + 1] = f
  OBVIOUS
<1> SUFFICES ASSUME NEW k \in 1..Len(q)
             PROVE  /\ Append(q, f)[k + 1].src = Append(q, f)[k].src
                    /\ Append(q, f)[k + 1].pos = Append(q, f)[k].pos + 1
  BY <1>1 DEF Contiguous
<1>2. CASE k = Len(q)
  <2>1. q # <<>>
    BY <1>2
  <2> QED BY <1>1, <1>2, <2>1
<1>3. CASE k # Len(q)
  <2>1. k \in 1..Len(q) - 1 /\ k + 1 \in 1..Len(q)
    BY <1>1, <1>3
  <2> QED BY <1>1, <2>1 DEF Contiguous
<1> QED BY <1>2, <1>3

LEMMA IngestLone ==
    ASSUME OneByOne, IInv, Lone, NEW i \in Conns, Ingest(i) PROVE Lone'
<1> DEFINE frame == [src |-> i, pos |-> rx[i].pos]
           old == recordings[recording]
           row == [old EXCEPT !.frames = Append(@, frame)]
           last == old.frames[Len(old.frames)].pos
<1>1. /\ Alive(i) /\ rx[i].pc = "ingest" /\ rx[i].src = i /\ rx[i] \in Receiver
      /\ rx[i].pos # NoFrame
  BY DEF Ingest, Alive, Lone, Alone, IInv, TypeOK, Bound
<1>2. /\ UNCHANGED <<running, source, kind, thread, recording, baseline, receiveDrops,
                     sources, client>>
      /\ recent' = recent \cup {i}
      /\ sources \in Seq(Source) /\ receiveDrops \in 0..MaxPos /\ recordings \in Seq(Recording)
  BY <1>1 DEF Ingest, control, capture, IInv, TypeOK
<1>3. i # thread => recording = None
  BY <1>1, OthersAreJoined
<1>4. PICK pc \in {"loop", "raised"} :
        /\ rx' = [rx EXCEPT ![i] = [Unborn EXCEPT !.pc = pc]]
        /\ \/ recordings' = recordings /\ (recording = None \/ pc = "raised")
           \/ recordings' = [recordings EXCEPT ![recording].frames = Append(@, frame)]
              /\ recording # None
  BY <1>1 DEF Ingest
<1> DEFINE next == [Unborn EXCEPT !.pc = pc]
<1>5. next \in Receiver /\ next.pc = pc
  BY Rest DEF Unborn
<1>6. rx' = [rx EXCEPT ![i] = next]
  BY <1>4
<1> HIDE DEF next
<1>7. i = thread => thread # None /\ receiveDrops = sources[i].dropped /\ rx[i].pos = sources[i].pos
  BY <1>1, RuntimeAssumption DEF Lone, Followed, Follows, Conns
<1>8. i = thread => Follows(next, sources'[i], receiveDrops')
  BY <1>2, <1>5, <1>7 DEF Follows
<1>9. rx'[i] = next
  BY <1>6 DEF IInv, TypeOK
<1>10. Accounted' /\ Vouched' /\ Labelled'
  <2>1. CASE recordings' = recordings /\ (recording = None \/ pc = "raised")
    <3>1. Vouched' /\ Labelled'
      BY <1>2, <2>1, VerdictsStay, LabelsStay DEF Lone, Vouched
    <3>2. receiveDrops <= receiveDrops'
      BY <1>2
    <3>3. CASE pc = "raised"
      <4>1. \A n \in Int : Reaches(n, next, sources'[i], receiveDrops')
        BY <1>5, <3>3 DEF Reaches
      <4> QED BY <1>2, <1>3, <1>6, <2>1, <3>1, <3>2, <4>1, AccountStays
    <3>4. CASE recording = None
      BY <1>2, <3>1, <3>4 DEF Accounted
    <3> QED BY <2>1, <3>3, <3>4
  <2>2. CASE recording # None
             /\ recordings' = [recordings EXCEPT ![recording].frames = Append(@, frame)]
    <3>1. i = thread /\ recording \in DOMAIN recordings /\ old \in Recording /\ old.open
      BY <1>2, <1>3, <2>2 DEF IInv, Bound, Held
    <3>2. old.frames \in Seq([src : Conns, pos : 1..MaxPos])
      BY <3>1 DEF Recording
    <3>3. /\ row.frames = Append(old.frames, frame) /\ row.open = old.open
          /\ row.kind = old.kind /\ row.complete = old.complete
      BY <3>1 DEF Recording
    <3>4. recordings' = [recordings EXCEPT ![recording] = row]
      BY <1>2, <2>2, <3>1
    <3> HIDE DEF row
    <3>5. /\ DOMAIN recordings' = DOMAIN recordings
          /\ \A r \in DOMAIN recordings :
                recordings'[r] = IF r = recording THEN row ELSE recordings[r]
      BY <1>2, <3>1, <3>4
    <3>6. /\ thread # None /\ baseline # None /\ baseline <= receiveDrops
          /\ old.kind = sources[i].kind
          /\ \A k \in DOMAIN old.frames : old.frames[k].src = i
          /\ receiveDrops = baseline =>
                  /\ Contiguous(old.frames)
                  /\ old.frames # <<>> => Reaches(last, rx[i], sources[i], receiveDrops)
      BY <2>2, <3>1 DEF Lone, Accounted
    <3>7. /\ Len(old.frames) \in Nat /\ Len(row.frames) = Len(old.frames) + 1
          /\ DOMAIN row.frames = 1..Len(old.frames) + 1
          /\ \A k \in 1..Len(old.frames) : row.frames[k] = old.frames[k]
          /\ row.frames[Len(old.frames) + 1] = frame
          /\ DOMAIN old.frames = 1..Len(old.frames)
      <4> HIDE DEF frame, old
      <4> QED BY <3>2, <3>3
    <3>8. \A k \in DOMAIN row.frames : row.frames[k].src = i
      BY <3>6, <3>7
    <3>9. receiveDrops = baseline => Contiguous(row.frames)
      <4> SUFFICES ASSUME receiveDrops = baseline PROVE Contiguous(row.frames)
        OBVIOUS
      <4>1. old.frames # <<>> => frame.pos = last + 1 /\ frame.src = old.frames[Len(old.frames)].src
        <5>1. old.frames # <<>> => Len(old.frames) \in DOMAIN old.frames
          BY <3>2
        <5> QED BY <1>1, <3>6, <5>1 DEF Reaches
      <4> HIDE DEF frame, old
      <4> QED BY <3>2, <3>3, <3>6, <4>1, ContiguousGrows DEF last
    <3>10. Reaches(row.frames[Len(row.frames)].pos, next, sources'[i], receiveDrops')
           \/ pc = "raised"
      BY <1>2, <1>4, <1>5, <1>7, <3>1, <3>7 DEF Reaches
    <3>11. pc = "raised" => \A n : Reaches(n, next, sources'[i], receiveDrops')
      BY <1>5 DEF Reaches
    <3>12. Accounted'
      BY <1>2, <1>9, <3>1, <3>3, <3>5, <3>6, <3>8, <3>9, <3>10, <3>11 DEF Accounted
    <3>13. Vouched'
      <4>1. \A r \in DOMAIN recordings : recordings[r].complete => recordings'[r] = recordings[r]
        BY <3>1, <3>5 DEF Lone, Vouched
      <4>2. \A r \in DOMAIN recordings : recordings'[r].complete => recordings[r].complete
        BY <3>3, <3>5
      <4>3. \A c \in Clients : client[c].rid # None => recordings'[client[c].rid] = recordings[client[c].rid]
        <5> SUFFICES ASSUME NEW c \in Clients, client[c].rid # None
                     PROVE  client[c].rid \in DOMAIN recordings /\ client[c].rid # recording
          BY <3>5
        <5> QED BY DEF IInv, Bound, Held, Holds
      <4> QED BY <1>2, <3>5, <4>1, <4>2, <4>3 DEF Lone, Vouched
    <3>14. Labelled'
      <4>1. i \in DOMAIN sources
        BY <1>1, OthersAreJoined
      <4>2. ASSUME NEW k \in DOMAIN row.frames
            PROVE  row.frames[k].src \in DOMAIN sources /\ sources[row.frames[k].src].kind = row.kind
        BY <3>3, <3>6, <3>8, <4>1
      <4> QED BY <1>2, <3>5, <4>2 DEF Lone, Labelled
    <3> QED BY <3>12, <3>13, <3>14
  <2> QED BY <1>4, <2>1, <2>2
<1> QED
  BY <1>1, <1>2, <1>4, <1>5, <1>6, <1>8, <1>10, ReceiverLone

-----------------------------------------------------------------------------
(* The requests. *)
LEMMA TakeLone ==
    ASSUME OneByOne, IInv, Lone, NEW c \in Clients, NEW op \in {"connect", "disconnect", "stop"},
           NEW conn \in Conns \cup {None}, TakeRecording(c, op, conn),
           sources' \in Seq(Source), Len(sources) <= Len(sources'),
           \A s \in DOMAIN sources : sources'[s] = sources[s],
           op = "connect" => conn = Len(sources') /\ conn > Len(sources)
    PROVE  Lone'
<1> DEFINE whole == recording # None /\ DropDelta = 0
           next == [Idle EXCEPT !.pc = "stopping", !.op = op, !.conn = conn, !.rid = recording,
                                !.complete = whole]
<1>1. /\ client' = [client EXCEPT ![c] = next] /\ recording' = None /\ baseline' = None
      /\ client[c].pc = "idle"
      /\ UNCHANGED <<running, source, kind, thread, receiveDrops, recent, rx, recordings>>
  BY DEF TakeRecording, control
<1>2. /\ next.pc = "stopping" /\ next.op = op /\ next.conn = conn /\ next.thread = None
      /\ next.rid = recording /\ next.complete = whole
  BY DEF Idle
<1>3. \A d \in Clients : client'[d] = next
  BY <1>1 DEF OneByOne, IInv, TypeOK
<1> HIDE DEF next
<1>4. sources \in Seq(Source) /\ DOMAIN sources \subseteq DOMAIN sources'
  BY DEF IInv, TypeOK
<1>5. \A i \in Conns : Alive(i) => i = thread
  <2>1. \A d \in Clients : client[d].thread = None
    BY <1>1 DEF OneByOne, Lone, Requested
  <2> QED BY <2>1, RuntimeAssumption DEF Lone, Alone, Conns
<1>6. Attached'
  BY <1>1, <1>4 DEF Lone, Attached, Alive
<1>7. Alone'
  BY <1>1, <1>4, <1>5 DEF Lone, Alone, Alive, Conns
<1>8. Requested'
  <2>1. op = "connect" => rx[conn] = Unborn
    BY <1>4, RuntimeAssumption DEF Lone, Alone
  <2> QED BY <1>1, <1>2, <1>3, <2>1 DEF Requested
<1>9. Followed' /\ Accounted'
  BY <1>1 DEF Lone, Followed, Attached, Accounted
<1>10. Vouched'
  <2>1. recording # None /\ whole => Contiguous(recordings[recording].frames)
    <3> SUFFICES ASSUME recording # None, whole PROVE receiveDrops = baseline
      BY DEF Lone, Accounted
    <3>1. baseline # None /\ baseline <= receiveDrops
      BY DEF Lone, Accounted
    <3>2. baseline \in Int /\ receiveDrops \in Int
      BY <3>1 DEF IInv, TypeOK
    <3> QED BY <3>1, <3>2 DEF DropDelta
  <2> QED BY <1>1, <1>2, <1>3, <2>1, VerdictsStay DEF Lone
<1>11. Labelled'
  BY <1>1, <1>4, LabelsStay DEF Lone
<1> QED BY <1>6, <1>7, <1>8, <1>9, <1>10, <1>11 DEF Lone

LEMMA ConnectLone ==
    ASSUME OneByOne, IInv, Lone, NEW c \in Clients, NEW k \in Kinds, Connect(c, k) PROVE Lone'
<1> DEFINE row == [kind |-> k, pos |-> 0, dropped |-> 0, open |-> TRUE]
<1>1. row \in Source
  BY RuntimeAssumption DEF Source
<1>2. sources \in Seq(Source) /\ sources' = Append(sources, row) /\ Len(sources) < MaxConnects
  BY DEF IInv, TypeOK, Connect
<1> HIDE DEF row
<1>3. sources' \in Seq(Source) /\ Len(sources') = Len(sources) + 1
      /\ \A s \in DOMAIN sources : sources'[s] = sources[s]
  BY <1>1, <1>2
<1>4. Len(sources) + 1 \in Conns /\ Len(sources) <= Len(sources') /\ Len(sources) + 1 > Len(sources)
  BY <1>2, <1>3, RuntimeAssumption DEF Conns
<1> QED BY <1>3, <1>4, TakeLone DEF Connect

LEMMA AskLone ==
    ASSUME OneByOne, IInv, Lone, NEW c \in Clients, Disconnect(c) \/ StopRecording(c) PROVE Lone'
<1>1. sources' = sources /\ sources \in Seq(Source)
  BY DEF Disconnect, StopRecording, IInv, TypeOK
<1>2. Len(sources) <= Len(sources')
  BY <1>1
<1> QED BY <1>1, <1>2, TakeLone DEF Disconnect, StopRecording

LEMMA StoreStopLone ==
    ASSUME OneByOne, IInv, Lone, NEW c \in Clients, StoreStop(c) PROVE Lone'
<1> DEFINE me == client[c]
           on == [Idle EXCEPT !.pc = "dropping", !.op = me.op, !.conn = me.conn]
           row == [recordings[me.rid] EXCEPT !.open = FALSE, !.complete = me.complete]
<1>1. /\ me.pc = "stopping" /\ recordings \in Seq(Recording) /\ me \in Client
      /\ me.rid # None => me.rid \in DOMAIN recordings
      /\ UNCHANGED <<running, source, kind, thread, recording, baseline, receiveDrops, recent,
                     sources, rx>>
  BY DEF StoreStop, control, capture, IInv, TypeOK, Bound
<1>2. recording = None
  BY <1>1 DEF Lone, Requested
<1>3. /\ on.pc = "dropping" /\ on.op = me.op /\ on.conn = me.conn /\ on.thread = None /\ on.rid = None
      /\ Idle.pc = "idle" /\ Idle.thread = None /\ Idle.rid = None
  BY DEF Idle
<1> HIDE DEF on
<1>4. PICK next \in {Idle, on} : client' = [client EXCEPT ![c] = next]
  BY DEF StoreStop, on
<1>5. \A d \in Clients : client'[d] = next /\ client[d] = me
  BY <1>4 DEF OneByOne, IInv, TypeOK
<1>6. /\ DOMAIN recordings' = DOMAIN recordings
      /\ \A r \in DOMAIN recordings :
            /\ recordings'[r].frames = recordings[r].frames /\ recordings'[r].kind = recordings[r].kind
            /\ \/ recordings'[r] = recordings[r]
               \/ r = me.rid /\ me.rid # None /\ ~recordings'[r].open
                  /\ recordings'[r].complete = me.complete
  <2>1. CASE recordings' = recordings
    BY <2>1
  <2>2. CASE recordings' # recordings
    <3>1. me.rid # None /\ recordings' = [recordings EXCEPT ![me.rid].open = FALSE,
                                                            ![me.rid].complete = me.complete]
      BY <2>2 DEF StoreStop
    <3>2. recordings[me.rid] \in Recording
      BY <1>1, <3>1
    <3>3. /\ row.frames = recordings[me.rid].frames /\ row.kind = recordings[me.rid].kind
          /\ row.open = FALSE /\ row.complete = me.complete
      BY <3>2 DEF Recording
    <3>4. recordings' = [recordings EXCEPT ![me.rid] = row]
      BY <1>1, <3>1
    <3> HIDE DEF row
    <3>5. /\ DOMAIN recordings' = DOMAIN recordings
          /\ \A r \in DOMAIN recordings : recordings'[r] = IF r = me.rid THEN row ELSE recordings[r]
      BY <1>1, <3>1, <3>4
    <3> QED BY <3>1, <3>3, <3>5
  <2> QED BY <2>1, <2>2
<1>7. Attached'
  BY <1>1 DEF Lone, Attached, Alive
<1>8. Alone'
  <2>1. \A d \in Clients : client[d].thread = None
    BY <1>1, <1>5 DEF Lone, Requested
  <2>2. \A i \in Conns : Alive(i) => i = thread
    BY <2>1, RuntimeAssumption DEF Lone, Alone, Conns
  <2> QED BY <1>1, <2>2 DEF Lone, Alone, Alive
<1>9. Requested'
  BY <1>1, <1>2, <1>3, <1>5 DEF Lone, Requested
<1>10. Followed' /\ Accounted'
  BY <1>1, <1>2 DEF Lone, Followed, Accounted
<1>11. Vouched'
  <2>1. me.rid # None /\ me.complete => Contiguous(recordings[me.rid].frames)
    BY DEF Lone, Vouched
  <2>2. \A r \in DOMAIN recordings : recordings'[r].complete =>
            ~recordings'[r].open /\ Contiguous(recordings'[r].frames)
    BY <1>6, <2>1 DEF Lone, Vouched
  <2>3. \A d \in Clients : client'[d].rid = None
    BY <1>3, <1>5
  <2> QED BY <1>6, <2>2, <2>3 DEF Vouched
<1>12. Labelled'
  BY <1>1, <1>6 DEF Lone, Labelled
<1> QED BY <1>7, <1>8, <1>9, <1>10, <1>11, <1>12 DEF Lone

LEMMA DropSourceLone ==
    ASSUME OneByOne, IInv, Lone, NEW c \in Clients, DropSource(c) PROVE Lone'
<1> DEFINE next == [client[c] EXCEPT !.pc = "closing", !.src = source, !.thread = thread]
<1>1. /\ client[c] \in Client /\ client[c].pc = "dropping"
      /\ running' = FALSE /\ source' = None /\ thread' = None
      /\ UNCHANGED <<kind, recording, baseline, receiveDrops, recent, sources, rx, recordings>>
  BY DEF IInv, TypeOK, DropSource, capture
<1>2. /\ next.pc = "closing" /\ next.op = client[c].op /\ next.conn = client[c].conn
      /\ next.thread = thread /\ next.rid = client[c].rid
  BY <1>1 DEF Client
<1>3. client' = [client EXCEPT ![c] = next]
  BY DEF IInv, TypeOK, DropSource
<1> HIDE DEF next
<1>4. \A d \in Clients : client'[d] = next /\ client[d] = client[c]
  BY <1>3 DEF OneByOne, IInv, TypeOK
<1>5. recording = None /\ client[c].thread = None /\ client[c].rid = None
  BY <1>1 DEF Lone, Requested, IInv, Bound
<1>6. Attached' /\ Followed' /\ Accounted'
  BY <1>1, <1>5 DEF Attached, Followed, Accounted
<1>7. Alone'
  <2>1. \A i \in Conns : Alive(i) => client'[c].thread = i
    BY <1>2, <1>4, <1>5, RuntimeAssumption DEF Lone, Alone, Conns
  <2> QED BY <1>1, <2>1 DEF Lone, Alone, Alive
<1>8. Requested'
  BY <1>1, <1>2, <1>4, <1>5 DEF Lone, Requested
<1>9. Vouched' /\ Labelled'
  BY <1>1, <1>2, <1>4, <1>5, VerdictsStay, LabelsStay DEF Lone
<1> QED BY <1>6, <1>7, <1>8, <1>9 DEF Lone

LEMMA CloseSourceLone ==
    ASSUME OneByOne, IInv, Lone, NEW c \in Clients, CloseSource(c) PROVE Lone'
<1> DEFINE next == [client[c] EXCEPT !.pc = "joining", !.src = None]
           s == client[c].src
           row == [sources[s] EXCEPT !.open = FALSE]
<1>1. /\ client[c] \in Client /\ client[c].pc = "closing" /\ sources \in Seq(Source)
      /\ s # None => s \in DOMAIN sources
      /\ UNCHANGED <<running, source, kind, thread, recording, baseline, receiveDrops, recent, rx,
                     recordings>>
  BY DEF IInv, TypeOK, Bound, CloseSource, control, capture
<1>2. /\ next.pc = "joining" /\ next.op = client[c].op /\ next.conn = client[c].conn
      /\ next.thread = client[c].thread /\ next.rid = client[c].rid
  BY <1>1 DEF Client
<1>3. client' = [client EXCEPT ![c] = next]
  BY DEF IInv, TypeOK, CloseSource
<1> HIDE DEF next
<1>4. \A d \in Clients : client'[d] = next /\ client[d] = client[c]
  BY <1>3 DEF OneByOne, IInv, TypeOK
<1>5. recording = None /\ thread = None /\ source = None /\ client[c].rid = None
  BY <1>1 DEF Lone, Requested, Attached, IInv, Bound
<1>6. /\ DOMAIN sources' = DOMAIN sources /\ Len(sources') = Len(sources)
      /\ \A t \in DOMAIN sources : sources'[t].kind = sources[t].kind
  <2>1. CASE s = None
    BY <2>1 DEF CloseSource
  <2>2. CASE s # None
    <3>1. sources[s] \in Source
      BY <1>1, <2>2
    <3>2. row \in Source /\ row.kind = sources[s].kind
      BY <3>1 DEF Source
    <3>3. sources' = [sources EXCEPT ![s] = row]
      BY <1>1, <2>2 DEF CloseSource
    <3> HIDE DEF row
    <3>4. DOMAIN sources' = DOMAIN sources /\ Len(sources') = Len(sources)
      BY <1>1, <2>2, <3>2, <3>3, ReplacedIn
    <3> QED BY <1>1, <3>2, <3>3, <3>4
  <2> QED BY <2>1, <2>2
<1>7. Attached' /\ Followed' /\ Accounted'
  BY <1>1, <1>5 DEF Lone, Attached, Followed, Accounted
<1>8. Alone'
  BY <1>1, <1>2, <1>4, <1>6 DEF Lone, Alone, Alive
<1>9. Requested'
  BY <1>1, <1>2, <1>4, <1>5, <1>6 DEF Lone, Requested
<1>10. Vouched' /\ Labelled'
  BY <1>1, <1>2, <1>4, <1>5, <1>6, VerdictsStay, LabelsStay DEF Lone
<1> QED BY <1>7, <1>8, <1>9, <1>10 DEF Lone

LEMMA JoinReceiverLone ==
    ASSUME OneByOne, IInv, Lone, NEW c \in Clients, JoinReceiver(c) PROVE Lone'
<1> DEFINE on == [client[c] EXCEPT !.pc = "installing", !.thread = None]
           next == IF client[c].op = "connect" THEN on ELSE Idle
<1>1. /\ client[c] \in Client /\ client[c].pc = "joining" /\ Joined(client[c].thread)
      /\ kind' = None /\ baseline' = None
      /\ UNCHANGED <<running, source, thread, recording, receiveDrops, recent, sources, rx, recordings>>
  BY DEF IInv, TypeOK, JoinReceiver
<1>2. /\ on.pc = "installing" /\ on.op = client[c].op /\ on.conn = client[c].conn
      /\ on.thread = None /\ on.rid = client[c].rid
      /\ Idle.pc = "idle" /\ Idle.thread = None /\ Idle.rid = None
  BY <1>1 DEF Client, Idle
<1>3. client' = [client EXCEPT ![c] = next]
  BY DEF IInv, TypeOK, JoinReceiver
<1> HIDE DEF on
<1>4. \A d \in Clients : client'[d] = next /\ client[d] = client[c]
  BY <1>3 DEF OneByOne, IInv, TypeOK
<1>5. recording = None /\ thread = None /\ source = None /\ client[c].rid = None
  BY <1>1 DEF Lone, Requested, Attached, IInv, Bound
<1>6. next.rid = None /\ next.thread = None
  BY <1>2, <1>5
<1>7. \A i \in Conns : ~Alive(i)
  <2> SUFFICES ASSUME NEW i \in Conns, Alive(i) PROVE FALSE
    OBVIOUS
  <2>1. client[c].thread = i /\ i # None
    BY <1>4, <1>5, RuntimeAssumption DEF Lone, Alone, Conns
  <2> QED BY <1>1, <2>1 DEF Joined, OneByOne
<1>8. Attached' /\ Followed' /\ Accounted'
  BY <1>1, <1>5 DEF Lone, Attached, Followed, Accounted
<1>9. Alone'
  BY <1>1, <1>7 DEF Lone, Alone, Alive
<1>10. Requested'
  BY <1>1, <1>2, <1>4, <1>5, <1>6 DEF Lone, Requested
<1>11. Vouched' /\ Labelled'
  BY <1>1, <1>4, <1>6, VerdictsStay, LabelsStay DEF Lone
<1> QED BY <1>8, <1>9, <1>10, <1>11 DEF Lone

LEMMA InstallSourceLone ==
    ASSUME OneByOne, IInv, Lone, NEW c \in Clients, InstallSource(c) PROVE Lone'
<1> DEFINE conn == client[c].conn
           fresh == [Unborn EXCEPT !.pc = "loop"]
<1>1. /\ client[c] \in Client /\ client[c].pc = "installing" /\ conn \in DOMAIN sources
      /\ sources \in Seq(Source) /\ Len(sources) <= MaxConnects
      /\ client[c].op = "connect"
  BY DEF IInv, TypeOK, Bound, InstallSource
<1>2. /\ running' = TRUE /\ source' = conn /\ kind' = sources[conn].kind /\ thread' = conn
      /\ receiveDrops' = sources[conn].dropped /\ baseline' = None /\ recent' = {}
      /\ client' = [client EXCEPT ![c] = Idle]
      /\ UNCHANGED <<recording, sources, recordings>>
  BY DEF InstallSource
<1>3. conn \in Conns /\ conn # None /\ sources[conn] \in Source
  BY <1>1, RuntimeAssumption DEF Conns
<1>4. Idle.pc = "idle" /\ Idle.thread = None /\ Idle.rid = None
  BY DEF Idle
<1>5. \A d \in Clients : client'[d] = Idle /\ client[d] = client[c]
  BY <1>2 DEF OneByOne, IInv, TypeOK
<1>6. recording = None /\ thread = None /\ rx[conn] = Unborn /\ client[c].thread = None
  BY <1>1 DEF Lone, Requested
<1>7. /\ \A i \in Conns : rx'[i] = IF i = conn THEN fresh ELSE rx[i]
      /\ fresh.pc = "loop"
  BY <1>3, <1>6 DEF InstallSource, IInv, TypeOK, Unborn
<1> HIDE DEF fresh
<1>8. \A i \in Conns : ~Alive(i)
  BY <1>5, <1>6, RuntimeAssumption DEF Lone, Alone, Conns
<1>9. Attached'
  BY <1>1, <1>2, <1>3, <1>7 DEF Attached, Alive
<1>10. Alone'
  <2>1. conn <= Len(sources)
    BY <1>1
  <2> QED BY <1>2, <1>7, <1>8, <2>1 DEF Lone, Alone, Alive, Conns
<1>11. Requested' /\ Accounted'
  BY <1>2, <1>4, <1>5, <1>6 DEF Requested, Accounted
<1>12. Followed'
  BY <1>2, <1>3, <1>7 DEF Followed, Follows
<1>13. Vouched' /\ Labelled'
  BY <1>2, <1>4, <1>5, VerdictsStay, LabelsStay DEF Lone
<1> QED BY <1>9, <1>10, <1>11, <1>12, <1>13 DEF Lone

LEMMA StartRecordingLone ==
    ASSUME OneByOne, IInv, Lone, NEW c \in Clients, StartRecording(c) PROVE Lone'
<1> DEFINE row == [kind |-> kind, frames |-> <<>>, open |-> TRUE, complete |-> FALSE]
           n == Len(recordings) + 1
<1>1. /\ recordings \in Seq(Recording) /\ recordings' = Append(recordings, row)
      /\ recording = None /\ recording' = n /\ baseline' = receiveDrops
      /\ running /\ receiveDrops \in 0..MaxPos
      /\ UNCHANGED <<running, source, kind, thread, receiveDrops, recent, sources, rx, client>>
      /\ client[c].pc = "idle"
  BY DEF IInv, TypeOK, StartRecording, control
<1>2. row.kind = kind /\ row.frames = <<>> /\ ~row.complete
  OBVIOUS
<1> HIDE DEF row
<1>3. /\ DOMAIN recordings' = 1..n /\ DOMAIN recordings = 1..n - 1 /\ n \in Nat
      /\ \A r \in 1..n : recordings'[r] = IF r = n THEN row ELSE recordings[r]
      /\ n \in 1..n /\ n # None
  BY <1>1, RuntimeAssumption
<1> HIDE DEF n
<1>4. \A d \in Clients : client[d].pc = "idle"
  BY <1>1 DEF OneByOne
<1>5. \A d \in Clients : client[d].rid = None
  BY <1>4 DEF IInv, Bound
<1>6. Attached' /\ Alone' /\ Requested' /\ Followed'
  BY <1>1, <1>4 DEF Lone, Attached, Alone, Alive, Requested, Followed
<1>7. Accounted'
  <2>1. thread # None /\ kind = sources[thread].kind
    BY <1>1 DEF Lone, Attached
  <2>2. receiveDrops # None /\ receiveDrops <= receiveDrops
    BY <1>1, RuntimeAssumption
  <2>3. Contiguous(<<>>)
    BY DEF Contiguous
  <2> QED BY <1>1, <1>2, <1>3, <2>1, <2>2, <2>3 DEF Accounted
<1>8. Vouched'
  BY <1>1, <1>2, <1>3, <1>5 DEF Lone, Vouched
<1>9. Labelled'
  <2>1. DOMAIN row.frames = {}
    BY <1>2
  <2> QED BY <1>1, <1>3, <2>1 DEF Lone, Labelled
<1> QED BY <1>6, <1>7, <1>8, <1>9 DEF Lone

LEMMA StepLone == OneByOne /\ IInv /\ Lone /\ [Next]_vars => Lone'
<1> SUFFICES ASSUME OneByOne, IInv, Lone, [Next]_vars PROVE Lone'
  OBVIOUS
<1>1. ASSUME NEW c \in Clients, NEW k \in Kinds, Connect(c, k) PROVE Lone'
  BY <1>1, ConnectLone
<1>2. ASSUME NEW c \in Clients, Disconnect(c) \/ StopRecording(c) PROVE Lone'
  BY <1>2, AskLone
<1>3. ASSUME NEW c \in Clients, StartRecording(c) PROVE Lone'
  BY <1>3, StartRecordingLone
<1>4. ASSUME NEW c \in Clients, Proceed(c) PROVE Lone'
  BY <1>4, StoreStopLone, DropSourceLone, CloseSourceLone, JoinReceiverLone, InstallSourceLone
  DEF Proceed
<1>5. ASSUME NEW i \in Conns, Receive(i) PROVE Lone'
  BY <1>5, LoopTestLone, ReadFrameLone, ReadNothingLone, ReadFailsLone, CopyDropsLone,
     IngestLone, EndReceiveLone DEF Receive
<1>6. CASE UNCHANGED vars
  <2>1. Attached' /\ Alone' /\ Requested' /\ Followed' /\ Accounted'
    BY <1>6 DEF vars, control, capture, Lone, Attached, Alone, Alive, Requested, Followed, Accounted
  <2>2. Vouched' /\ Labelled'
    BY <1>6, VerdictsStay, LabelsStay DEF vars, control, capture, Lone
  <2> QED BY <2>1, <2>2 DEF Lone
<1> QED
  BY <1>1, <1>2, <1>3, <1>4, <1>5, <1>6 DEF Next

LEMMA LoneInvariant == OneByOne /\ Spec => []Lone
<1> SUFFICES ASSUME OneByOne PROVE Spec => []Lone
  OBVIOUS
<1>1. IInv /\ Lone /\ [Next]_vars => Lone'
  BY StepLone
<1> QED BY <1>1, InitLone, Invariance, PTL DEF Spec

(* One client's requests, whenever they come and however its threads are
   scheduled: the frames the runtime has and records are those of the one
   connection it is said to have. *)
THEOREM ConnectionIsOne == OneByOne /\ Spec => []OneConnectionAtATime
<1> SUFFICES ASSUME OneByOne PROVE Spec => []OneConnectionAtATime
  OBVIOUS
<1>1. IInv /\ Lone => OneConnectionAtATime
  <2> SUFFICES ASSUME IInv, Lone PROVE OneConnectionAtATime
    OBVIOUS
  <2>1. RecordedAsLabelled
    BY DEF Lone, Labelled, RecordedAsLabelled
  <2>2. RecentIsCurrent /\ ConnectedIsReceiving
    BY DEF Lone, Attached, RecentIsCurrent, ConnectedIsReceiving
  <2>3. OneReceiver
    <3> DEFINE alive == {i \in Conns : Alive(i)}
    <3>1. \A i, j \in alive : i = j
      <4> SUFFICES ASSUME NEW i \in Conns, NEW j \in Conns, Alive(i), Alive(j) PROVE i = j
        OBVIOUS
      <4>1. CASE i = thread \/ j = thread
        <5>1. thread # None
          BY <4>1, RuntimeAssumption DEF Conns
        <5> QED BY <5>1, OthersAreJoined
      <4>2. CASE ~(i = thread \/ j = thread)
        BY <4>2 DEF OneByOne, Lone, Alone
      <4> QED BY <4>1, <4>2
    <3>2. Cardinality(alive) <= 1
      <4>1. CASE alive = {}
        BY <4>1, FS_EmptySet
      <4>2. CASE alive # {}
        <5>1. PICK i : alive = {i}
          <6>1. PICK i : i \in alive
            BY <4>2
          <6>2. alive = {i}
            <7> HIDE DEF alive
            <7> QED BY <3>1, <6>1
          <6> QED BY <6>2
        <5>2. Cardinality({i}) = 1
          BY FS_Singleton, Zenon
        <5> HIDE DEF alive
        <5> QED BY <5>1, <5>2
      <4> QED BY <4>1, <4>2
    <3> QED BY <3>2 DEF Lone, Alone, OneReceiver
  <2> QED BY <2>1, <2>2, <2>3 DEF IInv, OneConnectionAtATime
<1> QED BY <1>1, LoneInvariant, Invariance, PTL

(* Then a recording is only ever called complete when its frames followed each
   other on one wire: a frame the kernel dropped shows in the counter by the
   time the frame after it is stored. *)
THEOREM CompleteMeansContiguous == OneByOne /\ Spec => []CompleteIsContiguous
<1> SUFFICES ASSUME OneByOne PROVE Spec => []CompleteIsContiguous
  OBVIOUS
<1>1. Lone => CompleteIsContiguous
  BY DEF Lone, Vouched, Contiguous, CompleteIsContiguous
<1> QED BY <1>1, LoneInvariant, PTL
=============================================================================
