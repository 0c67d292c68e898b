--------------------------- MODULE RecordingStore ---------------------------
(***************************************************************************)
(* vision_shark/storage.py: the SQLite store of raw captures.              *)
(*                                                                         *)
(* Appends are batched: rows are inserted into the open transaction of one *)
(* connection and committed when CommitEvery of them are pending, when the *)
(* commit interval has elapsed (looked at only by an append), or when some *)
(* operation forces a flush.  `live' is what the connection sees, `durable'*)
(* what a crash leaves.  Every operation runs under one lock, so an        *)
(* operation is one action; a crash inside one leaves what a crash just    *)
(* before or just after one of its commits leaves.                         *)
(*                                                                         *)
(* An operator whose comment begins with `Slip' is no part of the model: it *)
(* is a mistake the operator after it could have been written with, and     *)
(* which the runs tell from the model.                                      *)
(***************************************************************************)
EXTENDS Integers, Sequences, FiniteSets

CONSTANTS
    Frames,          \* frame payloads
    CommitEvery,     \* commit_every, in frames
    CommitInterval,  \* max_commit_interval_s, in clock ticks
    MaxRecordings,   \* bound on recordings created
    MaxFrames,       \* bound on the sequence numbers of a recording
    MaxBatch,        \* bound on one append_frames batch
    Faults           \* what may go wrong: see FaultKinds

FaultKinds == {"commit fails", "batch fails"}

ASSUME StoreAssumption ==
    /\ CommitEvery \in Nat \ {0}
    /\ CommitInterval \in Nat \ {0}
    /\ MaxRecordings \in Nat /\ MaxFrames \in Nat /\ MaxBatch \in Nat \ {0}
    /\ Faults \subseteq FaultKinds

VARIABLES
    live,         \* the tables as the connection sees them
    durable,      \* the tables as last committed
    pending,      \* _pending
    sinceCommit,  \* clock ticks since _last_commit
    nextSeq,      \* _next_seq: recording -> next sequence number, or Unknown
    failed        \* history: a write has failed since the last commit

vars == <<live, durable, pending, sinceCommit, nextSeq, failed>>

Rids == 1..MaxRecordings
Unknown == -1

Row == [rid : Rids, seq : Nat, frame : Frames]

(* `recordings' is the recordings table: the AUTOINCREMENT id is the index,
   the value says whether stopped_ns is set. *)
Tables == [recordings : Seq({"open", "stopped"}), rows : SUBSET Row]

Rows(tables, rid) == {row \in tables.rows : row.rid = rid}

(* Slip: COALESCE(MAX(seq),0)+1. *)
IsNextFreeFromOne(tables, rid, n) ==
    /\ \A row \in Rows(tables, rid) : row.seq < n
    /\ IF Rows(tables, rid) = {} THEN n = 1 ELSE \E row \in Rows(tables, rid) : row.seq = n - 1

(* SELECT COALESCE(MAX(seq),-1)+1 FROM frames WHERE recording_id = rid *)
IsNextFree(tables, rid, n) ==
    /\ \A row \in Rows(tables, rid) : row.seq < n
    /\ n > 0 => \E row \in Rows(tables, rid) : row.seq = n - 1

NextFree(tables, rid) == CHOOSE n \in 0..MaxFrames : IsNextFree(tables, rid, n)

NextSeqOf(rid) == IF nextSeq[rid] = Unknown THEN NextFree(live, rid) ELSE nextSeq[rid]

(* The PRIMARY KEY and FOREIGN KEY that the rows of one INSERT must satisfy; an
   INSERT they refuse raises and changes nothing a later operation can see. *)
CanInsert(rid, seq, frames) ==
    /\ rid \in DOMAIN live.recordings
    /\ \A row \in Rows(live, rid) : row.seq \notin seq..seq + Len(frames) - 1
    /\ seq + Len(frames) <= MaxFrames

WithFrames(tables, rid, seq, frames) ==
    [tables EXCEPT !.rows = @ \cup
        {[rid |-> rid, seq |-> seq + i - 1, frame |-> frames[i]] : i \in 1..Len(frames)}]

Batches == UNION {[1..n -> Frames] : n \in 1..MaxBatch}

-----------------------------------------------------------------------------
(* Slip: the commit comes one frame late. *)
DueLate(force, count) ==
    /\ count > 0
    /\ force \/ count > CommitEvery \/ sinceCommit >= CommitInterval

(* Due(force, count) is the condition of _flush_locked. *)
Due(force, count) ==
    /\ count > 0
    /\ force \/ count >= CommitEvery \/ sinceCommit >= CommitInterval

CommitAs(tables) ==
    /\ live' = tables
    /\ durable' = tables
    /\ pending' = 0
    /\ sinceCommit' = 0
    /\ failed' = FALSE

LeaveOpen(tables, count) ==
    /\ live' = tables
    /\ pending' = count
    /\ UNCHANGED <<durable, sinceCommit>>

(* _flush_locked with `count' frames pending in `tables'.  A commit that fails
   raises to the caller and leaves the transaction open. *)
FlushLocked(force, tables, count) ==
    \/ Due(force, count) /\ CommitAs(tables)
    \/ ~Due(force, count) /\ LeaveOpen(tables, count) /\ UNCHANGED failed
    \/ /\ Due(force, count) /\ "commit fails" \in Faults
       /\ LeaveOpen(tables, count)
       /\ failed' = TRUE

Init ==
    /\ live = [recordings |-> <<>>, rows |-> {}]
    /\ durable = live
    /\ pending = 0
    /\ sinceCommit = 0
    /\ nextSeq = [rid \in Rids |-> Unknown]
    /\ failed = FALSE

(* flush, and the forced flush that list_recordings, load_frames, iter_frames
   and close begin with. *)
Flush ==
    /\ FlushLocked(TRUE, live, pending)
    /\ UNCHANGED nextSeq

(* After the forced flush start_recording and stop_recording write one row and
   commit again; these are the durable tables and the clock the flush leaves. *)
FlushedTables == IF pending > 0 THEN live ELSE durable
FlushedClock == IF pending > 0 THEN 0 ELSE sinceCommit

(* Slip: the INSERT is left to the commit of the first batch. *)
StartRecordingUncommitted ==
    LET rid == Len(live.recordings) + 1 IN
    /\ rid \in Rids
    /\ live' = [live EXCEPT !.recordings = Append(@, "open")]
    /\ durable' = FlushedTables
    /\ pending' = 0
    /\ sinceCommit' = FlushedClock
    /\ nextSeq' = [nextSeq EXCEPT ![rid] = 0]
    /\ failed' = FALSE

StartRecording ==
    LET rid == Len(live.recordings) + 1
        tables == [live EXCEPT !.recordings = Append(@, "open")] IN
    /\ rid \in Rids
    /\ live' = tables
    /\ pending' = 0
    /\ sinceCommit' = FlushedClock
    /\ \/ /\ durable' = tables
          /\ nextSeq' = [nextSeq EXCEPT ![rid] = 0]
          /\ failed' = FALSE
       \/ /\ "commit fails" \in Faults
          /\ durable' = FlushedTables
          /\ failed' = TRUE
          /\ UNCHANGED nextSeq

(* What append_frame and append_frames do with the rows they insert. *)
InsertFrames(rid, frames) ==
    LET seq == NextSeqOf(rid) IN
    /\ CanInsert(rid, seq, frames)
    /\ nextSeq' = [nextSeq EXCEPT ![rid] = seq + Len(frames)]
    /\ FlushLocked(FALSE, WithFrames(live, rid, seq, frames), pending + Len(frames))

AppendFrame(rid, frame) == InsertFrames(rid, <<frame>>)

(* append_frames_streaming is a sequence of these, the lock released between
   two of them. *)
AppendFrames(rid, frames) == InsertFrames(rid, frames)

(* executemany raises with some rows inserted: neither _next_seq nor _pending
   has been brought up to date. *)
AppendFramesFails(rid, frames) ==
    LET seq == NextSeqOf(rid) IN
    /\ "batch fails" \in Faults
    /\ CanInsert(rid, seq, frames)
    /\ live' = WithFrames(live, rid, seq, frames)
    /\ failed' = TRUE
    /\ UNCHANGED <<durable, pending, sinceCommit, nextSeq>>

(* Slip: the UPDATE is committed without the frames that are pending. *)
StopRecordingAlone(rid) ==
    /\ rid \in DOMAIN durable.recordings
    /\ live' = [live EXCEPT !.recordings[rid] = "stopped"]
    /\ durable' = [durable EXCEPT !.recordings[rid] = "stopped"]
    /\ nextSeq' = [nextSeq EXCEPT ![rid] = Unknown]
    /\ UNCHANGED <<pending, sinceCommit, failed>>

StopRecording(rid) ==
    LET tables == [live EXCEPT !.recordings[rid] = "stopped"] IN
    /\ rid \in DOMAIN live.recordings
    /\ \/ /\ CommitAs(tables)
          /\ nextSeq' = [nextSeq EXCEPT ![rid] = Unknown]
       \/ /\ "commit fails" \in Faults
          /\ live' = tables
          /\ durable' = FlushedTables
          /\ pending' = 0
          /\ sinceCommit' = FlushedClock
          /\ failed' = TRUE
          /\ UNCHANGED nextSeq

(* The process dies, or is closed after a flush, and a new RecordingStore is
   opened on the file. *)
Restart ==
    /\ live' = durable
    /\ pending' = 0
    /\ sinceCommit' = 0
    /\ nextSeq' = [rid \in Rids |-> Unknown]
    /\ failed' = FALSE
    /\ UNCHANGED durable

(* The clock; it stops counting once it is past the interval. *)
Tick ==
    /\ sinceCommit <= CommitInterval
    /\ sinceCommit' = sinceCommit + 1
    /\ UNCHANGED <<live, durable, pending, nextSeq, failed>>

Next ==
    \/ Flush
    \/ StartRecording
    \/ \E rid \in Rids, frame \in Frames : AppendFrame(rid, frame)
    \/ \E rid \in Rids, frames \in Batches : AppendFrames(rid, frames)
    \/ \E rid \in Rids, frames \in Batches : AppendFramesFails(rid, frames)
    \/ \E rid \in Rids : StopRecording(rid)
    \/ Restart
    \/ Tick

Spec == Init /\ [][Next]_vars

-----------------------------------------------------------------------------
TypeOK ==
    /\ live \in Tables /\ Len(live.recordings) <= MaxRecordings
    /\ durable \in Tables /\ Len(durable.recordings) <= MaxRecordings
    /\ pending \in Nat
    /\ sinceCommit \in 0..CommitInterval + 1
    /\ nextSeq \in [Rids -> Nat \cup {Unknown}]
    /\ failed \in BOOLEAN

(* A recording's frames are numbered 0, 1, 2, ... with no gap and no number
   used twice, in what the connection sees and in what a crash leaves: a
   sequence number forgotten at a stop or a restart and computed again from
   the table, or left behind by a failed batch, never overwrites or skips. *)
NumberedTo(tables, rid, n) ==
    /\ {row.seq : row \in Rows(tables, rid)} = 0..n-1
    /\ \A row, other \in Rows(tables, rid) : row.seq = other.seq => row = other

Numbered(tables, rid) == \E n \in 0..MaxFrames : NumberedTo(tables, rid, n)

GapFree == \A rid \in Rids : Numbered(live, rid) /\ Numbered(durable, rid)

(* Frames are never stored for a recording that does not exist, even after a
   crash that lost uncommitted rows. *)
NoOrphanFrames ==
    /\ \A row \in live.rows : row.rid \in DOMAIN live.recordings
    /\ \A row \in durable.rows : row.rid \in DOMAIN durable.recordings

(* A crash loses at most the max_uncommitted_frames that start_recording
   writes into the metadata of a recording: commit_every - 1.  Only a write
   that fails lets more build up, and only until the next commit. *)
LossBound == failed \/ Cardinality(live.rows \ durable.rows) <= CommitEvery - 1

(* With nothing pending the committed tables are the live ones: the separate
   connection iter_frames opens after its flush sees every accepted frame,
   unless a write has failed since the last commit. *)
QuiescentIsDurable == failed \/ (pending = 0 => durable = live)

(* The step that makes a stop durable makes every frame accepted for that
   recording before it durable too. *)
StopSavesEveryFrame ==
    [][\A rid \in DOMAIN durable'.recordings :
          /\ durable'.recordings[rid] = "stopped"
          /\ rid \in DOMAIN durable.recordings => durable.recordings[rid] = "open"
          => Rows(live, rid) \subseteq Rows(durable', rid)]_vars

(* Whatever has been committed stays: no operation, failed commit or restart
   takes a durable frame away, renumbers it or reopens a stopped recording. *)
CommittedStays ==
    [][/\ durable.rows \subseteq durable'.rows
       /\ \A rid \in DOMAIN durable.recordings :
             /\ rid \in DOMAIN durable'.recordings
             /\ durable.recordings[rid] = "stopped" => durable'.recordings[rid] = "stopped"]_vars

(* The store implements CaptureLog: each table is read as the list of logs its
   rows spell out in order of sequence number. *)
LogsOf(tables) ==
    [rid \in DOMAIN tables.recordings |->
        [frames |-> [k \in 1..NextFree(tables, rid) |->
                        (CHOOSE row \in Rows(tables, rid) : row.seq = k - 1).frame],
         closed |-> tables.recordings[rid] = "stopped"]]

Log == INSTANCE CaptureLog WITH logs <- LogsOf(live), saved <- LogsOf(durable)

(* Commits are all-or-nothing over every recording, logs only grow at their
   end, and a crash returns to a list the store was once in. *)
ImplementsLog == Log!Spec
=============================================================================
