------------------------ MODULE RecordingStoreProofs ------------------------
(***************************************************************************)
(* Proofs about RecordingStore, for every commit threshold, commit         *)
(* interval and bound, and whatever faults are allowed.                    *)
(*                                                                         *)
(* Numbering is not inductive by itself: an append numbers its frames from *)
(* _next_seq, so the invariant also says what _next_seq may hold: nothing, *)
(* or a number no larger than the count of rows.  A smaller one is what a  *)
(* failed batch leaves; the primary key then refuses every append.         *)
(***************************************************************************)
EXTENDS RecordingStore, FiniteSetTheorems, TLAPS

Numbering ==
    \A rid \in Rids :
        /\ \E n \in 0..MaxFrames :
              /\ NumberedTo(live, rid, n)
              /\ nextSeq[rid] # Unknown => nextSeq[rid] <= n
        /\ Numbered(durable, rid)

(* What is committed is behind what the connection sees, never beside it. *)
Behind ==
    /\ durable.rows \subseteq live.rows
    /\ \A rid \in DOMAIN durable.recordings :
          /\ rid \in DOMAIN live.recordings
          /\ durable.recordings[rid] = "stopped" => live.recordings[rid] = "stopped"

IInv == TypeOK /\ Numbering /\ Behind

-----------------------------------------------------------------------------
(* The SELECT that recomputes _next_seq returns the number of rows. *)
LEMMA NextFreeIsCount ==
    ASSUME NEW tables \in Tables, NEW rid \in Rids, NEW n \in 0..MaxFrames,
           NumberedTo(tables, rid, n)
    PROVE  NextFree(tables, rid) = n
<1> USE StoreAssumption
<1>1. \A row \in Rows(tables, rid) : row.seq \in Nat
  BY DEF Tables, Row, Rows
<1>2. \A k : k \in 0..n-1 <=> \E row \in Rows(tables, rid) : row.seq = k
  BY DEF NumberedTo
<1>3. IsNextFree(tables, rid, n)
  BY <1>1, <1>2 DEF IsNextFree
<1>4. ASSUME NEW m \in 0..MaxFrames, IsNextFree(tables, rid, m) PROVE m = n
  <2>1. ~(m < n)
    BY <1>2, <1>4 DEF IsNextFree
  <2>2. ~(n < m)
    BY <1>2, <1>4 DEF IsNextFree
  <2>3. QED BY <2>1, <2>2
<1>5. QED BY <1>3, <1>4 DEF NextFree

(* Rows numbered on from the end keep a recording numbered without a gap, and
   do not touch another recording's. *)
LEMMA NumberedExtends ==
    ASSUME NEW tables \in Tables, NEW rid \in Rids, NEW n \in 0..MaxFrames,
           NEW frames \in Seq(Frames), n + Len(frames) <= MaxFrames,
           NumberedTo(tables, rid, n)
    PROVE  /\ WithFrames(tables, rid, n, frames) \in Tables
           /\ NumberedTo(WithFrames(tables, rid, n, frames), rid, n + Len(frames))
           /\ \A other \in Rids : other # rid =>
                 Rows(WithFrames(tables, rid, n, frames), other) = Rows(tables, other)
<1> DEFINE new == {[rid |-> rid, seq |-> n + i - 1, frame |-> frames[i]] : i \in 1..Len(frames)}
           after == WithFrames(tables, rid, n, frames)
<1> USE StoreAssumption
<1>1. Len(frames) \in Nat
  OBVIOUS
<1>2. \A row \in new : row \in Row /\ row.rid = rid /\ row.seq \in n..n+Len(frames)-1
  BY <1>1 DEF Row
<1>3. after = [recordings |-> tables.recordings, rows |-> tables.rows \cup new]
  <2>1. tables = [recordings |-> tables.recordings, rows |-> tables.rows]
    BY DEF Tables
  <2>2. after = [tables EXCEPT !.rows = tables.rows \cup new]
    BY DEF WithFrames
  <2> HIDE DEF new, after
  <2>3. QED BY <2>1, <2>2
<1>4. after \in Tables
  BY <1>2, <1>3 DEF Tables
<1>5. Rows(after, rid) = Rows(tables, rid) \cup new
  BY <1>2, <1>3 DEF Rows
<1>6. \A row \in Rows(tables, rid) : row.seq \in 0..n-1
  BY DEF NumberedTo
<1>7. {row.seq : row \in Rows(after, rid)} = 0..n+Len(frames)-1
  <2>1. \A k \in n..n+Len(frames)-1 : \E row \in new : row.seq = k
    <3> SUFFICES ASSUME NEW k \in n..n+Len(frames)-1 PROVE \E row \in new : row.seq = k
      OBVIOUS
    <3>1. k - n + 1 \in 1..Len(frames) /\ n + (k - n + 1) - 1 = k
      BY <1>1
    <3>2. [rid |-> rid, seq |-> n + (k - n + 1) - 1, frame |-> frames[k - n + 1]] \in new
      BY <3>1
    <3>3. QED BY <3>1, <3>2
  <2>2. \A k \in 0..n-1 : \E row \in Rows(tables, rid) : row.seq = k
    BY DEF NumberedTo
  <2>3. \A k \in 0..n+Len(frames)-1 : k \in 0..n-1 \/ k \in n..n+Len(frames)-1
    BY <1>1
  <2>4. \A row \in Rows(after, rid) : row.seq \in 0..n+Len(frames)-1
    BY <1>1, <1>2, <1>5, <1>6
  <2>5. \A k \in 0..n+Len(frames)-1 : \E row \in Rows(after, rid) : row.seq = k
    BY <1>5, <2>1, <2>2, <2>3
  <2>6. QED BY <2>4, <2>5
<1>8. \A row, other \in Rows(after, rid) : row.seq = other.seq => row = other
  <2>1. ASSUME NEW row \in Rows(after, rid), NEW other \in Rows(after, rid),
               row.seq = other.seq
        PROVE  row = other
    <3>1. CASE row \in new /\ other \in new
      <4>1. PICK i \in 1..Len(frames) :
              row = [rid |-> rid, seq |-> n + i - 1, frame |-> frames[i]]
        BY <3>1
      <4>2. PICK j \in 1..Len(frames) :
              other = [rid |-> rid, seq |-> n + j - 1, frame |-> frames[j]]
        BY <3>1
      <4>3. i = j
        BY <1>1, <2>1, <4>1, <4>2
      <4>4. QED BY <4>1, <4>2, <4>3
    <3>2. CASE row \in Rows(tables, rid) /\ other \in Rows(tables, rid)
      BY <2>1, <3>2 DEF NumberedTo
    <3>3. CASE row \in new /\ other \in Rows(tables, rid)
      <4>1. row.seq \in n..n+Len(frames)-1 /\ other.seq \in 0..n-1
        BY <1>2, <1>6, <3>3
      <4>2. QED BY <1>1, <2>1, <4>1
    <3>4. CASE row \in Rows(tables, rid) /\ other \in new
      <4>1. row.seq \in 0..n-1 /\ other.seq \in n..n+Len(frames)-1
        BY <1>2, <1>6, <3>4
      <4>2. QED BY <1>1, <2>1, <4>1
    <3>5. QED BY <1>5, <3>1, <3>2, <3>3, <3>4
  <2>2. QED BY <2>1
<1>9. \A other \in Rids : other # rid => Rows(after, other) = Rows(tables, other)
  BY <1>2, <1>3 DEF Rows
<1>10. QED BY <1>4, <1>7, <1>8, <1>9 DEF NumberedTo

(* An append starts where the recording ends: _next_seq is not behind, or the
   primary key would have refused the rows. *)
LEMMA AppendsAtEnd ==
    ASSUME TypeOK, Numbering, NEW rid \in Rids, NEW frames \in Seq(Frames),
           Len(frames) >= 1, CanInsert(rid, NextSeqOf(rid), frames)
    PROVE  NextSeqOf(rid) \in 0..MaxFrames /\ NumberedTo(live, rid, NextSeqOf(rid))
<1> USE StoreAssumption
<1>1. PICK n \in 0..MaxFrames :
        NumberedTo(live, rid, n) /\ (nextSeq[rid] # Unknown => nextSeq[rid] <= n)
  BY DEF Numbering
<1>2. CASE nextSeq[rid] = Unknown
  <2>1. live \in Tables
    BY DEF TypeOK
  <2>2. NextFree(live, rid) = n
    BY <1>1, <2>1, NextFreeIsCount
  <2>3. NextSeqOf(rid) = n
    BY <1>2, <2>2 DEF NextSeqOf
  <2>4. QED BY <1>1, <2>3
<1>3. CASE nextSeq[rid] # Unknown
  <2>1. NextSeqOf(rid) = nextSeq[rid] /\ nextSeq[rid] \in Nat
    BY <1>3 DEF NextSeqOf, TypeOK
  <2>2. nextSeq[rid] \in nextSeq[rid]..nextSeq[rid] + Len(frames) - 1
    BY <2>1
  <2>3. nextSeq[rid] \notin 0..n-1
    BY <1>1, <2>1, <2>2 DEF CanInsert, NumberedTo
  <2>4. nextSeq[rid] = n
    BY <1>1, <1>3, <2>1, <2>3
  <2>5. QED BY <1>1, <2>1, <2>4
<1>4. QED BY <1>2, <1>3

(* The tables a batch leads to, and the numbering they have. *)
LEMMA AppendKeeps ==
    ASSUME TypeOK, Numbering, NEW rid \in Rids, NEW frames \in Seq(Frames),
           Len(frames) >= 1, CanInsert(rid, NextSeqOf(rid), frames)
    PROVE  LET after == WithFrames(live, rid, NextSeqOf(rid), frames) IN
           /\ after \in Tables
           /\ after.recordings = live.recordings /\ live.rows \subseteq after.rows
           /\ NextSeqOf(rid) + Len(frames) \in 0..MaxFrames
           /\ NumberedTo(after, rid, NextSeqOf(rid) + Len(frames))
           /\ \A other \in Rids : other # rid => Rows(after, other) = Rows(live, other)
<1> USE StoreAssumption
<1>1. NextSeqOf(rid) \in 0..MaxFrames /\ NumberedTo(live, rid, NextSeqOf(rid))
  BY AppendsAtEnd
<1>2. NextSeqOf(rid) + Len(frames) <= MaxFrames
  BY DEF CanInsert
<1>3. live \in Tables
  BY DEF TypeOK
<1>4. /\ WithFrames(live, rid, NextSeqOf(rid), frames).recordings = live.recordings
      /\ live.rows \subseteq WithFrames(live, rid, NextSeqOf(rid), frames).rows
  BY <1>3 DEF WithFrames, Tables
<1>5. QED BY <1>1, <1>2, <1>3, <1>4, NumberedExtends

(* Numbering looks at the frames table only. *)
LEMMA NumberedByRows ==
    ASSUME NEW tables, NEW other, NEW rid, NEW n, Rows(tables, rid) = Rows(other, rid)
    PROVE  NumberedTo(tables, rid, n) <=> NumberedTo(other, rid, n)
BY DEF NumberedTo

(* Batches and single frames are non-empty sequences of frames. *)
LEMMA BatchIsSequence ==
    ASSUME NEW frames \in Batches
    PROVE  frames \in Seq(Frames) /\ Len(frames) >= 1
<1>1. PICK n \in 1..MaxBatch : frames \in [1..n -> Frames]
  BY DEF Batches
<1>2. n \in Nat /\ n >= 1
  BY <1>1, StoreAssumption
<1>3. frames \in Seq(Frames) /\ Len(frames) = n
  BY <1>1, <1>2
<1>4. QED BY <1>2, <1>3

(* Whatever becomes of the commit, a flush leaves the given tables live and
   commits all of them or nothing. *)
LEMMA FlushOutcome ==
    ASSUME NEW force, NEW tables, NEW count, FlushLocked(force, tables, count)
    PROVE  /\ live' = tables
           /\ durable' = tables \/ durable' = durable
           /\ pending' = 0 \/ pending' = count
           /\ sinceCommit' = 0 \/ sinceCommit' = sinceCommit
           /\ failed' \in {FALSE, TRUE, failed}
BY DEF FlushLocked, CommitAs, LeaveOpen

-----------------------------------------------------------------------------
(* Every step but a restart only adds to the live tables and commits one of
   three tables: what was committed, the live ones before it or after it. *)
LiveNumbering ==
    \A rid \in Rids : \E n \in 0..MaxFrames :
        NumberedTo(live, rid, n) /\ (nextSeq[rid] # Unknown => nextSeq[rid] <= n)

Grows ==
    /\ live' \in Tables /\ Len(live'.recordings) <= MaxRecordings
    /\ live.rows \subseteq live'.rows
    /\ \A rid \in DOMAIN live.recordings :
          /\ rid \in DOMAIN live'.recordings
          /\ live.recordings[rid] = "stopped" => live'.recordings[rid] = "stopped"
    /\ durable' = durable \/ durable' = live \/ durable' = live'
    /\ pending' \in Nat
    /\ sinceCommit' \in 0..CommitInterval + 1
    /\ nextSeq' \in [Rids -> Nat \cup {Unknown}]
    /\ failed' \in BOOLEAN

LEMMA GrowingKeeps ==
    ASSUME IInv, Grows, LiveNumbering'
    PROVE  IInv'
<1>1. TypeOK'
  BY DEF IInv, TypeOK, Grows
<1>2. Behind'
  BY DEF IInv, Behind, Grows
<1>3. Numbering'
  <2>1. \A rid \in Rids : Numbered(live, rid) /\ Numbered(durable, rid)
    BY DEF IInv, Numbering, Numbered
  <2>2. \A rid \in Rids : Numbered(live', rid)
    BY DEF LiveNumbering, Numbered
  <2>3. durable' = durable \/ durable' = live \/ durable' = live'
    BY DEF Grows
  <2>4. \A rid \in Rids : Numbered(durable', rid)
    BY <2>1, <2>2, <2>3
  <2>5. QED BY <2>4 DEF LiveNumbering, Numbering, Numbered
<1>4. QED BY <1>1, <1>2, <1>3 DEF IInv

(* append_frame and append_frames, committing or not. *)
LEMMA InsertGrows ==
    ASSUME IInv, NEW rid \in Rids, NEW frames \in Seq(Frames), Len(frames) >= 1,
           CanInsert(rid, NextSeqOf(rid), frames),
           live' = WithFrames(live, rid, NextSeqOf(rid), frames),
           durable' = durable \/ durable' = live',
           pending' \in Nat,
           sinceCommit' \in 0..CommitInterval + 1,
           failed' \in BOOLEAN,
           \/ nextSeq' = [nextSeq EXCEPT ![rid] = NextSeqOf(rid) + Len(frames)]
           \/ nextSeq' = nextSeq
    PROVE  Grows /\ LiveNumbering'
<1> DEFINE end == NextSeqOf(rid) + Len(frames)
<1> USE StoreAssumption
<1>1. TypeOK /\ Numbering
  BY DEF IInv
<1>2. /\ live' \in Tables
      /\ live'.recordings = live.recordings /\ live.rows \subseteq live'.rows
      /\ end \in 0..MaxFrames
      /\ NumberedTo(live', rid, end)
      /\ \A other \in Rids : other # rid => Rows(live', other) = Rows(live, other)
  BY <1>1, AppendKeeps
<1>3. nextSeq \in [Rids -> Nat \cup {Unknown}] /\ Len(live.recordings) <= MaxRecordings
  BY <1>1 DEF TypeOK
<1>4. Grows
  BY <1>2, <1>3 DEF Grows
<1>5. LiveNumbering'
  <2>1. ASSUME NEW other \in Rids, other # rid
        PROVE  \E n \in 0..MaxFrames : /\ NumberedTo(live', other, n)
                                       /\ nextSeq'[other] # Unknown => nextSeq'[other] <= n
    <3>1. PICK n \in 0..MaxFrames :
            NumberedTo(live, other, n) /\ (nextSeq[other] # Unknown => nextSeq[other] <= n)
      BY <1>1 DEF Numbering
    <3>2. NumberedTo(live', other, n)
      BY <1>2, <2>1, <3>1, NumberedByRows
    <3>3. nextSeq'[other] = nextSeq[other]
      BY <1>3, <2>1
    <3>4. QED BY <3>1, <3>2, <3>3
  <2>2. nextSeq'[rid] # Unknown => nextSeq'[rid] <= end
    <3>1. CASE nextSeq' = [nextSeq EXCEPT ![rid] = end]
      BY <1>2, <1>3, <3>1
    <3>2. CASE nextSeq' = nextSeq
      <4>1. NextSeqOf(rid) = nextSeq[rid] \/ nextSeq[rid] = Unknown
        BY DEF NextSeqOf
      <4>2. NextSeqOf(rid) \in Nat /\ Len(frames) \in Nat
        BY <1>1, AppendsAtEnd
      <4>3. QED BY <3>2, <4>1, <4>2
    <3>3. QED BY <3>1, <3>2
  <2>3. QED BY <1>2, <2>1, <2>2 DEF LiveNumbering
<1>6. QED BY <1>4, <1>5

(* The operations that leave the frames table alone. *)
LEMMA SameRowsNumbered ==
    ASSUME IInv, live'.rows = live.rows,
           \A rid \in Rids : nextSeq'[rid] \in {nextSeq[rid], Unknown, 0}
    PROVE  LiveNumbering'
<1> SUFFICES ASSUME NEW rid \in Rids
             PROVE  \E n \in 0..MaxFrames :
                      NumberedTo(live', rid, n) /\ (nextSeq'[rid] # Unknown => nextSeq'[rid] <= n)
  BY DEF LiveNumbering
<1>1. PICK n \in 0..MaxFrames :
        NumberedTo(live, rid, n) /\ (nextSeq[rid] # Unknown => nextSeq[rid] <= n)
  BY DEF IInv, Numbering
<1>2. Rows(live', rid) = Rows(live, rid)
  BY DEF Rows
<1>3. NumberedTo(live', rid, n)
  BY <1>1, <1>2, NumberedByRows
<1>4. nextSeq'[rid] # Unknown => nextSeq'[rid] <= n
  BY <1>1, StoreAssumption
<1>5. QED BY <1>1, <1>3, <1>4

LEMMA RestartKeeps ==
    ASSUME IInv, Restart
    PROVE  IInv'
<1> USE StoreAssumption
<1>1. TypeOK'
  <2>1. failed' \in BOOLEAN
    BY DEF Restart
  <2>2. /\ live' \in Tables /\ Len(live'.recordings) <= MaxRecordings
        /\ durable' \in Tables /\ Len(durable'.recordings) <= MaxRecordings
        /\ pending' \in Nat /\ sinceCommit' \in 0..CommitInterval + 1
        /\ nextSeq' \in [Rids -> Nat \cup {Unknown}]
    BY DEF IInv, TypeOK, Restart
  <2>3. QED BY <2>1, <2>2 DEF TypeOK
<1>2. Behind'
  BY DEF Behind, Restart
<1>3. Numbering'
  <2> SUFFICES ASSUME NEW rid \in Rids
               PROVE  /\ \E n \in 0..MaxFrames :
                            NumberedTo(live', rid, n) /\ (nextSeq'[rid] # Unknown => nextSeq'[rid] <= n)
                      /\ Numbered(durable', rid)
    BY DEF Numbering
  <2>1. live' = durable /\ durable' = durable /\ nextSeq'[rid] = Unknown
    BY DEF Restart
  <2>2. Numbered(durable, rid)
    BY DEF IInv, Numbering
  <2>3. QED BY <2>1, <2>2 DEF Numbered
<1>4. QED BY <1>1, <1>2, <1>3 DEF IInv

LEMMA StartGrows ==
    ASSUME IInv, StartRecording
    PROVE  Grows /\ LiveNumbering'
<1> USE StoreAssumption
<1> DEFINE rid == Len(live.recordings) + 1
           tables == [live EXCEPT !.recordings = Append(@, "open")]
<1>1. live \in Tables /\ sinceCommit \in 0..CommitInterval + 1
      /\ nextSeq \in [Rids -> Nat \cup {Unknown}]
  BY DEF IInv, TypeOK
<1>2. rid \in Rids /\ live' = tables /\ pending' = 0 /\ sinceCommit' = FlushedClock
  BY DEF StartRecording
<1>3. live.recordings \in Seq({"open", "stopped"})
  BY <1>1 DEF Tables
<1>4. Append(live.recordings, "open") \in Seq({"open", "stopped"})
      /\ Len(Append(live.recordings, "open")) = rid
  BY <1>3
<1>5. tables.recordings = Append(live.recordings, "open") /\ tables.rows = live.rows
      /\ tables \in Tables
  BY <1>1, <1>4 DEF Tables
<1>6. durable' = live' \/ durable' = live \/ durable' = durable
  BY <1>2 DEF StartRecording, FlushedTables
<1>7. nextSeq' = [nextSeq EXCEPT ![rid] = 0] \/ nextSeq' = nextSeq
  BY DEF StartRecording
<1>8. \A r \in DOMAIN live.recordings :
        r \in DOMAIN live'.recordings /\ live'.recordings[r] = live.recordings[r]
  BY <1>2, <1>3, <1>5
<1>9. sinceCommit' \in 0..CommitInterval + 1
  BY <1>1, <1>2 DEF FlushedClock
<1>10. nextSeq' \in [Rids -> Nat \cup {Unknown}]
       /\ \A r \in Rids : nextSeq'[r] \in {nextSeq[r], Unknown, 0}
  BY <1>1, <1>7
<1>11. failed' \in BOOLEAN
  BY DEF StartRecording
<1>12. Grows
  BY <1>2, <1>4, <1>5, <1>6, <1>8, <1>9, <1>10, <1>11 DEF Grows, Rids
<1>13. QED BY <1>2, <1>5, <1>10, <1>12, SameRowsNumbered

LEMMA StopGrows ==
    ASSUME IInv, NEW rid \in Rids, StopRecording(rid)
    PROVE  Grows /\ LiveNumbering'
<1> USE StoreAssumption
<1> DEFINE tables == [live EXCEPT !.recordings[rid] = "stopped"]
<1>1. live \in Tables /\ sinceCommit \in 0..CommitInterval + 1
      /\ nextSeq \in [Rids -> Nat \cup {Unknown}] /\ Len(live.recordings) <= MaxRecordings
  BY DEF IInv, TypeOK
<1>2. rid \in DOMAIN live.recordings /\ live' = tables /\ pending' = 0
  BY DEF StopRecording, CommitAs
<1>3. live.recordings \in Seq({"open", "stopped"})
  BY <1>1 DEF Tables
<1>4. tables.recordings = [live.recordings EXCEPT ![rid] = "stopped"] /\ tables.rows = live.rows
  BY <1>1 DEF Tables
<1>5. tables.recordings \in Seq({"open", "stopped"}) /\ Len(tables.recordings) = Len(live.recordings)
      /\ DOMAIN tables.recordings = DOMAIN live.recordings
  BY <1>2, <1>3, <1>4
<1>6. tables \in Tables
  BY <1>1, <1>4, <1>5 DEF Tables
<1>7. durable' = live' \/ durable' = live \/ durable' = durable
  BY <1>2 DEF StopRecording, FlushedTables, CommitAs
<1>8. \A r \in DOMAIN live.recordings :
        live.recordings[r] = "stopped" => tables.recordings[r] = "stopped"
  BY <1>2, <1>3, <1>4
<1>9. sinceCommit' \in 0..CommitInterval + 1
  <2>1. sinceCommit' = 0 \/ sinceCommit' = sinceCommit
    BY DEF StopRecording, CommitAs, FlushedClock
  <2>2. QED BY <1>1, <2>1
<1>10. nextSeq' = [nextSeq EXCEPT ![rid] = Unknown] \/ nextSeq' = nextSeq
  BY DEF StopRecording
<1>11. nextSeq' \in [Rids -> Nat \cup {Unknown}]
       /\ \A r \in Rids : nextSeq'[r] \in {nextSeq[r], Unknown, 0}
  BY <1>1, <1>10
<1>12. failed' \in BOOLEAN
  BY DEF StopRecording, CommitAs
<1>13. Grows
  BY <1>1, <1>2, <1>4, <1>5, <1>6, <1>7, <1>8, <1>9, <1>11, <1>12 DEF Grows
<1>14. QED BY <1>2, <1>4, <1>11, <1>13, SameRowsNumbered

-----------------------------------------------------------------------------
LEMMA InitEstablishes == Init => IInv
<1> USE StoreAssumption
<1> SUFFICES ASSUME Init PROVE IInv
  OBVIOUS
<1>1. live = [recordings |-> <<>>, rows |-> {}] /\ durable = live
  BY DEF Init
<1>2. live \in Tables /\ Len(live.recordings) = 0
  BY <1>1 DEF Tables
<1>3. TypeOK
  <2>1. failed \in BOOLEAN
    BY DEF Init
  <2>2. pending \in Nat /\ sinceCommit \in 0..CommitInterval + 1
        /\ nextSeq \in [Rids -> Nat \cup {Unknown}]
    BY DEF Init
  <2>3. Len(live.recordings) <= MaxRecordings
    BY <1>2
  <2>4. QED BY <1>1, <1>2, <2>1, <2>2, <2>3 DEF TypeOK
<1>4. Behind
  BY <1>1 DEF Behind
<1>5. \A rid \in Rids : NumberedTo(live, rid, 0) /\ nextSeq[rid] = Unknown
  BY <1>1 DEF Init, NumberedTo, Rows
<1>6. Numbering
  BY <1>1, <1>5 DEF Numbering, Numbered
<1>7. QED BY <1>3, <1>4, <1>6 DEF IInv

LEMMA NextGrows == IInv /\ [Next]_vars => (Grows /\ LiveNumbering') \/ Restart
<1> USE StoreAssumption
<1> SUFFICES ASSUME IInv, [Next]_vars PROVE (Grows /\ LiveNumbering') \/ Restart
  OBVIOUS
<1>1. /\ live \in Tables /\ Len(live.recordings) <= MaxRecordings
      /\ pending \in Nat /\ sinceCommit \in 0..CommitInterval + 1
      /\ nextSeq \in [Rids -> Nat \cup {Unknown}]
      /\ failed \in BOOLEAN
  BY DEF IInv, TypeOK
<1>2. CASE Flush
  <2>1. /\ live' = live /\ nextSeq' = nextSeq
        /\ durable' = live \/ durable' = durable
        /\ pending' = 0 \/ pending' = pending
        /\ sinceCommit' = 0 \/ sinceCommit' = sinceCommit
        /\ failed' \in BOOLEAN
    BY <1>1, <1>2, FlushOutcome DEF Flush
  <2>2. Grows
    BY <1>1, <2>1 DEF Grows
  <2>3. QED BY <2>1, <2>2, SameRowsNumbered
<1>3. CASE StartRecording
  BY <1>3, StartGrows
<1>4. ASSUME NEW rid \in Rids, NEW frames \in Seq(Frames), Len(frames) >= 1,
             InsertFrames(rid, frames)
      PROVE  Grows /\ LiveNumbering'
  <2>1. /\ CanInsert(rid, NextSeqOf(rid), frames)
        /\ nextSeq' = [nextSeq EXCEPT ![rid] = NextSeqOf(rid) + Len(frames)]
        /\ FlushLocked(FALSE, WithFrames(live, rid, NextSeqOf(rid), frames),
                       pending + Len(frames))
    BY <1>4 DEF InsertFrames
  <2>2. /\ live' = WithFrames(live, rid, NextSeqOf(rid), frames)
        /\ durable' = live' \/ durable' = durable
        /\ pending' = 0 \/ pending' = pending + Len(frames)
        /\ sinceCommit' = 0 \/ sinceCommit' = sinceCommit
        /\ failed' \in BOOLEAN
    BY <1>1, <2>1, FlushOutcome
  <2>3. pending' \in Nat /\ sinceCommit' \in 0..CommitInterval + 1
    BY <1>1, <1>4, <2>2
  <2>4. QED BY <1>4, <2>1, <2>2, <2>3, InsertGrows
<1>5. ASSUME NEW rid \in Rids, NEW frame \in Frames, AppendFrame(rid, frame)
      PROVE  Grows /\ LiveNumbering'
  <2>1. <<frame>> \in Seq(Frames) /\ Len(<<frame>>) >= 1
    OBVIOUS
  <2>2. InsertFrames(rid, <<frame>>)
    BY <1>5 DEF AppendFrame
  <2>3. QED BY <1>4, <2>1, <2>2
<1>6. ASSUME NEW rid \in Rids, NEW frames \in Batches, AppendFrames(rid, frames)
      PROVE  Grows /\ LiveNumbering'
  BY <1>4, <1>6, BatchIsSequence DEF AppendFrames
<1>7. ASSUME NEW rid \in Rids, NEW frames \in Batches, AppendFramesFails(rid, frames)
      PROVE  Grows /\ LiveNumbering'
  <2>1. /\ CanInsert(rid, NextSeqOf(rid), frames)
        /\ live' = WithFrames(live, rid, NextSeqOf(rid), frames)
        /\ failed' = TRUE
        /\ UNCHANGED <<durable, pending, sinceCommit, nextSeq>>
    BY <1>7 DEF AppendFramesFails
  <2>2. frames \in Seq(Frames) /\ Len(frames) >= 1
    BY BatchIsSequence
  <2>3. QED BY <1>1, <2>1, <2>2, InsertGrows
<1>8. ASSUME NEW rid \in Rids, StopRecording(rid)
      PROVE  Grows /\ LiveNumbering'
  BY <1>8, StopGrows
<1>10. CASE Tick
  <2>1. UNCHANGED <<live, durable, pending, nextSeq, failed>>
        /\ sinceCommit <= CommitInterval /\ sinceCommit' = sinceCommit + 1
    BY <1>10 DEF Tick
  <2>2. Grows
    BY <1>1, <2>1 DEF Grows
  <2>3. QED BY <2>1, <2>2, SameRowsNumbered
<1>11. CASE UNCHANGED vars
  <2>1. UNCHANGED <<live, durable, pending, sinceCommit, nextSeq, failed>>
    BY <1>11 DEF vars
  <2>2. Grows
    BY <1>1, <2>1 DEF Grows
  <2>3. QED BY <2>1, <2>2, SameRowsNumbered
<1>12. QED
  BY <1>2, <1>3, <1>5, <1>6, <1>7, <1>8, <1>10, <1>11 DEF Next

LEMMA NextKeeps == IInv /\ [Next]_vars => IInv'
BY NextGrows, GrowingKeeps, RestartKeeps

(* The inductive invariant holds of every behaviour. *)
THEOREM Invariance == Spec => []IInv
<1>1. Init => IInv
  BY InitEstablishes
<1>2. IInv /\ [Next]_vars => IInv'
  BY NextKeeps
<1>3. QED BY <1>1, <1>2, PTL DEF Spec

(* Every variable keeps its type; for _next_seq this needs the numbering. *)
THEOREM TypeCorrect == Spec => []TypeOK
<1>1. IInv => TypeOK
  BY DEF IInv
<1>2. QED BY <1>1, Invariance, PTL

(* Frames are numbered without a gap or a repetition, live and on disk,
   through batches, stops, failed commits, failed batches and crashes. *)
THEOREM NumberedWithoutGap == Spec => []GapFree
<1>1. IInv => GapFree
  BY DEF IInv, Numbering, Numbered, GapFree
<1>2. QED BY <1>1, Invariance, PTL

(* A row that appears belongs to a recording that already existed. *)
LEMMA AddedRows ==
    ASSUME TypeOK, [Next]_vars, NEW row \in live'.rows
    PROVE  row \in live.rows \/ row.rid \in DOMAIN live.recordings \/ Restart
<1> DEFINE Goal == row \in live.rows \/ row.rid \in DOMAIN live.recordings
<1>1. live = [recordings |-> live.recordings, rows |-> live.rows]
  BY DEF TypeOK, Tables
<1>2. ASSUME NEW rid, NEW seq, NEW frames, rid \in DOMAIN live.recordings,
             live' = WithFrames(live, rid, seq, frames)
      PROVE  Goal
  <2>1. live'.rows = live.rows \cup
          {[rid |-> rid, seq |-> seq + i - 1, frame |-> frames[i]] : i \in 1..Len(frames)}
    BY <1>1, <1>2 DEF WithFrames
  <2>2. QED BY <1>2, <2>1
<1>3. ASSUME NEW rid, NEW frames, InsertFrames(rid, frames) PROVE Goal
  <2>1. rid \in DOMAIN live.recordings
        /\ live' = WithFrames(live, rid, NextSeqOf(rid), frames)
    BY <1>3, FlushOutcome DEF InsertFrames, CanInsert
  <2>2. QED BY <1>2, <2>1
<1>4. CASE Flush
  BY <1>4, FlushOutcome DEF Flush
<1>5. CASE StartRecording
  BY <1>1, <1>5 DEF StartRecording
<1>6. ASSUME NEW rid, NEW frame, AppendFrame(rid, frame) PROVE Goal
  BY <1>3, <1>6 DEF AppendFrame
<1>7. ASSUME NEW rid, NEW frames, AppendFrames(rid, frames) PROVE Goal
  BY <1>3, <1>7 DEF AppendFrames
<1>8. ASSUME NEW rid, NEW frames, AppendFramesFails(rid, frames) PROVE Goal
  BY <1>2, <1>8 DEF AppendFramesFails, CanInsert
<1>9. ASSUME NEW rid, StopRecording(rid) PROVE Goal
  BY <1>1, <1>9 DEF StopRecording, CommitAs
<1>10. CASE Tick \/ UNCHANGED vars
  BY <1>10 DEF Tick, vars
<1>11. QED BY <1>4, <1>5, <1>6, <1>7, <1>8, <1>9, <1>10 DEF Next

(* The frames on disk, like those the connection sees, belong to recordings
   that exist there, whatever was lost in a crash. *)
LEMMA OrphansStay ==
    ASSUME IInv, NoOrphanFrames, [Next]_vars
    PROVE  NoOrphanFrames'
<1>1. CASE Restart
  BY <1>1 DEF Restart, NoOrphanFrames
<1>2. CASE Grows /\ ~Restart
  <2>1. \A row \in live'.rows : row \in live.rows \/ row.rid \in DOMAIN live.recordings
    BY <1>2, AddedRows DEF IInv
  <2>2. \A row \in live'.rows : row.rid \in DOMAIN live'.recordings
    BY <1>2, <2>1 DEF NoOrphanFrames, Grows
  <2>3. QED BY <1>2, <2>2 DEF Grows, NoOrphanFrames
<1>3. QED BY <1>1, <1>2, NextGrows

THEOREM FramesHaveRecordings == Spec => []NoOrphanFrames
<1>1. Init => NoOrphanFrames
  BY DEF Init, NoOrphanFrames
<1>2. IInv /\ NoOrphanFrames /\ [Next]_vars => NoOrphanFrames'
  BY OrphansStay
<1>3. QED BY <1>1, <1>2, Invariance, PTL DEF Spec

(* Nothing that was committed is ever taken back. *)
THEOREM CommittedIsKept == Spec => CommittedStays
<1>1. ASSUME IInv, [Next]_vars
      PROVE  /\ durable.rows \subseteq durable'.rows
             /\ \A rid \in DOMAIN durable.recordings :
                   /\ rid \in DOMAIN durable'.recordings
                   /\ durable.recordings[rid] = "stopped" => durable'.recordings[rid] = "stopped"
  <2>1. CASE Restart
    BY <2>1 DEF Restart
  <2>2. CASE Grows
    BY <1>1, <2>2 DEF Grows, IInv, Behind
  <2>3. QED BY <1>1, <2>1, <2>2, NextGrows
<1>2. QED BY <1>1, Invariance, PTL DEF Spec, CommittedStays

(* The step that makes a stop durable makes the recording's frames durable. *)
THEOREM StopSaves == Spec => StopSavesEveryFrame
<1> DEFINE A == \A rid \in DOMAIN durable'.recordings :
                   /\ durable'.recordings[rid] = "stopped"
                   /\ rid \in DOMAIN durable.recordings => durable.recordings[rid] = "open"
                   => Rows(live, rid) \subseteq Rows(durable', rid)
<1>1. IInv /\ [Next]_vars => A
  <2> SUFFICES ASSUME IInv, [Next]_vars, NEW rid \in DOMAIN durable'.recordings,
                      durable'.recordings[rid] = "stopped",
                      rid \in DOMAIN durable.recordings => durable.recordings[rid] = "open"
               PROVE  Rows(live, rid) \subseteq Rows(durable', rid)
    OBVIOUS
  <2>1. durable' # durable
    OBVIOUS
  <2>2. ~Restart
    BY <2>1 DEF Restart
  <2>3. live.rows \subseteq durable'.rows
    BY <2>1, <2>2, NextGrows DEF Grows
  <2>4. QED BY <2>3 DEF Rows
<1>2. QED BY <1>1, Invariance, PTL DEF Spec, StopSavesEveryFrame

-----------------------------------------------------------------------------
(* As long as no write has failed since the last commit, every uncommitted
   frame is counted in _pending, and no recording is uncommitted. *)
Unsaved == live.rows \ durable.rows

Counted ==
    /\ IsFiniteSet(Unsaved) /\ Cardinality(Unsaved) <= pending
    /\ pending <= CommitEvery - 1
    /\ durable.recordings = live.recordings

LEMMA SavedIsCounted ==
    ASSUME live' = durable', pending' = 0
    PROVE  Counted'
<1>1. Unsaved' = {}
  BY DEF Unsaved
<1>2. QED BY <1>1, FS_EmptySet, StoreAssumption DEF Counted

(* A batch of n frames adds at most n rows. *)
LEMMA BatchIsCounted ==
    ASSUME NEW rid, NEW seq, NEW frames \in Seq(Frames)
    PROVE  LET new == {[rid |-> rid, seq |-> seq + i - 1, frame |-> frames[i]] : i \in 1..Len(frames)}
           IN  IsFiniteSet(new) /\ Cardinality(new) <= Len(frames)
<1> DEFINE f == [i \in 1..Len(frames) |-> [rid |-> rid, seq |-> seq + i - 1, frame |-> frames[i]]]
           new == {[rid |-> rid, seq |-> seq + i - 1, frame |-> frames[i]] : i \in 1..Len(frames)}
<1>1. f \in Surjection(1..Len(frames), new)
  BY DEF Surjection
<1>2. IsFiniteSet(1..Len(frames)) /\ Cardinality(1..Len(frames)) = Len(frames)
  <2> DEFINE n == Len(frames)
  <2>1. n \in Nat /\ n \in Int /\ 1 \in Int
    OBVIOUS
  <2> HIDE DEF n
  <2>2. IsFiniteSet(1..n) /\ Cardinality(1..n) = (IF 1 > n THEN 0 ELSE n - 1 + 1)
    BY <2>1, FS_Interval, Zenon
  <2>3. (IF 1 > n THEN 0 ELSE n - 1 + 1) = n
    BY <2>1
  <2>4. QED BY <2>2, <2>3 DEF n
<1> HIDE DEF f, new
<1>3. IsFiniteSet(new) /\ Cardinality(new) <= Len(frames)
  BY <1>1, <1>2, FS_Surjection
<1>4. QED BY <1>3 DEF new

LEMMA InsertCounted ==
    ASSUME IInv, failed \/ Counted, ~failed', NEW rid, NEW frames \in Seq(Frames),
           InsertFrames(rid, frames)
    PROVE  Counted'
<1> DEFINE after == WithFrames(live, rid, NextSeqOf(rid), frames)
           count == pending + Len(frames)
           new == {[rid |-> rid, seq |-> NextSeqOf(rid) + i - 1, frame |-> frames[i]]
                    : i \in 1..Len(frames)}
<1>1. \/ Due(FALSE, count) /\ CommitAs(after)
      \/ ~Due(FALSE, count) /\ LeaveOpen(after, count) /\ ~failed
  <2>1. FlushLocked(FALSE, after, count)
    BY DEF InsertFrames
  <2>2. QED BY <2>1 DEF FlushLocked
<1>2. CASE Due(FALSE, count) /\ CommitAs(after)
  <2>1. live' = durable' /\ pending' = 0
    BY <1>2 DEF CommitAs
  <2>2. QED BY <2>1, SavedIsCounted
<1>3. CASE ~Due(FALSE, count) /\ LeaveOpen(after, count) /\ ~failed
  <2>0. Counted
    BY <1>3
  <2>1. live' = after /\ durable' = durable /\ pending' = count
    BY <1>3 DEF LeaveOpen
  <2>2. live = [recordings |-> live.recordings, rows |-> live.rows] /\ pending \in Nat
    BY DEF IInv, TypeOK, Tables
  <2>3. live'.rows = live.rows \cup new
    BY <2>1, <2>2 DEF WithFrames
  <2>4. IsFiniteSet(new) /\ Cardinality(new) <= Len(frames)
    BY BatchIsCounted
  <2> HIDE DEF new
  <2>5. Unsaved' \in SUBSET (Unsaved \cup new)
    BY <2>1, <2>3 DEF Unsaved
  <2>6. IsFiniteSet(Unsaved \cup new)
        /\ Cardinality(Unsaved \cup new) =
              Cardinality(Unsaved) + Cardinality(new) - Cardinality(Unsaved \cap new)
    BY <2>0, <2>4, FS_Union DEF Counted
  <2>7. IsFiniteSet(Unsaved \cap new)
    BY <2>0, FS_Intersection DEF Counted
  <2>8. Cardinality(Unsaved) \in Nat /\ Cardinality(new) \in Nat
        /\ Cardinality(Unsaved \cap new) \in Nat
    BY <2>0, <2>4, <2>7, FS_CardinalityType DEF Counted
  <2>9. IsFiniteSet(Unsaved') /\ Cardinality(Unsaved') <= Cardinality(Unsaved \cup new)
    BY <2>5, <2>6, FS_Subset
  <2>10. Cardinality(Unsaved') \in Nat
    BY <2>9, FS_CardinalityType
  <2>11. Len(frames) \in Nat
    OBVIOUS
  <2>12. Cardinality(Unsaved') <= count
    BY <2>0, <2>2, <2>4, <2>6, <2>8, <2>9, <2>10, <2>11 DEF Counted
  <2>13. count <= CommitEvery - 1
    BY <1>3, <2>2, <2>11, StoreAssumption DEF Due
  <2>14. durable'.recordings = live'.recordings
    BY <2>0, <2>1, <2>2 DEF WithFrames, Counted
  <2>15. QED BY <2>1, <2>9, <2>12, <2>13, <2>14 DEF Counted
<1>4. QED BY <1>1, <1>2, <1>3

LEMMA StepCounted ==
    ASSUME IInv, failed \/ Counted, [Next]_vars
    PROVE  failed' \/ Counted'
<1> SUFFICES ASSUME ~failed' PROVE Counted'
  OBVIOUS
<1>1. pending \in Nat
  BY DEF IInv, TypeOK
<1>2. CASE Flush
  <2>1. CASE pending > 0
    <3>1. CommitAs(live)
      BY <1>2, <2>1 DEF Flush, FlushLocked, Due
    <3>2. QED BY <3>1, SavedIsCounted DEF CommitAs
  <2>2. CASE ~(pending > 0)
    BY <1>2, <2>2 DEF Flush, FlushLocked, Due, LeaveOpen, Counted, Unsaved
  <2>3. QED BY <2>1, <2>2
<1>3. CASE StartRecording
  BY <1>3, SavedIsCounted DEF StartRecording
<1>4. ASSUME NEW rid \in Rids, NEW frame \in Frames, AppendFrame(rid, frame)
      PROVE  Counted'
  <2>1. <<frame>> \in Seq(Frames)
    OBVIOUS
  <2>2. InsertFrames(rid, <<frame>>)
    BY <1>4 DEF AppendFrame
  <2>3. QED BY <2>1, <2>2, InsertCounted
<1>5. ASSUME NEW rid \in Rids, NEW frames \in Batches, AppendFrames(rid, frames)
      PROVE  Counted'
  BY <1>5, BatchIsSequence, InsertCounted DEF AppendFrames
<1>6. ASSUME NEW rid \in Rids, NEW frames \in Batches, AppendFramesFails(rid, frames)
      PROVE  Counted'
  BY <1>6 DEF AppendFramesFails
<1>7. ASSUME NEW rid \in Rids, StopRecording(rid)
      PROVE  Counted'
  BY <1>7, SavedIsCounted DEF StopRecording, CommitAs
<1>8. CASE Restart
  BY <1>8, SavedIsCounted DEF Restart
<1>9. CASE Tick \/ UNCHANGED vars
  BY <1>9 DEF Tick, vars, Counted, Unsaved
<1>10. QED BY <1>2, <1>3, <1>4, <1>5, <1>6, <1>7, <1>8, <1>9 DEF Next

LEMMA CountedThroughout == Spec => [](failed \/ Counted)
<1>1. Init => Counted
  <2>1. Init => Unsaved = {} /\ pending = 0 /\ durable = live
    BY DEF Init, Unsaved
  <2>2. QED BY <2>1, FS_EmptySet, StoreAssumption DEF Counted
<1>2. IInv /\ (failed \/ Counted) /\ [Next]_vars => (failed \/ Counted)'
  BY StepCounted
<1>3. QED BY <1>1, <1>2, Invariance, PTL DEF Spec

(* A crash loses at most commit_every - 1 frames, unless a write has failed
   since the last commit. *)
THEOREM LossIsBounded == Spec => []LossBound
<1>1. IInv /\ (failed \/ Counted) => LossBound
  <2> SUFFICES ASSUME IInv, Counted, ~failed PROVE LossBound
    BY DEF LossBound
  <2>1. Cardinality(Unsaved) \in Nat /\ pending \in Nat
    BY FS_CardinalityType DEF Counted, IInv, TypeOK
  <2>2. QED BY <2>1, StoreAssumption DEF Counted, LossBound, Unsaved
<1>2. QED BY <1>1, CountedThroughout, Invariance, PTL

(* With nothing pending, what a second connection reads is everything the
   store has accepted, unless a write has failed since the last commit. *)
THEOREM QuiescentSaved == Spec => []QuiescentIsDurable
<1>1. IInv /\ (failed \/ Counted) => QuiescentIsDurable
  <2> SUFFICES ASSUME IInv, Counted, pending = 0 PROVE durable = live
    BY DEF QuiescentIsDurable
  <2>1. Cardinality(Unsaved) = 0 /\ IsFiniteSet(Unsaved)
    BY FS_CardinalityType DEF Counted
  <2>2. Unsaved = {}
    BY <2>1, FS_EmptySet
  <2>3. durable.rows = live.rows
    BY <2>2 DEF Unsaved, IInv, Behind
  <2>4. durable.recordings = live.recordings
    BY DEF Counted
  <2>5. live \in Tables /\ durable \in Tables
    BY DEF IInv, TypeOK
  <2>6. QED BY <2>3, <2>4, <2>5 DEF Tables
<1>2. QED BY <1>1, CountedThroughout, Invariance, PTL

-----------------------------------------------------------------------------
(* The refinement of CaptureLog.  One recording's rows, read as a log:        *)
NextIn(rows) ==
    CHOOSE n \in 0..MaxFrames :
        /\ \A row \in rows : row.seq < n
        /\ n > 0 => \E row \in rows : row.seq = n - 1

FrameIn(rows, k) == (CHOOSE row \in rows : row.seq = k - 1).frame

FramesIn(rows) == [k \in 1..NextIn(rows) |-> FrameIn(rows, k)]

LogOf(tables, rid) ==
    [frames |-> FramesIn(Rows(tables, rid)), closed |-> tables.recordings[rid] = "stopped"]

Entry == [frames : Seq(Frames), closed : BOOLEAN]

(* An entry told by its fields. *)
LEMMA EntryChanged ==
    ASSUME NEW e \in Entry, NEW f \in Entry
    PROVE  /\ f.closed /\ f.frames = e.frames => f = [e EXCEPT !.closed = TRUE]
           /\ \A h \in Seq(Frames) : f.closed = e.closed /\ f.frames = h => f = [e EXCEPT !.frames = h]
BY DEF Entry

(* The mapping reads each recording by itself. *)
LEMMA ReadOut ==
    ASSUME NEW tables
    PROVE  LogsOf(tables) = [rid \in DOMAIN tables.recordings |-> LogOf(tables, rid)]
BY DEF LogsOf, LogOf, FramesIn, FrameIn, NextIn, NextFree, IsNextFree

(* A recording numbered to n reads as n frames, each that of its row. *)
LEMMA FramesRead ==
    ASSUME NEW tables \in Tables, NEW rid \in Rids, NEW n \in 0..MaxFrames,
           NumberedTo(tables, rid, n)
    PROVE  LET q == FramesIn(Rows(tables, rid)) IN
           /\ q \in Seq(Frames) /\ Len(q) = n
           /\ \A row \in Rows(tables, rid) : row.seq + 1 \in 1..n /\ q[row.seq + 1] = row.frame
<1> DEFINE rows == Rows(tables, rid)
           q == FramesIn(rows)
<1>1. NextIn(rows) = n
  <2>1. NextFree(tables, rid) = n
    BY NextFreeIsCount
  <2> QED BY <2>1 DEF NextIn, NextFree, IsNextFree
<1>2. \A row \in rows : row.seq \in 0..n-1 /\ row.frame \in Frames
  BY DEF NumberedTo, Tables, Row, Rows
<1>3. ASSUME NEW row \in rows PROVE FrameIn(rows, row.seq + 1) = row.frame
  <2>1. \A other \in rows : other.seq = (row.seq + 1) - 1 <=> other = row
    BY <1>2 DEF NumberedTo
  <2>2. (CHOOSE other \in rows : other.seq = (row.seq + 1) - 1) = row
    BY <2>1
  <2> QED BY <2>2 DEF FrameIn
<1>4. \A k \in 1..n : \E row \in rows : row.seq = k - 1
  <2>1. \A k \in 1..n : k - 1 \in 0..n-1
    OBVIOUS
  <2>2. \A j \in 0..n-1 : \E row \in rows : row.seq = j
    BY DEF NumberedTo
  <2> HIDE DEF rows
  <2> QED BY <2>1, <2>2
<1>5. \A k \in 1..n : FrameIn(rows, k) \in Frames
  <2> SUFFICES ASSUME NEW k \in 1..n PROVE FrameIn(rows, k) \in Frames
    OBVIOUS
  <2>1. PICK row \in rows : row.seq = k - 1
    BY <1>4
  <2>2. row.seq + 1 = k
    BY <2>1
  <2> QED BY <1>2, <1>3, <2>2
<1> HIDE DEF rows
<1>6. q = [k \in 1..n |-> FrameIn(rows, k)] /\ n \in Nat
  BY <1>1, StoreAssumption DEF FramesIn
<1>7. q \in Seq(Frames) /\ Len(q) = n /\ \A k \in 1..n : q[k] = FrameIn(rows, k)
  BY <1>5, <1>6
<1>8. \A row \in rows : row.seq + 1 \in 1..n
  BY <1>2, <1>6
<1> QED BY <1>3, <1>7, <1>8 DEF rows

(* What is numbered without a gap reads as a list of logs, one per recording. *)
LEMMA LogsTyped ==
    ASSUME NEW tables \in Tables, Len(tables.recordings) <= MaxRecordings,
           \A rid \in Rids : Numbered(tables, rid)
    PROVE  /\ LogsOf(tables) \in Seq(Entry) /\ Len(LogsOf(tables)) = Len(tables.recordings)
           /\ DOMAIN LogsOf(tables) = DOMAIN tables.recordings
           /\ \A rid \in DOMAIN tables.recordings :
                rid \in Rids /\ LogsOf(tables)[rid] = LogOf(tables, rid) /\ LogOf(tables, rid) \in Entry
<1> USE StoreAssumption
<1>1. tables.recordings \in Seq({"open", "stopped"})
  BY DEF Tables
<1>2. DOMAIN tables.recordings = 1..Len(tables.recordings) /\ Len(tables.recordings) \in Nat
      /\ DOMAIN tables.recordings \subseteq Rids
  BY <1>1 DEF Rids
<1>3. ASSUME NEW rid \in DOMAIN tables.recordings PROVE LogOf(tables, rid) \in Entry
  <2>1. PICK n \in 0..MaxFrames : NumberedTo(tables, rid, n)
    BY <1>2 DEF Numbered
  <2>2. FramesIn(Rows(tables, rid)) \in Seq(Frames)
    BY <1>2, <2>1, FramesRead
  <2> QED BY <2>2 DEF LogOf, Entry
<1> DEFINE m == Len(tables.recordings)
           logs == [rid \in 1..m |-> LogOf(tables, rid)]
<1>4. LogsOf(tables) = logs
  BY <1>2, ReadOut
<1>5. \A rid \in 1..m : LogOf(tables, rid) \in Entry
  BY <1>2, <1>3
<1> HIDE DEF m
<1>6. m \in Nat
  BY <1>2 DEF m
<1>7. logs \in Seq(Entry) /\ Len(logs) = m /\ DOMAIN logs = 1..m
      /\ \A rid \in 1..m : logs[rid] = LogOf(tables, rid)
  BY <1>5, <1>6
<1> QED BY <1>2, <1>3, <1>4, <1>7 DEF m

(* A batch read back: what was there, then the batch. *)
LEMMA BatchRead ==
    ASSUME NEW tables \in Tables, NEW rid \in Rids, NEW n \in 0..MaxFrames,
           NEW frames \in Seq(Frames), n + Len(frames) <= MaxFrames, NumberedTo(tables, rid, n)
    PROVE  FramesIn(Rows(WithFrames(tables, rid, n, frames), rid))
              = FramesIn(Rows(tables, rid)) \o frames
<1> DEFINE after == WithFrames(tables, rid, n, frames)
           q == FramesIn(Rows(tables, rid))
           r == FramesIn(Rows(after, rid))
           end == n + Len(frames)
<1> USE StoreAssumption
<1>1. after \in Tables /\ NumberedTo(after, rid, end) /\ end \in 0..MaxFrames
  BY NumberedExtends
<1>2. /\ q \in Seq(Frames) /\ Len(q) = n
      /\ \A row \in Rows(tables, rid) : row.seq + 1 \in 1..n /\ q[row.seq + 1] = row.frame
  BY FramesRead
<1>3. /\ r \in Seq(Frames) /\ Len(r) = end
      /\ \A row \in Rows(after, rid) : row.seq + 1 \in 1..end /\ r[row.seq + 1] = row.frame
  BY <1>1, FramesRead
<1>4. after.rows = tables.rows \cup
        {[rid |-> rid, seq |-> n + i - 1, frame |-> frames[i]] : i \in 1..Len(frames)}
  BY DEF Tables, WithFrames
<1>5. ASSUME NEW k \in 1..n PROVE r[k] = q[k]
  <2>1. k - 1 \in 0..n-1
    OBVIOUS
  <2>2. PICK row \in Rows(tables, rid) : row.seq = k - 1
    BY <2>1 DEF NumberedTo
  <2>3. row \in Rows(after, rid)
    BY <1>4 DEF Rows
  <2>4. row.seq + 1 = k
    BY <2>2
  <2> HIDE DEF q, r, after, end
  <2> QED BY <1>2, <1>3, <2>2, <2>3, <2>4
<1>6. ASSUME NEW i \in 1..Len(frames) PROVE r[n + i] = frames[i]
  <2> DEFINE row == [rid |-> rid, seq |-> n + i - 1, frame |-> frames[i]]
  <2>1. row \in Rows(after, rid)
    BY <1>4 DEF Rows
  <2>2. row.seq + 1 = n + i /\ row.frame = frames[i]
    OBVIOUS
  <2> HIDE DEF q, r, after, end, row
  <2> QED BY <1>3, <2>1, <2>2
<1> HIDE DEF q, r, after
<1>7. Len(q \o frames) = end
      /\ \A k \in 1..end : (q \o frames)[k] = IF k <= n THEN q[k] ELSE frames[k - n]
  BY <1>2
<1>8. \A k \in 1..end : r[k] = (q \o frames)[k]
  <2> SUFFICES ASSUME NEW k \in 1..end PROVE r[k] = (q \o frames)[k]
    OBVIOUS
  <2>1. CASE k <= n
    BY <1>5, <1>7, <2>1
  <2>2. CASE ~(k <= n)
    <3>1. k - n \in 1..Len(frames) /\ n + (k - n) = k
      BY <2>2
    <3>2. r[n + (k - n)] = frames[k - n]
      BY <1>6, <3>1
    <3> QED BY <1>7, <2>2, <3>1, <3>2
  <2> QED BY <2>1, <2>2
<1>9. q \o frames \in Seq(Frames)
  BY <1>2
<1>10. r = q \o frames
  <2>1. \A a, b \in Seq(Frames) : Len(a) = Len(b) /\ (\A k \in 1..Len(a) : a[k] = b[k]) => a = b
    OBVIOUS
  <2> QED BY <1>3, <1>7, <1>8, <1>9, <2>1
<1> QED BY <1>10 DEF q, r, after

-----------------------------------------------------------------------------
(* A new recording is an empty log at the end: no frame is there before it. *)
LEMMA CreateMaps ==
    ASSUME IInv, NoOrphanFrames, StartRecording
    PROVE  LogsOf(live') = Append(LogsOf(live), [frames |-> <<>>, closed |-> FALSE])
<1> DEFINE m == Len(live.recordings)
           logs == LogsOf(live)
           logsNext == LogsOf(live')
           new == [frames |-> <<>>, closed |-> FALSE]
<1> USE StoreAssumption
<1>0. live \in Tables /\ m <= MaxRecordings /\ live.recordings \in Seq({"open", "stopped"})
      /\ \A rid \in Rids : Numbered(live, rid)
  BY DEF IInv, TypeOK, Tables, Numbering, Numbered
<1>1. /\ live' \in Tables /\ live'.rows = live.rows
      /\ live'.recordings = Append(live.recordings, "open") /\ m + 1 \in Rids
  <2>1. live' = [live EXCEPT !.recordings = Append(@, "open")] /\ m + 1 \in Rids
    BY DEF StartRecording
  <2>2. Append(live.recordings, "open") \in Seq({"open", "stopped"})
    BY <1>0
  <2> QED BY <1>0, <2>1, <2>2 DEF Tables
<1>2. \A rid : Rows(live', rid) = Rows(live, rid)
  BY <1>1 DEF Rows
<1>3. \A rid \in Rids : Numbered(live', rid)
  BY <1>0, <1>2, NumberedByRows DEF Numbered
<1>4. Len(live'.recordings) = m + 1 /\ m + 1 <= MaxRecordings /\ m \in Nat
      /\ \A rid \in 1..m+1 : live'.recordings[rid] =
            IF rid = m + 1 THEN "open" ELSE live.recordings[rid]
  BY <1>0, <1>1 DEF Rids
<1>5. /\ logs \in Seq(Entry) /\ Len(logs) = m
      /\ \A rid \in DOMAIN live.recordings : logs[rid] = LogOf(live, rid)
  BY <1>0, LogsTyped
<1>6. /\ logsNext \in Seq(Entry) /\ Len(logsNext) = m + 1
      /\ \A rid \in DOMAIN live'.recordings : logsNext[rid] = LogOf(live', rid)
  BY <1>1, <1>3, <1>4, LogsTyped
<1>7. \A rid \in 1..m : logsNext[rid] = logs[rid]
  <2> SUFFICES ASSUME NEW rid \in 1..m PROVE logsNext[rid] = logs[rid]
    OBVIOUS
  <2>1. rid \in DOMAIN live.recordings /\ rid \in DOMAIN live'.recordings
        /\ live'.recordings[rid] = live.recordings[rid]
    BY <1>0, <1>1, <1>4
  <2>2. LogOf(live', rid) = LogOf(live, rid)
    BY <1>2, <2>1 DEF LogOf
  <2> QED BY <1>5, <1>6, <2>1, <2>2
<1>8. logsNext[m + 1] = new
  <2>1. Rows(live', m + 1) = {}
    BY <1>0, <1>1, <1>2 DEF NoOrphanFrames, Rows
  <2>2. NumberedTo(live', m + 1, 0)
    BY <2>1 DEF NumberedTo
  <2>3. Len(FramesIn(Rows(live', m + 1))) = 0 /\ FramesIn(Rows(live', m + 1)) \in Seq(Frames)
    BY <1>1, <2>2, FramesRead
  <2>4. FramesIn(Rows(live', m + 1)) = <<>>
    BY <2>3
  <2>5. m + 1 \in DOMAIN live'.recordings /\ live'.recordings[m + 1] = "open"
    BY <1>0, <1>1, <1>4
  <2> QED BY <1>6, <2>4, <2>5 DEF LogOf
<1>9. new \in Entry
  BY DEF Entry
<1> HIDE DEF logs, logsNext, new
<1>10. logsNext = Append(logs, new)
  BY <1>4, <1>5, <1>6, <1>7, <1>8, <1>9
<1> QED BY <1>10 DEF logs, logsNext, new

(* Frames appended, or left behind by a batch that raised, extend one log. *)
LEMMA AcceptMaps ==
    ASSUME IInv, NEW rid \in Rids, NEW frames \in Seq(Frames), Len(frames) >= 1,
           CanInsert(rid, NextSeqOf(rid), frames),
           live' = WithFrames(live, rid, NextSeqOf(rid), frames)
    PROVE  /\ rid \in DOMAIN LogsOf(live)
           /\ LogsOf(live') = [LogsOf(live) EXCEPT ![rid].frames = @ \o frames]
<1> DEFINE logs == LogsOf(live)
           logsNext == LogsOf(live')
           n == NextSeqOf(rid)
<1>0. live \in Tables /\ Len(live.recordings) <= MaxRecordings
      /\ (\A r \in Rids : Numbered(live, r)) /\ TypeOK /\ Numbering
  BY DEF IInv, TypeOK, Numbering, Numbered
<1>1. n \in 0..MaxFrames /\ NumberedTo(live, rid, n) /\ n + Len(frames) <= MaxFrames
      /\ rid \in DOMAIN live.recordings
  BY <1>0, AppendsAtEnd DEF CanInsert
<1>2. /\ live' \in Tables /\ live'.recordings = live.recordings
      /\ NumberedTo(live', rid, n + Len(frames)) /\ n + Len(frames) \in 0..MaxFrames
      /\ \A other \in Rids : other # rid => Rows(live', other) = Rows(live, other)
  BY <1>0, AppendKeeps
<1>3. \A r \in Rids : Numbered(live', r)
  BY <1>0, <1>2, NumberedByRows DEF Numbered
<1>4. /\ logs \in Seq(Entry) /\ DOMAIN logs = DOMAIN live.recordings
      /\ \A r \in DOMAIN live.recordings :
            r \in Rids /\ logs[r] = LogOf(live, r) /\ LogOf(live, r) \in Entry
  BY <1>0, LogsTyped
<1>5. /\ logsNext \in Seq(Entry) /\ DOMAIN logsNext = DOMAIN live.recordings
      /\ \A r \in DOMAIN live.recordings : logsNext[r] = LogOf(live', r) /\ LogOf(live', r) \in Entry
  BY <1>0, <1>2, <1>3, LogsTyped
<1>6. LogOf(live', rid) = [LogOf(live, rid) EXCEPT !.frames = @ \o frames]
  <2>1. FramesIn(Rows(WithFrames(live, rid, n, frames), rid)) = FramesIn(Rows(live, rid)) \o frames
    BY <1>0, <1>1, BatchRead
  <2>2. FramesIn(Rows(live', rid)) = FramesIn(Rows(live, rid)) \o frames
    BY <2>1
  <2>3. LogOf(live', rid).frames = LogOf(live, rid).frames \o frames
        /\ LogOf(live', rid).closed = LogOf(live, rid).closed
    BY <1>2, <2>2 DEF LogOf
  <2>4. LogOf(live', rid) \in Entry /\ LogOf(live, rid) \in Entry
        /\ LogOf(live, rid).frames \o frames \in Seq(Frames)
    BY <1>1, <1>4, <1>5 DEF Entry
  <2> QED BY <2>3, <2>4, EntryChanged
<1>7. \A r \in DOMAIN live.recordings : r # rid => LogOf(live', r) = LogOf(live, r)
  BY <1>2, <1>4 DEF LogOf
<1> HIDE DEF logs, logsNext
<1>8. logsNext = [logs EXCEPT ![rid].frames = @ \o frames]
  <2> DEFINE entry == [LogOf(live, rid) EXCEPT !.frames = @ \o frames]
  <2>1. [logs EXCEPT ![rid].frames = @ \o frames] = [logs EXCEPT ![rid] = entry]
    BY <1>1, <1>4
  <2>2. entry \in Entry
    <3>1. LogOf(live, rid).frames \o frames \in Seq(Frames) /\ LogOf(live, rid) \in Entry
      BY <1>1, <1>4 DEF Entry
    <3> QED BY <3>1 DEF Entry
  <2> HIDE DEF entry
  <2>3. logsNext = [logs EXCEPT ![rid] = entry]
    <3>1. DOMAIN logs = DOMAIN logsNext /\ logs \in Seq(Entry) /\ logsNext \in Seq(Entry)
      BY <1>4, <1>5
    <3>2. logsNext[rid] = entry
      BY <1>1, <1>5, <1>6 DEF entry
    <3>3. \A r \in DOMAIN logs : r # rid => logsNext[r] = logs[r]
      BY <1>4, <1>5, <1>7
    <3> QED BY <3>1, <3>2, <3>3
  <2> QED BY <2>1, <2>3
<1> QED BY <1>1, <1>4, <1>8 DEF logs, logsNext

(* A stop, committed or not, closes one log. *)
LEMMA CloseMaps ==
    ASSUME IInv, NEW rid \in Rids, StopRecording(rid)
    PROVE  /\ rid \in DOMAIN LogsOf(live)
           /\ LogsOf(live') = [LogsOf(live) EXCEPT ![rid].closed = TRUE]
<1> DEFINE logs == LogsOf(live)
           logsNext == LogsOf(live')
<1>0. live \in Tables /\ Len(live.recordings) <= MaxRecordings
      /\ (\A r \in Rids : Numbered(live, r)) /\ live.recordings \in Seq({"open", "stopped"})
  BY DEF IInv, TypeOK, Numbering, Numbered, Tables
<1>1. rid \in DOMAIN live.recordings
      /\ live'.recordings = [live.recordings EXCEPT ![rid] = "stopped"] /\ live'.rows = live.rows
  BY <1>0 DEF StopRecording, CommitAs, Tables
<1>2. live' \in Tables /\ Len(live'.recordings) = Len(live.recordings)
      /\ DOMAIN live'.recordings = DOMAIN live.recordings
  BY <1>0, <1>1, StopGrows DEF Grows
<1>3. \A r : Rows(live', r) = Rows(live, r)
  BY <1>1 DEF Rows
<1>4. \A r \in Rids : Numbered(live', r)
  BY <1>0, <1>3, NumberedByRows DEF Numbered
<1>5. /\ logs \in Seq(Entry) /\ DOMAIN logs = DOMAIN live.recordings
      /\ \A r \in DOMAIN live.recordings : logs[r] = LogOf(live, r) /\ LogOf(live, r) \in Entry
  BY <1>0, LogsTyped
<1>6. /\ logsNext \in Seq(Entry) /\ DOMAIN logsNext = DOMAIN live.recordings
      /\ \A r \in DOMAIN live.recordings : logsNext[r] = LogOf(live', r) /\ LogOf(live', r) \in Entry
  BY <1>0, <1>2, <1>4, LogsTyped
<1>7. LogOf(live', rid) = [LogOf(live, rid) EXCEPT !.closed = TRUE]
  <2>1. live'.recordings[rid] = "stopped" /\ Rows(live', rid) = Rows(live, rid)
    BY <1>0, <1>1, <1>3
  <2>2. LogOf(live', rid).frames = LogOf(live, rid).frames /\ LogOf(live', rid).closed
    BY <2>1 DEF LogOf
  <2> QED BY <1>1, <1>5, <1>6, <2>2, EntryChanged
<1>8. \A r \in DOMAIN live.recordings : r # rid => LogOf(live', r) = LogOf(live, r)
  BY <1>0, <1>1, <1>3 DEF LogOf
<1> HIDE DEF logs, logsNext
<1>9. logsNext = [logs EXCEPT ![rid].closed = TRUE]
  BY <1>1, <1>5, <1>6, <1>7, <1>8
<1> QED BY <1>1, <1>5, <1>9 DEF logs, logsNext

-----------------------------------------------------------------------------
(* Every step of the store is a step of the log it implements, or none. *)
LEMMA StepMaps ==
    ASSUME IInv, NoOrphanFrames, [Next]_vars
    PROVE  [Log!Next]_(Log!vars)
<1> DEFINE logs == LogsOf(live)
           saved == LogsOf(durable)
<1>1. CASE Restart
  <2>1. Log!Crash
    BY <1>1 DEF Restart, Log!Crash
  <2> QED BY <2>1 DEF Log!Next
<1>2. CASE ~Restart
  <2>1. Log!Save
    <3>1. durable' = durable \/ durable' = live \/ durable' = live'
      BY <1>2, NextGrows DEF Grows
    <3> QED BY <3>1 DEF Log!Save
  <2>2. ASSUME NEW rid \in Rids, NEW frames \in Batches, CanInsert(rid, NextSeqOf(rid), frames),
               live' = WithFrames(live, rid, NextSeqOf(rid), frames)
        PROVE  \E r \in DOMAIN logs, batch \in Log!Batches : Log!Accept(r, batch)
    BY <2>2, AcceptMaps, BatchIsSequence DEF Log!Accept, Log!Batches, Batches
  <2>3. ASSUME live' = live PROVE UNCHANGED logs
    BY <2>3
  <2>4. \/ Log!Create
        \/ \E rid \in DOMAIN logs : Log!Close(rid)
        \/ \E rid \in DOMAIN logs, frames \in Log!Batches : Log!Accept(rid, frames)
        \/ UNCHANGED logs
    <3>1. CASE Flush
      BY <2>3, <3>1, FlushOutcome DEF Flush
    <3>2. CASE StartRecording
      BY <3>2, CreateMaps DEF Log!Create
    <3>3. ASSUME NEW rid \in Rids, NEW frames \in Batches, InsertFrames(rid, frames)
          PROVE  \E r \in DOMAIN logs, batch \in Log!Batches : Log!Accept(r, batch)
      BY <2>2, <3>3, FlushOutcome DEF InsertFrames
    <3>4. ASSUME NEW rid \in Rids, NEW frame \in Frames, AppendFrame(rid, frame)
          PROVE  \E r \in DOMAIN logs, batch \in Log!Batches : Log!Accept(r, batch)
      <4>1. <<frame>> \in [1..1 -> Frames] /\ 1 \in 1..MaxBatch
        BY StoreAssumption
      <4>2. <<frame>> \in Batches
        BY <4>1 DEF Batches
      <4> QED BY <3>3, <3>4, <4>2 DEF AppendFrame
    <3>5. ASSUME NEW rid \in Rids, NEW frames \in Batches, AppendFramesFails(rid, frames)
          PROVE  \E r \in DOMAIN logs, batch \in Log!Batches : Log!Accept(r, batch)
      BY <2>2, <3>5 DEF AppendFramesFails
    <3>6. ASSUME NEW rid \in Rids, StopRecording(rid)
          PROVE  \E r \in DOMAIN logs : Log!Close(r)
      BY <3>6, CloseMaps DEF Log!Close
    <3>7. CASE Tick \/ UNCHANGED vars
      BY <2>3, <3>7 DEF Tick, vars
    <3> HIDE DEF logs
    <3> QED BY <1>2, <3>1, <3>2, <3>3, <3>4, <3>5, <3>6, <3>7 DEF Next, AppendFrames
  <2> QED BY <2>1, <2>4 DEF Log!Next
<1> QED BY <1>1, <1>2

LEMMA InitMaps == Init => Log!Init
<1> SUFFICES ASSUME Init PROVE Log!Init
  OBVIOUS
<1>1. live.recordings = <<>> /\ durable.recordings = <<>>
  BY DEF Init
<1>2. LogsOf(live) = <<>> /\ LogsOf(durable) = <<>>
  BY <1>1, ReadOut
<1> QED BY <1>2 DEF Log!Init

(* The store is a list of append-only logs with a saved copy that is always one
   whole earlier list, to which a crash returns it. *)
THEOREM StoreImplementsLog == Spec => ImplementsLog
<1>1. Init => Log!Init
  BY InitMaps
<1>2. IInv /\ NoOrphanFrames /\ [Next]_vars => [Log!Next]_(Log!vars)
  BY StepMaps
<1> QED BY <1>1, <1>2, Invariance, FramesHaveRecordings, PTL DEF Spec, ImplementsLog, Log!Spec
=============================================================================
