--------------------------- MODULE CaptureTransfer ---------------------------
(***************************************************************************)
(* vision_shark/large_interchange.py, mf4_interchange.py and the commands  *)
(* parquet-export, parquet-import, mf4-import-can of main.py: recordings   *)
(* too large for memory go to and come from files, in batches.             *)
(*                                                                         *)
(* A command is a process of its own; RecordingStore has what its store    *)
(* commits and when.  An import looks at its file twice, first for what is *)
(* in it and then for the frames, and the file may be another by then.     *)
(***************************************************************************)
EXTENDS FrameFormats
LOCAL INSTANCE SequencesExt
LOCAL INSTANCE FiniteSetsExt

CONSTANTS
    SourceFiles,   \* [kind, groups], a group [event, busEvent, can, complete, rows]
    MaxReplaced,   \* how often another program writes the file that is imported
    BatchSize,
    FrameLimit,    \* --max-frames
    MaxStamp,      \* the top of Parquet's int64
    MaxImports

(* A row of an MDF file, as asammdf gives it; `dir' is 2 where it says neither. *)
Row == [half : Int, id : Nat, ide : BOOLEAN, length : Nat, bytes : Seq(Nat), edl : BOOLEAN,
        brs : BOOLEAN, esi : BOOLEAN, dir : 0..2, bus : STRING]

IsSequence(s) == s \in Seq({s[i] : i \in DOMAIN s})

ASSUME FilesAssumption ==
    /\ BatchSize \in Nat \ {0}
    /\ \A file \in SourceFiles :
          /\ IsSequence(file.groups)
          /\ \A i \in DOMAIN file.groups :
                /\ IsSequence(file.groups[i].rows)
                /\ file.kind = "mf4" => file.groups[i].rows \in Seq(Row)

VARIABLES
    source,     \* the file at the path of the import
    replaced,   \* how often it has been replaced
    captures,   \* recordings: [expected, rows, saved, state], and the ghosts `all' and `swapped':
                \* the stream it is made from, and that this is not the file that was counted
    importer,   \* [pc, left, batch]
    exporting,  \* [pc, frames, written]
    target      \* the exported file, or NoFile

transferVars == <<source, replaced, captures, importer, exporting, target>>

NotThere == [kind |-> "none", groups |-> <<>>]
NoFile == [of |-> 0]
ImportRests == [pc |-> "idle", left |-> <<>>, batch |-> <<>>]
ExportRests == [pc |-> "idle", of |-> 0, frames |-> <<>>, written |-> <<>>]

TransferInit ==
    /\ source = NotThere /\ replaced = 0
    /\ captures = <<>>
    /\ importer = ImportRests /\ exporting = ExportRests /\ target = NoFile

-----------------------------------------------------------------------------
(* MDF: what is a CAN frame.                                                  *)

(* _classify_group; `complete' is that all required fields are there. *)
Importable(group) == group.busEvent /\ group.can /\ group.event = "data" /\ group.complete

(* _timestamp_ns: times count half nanoseconds. *)
StampOf(half) == half \div 2 + (IF half % 2 = 1 /\ (half \div 2) % 2 = 1 THEN 1 ELSE 0)

Direction(dir) == CASE dir = 0 -> "rx" [] dir = 1 -> "tx" [] OTHER -> "unknown"

(* A frame that is none: what reading it raises ends the import. *)
Broken == [ts |-> -1]

(* _chunk_frames and _row_bytes; an identifier is cut to 29 bits. *)
FrameOfRow(row) ==
    LET id == row.id % 8
        legal == /\ row.ide \/ id <= StandardTop
                 /\ IF row.edl THEN row.length \in LegalFdLengths ELSE row.length <= ClassicBytes
                 /\ Len(row.bytes) >= row.length
                 /\ row.half >= 0
    IN  IF ~legal THEN Broken
        ELSE [ts |-> StampOf(row.half), bus |-> row.bus, id |-> id, extended |-> row.ide,
              fd |-> row.edl, brs |-> row.edl /\ row.brs, esi |-> row.edl /\ row.esi, rtr |-> FALSE,
              error |-> FALSE, direction |-> Direction(row.dir), data |-> SubSeq(row.bytes, 1, row.length)]

-----------------------------------------------------------------------------
(* What a file holds: for Parquet frames as they were written, for MDF the rows *)
(* of its importable groups, group after group.                               *)

Imported(file, group) == file.kind = "parquet" \/ (file.kind = "mf4" /\ Importable(group))
Readable(file) ==
    file.kind = "parquet" \/ \E i \in DOMAIN file.groups : Imported(file, file.groups[i])

ParquetFrames(rows) == [i \in DOMAIN rows |-> IF ValidFrame(rows[i]) THEN rows[i] ELSE Broken]

FramesIn(file, group) ==
    CASE ~Imported(file, group) -> <<>>
      [] file.kind = "parquet" -> ParquetFrames(group.rows)
      [] OTHER -> [i \in DOMAIN group.rows |-> FrameOfRow(group.rows[i])]

FramesOf(file) == FlattenSeq([i \in DOMAIN file.groups |-> FramesIn(file, file.groups[i])])

Expected(file) == Len(FramesOf(file))

(* parquet_info takes any Parquet file, inspect_mf4 any MDF; an MDF file without
   an importable group is turned down before there is a recording. *)
Inspectable(file) ==
    file.kind \in {"parquet", "columns"} \/ (file.kind = "mf4" /\ Readable(file))

-----------------------------------------------------------------------------
(* The import.                                                                *)

Current == Len(captures)

(* append_frames for a batch: its frames are committed at once, or later. *)
WithBatch(batch, now) ==
    LET rows == captures[Current].rows \o batch IN
    [captures EXCEPT ![Current].rows = rows, ![Current].saved = IF now THEN Len(rows) ELSE @]
StoppedAs(recordings, state) ==
    [recordings EXCEPT ![Current].state = state, ![Current].saved = Len(recordings[Current].rows)]

StartImport ==
    /\ importer.pc = "idle" /\ Current < MaxImports
    /\ Inspectable(source)
    /\ captures' = Append(captures, [expected |-> Expected(source), all |-> <<>>, rows |-> <<>>,
                                     saved |-> 0, state |-> "open", swapped |-> FALSE])
    /\ importer' = [ImportRests EXCEPT !.pc = "inspected"]
    /\ UNCHANGED <<source, replaced, exporting, target>>

OpenSource ==
    /\ importer.pc = "inspected"
    /\ IF ~Readable(source)
       THEN importer' = ImportRests /\ captures' = StoppedAs(captures, "incomplete")
       ELSE /\ importer' = [ImportRests EXCEPT !.pc = "reading", !.left = FramesOf(source)]
            /\ captures' = [captures EXCEPT ![Current].all = FramesOf(source)]
    /\ UNCHANGED <<source, replaced, exporting, target>>

Emitted == Len(captures[Current].all) - Len(importer.left)

(* A frame that is broken, or one too many: the batch it would be in is lost, the
   recording is stopped as incomplete. *)
ReadFrame ==
    /\ importer.pc = "reading" /\ importer.left # <<>>
    /\ LET frame == Head(importer.left)
           batch == Append(importer.batch, frame)
       IN  IF frame = Broken \/ Emitted >= FrameLimit
           THEN importer' = ImportRests /\ captures' = StoppedAs(captures, "incomplete")
           ELSE /\ importer' = [importer EXCEPT !.left = Tail(@),
                                    !.batch = IF Len(batch) < BatchSize THEN batch ELSE <<>>]
                /\ \E now \in BOOLEAN :
                      captures' = IF Len(batch) < BatchSize THEN captures ELSE WithBatch(batch, now)
    /\ UNCHANGED <<source, replaced, exporting, target>>

(* Slip: the last batch, which is not full, is left out. *)
FinishWithoutRest ==
    /\ importer.pc = "reading" /\ importer.left = <<>>
    /\ captures' = StoppedAs(captures, "complete")
    /\ importer' = ImportRests
    /\ UNCHANGED <<source, replaced, exporting, target>>

FinishImport ==
    /\ importer.pc = "reading" /\ importer.left = <<>>
    /\ captures' = StoppedAs(WithBatch(importer.batch, TRUE), "complete")
    /\ importer' = ImportRests
    /\ UNCHANGED <<source, replaced, exporting, target>>

(* An error that is neither OSError nor ValueError, or a kill: nobody stops the
   recording, and what was not committed is gone. *)
ImportBreaksOff ==
    /\ importer.pc # "idle"
    /\ captures' = [captures EXCEPT ![Current].rows = SubSeq(@, 1, captures[Current].saved)]
    /\ importer' = ImportRests
    /\ UNCHANGED <<source, replaced, exporting, target>>

ReplaceSource ==
    /\ replaced < MaxReplaced /\ replaced' = replaced + 1
    /\ source' \in SourceFiles \ {source}
    /\ captures' = IF importer.pc = "inspected" THEN [captures EXCEPT ![Current].swapped = TRUE]
                   ELSE captures
    /\ UNCHANGED <<importer, exporting, target>>

-----------------------------------------------------------------------------
(* The export: a snapshot of what is committed when it begins, written to a     *)
(* file of its own that replaces the target when it is whole.                 *)

StartExport(rid) ==
    /\ exporting.pc = "idle"
    /\ exporting' = [pc |-> "writing", of |-> rid, frames |-> SubSeq(captures[rid].rows, 1, captures[rid].saved),
                     written |-> <<>>]
    /\ UNCHANGED <<source, replaced, captures, importer, target>>

(* A row group is at most BatchSize frames. *)
WriteGroup ==
    /\ exporting.pc = "writing" /\ Len(exporting.written) < Len(exporting.frames)
    /\ LET group == SubSeq(exporting.frames, Len(exporting.written) + 1,
                           Min({Len(exporting.written) + BatchSize, Len(exporting.frames)}))
       IN  exporting' = IF \E i \in DOMAIN group : group[i].ts > MaxStamp THEN ExportRests
                       ELSE [exporting EXCEPT !.written = @ \o group]
    /\ UNCHANGED <<source, replaced, captures, importer, target>>

FinishExport ==
    /\ exporting.pc = "writing" /\ exporting.written = exporting.frames
    /\ target' = [of |-> exporting.of, frames |-> exporting.written]
    /\ exporting' = ExportRests
    /\ UNCHANGED <<source, replaced, captures, importer>>

ExportBreaksOff ==
    /\ exporting.pc = "writing"
    /\ exporting' = ExportRests
    /\ UNCHANGED <<source, replaced, captures, importer, target>>

TransferNext ==
    \/ StartImport \/ OpenSource \/ ReadFrame \/ FinishImport \/ ImportBreaksOff
    \/ ReplaceSource
    \/ \E rid \in DOMAIN captures : StartExport(rid)
    \/ WriteGroup \/ FinishExport \/ ExportBreaksOff

TransferSpec == TransferInit /\ [][TransferNext]_transferVars

-----------------------------------------------------------------------------
(* A recording that says it is complete has every frame of its file, in order, and
   as many as it expects unless the file was replaced after it was counted; any
   other has the first so many of them.  An exported file has the first so many
   frames of its recording, none of them cut or out of place. *)
TransfersAreWhole ==
    /\ \A rid \in DOMAIN captures :
          LET c == captures[rid]
          IN  /\ IsPrefix(c.rows, c.all)
              /\ \A i \in DOMAIN c.rows : ValidFrame(c.rows[i])
              /\ c.state = "complete" =>
                    c.rows = c.all /\ (~c.swapped => Len(c.rows) = c.expected)
    /\ target # NoFile => IsPrefix(target.frames, captures[target.of].all)
=============================================================================
