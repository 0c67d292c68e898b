---------------------------- MODULE FrameFormats ----------------------------
(***************************************************************************)
(* vision_shark/domain.py, Frame, interchange.py and the export and import *)
(* routes of api.py: recordings written as candump, JSON lines or CSV, and *)
(* read again.                                                             *)
(*                                                                         *)
(* A text is the sequence of its lines, a line what its fields hold; the   *)
(* widths and lengths of CAN are scaled down.                              *)
(***************************************************************************)
EXTENDS Integers, FiniteSets, Sequences
LOCAL INSTANCE SequencesExt
LOCAL INSTANCE FiniteSetsExt

CONSTANTS
    Captures,    \* recordings: sequences of frames
    Candumps     \* candump texts from elsewhere: sequences of lines

VARIABLES conversion, converted, imports   \* the last request, its reply, and the recordings it made

formatVars == <<conversion, converted, imports>>

StandardTop == 3            \* 0x7ff
ClassicBytes == 2           \* 8
LegalFdLengths == {0, 1, 2, 4}
MaxImported == 3            \* max_frames
NoTime == -1
PlainBusses == {"can0", "can1", "mf4-can-1"}    \* [A-Za-z0-9_.-]+

NoRequestYet == [route |-> "none"]
RefusedText == <<[refused |-> TRUE]>>

FormatInit == conversion = NoRequestYet /\ converted = NoRequestYet /\ imports = <<>>

-----------------------------------------------------------------------------
(* Frame's own checks. *)
ValidFrame(f) ==
    /\ f.ts >= 0 /\ f.direction \in {"rx", "tx", "unknown"}
    /\ f.extended \/ f.id <= StandardTop
    /\ IF f.fd THEN Len(f.data) \in LegalFdLengths /\ ~f.rtr
               ELSE Len(f.data) <= ClassicBytes /\ ~f.brs /\ ~f.esi
    /\ f.rtr => f.data = <<>>

-----------------------------------------------------------------------------
(* candump.                                                                   *)

LineOf(f) ==
    [form |-> IF f.rtr THEN "remote" ELSE IF f.fd THEN "fd" ELSE "classic",
     ts |-> f.ts, bus |-> f.bus, digits |-> IF f.extended THEN 8 ELSE 3, id |-> f.id,
     brs |-> f.fd /\ f.brs, esi |-> f.fd /\ f.esi, data |-> f.data, declared |-> Len(f.data)]

(* Slip: an identifier is extended only if it must be. *)
ExtendedByValue(line) == line.id > StandardTop

(* Low 29-bit identifiers are told by their width. *)
Extended(line) == line.digits > 3 \/ line.id > StandardTop

(* "pretty" lines have a length and no time. *)
Parsable(line) ==
    /\ line.bus \in PlainBusses
    /\ line.form = "pretty" => Len(line.data) = line.declared

(* Error flags and directions are not in the text. *)
FrameOf(line, ts) ==
    [ts |-> ts, bus |-> line.bus, id |-> line.id, extended |-> Extended(line), fd |-> line.form = "fd",
     brs |-> line.form = "fd" /\ line.brs, esi |-> line.form = "fd" /\ line.esi,
     rtr |-> line.form = "remote", error |-> FALSE, direction |-> "rx",
     data |-> IF line.form = "remote" THEN <<>> ELSE line.data]

AfterAll(synthetic, ts) == Max({synthetic, ts}) + 1

(* A line without a time gets one of its own, after those before it. *)
ParsedDump(lines) ==
    LET Next(read, line) ==
          LET ts == IF line.ts = NoTime \/ line.form = "pretty" THEN read.synthetic ELSE line.ts
          IN  [frames |-> Append(read.frames, FrameOf(line, ts)),
               synthetic |-> AfterAll(read.synthetic, ts),
               ok |-> read.ok /\ Parsable(line) /\ ValidFrame(FrameOf(line, ts))
                        /\ Len(read.frames) < MaxImported]
        read == FoldLeft(Next, [frames |-> <<>>, synthetic |-> 0, ok |-> TRUE], lines)
    IN  IF read.ok THEN read.frames ELSE RefusedText

ExportedCandump(frames) == [i \in DOMAIN frames |-> LineOf(frames[i])]

-----------------------------------------------------------------------------
(* CSV and JSON lines have a field for everything. *)

Fields == {"ts", "bus", "id", "data", "extended", "fd", "brs", "esi", "rtr", "error", "direction"}

ExportedRows(frames) == [i \in DOMAIN frames |-> [field \in Fields |-> frames[i][field]]]

ReadRows(rows) ==
    IF Len(rows) <= MaxImported /\ \A i \in DOMAIN rows : ValidFrame(rows[i]) THEN rows ELSE RefusedText

Dumped(frames, format) ==
    CASE format = "candump" -> ExportedCandump(frames)
      [] format \in {"csv", "jsonl"} -> ExportedRows(frames)
      [] OTHER -> RefusedText

Loaded(text, format) ==
    CASE format = "candump" -> ParsedDump(text)
      [] format \in {"csv", "jsonl"} -> ReadRows(text)
      [] OTHER -> RefusedText

-----------------------------------------------------------------------------
(* recording_export. *)
Export(frames, format) ==
    /\ conversion' = [route |-> "export", frames |-> frames, format |-> format]
    /\ converted' = Dumped(frames, format)
    /\ UNCHANGED imports

(* interchange_import: nothing is recorded of a text that is refused. *)
ImportText(text, format) ==
    LET frames == Loaded(text, format) IN
    /\ conversion' = [route |-> "import", text |-> text, format |-> format]
    /\ converted' = frames
    /\ imports' = IF frames = RefusedText THEN imports
                  ELSE Append(imports, [frames |-> frames, expected |-> Len(frames), complete |-> TRUE])

(* A recording is exported, and what came out is imported again; or a text that
   another program has written is. *)
FormatNext ==
    \/ /\ conversion = NoRequestYet
       /\ \/ \E frames \in Captures, format \in {"candump", "csv", "jsonl", "other"} : Export(frames, format)
          \/ \E text \in Candumps : ImportText(text, "candump")
    \/ /\ conversion.route = "export" /\ converted # RefusedText
       /\ ImportText(converted, conversion.format)

-----------------------------------------------------------------------------
Silent(f) == [f EXCEPT !.error = FALSE, !.direction = "rx"]

(* What is exported can be imported and is the same recording: frame for frame as
   CSV or JSON lines, and but for error flags and directions as candump, except
   when a bus has a name that candump cannot hold, or there are too many frames. *)
ReadBackAsWritten ==
    conversion.route = "export" /\ conversion'.route = "import" =>
        \/ /\ conversion.format = "candump"
           /\ \E i \in DOMAIN conversion.frames : conversion.frames[i].bus \notin PlainBusses
        \/ Len(conversion.frames) > MaxImported
        \/ converted' = IF conversion.format = "candump"
                        THEN [i \in DOMAIN conversion.frames |-> Silent(conversion.frames[i])]
                        ELSE conversion.frames

(* Lines without a time stay in order: each is later than all that come before it. *)
SyntheticTimesAreOrdered ==
    conversion.route = "import" /\ conversion.format = "candump" /\ converted # RefusedText =>
        \A i, j \in DOMAIN converted :
            i < j /\ conversion.text[j].ts = NoTime => converted[i].ts < converted[j].ts

(* Both, for every text: a recording keeps its frames, and its frames their order. *)
TextsAreKept == [][ReadBackAsWritten /\ SyntheticTimesAreOrdered']_formatVars
=============================================================================
