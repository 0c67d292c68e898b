--------------------------- MODULE TuningWorkspace ---------------------------
(***************************************************************************)
(* vision_shark/tuning_core.py, tuning_artifacts.py, tuning_api.py and     *)
(* tuning_cli.py: calibration files are read into memory images, edited by *)
(* map, compared, and rendered again.  Nothing is kept between requests.   *)
(*                                                                         *)
(* The numbers are small: a byte is below ByteTop (256), an address field  *)
(* of Intel HEX below Page (64 Ki), an address below Top (2^32); a segment *)
(* begins at a multiple of Paragraph (16).  A line of a file is the record *)
(* it holds once its checksum is right.                                    *)
(***************************************************************************)
LOCAL INSTANCE Integers
LOCAL INSTANCE Sequences
LOCAL INSTANCE SequencesExt
LOCAL INSTANCE FiniteSets
LOCAL INSTANCE FiniteSetsExt
LOCAL INSTANCE Functions

CONSTANTS
    ByteTop, Paragraph, Page, Top,   \* see above
    RecordBytes,          \* record_bytes: data bytes in one line
    Files,                \* [format, base, lines] that a request may bring
    Calibrations,         \* sets of maps: the definitions
    EditLists             \* sequences of [map, values]

VARIABLES
    asked,       \* the request: the baseline's file, the definition, the edits
    candidate,   \* what was made of it: an image, or <<>>
    rendered,    \* the file that is handed out, or written to --output
    patch,       \* the regions the answer names
    audited      \* the audit log's entries of this request

tuningVars == <<asked, candidate, rendered, patch, audited>>

Refusal == [format |-> "none", base |-> 0, lines |-> <<>>]
NoRequest == [file |-> Refusal, maps |-> {}, edits |-> <<>>]

-----------------------------------------------------------------------------
(* MemoryImage: segments in the order of their addresses. *)
EndOf(segment) == segment.address + Len(segment.data)

(* _segments_from_sparse *)
SegmentsOf(bytes) ==
    LET starts == {a \in DOMAIN bytes : a - 1 \notin DOMAIN bytes}
        end(a) == Min({b \in DOMAIN bytes : b >= a /\ b + 1 \notin DOMAIN bytes})
        segment(a) == [address |-> a, data |-> [i \in 1..(end(a) - a + 1) |-> bytes[a + i - 1]]]
        ordered == SetToSortSeq(starts, <) IN
    [i \in DOMAIN ordered |-> segment(ordered[i])]

(* The bytes of a data record at an address, beside those there are; a record
   that overlaps them makes the file malformed. *)
Laid(parsed, address, bytes) ==
    LET new == {address + i - 1 : i \in DOMAIN bytes}
        old == DOMAIN parsed.bytes IN
    [parsed EXCEPT !.bad = @ \/ new \cap old # {},
                   !.bytes = [a \in old \cup new |-> IF a \in old THEN @[a] ELSE bytes[a - address + 1]]]

Nothing == [bytes |-> <<>>, upper |-> 0, eof |-> FALSE, bad |-> FALSE]

(* from_ihex: nothing is read after an end-of-file record, and there must be
   one; start addresses are passed over. *)
FromIhex(lines) ==
    LET line(parsed, l) ==
            IF parsed.eof THEN parsed
            ELSE IF l.kind = "data" THEN Laid(parsed, parsed.upper + l.at, l.bytes)
            ELSE IF l.kind = "eof" THEN [parsed EXCEPT !.eof = TRUE]
            ELSE IF l.kind = "segment" THEN [parsed EXCEPT !.upper = l.at * Paragraph]
            ELSE IF l.kind = "upper" THEN [parsed EXCEPT !.upper = l.at * Page]
            ELSE [parsed EXCEPT !.bad = @ \/ l.kind # "start"]
        all == FoldLeft(line, Nothing, lines) IN
    IF all.bad \/ ~all.eof \/ DOMAIN all.bytes = {} THEN <<>> ELSE SegmentsOf(all.bytes)

(* from_srec: what is not data is passed over. *)
FromSrec(lines) ==
    LET line(parsed, l) == IF l.kind = "data" THEN Laid(parsed, l.at, l.bytes) ELSE parsed
        all == FoldLeft(line, Nothing, lines) IN
    IF all.bad \/ DOMAIN all.bytes = {} THEN <<>> ELSE SegmentsOf(all.bytes)

(* parse, and what __init__ refuses of it; <<>> is a file that is refused. *)
Parsed(file) ==
    LET segments == CASE file.format = "bin" -> IF file.lines = <<>> THEN <<>>
                                                ELSE <<[address |-> file.base, data |-> file.lines]>>
                      [] file.format = "ihex" -> FromIhex(file.lines)
                      [] file.format = "srec" -> FromSrec(file.lines)
                      [] OTHER -> <<>> IN
    IF \E i \in DOMAIN segments : segments[i].address >= Top THEN <<>> ELSE segments

Holding(image, address, length) ==
    {i \in DOMAIN image : image[i].address <= address /\ address + length <= EndOf(image[i])}

(* read; <<>> when no one segment has it all *)
ReadBytes(image, address, length) ==
    LET at == Holding(image, address, length) IN
    IF at = {} THEN <<>>
    ELSE LET s == image[Min(at)] IN
         SubSeq(s.data, address - s.address + 1, address - s.address + length)

Written(image, address, bytes) ==
    LET i == Min(Holding(image, address, Len(bytes)))
        from == address - image[i].address IN
    [image EXCEPT ![i].data = [j \in DOMAIN @ |->
        IF j - from \in DOMAIN bytes THEN bytes[j - from] ELSE @[j]]]

-----------------------------------------------------------------------------
(* Maps: [map, address, count, width, bigEndian, signed, factor, offset,
   minimum, maximum]; values are whole numbers. *)
RoundedHalfEven(n, d) ==
    LET m == IF d < 0 THEN -n ELSE n
        e == IF d < 0 THEN -d ELSE d
        q == m \div e
        r == 2 * (m % e) IN
    IF r < e \/ (r = e /\ q % 2 = 0) THEN q ELSE q + 1

RawTop(map) == ByteTop ^ map.width

(* decode_map: the values in the file's order *)
DecodedMap(image, map) ==
    LET raw == ReadBytes(image, map.address, map.count * map.width)
        digit(v, k) == raw[(v - 1) * map.width + (IF map.bigEndian THEN map.width - k ELSE k + 1)]
        plain(v) == MapThenSumSet(LAMBDA k : digit(v, k) * ByteTop ^ k, 0..(map.width - 1))
        number(v) == IF map.signed /\ 2 * plain(v) >= RawTop(map) THEN plain(v) - RawTop(map) ELSE plain(v) IN
    [v \in 1..map.count |-> number(v) * map.factor + map.offset]

RawOf(map, value) == RoundedHalfEven(value - map.offset, map.factor)

(* encode_map raises; the bounds are those of the value that was asked for *)
Unencodable(map, values) ==
    LET low == IF map.signed THEN -(RawTop(map) \div 2) ELSE 0 IN
    \/ Len(values) # map.count
    \/ \E v \in DOMAIN values :
          \/ values[v] < map.minimum \/ values[v] > map.maximum
          \/ RawOf(map, values[v]) \notin low..(low + RawTop(map) - 1)

EncodedMap(map, values) ==
    LET byte(b) == LET v == (b - 1) \div map.width + 1
                       k == (b - 1) % map.width
                       power == IF map.bigEndian THEN map.width - 1 - k ELSE k IN
                   ((RawOf(map, values[v]) % RawTop(map)) \div ByteTop ^ power) % ByteTop IN
    [b \in 1..(map.count * map.width) |-> byte(b)]

-----------------------------------------------------------------------------
Region(address, before, after) == [address |-> address, before |-> before, after |-> after]
RegionEnd(region) == region.address + Len(region.after)
InOrder(regions) == SetToSortSeq(regions, LAMBDA a, b : a.address < b.address)
Overlapping(regions) == \E a, b \in regions : a # b /\ a.address <= b.address /\ RegionEnd(a) > b.address

MapOf(maps, edit) == CHOOSE m \in maps : m.map = edit.map

(* build_patch raises; so does MapDefinition of a definition it would not take. *)
PatchRefused(image, maps, edits) ==
    \/ \E i, j \in DOMAIN edits : i # j /\ edits[i].map = edits[j].map
    \/ \E i \in DOMAIN edits :
          \/ \A m \in maps : m.map # edits[i].map
          \/ LET m == MapOf(maps, edits[i]) IN
             Holding(image, m.address, m.count * m.width) = {} \/ Unencodable(m, edits[i].values)

(* An edit that changes nothing leaves no region. *)
PatchRegions(image, maps, edits) ==
    {r \in {LET m == MapOf(maps, edits[i]) IN
            Region(m.address, ReadBytes(image, m.address, m.count * m.width), EncodedMap(m, edits[i].values))
            : i \in DOMAIN edits} : r.before # r.after}

(* apply_patch, of regions that do not overlap; <<>> when one does not fit *)
Applied(image, regions) ==
    IF \E r \in regions : ReadBytes(image, r.address, Len(r.before)) # r.before THEN <<>>
    ELSE FoldLeft(LAMBDA i, r : Written(i, r.address, r.after), image, InOrder(regions))

SameLayout(a, b) ==
    /\ Len(a) = Len(b)
    /\ \A i \in DOMAIN a : a[i].address = b[i].address /\ Len(a[i].data) = Len(b[i].data)

(* Slip: a region that reaches the end of its segment is not closed. *)
ClosedRegions(a, b) ==
    UNION {LET changed == {j \in DOMAIN a[i].data : a[i].data[j] # b[i].data[j]}
               end(j) == Min({k \in changed : k >= j /\ k + 1 \notin changed}) IN
           {Region(a[i].address + j - 1, SubSeq(a[i].data, j, end(j)), SubSeq(b[i].data, j, end(j)))
            : j \in {k \in changed : k - 1 \notin changed /\ end(k) < Len(a[i].data)}}
           : i \in DOMAIN a}

(* diff_images: what changed, by stretches; none crosses two segments *)
DiffRegions(a, b) ==
    UNION {LET changed == {j \in DOMAIN a[i].data : a[i].data[j] # b[i].data[j]}
               end(j) == Min({k \in changed : k >= j /\ k + 1 \notin changed}) IN
           {Region(a[i].address + j - 1, SubSeq(a[i].data, j, end(j)), SubSeq(b[i].data, j, end(j)))
            : j \in {k \in changed : k - 1 \notin changed}}
           : i \in DOMAIN a}

-----------------------------------------------------------------------------
Data(at, bytes) == [kind |-> "data", at |-> at, bytes |-> bytes]
Segment(n) == [kind |-> "segment", at |-> n, bytes |-> <<>>]
Upper(n) == [kind |-> "upper", at |-> n, bytes |-> <<>>]
Eof == [kind |-> "eof", at |-> 0, bytes |-> <<>>]

(* The lines of a segment from an offset on, none longer than room allows. *)
LinesOf(segment, room) ==
    LET all == Len(segment.data)
        from[o \in 0..all] ==
            IF o = all THEN <<>>
            ELSE LET size == Min({RecordBytes, all - o, room[segment.address + o]}) IN
                 <<Data(segment.address + o, SubSeq(segment.data, o + 1, o + size))>> \o from[o + size] IN
    from[0]

(* export_ihex: an upper address is 16 bits of the address, whatever is above *)
ExportedIhex(image) ==
    LET lines == FoldLeft(LAMBDA ls, s : ls \o LinesOf(s, [a \in Nat |-> Page - (a % Page)]), <<>>, image)
        upper(l) == (l.at \div Page) % (Top \div Page)
        needs(i) == i = 1 \/ upper(lines[i]) # upper(lines[i - 1])
        line(i) == (IF needs(i) THEN <<Upper(upper(lines[i]))>> ELSE <<>>)
                   \o <<Data(lines[i].at % Page, lines[i].bytes)>> IN
    FlattenSeq([i \in DOMAIN lines |-> line(i)]) \o <<Eof>>

ExportedSrec(image) ==
    FoldLeft(LAMBDA ls, s : ls \o LinesOf(s, [a \in Nat |-> RecordBytes]), <<>>, image) \o <<Eof>>

(* export_image raises: two segments in one bin, an S-record past the top. *)
Unexportable(image, format) ==
    \/ format = "bin" /\ Len(image) # 1
    \/ format = "srec" /\ EndOf(image[Len(image)]) > Top

Exported(image, format) ==
    [format |-> format, base |-> image[1].address,
     lines |-> CASE format = "bin" -> image[1].data
                 [] format = "ihex" -> ExportedIhex(image)
                 [] format = "srec" -> ExportedSrec(image)]

-----------------------------------------------------------------------------
TuningInit ==
    /\ asked = NoRequest
    /\ candidate = <<>> /\ patch = {} /\ audited = 0
    /\ rendered = Refusal

(* What build-patch and `build' have in common. *)
Delivers(output, format) ==
    /\ ~Unexportable(output, format)
    /\ candidate' = output
    /\ rendered' = Exported(output, format)

Patches(image, regions, format) ==
    /\ ~Overlapping(regions)
    /\ patch' = regions
    /\ Delivers(Applied(image, regions), format)

Builds(file, maps, edits, format) ==
    LET image == Parsed(file) IN
    /\ asked' = [file |-> file, maps |-> maps, edits |-> edits]
    /\ image # <<>>
    /\ ~PatchRefused(image, maps, edits)
    /\ Patches(image, PatchRegions(image, maps, edits), format)

(* tuning_build_patch: the audit entry comes before the answer. *)
BuildOverHttp(file, maps, edits, format) ==
    Builds(file, maps, edits, format) /\ audited' = audited + 1

(* _build writes the file to --output, and nothing to the audit log. *)
BuildOnCommandLine(file, maps, edits, format) ==
    Builds(file, maps, edits, format) /\ UNCHANGED audited

Differs(baseline, image) ==
    /\ baseline # <<>> /\ image # <<>> /\ SameLayout(baseline, image)
    /\ candidate' = image /\ patch' = DiffRegions(baseline, image)

Compares(file, other) ==
    /\ asked' = [file |-> file, maps |-> {}, edits |-> <<>>]
    /\ Differs(Parsed(file), Parsed(other))
    /\ UNCHANGED rendered

DiffOverHttp(file, other) == Compares(file, other) /\ audited' = audited + 1
DiffOnCommandLine(file, other) == Compares(file, other) /\ UNCHANGED audited

TuningNext ==
    asked = NoRequest /\ \E file \in Files :
        \/ \E maps \in Calibrations, edits \in EditLists, format \in {"bin", "ihex", "srec"} :
              BuildOverHttp(file, maps, edits, format) \/ BuildOnCommandLine(file, maps, edits, format)
        \/ \E other \in Files : DiffOverHttp(file, other) \/ DiffOnCommandLine(file, other)

TuningSpec == TuningInit /\ [][TuningNext]_tuningVars

-----------------------------------------------------------------------------
Gap(a, b) == IF a < b THEN b - a ELSE a - b
Bytes(map) == map.address..(map.address + map.count * map.width - 1)

(* An edit that changes nothing leaves no region to overlap: only then may
   another edit undo it unnoticed. *)
Undone(edits, i) ==
    LET m == MapOf(asked.maps, edits[i]) IN
    /\ ReadBytes(Parsed(asked.file), m.address, m.count * m.width) = EncodedMap(m, edits[i].values)
    /\ \E j \in DOMAIN edits \ {i} : Bytes(m) \cap Bytes(MapOf(asked.maps, edits[j])) # {}

(* The regions an answer names turn the baseline into the candidate; each
   edited map then reads, to half a step of its factor, what was asked for (the
   declared bounds are those of what was asked, so the candidate may lie half a
   step beyond them); and the file that is handed out, read again, is the
   candidate, unless it is Intel HEX of addresses past the top of its space. *)
PatchIsExact ==
    candidate # <<>> =>
        /\ Applied(Parsed(asked.file), patch) = candidate
        /\ Applied(Parsed(asked.file), DiffRegions(Parsed(asked.file), candidate)) = candidate
        /\ rendered # Refusal =>
              /\ \A i \in DOMAIN asked.edits : ~Undone(asked.edits, i) =>
                    LET m == MapOf(asked.maps, asked.edits[i]) IN
                    \A v \in 1..m.count :
                        2 * Gap(DecodedMap(candidate, m)[v], asked.edits[i].values[v]) <= Gap(m.factor, 0)
              /\ \/ rendered.format = "ihex" /\ EndOf(candidate[Len(candidate)]) > Top
                 \/ Parsed(rendered) = candidate

(* docs/VISION_MOTORSPORTS_TUNING_WORKSPACE.md: the patch builder "rejects
   overlapping edited maps". *)
OverlapsAreRejected ==
    rendered # Refusal =>
        \A i, j \in DOMAIN asked.edits : i # j =>
            Bytes(MapOf(asked.maps, asked.edits[i])) \cap Bytes(MapOf(asked.maps, asked.edits[j])) = {}
=============================================================================
