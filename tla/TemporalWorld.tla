---------------------------- MODULE TemporalWorld ----------------------------
(***************************************************************************)
(* vision_shark/autonomy/temporal_world.py and temporal_memory.py: the     *)
(* tracker and the feature memory, as what the steps of a call make of     *)
(* their state.                                                            *)
(*                                                                         *)
(* The units are 0.1 s, 0.02 m, 0.1 m/s and per cent; a track has one      *)
(* coordinate, the other one is treated alike.  A name is a text and a     *)
(* number.  The tracks are a function of their names; "made" tells the     *)
(* order in which they came into the dictionary.                           *)
(***************************************************************************)
EXTENDS Integers, SequencesExt

Gate == 175        \* association_gate_m
ClassPenalty == 75
StaleAfter == 12   \* stale_after_s
Never == -1        \* a clock that is None

NoWorld == [tracks |-> <<>>, nextId |-> 1, last |-> Never]

NoName == <<>>
Distance(a, b) == IF a < b THEN b - a ELSE a - b
Elapsed(ts, track) == Max({0, ts - track.last})

(* _associate: the track that has the name, wherever it is; else the nearest
   one within the gate, the first of several; else none. *)
Associated(tracks, used, d, ts) ==
    LET free == DOMAIN tracks \ used
        distance(id) == Distance(d.x, tracks[id].x + (tracks[id].v * Elapsed(ts, tracks[id])) \div 2)
        score(id) == distance(id) + (IF d.cls = tracks[id].cls THEN 0 ELSE ClassPenalty)
        near == {id \in free : distance(id) <= Gate} IN
    IF d.hint # NoName /\ d.hint \in free THEN {d.hint}
    ELSE {id \in near : \A other \in near :
             \/ score(id) < score(other)
             \/ score(id) = score(other) /\ tracks[id].made <= tracks[other].made}

(* The name of a new track, and the number it leaves for the next one. *)
Named(tracks, nextId, d) ==
    LET auto(n) == <<"t", n>>
        unused == {n \in nextId..(nextId + Cardinality(DOMAIN tracks)) : auto(n) \notin DOMAIN tracks} IN
    IF d.hint # NoName /\ d.hint \notin DOMAIN tracks
    THEN [id |-> d.hint, nextId |-> nextId + 1]
    ELSE [id |-> auto(Min(unused)), nextId |-> Min(unused) + 1]

Started(d, ts, made) ==
    [made |-> made, cls |-> d.cls, x |-> d.x, v |-> 0, conf |-> d.conf,
     first |-> ts, last |-> ts, hits |-> 1, misses |-> 0]

(* The alpha-beta filter; looks at one instant, or back, are a millisecond apart. *)
Filtered(track, d, ts) ==
    LET dt == ts - track.last
        measured == IF dt <= 0 THEN 200 * (d.x - track.x) ELSE (2 * (d.x - track.x)) \div dt
        expected == track.x + (IF dt <= 0 THEN track.v \div 200 ELSE (track.v * dt) \div 2)
        conf == Min({100, (65 * track.conf + 35 * d.conf + 500) \div 100}) IN
    [track EXCEPT !.x = (70 * d.x + 30 * expected) \div 100,
                  !.v = (45 * measured + 55 * @) \div 100,
                  !.conf = conf,
                  !.cls = IF 10 * d.conf >= 6 * conf THEN d.cls ELSE @,
                  !.last = ts, !.hits = @ + 1, !.misses = 0]

(* What is found for a detection: the track that takes it, or the name of a new one. *)
NoChoice == [new |-> FALSE, id |-> NoName, nextId |-> 0]
ChoiceOf(world, candidates, d) ==
    IF candidates = {}
    THEN LET name == Named(world.tracks, world.nextId, d) IN
         [new |-> TRUE, id |-> name.id, nextId |-> name.nextId]
    ELSE [new |-> FALSE, id |-> CHOOSE id \in candidates : TRUE, nextId |-> 0]

(* Slip: a track may take a second detection of the frame. *)
ChoiceAgain(world, used, d, ts) == ChoiceOf(world, Associated(world.tracks, {}, d, ts), d)

Choice(world, used, d, ts) == ChoiceOf(world, Associated(world.tracks, used, d, ts), d)

(* What is written of it. *)
Begun(world, choice, d, ts) ==
    [world EXCEPT !.tracks = [id \in DOMAIN @ \cup {choice.id} |->
                                 IF id = choice.id THEN Started(d, ts, choice.nextId) ELSE @[id]],
                  !.nextId = choice.nextId]
Continued(world, choice, d, ts) == [world EXCEPT !.tracks[choice.id] = Filtered(@, d, ts)]

(* A track that was not seen fades, and goes when it has been unseen too long. *)
Faded(track) == [track EXCEPT !.misses = @ + 1, !.conf = (85 * @) \div 100]
Unseen(world, id, ts) ==
    IF ts - world.tracks[id].last > StaleAfter
    THEN [world EXCEPT !.tracks = [other \in DOMAIN @ \ {id} |-> @[other]]]
    ELSE [world EXCEPT !.tracks[id] = Faded(@)]

(* The places of the detections that are looked at: not those of less than a tenth. *)
Credible(detections) == {i \in DOMAIN detections : detections[i].conf >= 10}

-----------------------------------------------------------------------------
(* TemporalSpatialFeatureMemory: what was last pushed and last seen, and how
   far apart, in time and on the road, the entries are. *)
NoMemory == [clock |-> Never, odometer |-> Never, timeQueue |-> <<>>, distanceQueue |-> <<>>]

(* update raises *)
MemoryRefuses(memory, ts, distance) == ts < memory.clock \/ distance < memory.odometer

Pushed(queue, value, interval, size) ==
    IF queue # <<>> /\ value - Last(queue) < interval THEN queue
    ELSE IF Len(queue) < size THEN Append(queue, value) ELSE Append(Tail(queue), value)

Remembered(memory, ts, distance, interval, stretch, size) ==
    [clock |-> ts, odometer |-> distance,
     timeQueue |-> Pushed(memory.timeQueue, ts, interval, size),
     distanceQueue |-> Pushed(memory.distanceQueue, distance, stretch, size)]
=============================================================================
