--------------------------- MODULE AutonomyService ---------------------------
(***************************************************************************)
(* vision_shark/autonomy_api.py: one planning world and one feature memory *)
(* behind two routes, step and reset.  The routes are plain functions, so  *)
(* that requests run in threads of a pool; nothing here is locked.         *)
(*                                                                         *)
(* A request is the sequence of its looks at shared state.  What it makes  *)
(* of the frame in between is PlanningWorld; a frame is named by its time, *)
(* the distance driven, what the cameras saw, and where it is malformed.   *)
(***************************************************************************)
EXTENDS PlanningWorld, TemporalWorld

CONSTANTS
    Callers,      \* threads that serve requests
    Bodies,       \* [ts, distance, detections, malformed] of a step
    MemorySize,   \* max_time_entries, max_distance_entries
    MaxServed     \* bound on the requests served

(* Times are counted from 0 on: Never is before all of them.  Detections are a list. *)
ASSUME BodiesAssumption ==
    \A b \in Bodies :
        /\ b.ts \in Nat
        /\ Len(b.detections) \in Nat /\ DOMAIN b.detections = 1..Len(b.detections)
        /\ \A i \in DOMAIN b.detections :
              "conf" \in DOMAIN b.detections[i] /\ b.detections[i].conf \in Int

VARIABLES
    world,        \* runtime.world
    clock,        \* runtime._last_timestamp
    steps,        \* runtime._steps
    memory,       \* the feature memory
    at,           \* caller -> what its request does next
    body,         \* caller -> the body of its request
    answer,       \* caller -> what the last request was answered
    looking,      \* caller -> its update of the tracker: the detections to take, the
                  \* names used, what was found for one, the tracks to age; history:
                  \* no other request has changed a track since it began
    served,       \* requests that have come
    overlapped    \* history: two requests were under way at once

autonomyVars == <<world, clock, steps, memory, at, body, answer, looking, served, overlapped>>

NoBody == [ts |-> Never, distance |-> 0, detections |-> <<>>, malformed |-> "nowhere"]

NotLooking == [todo |-> {}, used |-> {}, choice |-> NoChoice, unseen |-> {}, alone |-> FALSE]

AutonomyInit ==
    /\ world = NoWorld /\ clock = Never /\ steps = 0
    /\ memory = NoMemory
    /\ at = [c \in Callers |-> "idle"]
    /\ body = [c \in Callers |-> NoBody]
    /\ answer = [c \in Callers |-> "none"]
    /\ looking = [c \in Callers |-> NotLooking]
    /\ served = 0
    /\ overlapped = FALSE

Goes(c, to) == at' = [at EXCEPT ![c] = to]
Answered(c, what) ==
    /\ Goes(c, "idle")
    /\ answer' = [answer EXCEPT ![c] = what]
    /\ body' = [body EXCEPT ![c] = NoBody]
    /\ looking' = [looking EXCEPT ![c] = NotLooking]

Arrives(c, first) ==
    /\ at[c] = "idle" /\ served < MaxServed
    /\ Goes(c, first)
    /\ served' = served + 1
    /\ overlapped' = (overlapped \/ \E other \in Callers \ {c} : at[other] # "idle")

Request(c) ==
    /\ Arrives(c, "check clock")
    /\ \E b \in Bodies : body' = [body EXCEPT ![c] = b]
    /\ UNCHANGED <<world, clock, steps, memory, answer, looking>>

CheckClock(c) ==
    /\ at[c] = "check clock"
    /\ IF body[c].ts < clock
       THEN Answered(c, "refused by clock")
       ELSE Goes(c, "set clock") /\ UNCHANGED <<body, answer, looking>>
    /\ UNCHANGED <<world, clock, steps, memory, served, overlapped>>

(* The clock is set before the cameras are looked at. *)
SetClock(c) ==
    /\ at[c] = "set clock"
    /\ clock' = body[c].ts /\ steps' = steps + 1
    /\ IF body[c].malformed = "early"
       THEN Answered(c, "malformed")
       ELSE Goes(c, "check world") /\ UNCHANGED <<body, answer, looking>>
    /\ UNCHANGED <<world, memory, served, overlapped>>

CheckWorld(c) ==
    /\ at[c] = "check world"
    /\ IF body[c].ts < world.last
       THEN Answered(c, "refused by world")
       ELSE Goes(c, "track") /\ UNCHANGED <<body, answer, looking>>
    /\ UNCHANGED <<world, clock, steps, memory, served, overlapped>>

FusedBy(c) == Fused(Localized(body[c].detections, {}), 125)

(* The look of a caller that changes a track; all others are no longer alone. *)
Looks(c, look) ==
    looking' = [other \in Callers |-> IF other = c THEN look ELSE [looking[other] EXCEPT !.alone = FALSE]]

(* The tracker is updated before lanes, policies and paths are looked at. *)
BeginUpdate(c) ==
    /\ at[c] = "track"
    /\ world' = [world EXCEPT !.last = body[c].ts]
    /\ looking' = [looking EXCEPT ![c] =
                      [NotLooking EXCEPT !.todo = Credible(FusedBy(c)), !.alone = TRUE]]
    /\ Goes(c, "associate")
    /\ UNCHANGED <<clock, steps, memory, body, answer, served, overlapped>>

(* One detection after another: a track is looked for, or a name ... *)
Associate(c) ==
    /\ at[c] = "associate" /\ looking[c].todo # {}
    /\ LET d == FusedBy(c)[Min(looking[c].todo)] IN
       looking' = [looking EXCEPT ![c].choice = Choice(world, looking[c].used, d, body[c].ts)]
    /\ Goes(c, "store")
    /\ UNCHANGED <<world, clock, steps, memory, body, answer, served, overlapped>>

(* ... and is written; the track that was found may have gone. *)
TakeUp(c) ==
    /\ at[c] = "store"
    /\ LET look == looking[c]
           i == Min(look.todo)
           d == FusedBy(c)[i] IN
       IF look.choice.new \/ look.choice.id \in DOMAIN world.tracks
       THEN /\ world' = IF look.choice.new THEN Begun(world, look.choice, d, body[c].ts)
                        ELSE Continued(world, look.choice, d, body[c].ts)
            /\ Looks(c, [look EXCEPT !.todo = @ \ {i}, !.used = @ \cup {look.choice.id}, !.choice = NoChoice])
            /\ Goes(c, "associate")
            /\ UNCHANGED <<body, answer>>
       ELSE Answered(c, "error") /\ UNCHANGED world
    /\ UNCHANGED <<clock, steps, memory, served, overlapped>>

(* Then the tracks that are there and took none are aged, one after another ... *)
BeginAging(c) ==
    /\ at[c] = "associate" /\ looking[c].todo = {}
    /\ looking' = [looking EXCEPT ![c].unseen = DOMAIN world.tracks \ looking[c].used]
    /\ Goes(c, "age")
    /\ UNCHANGED <<world, clock, steps, memory, body, answer, served, overlapped>>

(* ... those, too, that have gone since. *)
Age(c) ==
    /\ at[c] = "age"
    /\ \E id \in looking[c].unseen :
          LET look == [looking[c] EXCEPT !.unseen = @ \ {id}] IN
          IF id \in DOMAIN world.tracks
          THEN world' = Unseen(world, id, body[c].ts) /\ Looks(c, look)
          ELSE UNCHANGED world /\ looking' = [looking EXCEPT ![c] = look]
    /\ UNCHANGED <<clock, steps, memory, at, body, answer, served, overlapped>>

EndUpdate(c) ==
    /\ at[c] = "age" /\ looking[c].unseen = {}
    /\ IF body[c].malformed = "late"
       THEN Answered(c, "malformed")
       ELSE /\ Goes(c, "remember")
            /\ looking' = [looking EXCEPT ![c] = [NotLooking EXCEPT !.alone = looking[c].alone]]
            /\ UNCHANGED <<body, answer>>
    /\ UNCHANGED <<world, clock, steps, memory, served, overlapped>>

(* Tracks that come or go break off a loop over all of them, that of _associate or
   that of the snapshot; a track that has gone cannot be deleted again. *)
BreaksOff(c) ==
    /\ \/ at[c] = "associate" /\ looking[c].todo # {} /\ ~looking[c].alone
       \/ at[c] = "age" /\ ~(looking[c].unseen \subseteq DOMAIN world.tracks)
       \/ at[c] = "remember" /\ ~looking[c].alone
    /\ Answered(c, "error")
    /\ UNCHANGED <<world, clock, steps, memory, served, overlapped>>

(* The memory comes last: what it refuses the world has already seen. *)
Remember(c) ==
    /\ at[c] = "remember"
    /\ IF MemoryRefuses(memory, body[c].ts, body[c].distance)
       THEN /\ Answered(c, IF body[c].ts < memory.clock THEN "refused by memory" ELSE "refused by odometer")
            /\ UNCHANGED memory
       ELSE /\ memory' = Remembered(memory, body[c].ts, body[c].distance, 1, 50, MemorySize)
            /\ Answered(c, "accepted")
    /\ UNCHANGED <<world, clock, steps, served, overlapped>>

ResetRequest(c) ==
    /\ Arrives(c, "reset world")
    /\ UNCHANGED <<world, clock, steps, memory, body, answer, looking>>

ResetWorld(c) ==
    /\ at[c] = "reset world"
    /\ world' = NoWorld /\ clock' = Never /\ steps' = 0
    /\ Goes(c, "reset memory") /\ Looks(c, NotLooking)
    /\ UNCHANGED <<memory, body, answer, served, overlapped>>

(* Slip: a reset leaves the memory as it is. *)
ForgetsNothing(c) ==
    /\ at[c] = "reset memory"
    /\ Answered(c, "reset")
    /\ UNCHANGED <<world, clock, steps, memory, served, overlapped>>

ResetMemory(c) ==
    /\ at[c] = "reset memory"
    /\ memory' = NoMemory
    /\ Answered(c, "reset")
    /\ UNCHANGED <<world, clock, steps, served, overlapped>>

AutonomyNext ==
    \E c \in Callers :
        \/ Request(c) \/ CheckClock(c) \/ SetClock(c) \/ CheckWorld(c)
        \/ BeginUpdate(c) \/ Associate(c) \/ TakeUp(c) \/ BeginAging(c) \/ Age(c) \/ EndUpdate(c)
        \/ BreaksOff(c) \/ Remember(c)
        \/ ResetRequest(c) \/ ResetWorld(c) \/ ResetMemory(c)

AutonomySpec == AutonomyInit /\ [][AutonomyNext]_autonomyVars

-----------------------------------------------------------------------------
(* There are three clocks, and a request that fails has set some of them.  As
   long as requests come one at a time they stay in step all the same: the one
   that is asked first decides, and neither the tracker nor the memory refuses
   as too old a frame that it has let in, over any number of refusals,
   malformed frames and resets. *)
OneClockDecides ==
    overlapped \/ \A c \in Callers : answer[c] \notin {"refused by world", "refused by memory"}

(* When an update of the tracker ends, every credible detection of its frame is a
   track of its own, under a name of its own, and what else is a track was seen
   within stale_after_s: whatever other requests have done before, between the
   check of its clock and its first look at the tracks, or half-way, as long as none
   changes a track between its first look and its last. *)
TracksAreDetections ==
    [][\A c \in Callers : at[c] = "age" /\ at'[c] # "age" /\ looking[c].alone =>
         LET tracks == world.tracks
             hit == {id \in DOMAIN tracks : tracks[id].misses = 0} IN
         /\ Cardinality(hit) = Cardinality(Credible(FusedBy(c)))
         /\ \A id \in hit : tracks[id].last = body[c].ts
         /\ \A id \in DOMAIN tracks : body[c].ts - tracks[id].last <= StaleAfter]_autonomyVars
=============================================================================
