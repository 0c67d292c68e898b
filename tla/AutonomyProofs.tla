--------------------------- MODULE AutonomyProofs ---------------------------
(***************************************************************************)
(* Proofs about AutonomyService, for any callers and bodies and a memory   *)
(* of any size, and about HybridPlanner and PlanningWorld, for any scenes  *)
(* and frames, and about HardCases, for any bodies its models accept.      *)
(*                                                                         *)
(* While requests come one at a time, neither the tracker's clock nor the  *)
(* memory's is ever ahead of the one that is asked first, except between   *)
(* the two halves of a reset, when no frame is let in.                     *)
(*                                                                         *)
(* Every trajectory runs along a path and jerks no more than it may, which *)
(* bounds each term of its score, and that of a stop by less than what it  *)
(* costs any other to be outside of the design domain; and all but the     *)
(* risk of a fallback by less than what a risk of 0.22 costs.              *)
(*                                                                         *)
(* Each detection of a frame adds one to the tracks that were seen in it,  *)
(* whatever the detections, names and tracks are, as long as no other      *)
(* request changes a track in the meantime.                                *)
(*                                                                         *)
(* Each scenario that is taken, or left, keeps the choice so far one that  *)
(* passes nothing harder over; the least of some measured errors is there. *)
(***************************************************************************)
EXTENDS AutonomyService, HardCases, SequenceTheorems, FiniteSetTheorems, TLAPS
Order == INSTANCE WellFoundedInduction

Tracking == {"track", "associate", "store", "age", "remember"}
Stations == {"idle", "check clock", "set clock", "check world", "reset world", "reset memory"} \cup Tracking
Refusals == {"refused by world", "refused by memory"}

AutonomyTypeOK ==
    /\ clock \in Int /\ world.last \in Int /\ memory.clock \in Int
    /\ DOMAIN world = {"tracks", "nextId", "last"}
    /\ at \in [Callers -> Stations]
    /\ \A c \in Callers : body[c].ts \in Int /\ Never <= body[c].ts
    /\ Never <= clock
    /\ DOMAIN body = Callers /\ DOMAIN answer = Callers
    /\ overlapped \in BOOLEAN

OneAtATime ==
    /\ \A c, d \in Callers : at[c] # "idle" /\ at[d] # "idle" => c = d
    /\ world.last <= clock
    /\ (\A c \in Callers : at[c] # "reset memory") => memory.clock <= clock
    /\ \A c \in Callers : at[c] = "set clock" => clock <= body[c].ts
    /\ \A c \in Callers : at[c] \in {"check world"} \cup Tracking => clock = body[c].ts
    /\ \A c \in Callers : answer[c] \notin Refusals

AutonomyIInv == AutonomyTypeOK /\ (overlapped \/ OneAtATime)

(* What a step makes of the caller's state, and leaves of the others'. *)
LEMMA CallerGoes ==
    ASSUME AutonomyTypeOK, NEW c \in Callers, NEW to \in Stations, Goes(c, to)
    PROVE  /\ at' \in [Callers -> Stations] /\ at'[c] = to
           /\ \A d \in Callers \ {c} : at'[d] = at[d]
BY DEF Goes, AutonomyTypeOK

(* A caller that is answered has no request under way. *)
LEMMA CallerAnswered ==
    ASSUME AutonomyTypeOK, NEW c \in Callers, NEW what, Answered(c, what)
    PROVE  /\ at' \in [Callers -> Stations] /\ at'[c] = "idle"
           /\ \A d \in Callers \ {c} : at'[d] = at[d] /\ answer'[d] = answer[d] /\ body'[d] = body[d]
           /\ answer'[c] = what /\ DOMAIN answer' = Callers /\ DOMAIN body' = Callers
           /\ \A d \in Callers : body'[d].ts \in Int /\ Never <= body'[d].ts
<1>1. Never \in Int /\ NoBody.ts = Never /\ Never <= Never
  BY DEF Never, NoBody
<1> HIDE DEF Never, NoBody
<1> QED BY <1>1, CallerGoes DEF Answered, Goes, AutonomyTypeOK, Stations

(* An answer that is no refusal of the world or of the memory, to the one caller. *)
LEMMA AnsweredInStep ==
    ASSUME AutonomyTypeOK, OneAtATime, NEW c \in Callers, at[c] # "idle", NEW what, what \notin Refusals,
           Answered(c, what), world'.last <= clock', memory'.clock <= clock'
    PROVE  OneAtATime'
<1>1. \A d \in Callers : at'[d] = "idle"
  BY CallerAnswered DEF OneAtATime
<1>2. \A d \in Callers : answer'[d] \notin Refusals
  <2>1. answer'[c] = what /\ \A d \in Callers \ {c} : answer'[d] = answer[d]
    BY CallerAnswered
  <2> QED BY <2>1 DEF OneAtATime
<1> QED BY <1>1, <1>2 DEF OneAtATime, Tracking

(* The one caller goes on. *)
LEMMA GoesInStep ==
    ASSUME AutonomyTypeOK, OneAtATime, NEW c \in Callers, at[c] # "idle", NEW to \in Stations,
           Goes(c, to), UNCHANGED <<body, answer>>,
           to # "idle", world'.last <= clock',
           to # "reset memory" => memory'.clock <= clock',
           to = "set clock" => clock' <= body[c].ts,
           to \in {"check world"} \cup Tracking => clock' = body[c].ts
    PROVE  OneAtATime'
<1>1. at'[c] = to /\ \A d \in Callers \ {c} : at'[d] = "idle"
  BY CallerGoes DEF OneAtATime
<1> QED BY <1>1 DEF OneAtATime, Tracking

(* A request that comes while another one is under way overlaps it. *)
LEMMA ArrivesInStep ==
    ASSUME AutonomyTypeOK, OneAtATime, NEW c \in Callers, NEW first \in {"check clock", "reset world"},
           Arrives(c, first), UNCHANGED <<world, clock, memory, answer>>
    PROVE  overlapped' \/ OneAtATime'
<1> SUFFICES ASSUME ~overlapped' PROVE OneAtATime'
  OBVIOUS
<1>1. \A d \in Callers \ {c} : at[d] = "idle" /\ at'[d] = "idle"
  BY CallerGoes DEF Arrives, Stations
<1>2. at'[c] = first /\ at[c] = "idle"
  BY CallerGoes DEF Arrives, Stations
<1> QED BY <1>1, <1>2 DEF OneAtATime, Tracking

(* Times are in order. *)
LEMMA InOrder == \A x, y, z \in Int : x <= y /\ y <= z => x <= z
OBVIOUS

(* A time that is not later is as late or earlier. *)
LEMMA Reflexive == \A x, y \in Int : x <= x /\ (x <= y => ~(y < x))
OBVIOUS

(* The one caller, and the clocks it meets. *)
LEMMA CallerInStep ==
    ASSUME AutonomyTypeOK, OneAtATime, NEW c \in Callers, at[c] \notin {"idle", "reset memory"}
    PROVE  /\ world.last <= clock /\ memory.clock <= clock
           /\ at[c] = "set clock" => clock <= body[c].ts
           /\ at[c] \in {"check world"} \cup Tracking => clock = body[c].ts
           /\ at[c] \in {"set clock", "check world"} \cup Tracking =>
                world.last <= body[c].ts /\ memory.clock <= body[c].ts
<1>1. \A d \in Callers : at[d] # "reset memory"
  BY DEF OneAtATime
<1>2. /\ world.last <= clock /\ memory.clock <= clock
      /\ at[c] = "set clock" => clock <= body[c].ts
      /\ at[c] \in {"check world"} \cup Tracking => clock = body[c].ts
  BY <1>1 DEF OneAtATime
<1>4. clock \in Int /\ world.last \in Int /\ memory.clock \in Int /\ body[c].ts \in Int
  BY DEF AutonomyTypeOK
<1>5. ASSUME at[c] \in {"set clock", "check world"} \cup Tracking
      PROVE  world.last <= body[c].ts /\ memory.clock <= body[c].ts
  <2>1. clock <= body[c].ts
    BY <1>2, <1>4, <1>5, Reflexive
  <2> QED BY <1>2, <1>4, <2>1, InOrder
<1> QED BY <1>2, <1>5

(* What the steps of an update write leaves the tracker's clock as it is. *)
LEMMA ClockIsLeft ==
    ASSUME NEW w, DOMAIN w = {"tracks", "nextId", "last"}, NEW choice, NEW d, NEW id, NEW ts,
           NEW v \in {Begun(w, choice, d, ts), Continued(w, choice, d, ts), Unseen(w, id, ts)}
    PROVE  DOMAIN v = {"tracks", "nextId", "last"} /\ v.last = w.last
<1>1. CASE v = Begun(w, choice, d, ts)
  <2> DEFINE tracks == [i \in DOMAIN w.tracks \cup {choice.id} |->
                           IF i = choice.id THEN Started(d, ts, choice.nextId) ELSE w.tracks[i]]
  <2>1. v = [w EXCEPT !.tracks = tracks, !.nextId = choice.nextId]
    BY <1>1 DEF Begun
  <2> HIDE DEF tracks
  <2> QED BY <2>1
<1>2. CASE v = Continued(w, choice, d, ts)
  <2> DEFINE tracks == [w.tracks EXCEPT ![choice.id] = Filtered(@, d, ts)]
  <2>1. v = [w EXCEPT !.tracks = tracks]
    BY <1>2 DEF Continued
  <2> HIDE DEF tracks
  <2> QED BY <2>1
<1>3. CASE v = Unseen(w, id, ts)
  <2> DEFINE tracks == [i \in DOMAIN w.tracks \ {id} |-> w.tracks[i]]
             faded == [w.tracks EXCEPT ![id] = Faded(@)]
  <2>1. v \in {[w EXCEPT !.tracks = tracks], [w EXCEPT !.tracks = faded]}
    BY <1>3 DEF Unseen
  <2> HIDE DEF tracks, faded
  <2> QED BY <2>1
<1> QED BY <1>1, <1>2, <1>3

(* A step of an update sets the tracker's clock to that of the frame, or leaves it. *)
LEMMA UpdateInStep ==
    ASSUME AutonomyTypeOK, NEW c \in Callers, at[c] \in Tracking, UNCHANGED <<clock, memory, overlapped>>,
           DOMAIN world' = {"tracks", "nextId", "last"}, world'.last \in {world.last, body[c].ts},
           \/ \E to \in Tracking : Goes(c, to) /\ UNCHANGED <<body, answer>>
           \/ \E what : what \notin Refusals /\ Answered(c, what)
    PROVE  AutonomyTypeOK' /\ (OneAtATime => OneAtATime')
<1>1. world'.last \in Int
  BY DEF AutonomyTypeOK
<1>2. OneAtATime => memory'.clock <= clock' /\ clock' = body[c].ts /\ world'.last <= clock'
  <2>1. OneAtATime => /\ world.last <= clock /\ memory.clock <= clock /\ clock = body[c].ts
    BY CallerInStep DEF Tracking
  <2> QED BY <2>1, Reflexive DEF AutonomyTypeOK
<1>3. at[c] # "idle"
  BY DEF Tracking
<1>4. CASE \E to \in Tracking : Goes(c, to) /\ UNCHANGED <<body, answer>>
  <2>1. PICK to \in Tracking : Goes(c, to) /\ UNCHANGED <<body, answer>>
    BY <1>4
  <2>2. to \in Stations /\ to \notin {"idle", "reset memory", "set clock"}
    BY DEF Stations, Tracking
  <2>3. AutonomyTypeOK'
    BY <1>1, <2>1, <2>2, CallerGoes DEF AutonomyTypeOK
  <2> QED BY <1>2, <1>3, <2>1, <2>2, <2>3, GoesInStep
<1>5. CASE \E what : what \notin Refusals /\ Answered(c, what)
  <2>1. PICK what : what \notin Refusals /\ Answered(c, what)
    BY <1>5
  <2>2. AutonomyTypeOK'
    BY <1>1, <2>1, CallerAnswered DEF AutonomyTypeOK
  <2> QED BY <1>2, <1>3, <2>1, <2>2, AnsweredInStep
<1> QED BY <1>4, <1>5

(* Every step of an update keeps the invariant. *)
LEMMA UpdateKeeps ==
    ASSUME AutonomyTypeOK, NEW c \in Callers,
           BeginUpdate(c) \/ Associate(c) \/ TakeUp(c) \/ BeginAging(c) \/ Age(c) \/ EndUpdate(c) \/ BreaksOff(c)
    PROVE  AutonomyTypeOK' /\ (OneAtATime => OneAtATime') /\ UNCHANGED overlapped
<1>0. DOMAIN world = {"tracks", "nextId", "last"} /\ "error" \notin Refusals /\ "malformed" \notin Refusals
  BY DEF AutonomyTypeOK, Refusals
<1>1. CASE BeginUpdate(c)
  <2>1. /\ at[c] \in Tracking /\ UNCHANGED <<clock, memory, overlapped, body, answer>> /\ Goes(c, "associate")
        /\ world' = [world EXCEPT !.last = body[c].ts]
    BY <1>1 DEF BeginUpdate, Tracking
  <2>2. DOMAIN world' = {"tracks", "nextId", "last"} /\ world'.last = body[c].ts
    BY <1>0, <2>1
  <2> QED BY <2>1, <2>2, UpdateInStep DEF Tracking
<1>2. CASE Associate(c) \/ BeginAging(c)
  <2>1. /\ at[c] \in Tracking /\ UNCHANGED <<clock, memory, overlapped, body, answer, world>>
        /\ \E to \in Tracking : Goes(c, to)
    BY <1>2 DEF Associate, BeginAging, Tracking
  <2> QED BY <1>0, <2>1, UpdateInStep
<1>3. CASE TakeUp(c)
  <2>1. /\ at[c] \in Tracking /\ UNCHANGED <<clock, memory, overlapped>>
        /\ \/ /\ \E choice, d, ts :
                   world' \in {Begun(world, choice, d, ts), Continued(world, choice, d, ts)}
              /\ Goes(c, "associate") /\ UNCHANGED <<body, answer>>
           \/ Answered(c, "error") /\ UNCHANGED world
    BY <1>3 DEF TakeUp, Tracking
  <2>2. DOMAIN world' = {"tracks", "nextId", "last"} /\ world'.last = world.last
    BY <1>0, <2>1, ClockIsLeft
  <2> QED BY <1>0, <2>1, <2>2, UpdateInStep DEF Tracking
<1>4. CASE Age(c)
  <2>1. /\ at[c] = "age" /\ UNCHANGED <<clock, memory, overlapped, body, answer, at>>
        /\ UNCHANGED world \/ \E id, ts : world' = Unseen(world, id, ts)
    BY <1>4 DEF Age
  <2>2. Goes(c, "age") /\ "age" \in Tracking
    BY <2>1 DEF Goes, Tracking, AutonomyTypeOK
  <2>3. DOMAIN world' = {"tracks", "nextId", "last"} /\ world'.last = world.last
    BY <1>0, <2>1, ClockIsLeft
  <2> QED BY <2>1, <2>2, <2>3, UpdateInStep
<1>5. CASE EndUpdate(c) \/ BreaksOff(c)
  <2>1. /\ at[c] \in Tracking /\ UNCHANGED <<clock, memory, overlapped, world>>
        /\ \/ Goes(c, "remember") /\ UNCHANGED <<body, answer>>
           \/ Answered(c, "malformed") \/ Answered(c, "error")
    BY <1>5 DEF EndUpdate, BreaksOff, Tracking
  <2> QED BY <1>0, <2>1, UpdateInStep DEF Tracking
<1> QED BY <1>1, <1>2, <1>3, <1>4, <1>5

(* Every look of a request at the shared state keeps the invariant. *)
LEMMA AutonomyKeeps == ASSUME AutonomyIInv, [AutonomyNext]_autonomyVars PROVE AutonomyIInv'
<1> USE DEF AutonomyIInv
<1>0. Never \in Int /\ NoWorld.last = Never /\ NoMemory.clock = Never
      /\ DOMAIN NoWorld = {"tracks", "nextId", "last"}
  BY DEF Never, NoWorld, NoMemory
<1> DEFINE Keeps == AutonomyTypeOK' /\ (OneAtATime => overlapped' \/ OneAtATime') /\ (overlapped => overlapped')
<1>1. ASSUME NEW c \in Callers, Request(c) PROVE Keeps
  <2>1. Arrives(c, "check clock") /\ UNCHANGED <<world, clock, memory, answer>>
    BY <1>1 DEF Request
  <2>2. PICK b \in Bodies : body' = [body EXCEPT ![c] = b]
    BY <1>1 DEF Request
  <2>3. DOMAIN body' = Callers /\ \A d \in Callers : body'[d].ts \in Int /\ Never <= body'[d].ts
    <3>1. b.ts \in Nat
      BY BodiesAssumption
    <3>2. \A n \in Nat : Never <= n
      BY DEF Never
    <3> QED BY <2>2, <3>1, <3>2 DEF AutonomyTypeOK
  <2>4. at' \in [Callers -> Stations]
    BY <2>1, CallerGoes DEF Arrives, Stations, Tracking
  <2>5. overlapped' \in BOOLEAN /\ (overlapped => overlapped')
    BY <2>1 DEF Arrives, AutonomyTypeOK
  <2> QED BY <2>1, <2>3, <2>4, <2>5, ArrivesInStep DEF AutonomyTypeOK
<1>2. ASSUME NEW c \in Callers, ResetRequest(c) PROVE Keeps
  <2>1. Arrives(c, "reset world") /\ UNCHANGED <<world, clock, memory, answer, body>>
    BY <1>2 DEF ResetRequest
  <2>4. at' \in [Callers -> Stations]
    BY <2>1, CallerGoes DEF Arrives, Stations, Tracking
  <2>5. overlapped' \in BOOLEAN /\ (overlapped => overlapped')
    BY <2>1 DEF Arrives, AutonomyTypeOK
  <2> QED BY <2>1, <2>4, <2>5, ArrivesInStep DEF AutonomyTypeOK
<1>3. ASSUME NEW c \in Callers, CheckClock(c) PROVE Keeps
  <2>1. at[c] = "check clock" /\ UNCHANGED <<world, clock, memory, overlapped>>
    BY <1>3 DEF CheckClock
  <2>2. OneAtATime => memory.clock <= clock /\ world.last <= clock
    BY <2>1, CallerInStep DEF Tracking
  <2>3. CASE body[c].ts < clock
    <3>1. Answered(c, "refused by clock")
      BY <1>3, <2>3 DEF CheckClock
    <3> QED BY <2>1, <2>2, <3>1, CallerAnswered, AnsweredInStep DEF AutonomyTypeOK, Refusals
  <2>4. CASE ~(body[c].ts < clock)
    <3>1. Goes(c, "set clock") /\ UNCHANGED <<body, answer>>
      BY <1>3, <2>4 DEF CheckClock
    <3>2. clock <= body[c].ts
      BY <2>4 DEF AutonomyTypeOK
    <3> QED BY <2>1, <2>2, <3>1, <3>2, CallerGoes, GoesInStep DEF AutonomyTypeOK, Stations, Tracking
  <2> QED BY <2>3, <2>4
<1>4. ASSUME NEW c \in Callers, SetClock(c) PROVE Keeps
  <2>1. at[c] = "set clock" /\ clock' = body[c].ts /\ UNCHANGED <<world, memory, overlapped>>
        /\ clock' \in Int /\ Never <= clock'
    BY <1>4 DEF SetClock, AutonomyTypeOK
  <2>2. OneAtATime => memory.clock <= clock' /\ world.last <= clock'
    BY <2>1, CallerInStep DEF Tracking
  <2>3. CASE body[c].malformed = "early"
    <3>1. Answered(c, "malformed")
      BY <1>4, <2>3 DEF SetClock
    <3> QED BY <2>1, <2>2, <3>1, CallerAnswered, AnsweredInStep DEF AutonomyTypeOK, Refusals
  <2>4. CASE body[c].malformed # "early"
    <3>1. Goes(c, "check world") /\ UNCHANGED <<body, answer>>
      BY <1>4, <2>4 DEF SetClock
    <3> QED BY <2>1, <2>2, <3>1, CallerGoes, GoesInStep DEF AutonomyTypeOK, Stations, Tracking
  <2> QED BY <2>3, <2>4
<1>5. ASSUME NEW c \in Callers, CheckWorld(c) PROVE Keeps
  <2>1. at[c] = "check world" /\ UNCHANGED <<world, clock, memory, overlapped>>
    BY <1>5 DEF CheckWorld
  <2>2. OneAtATime => /\ memory.clock <= clock /\ world.last <= clock /\ clock = body[c].ts
                       /\ world.last <= body[c].ts
    BY <2>1, CallerInStep DEF Tracking
  <2>3. CASE body[c].ts < world.last
    <3>1. Answered(c, "refused by world")
      BY <1>5, <2>3 DEF CheckWorld
    <3>2. ~OneAtATime
      BY <2>2, <2>3 DEF AutonomyTypeOK
    <3> QED BY <2>1, <3>1, <3>2, CallerAnswered DEF AutonomyTypeOK
  <2>4. CASE ~(body[c].ts < world.last)
    <3>1. Goes(c, "track") /\ UNCHANGED <<body, answer>>
      BY <1>5, <2>4 DEF CheckWorld
    <3> QED BY <2>1, <2>2, <3>1, CallerGoes, GoesInStep DEF AutonomyTypeOK, Stations, Tracking
  <2> QED BY <2>3, <2>4
<1>6. ASSUME NEW c \in Callers,
             BeginUpdate(c) \/ Associate(c) \/ TakeUp(c) \/ BeginAging(c) \/ Age(c) \/ EndUpdate(c) \/ BreaksOff(c)
      PROVE  Keeps
  BY <1>6, UpdateKeeps
<1>7. ASSUME NEW c \in Callers, Remember(c) PROVE Keeps
  <2>1. /\ at[c] = "remember" /\ UNCHANGED <<world, clock, overlapped>> /\ body[c].ts \in Int
    BY <1>7 DEF Remember, AutonomyTypeOK
  <2>2. OneAtATime => /\ memory.clock <= clock /\ clock = body[c].ts /\ world.last <= clock
                       /\ memory.clock <= body[c].ts
    BY <2>1, CallerInStep DEF Tracking
  <2>3. CASE MemoryRefuses(memory, body[c].ts, body[c].distance)
    <3>1. /\ Answered(c, IF body[c].ts < memory.clock THEN "refused by memory" ELSE "refused by odometer")
          /\ UNCHANGED memory
      BY <1>7, <2>3 DEF Remember
    <3>2. OneAtATime => Answered(c, "refused by odometer")
      <4>1. OneAtATime => ~(body[c].ts < memory.clock)
        BY <2>1, <2>2, Reflexive DEF AutonomyTypeOK
      <4> QED BY <3>1, <4>1
    <3>3. AutonomyTypeOK'
      BY <2>1, <3>1, CallerAnswered DEF AutonomyTypeOK
    <3> QED BY <2>1, <2>2, <3>1, <3>2, <3>3, AnsweredInStep DEF Refusals
  <2>4. CASE ~MemoryRefuses(memory, body[c].ts, body[c].distance)
    <3>1. Answered(c, "accepted") /\ memory'.clock = body[c].ts
      BY <1>7, <2>4 DEF Remember, Remembered
    <3>2. OneAtATime => memory'.clock <= clock'
      BY <2>1, <2>2, <3>1, Reflexive
    <3> QED BY <3>2, <2>1, <2>2, <3>1, CallerAnswered, AnsweredInStep DEF AutonomyTypeOK, Refusals
  <2> QED BY <2>3, <2>4
<1>8. ASSUME NEW c \in Callers, ResetWorld(c) PROVE Keeps
  <2>1. /\ at[c] = "reset world" /\ world' = NoWorld /\ clock' = Never
        /\ Goes(c, "reset memory") /\ UNCHANGED <<memory, body, answer, overlapped>>
    BY <1>8 DEF ResetWorld
  <2>2. world'.last <= clock' /\ Never <= clock'
    BY <1>0, <2>1, Reflexive
  <2> QED BY <1>0, <2>1, <2>2, CallerGoes, GoesInStep DEF AutonomyTypeOK, Stations, Tracking
<1>9. ASSUME NEW c \in Callers, ResetMemory(c) PROVE Keeps
  <2>1. /\ at[c] = "reset memory" /\ memory' = NoMemory
        /\ Answered(c, "reset") /\ UNCHANGED <<world, clock, overlapped>>
    BY <1>9 DEF ResetMemory
  <2>2. OneAtATime => world.last <= clock /\ memory'.clock <= clock
    BY <1>0, <2>1 DEF OneAtATime, AutonomyTypeOK
  <2> QED BY <1>0, <2>1, <2>2, CallerAnswered, AnsweredInStep DEF AutonomyTypeOK, Refusals
<1>10. CASE UNCHANGED autonomyVars
  BY <1>10 DEF autonomyVars, AutonomyTypeOK, OneAtATime
<1>11. ASSUME AutonomyNext PROVE Keeps
  <2> HIDE DEF Keeps
  <2> QED BY <1>1, <1>2, <1>3, <1>4, <1>5, <1>6, <1>7, <1>8, <1>9, <1>11 DEF AutonomyNext
<1> QED BY <1>10, <1>11

(* The invariant holds in every state. *)
LEMMA AutonomyStarts == ASSUME AutonomyInit PROVE AutonomyIInv
<1>1. Never \in Int /\ NoWorld.last = Never /\ NoMemory.clock = Never /\ NoBody.ts = Never /\ Never <= Never
      /\ DOMAIN NoWorld = {"tracks", "nextId", "last"}
  BY DEF Never, NoWorld, NoMemory, NoBody
<1> HIDE DEF Never, NoWorld, NoMemory, NoBody
<1>2. AutonomyTypeOK
  BY <1>1 DEF AutonomyInit, AutonomyTypeOK, Stations
<1>3. OneAtATime
  BY <1>1 DEF AutonomyInit, OneAtATime, Refusals
<1> QED BY <1>2, <1>3 DEF AutonomyIInv

LEMMA AutonomyInvariance == AutonomySpec => []AutonomyIInv
BY AutonomyStarts, AutonomyKeeps, PTL DEF AutonomySpec

(* As long as no two requests overlap, neither the tracker nor the memory refuses as
   too old a frame that the runtime let in, over any refusals, malformed frames and
   resets. *)
THEOREM OneClockStaysFirst == AutonomySpec => []OneClockDecides
<1>1. AutonomyIInv => OneClockDecides
  BY DEF AutonomyIInv, OneAtATime, OneClockDecides, Refusals
<1> QED BY <1>1, AutonomyInvariance, PTL

-----------------------------------------------------------------------------
(* The order of the naturals is well founded, as a relation among others. *)
LEMMA LessThan == \E R : Order!IsWellFoundedOn(R, Nat) /\ \A i, j \in Nat : i < j => <<i, j>> \in R
<1> DEFINE R == Order!OpToRel(<, Nat)
<1>1. Order!IsWellFoundedOn(R, Nat)
  BY Order!NatLessThanWellFounded
<1>2. \A i, j \in Nat : i < j => <<i, j>> \in R
  BY DEF Order!OpToRel
<1> HIDE DEF R
<1> QED BY <1>1, <1>2

(* A set of naturals that is not empty has a least element. *)
LEMMA Least == ASSUME NEW T \in SUBSET Nat, NEW n \in T PROVE \E m \in T : \A k \in T : m <= k
<1>1. PICK R : Order!IsWellFoundedOn(R, Nat) /\ \A i, j \in Nat : i < j => <<i, j>> \in R
  BY LessThan
<1>2. \E x \in T : \A y \in T : ~(<<y, x>> \in R)
  <2>1. T \subseteq Nat /\ T # {} /\ Order!IsWellFoundedOn(R, Nat)
    BY <1>1
  <2> QED BY <2>1, Order!WFMin, Zenon
<1>3. PICK x \in T : \A y \in T : ~(<<y, x>> \in R)
  BY <1>2
<1>4. \A y \in T : x \in Nat /\ y \in Nat /\ ~(y < x)
  BY <1>1, <1>3
<1> QED BY <1>4

(* A set that has zero and the successor of each of its elements has them all. *)
LEMMA Induct ==
    ASSUME NEW S, 0 \in S, \A n \in Nat : n \in S => n + 1 \in S
    PROVE  Nat \subseteq S
<1> SUFFICES ASSUME NEW n \in Nat, n \notin S PROVE FALSE
  OBVIOUS
<1> DEFINE T == {k \in Nat : k \notin S}
<1>1. PICK m \in T : \A k \in T : m <= k
  BY Least
<1>2. m # 0 /\ m - 1 \in Nat
  BY <1>1
<1>3. m - 1 \in S
  BY <1>1, <1>2
<1>4. (m - 1) + 1 \in S
  BY <1>2, <1>3
<1> QED BY <1>1, <1>4

(* f starts with first and goes on by step, which keeps it in S. *)
IsRun(f, N, S, first, step) == f \in [0..N -> S] /\ f[0] = first /\ \A n \in 1..N : f[n] = step[n][f[n - 1]]
KeepsIn(N, S, step) == \A n \in 1..N : \A v \in S : step[n][v] \in S

(* A function that is computed one step after another from its first value. *)
LEMMA Unrolls ==
    ASSUME NEW N \in Nat, NEW S, NEW first \in S, NEW step, KeepsIn(N, S, step)
    PROVE  \E f : IsRun(f, N, S, first, step)
<1> DEFINE Upto(f, k) == f[0] = first /\ \A n \in 1..k : f[n] = step[n][f[n - 1]]
           T == {k \in Nat : k <= N => \E f \in [0..k -> S] : Upto(f, k)}
<1>1. 0 \in T
  <2>1. [n \in 0..0 |-> first] \in [0..0 -> S] /\ Upto([n \in 0..0 |-> first], 0)
    OBVIOUS
  <2> QED BY <2>1
<1>2. ASSUME NEW k \in Nat, k \in T PROVE k + 1 \in T
  <2> SUFFICES ASSUME k + 1 <= N PROVE \E f \in [0..(k + 1) -> S] : Upto(f, k + 1)
    OBVIOUS
  <2>1. PICK f \in [0..k -> S] : Upto(f, k)
    BY <1>2
  <2> DEFINE g == [n \in 0..(k + 1) |-> IF n = k + 1 THEN step[k + 1][f[k]] ELSE f[n]]
  <2>2. f[k] \in S /\ step[k + 1][f[k]] \in S
    BY <2>1 DEF KeepsIn
  <2>3. g \in [0..(k + 1) -> S]
    BY <2>2
  <2>4. \A n \in 0..k : g[n] = f[n]
    OBVIOUS
  <2>5. ASSUME NEW n \in 1..(k + 1) PROVE g[n] = step[n][g[n - 1]]
    <3>1. CASE n = k + 1
      BY <3>1, <2>4 DEF KeepsIn
    <3>2. CASE n \in 1..k
      BY <3>2, <2>1, <2>4
    <3> QED BY <3>1, <3>2
  <2>6. g[0] = first
    BY <2>1, <2>4
  <2> HIDE DEF g
  <2> QED BY <2>3, <2>5, <2>6
<1>3. N \in T
  <2> HIDE DEF T
  <2> QED BY <1>1, <1>2, Induct
<1>4. \E f \in [0..N -> S] : Upto(f, N)
  BY <1>3
<1> QED BY <1>4 DEF IsRun

(* What holds of its first value and is kept by each step holds of all its values. *)
LEMMA Stays ==
    ASSUME NEW N \in Nat, NEW S, NEW f, f[0] \in S, \A n \in 1..N : f[n - 1] \in S => f[n] \in S
    PROVE  \A n \in 0..N : f[n] \in S
<1> DEFINE T == {k \in Nat : k <= N => f[k] \in S}
<1>1. 0 \in T
  OBVIOUS
<1>2. ASSUME NEW k \in Nat, k \in T PROVE k + 1 \in T
  <2> SUFFICES ASSUME k + 1 <= N PROVE f[k + 1] \in S
    OBVIOUS
  <2>1. k + 1 \in 1..N /\ (k + 1) - 1 = k /\ f[k] \in S
    BY <1>2
  <2> QED BY <2>1
<1>3. Nat \subseteq T
  <2> HIDE DEF T
  <2> QED BY <1>1, <1>2, Induct
<1> QED BY <1>3

(* Root is a natural number, whatever it is the root of. *)
LEMMA RootIsNatural == ASSUME NEW n PROVE Root(n) \in Nat
<1> DEFINE next(k, r) == IF (r + Bits[k]) * (r + Bits[k]) <= n THEN r + Bits[k] ELSE r
           Is(f) == f = [k \in 0..15 |-> IF k = 0 THEN 0 ELSE next(k, f[k - 1])]
           step == [k \in 1..15 |-> [r \in Nat |-> next(k, r)]]
           From == CHOOSE f : Is(f)
<1>1. \A k \in 1..15 : \A r \in Nat : next(k, r) \in Nat
  <2>1. \A k \in 1..15 : Bits[k] \in Nat
    BY DEF Bits
  <2>2. \A k \in 1..15 : \A r \in Nat : r + Bits[k] \in Nat
    BY <2>1
  <2> QED BY <2>2, Zenon
<1>2. \E f : Is(f)
  <2> HIDE DEF next
  <2>1. \A k \in 1..15 : \A r \in Nat : step[k][r] = next(k, r)
    OBVIOUS
  <2>2. PICK f \in [0..15 -> Nat] : f[0] = 0 /\ \A k \in 1..15 : f[k] = step[k][f[k - 1]]
    <3>1. \A k \in 1..15 : \A r \in Nat : step[k][r] \in Nat
      BY <1>1, <2>1
    <3>2. 15 \in Nat /\ 0 \in Nat
      OBVIOUS
    <3> HIDE DEF step
    <3>3. KeepsIn(15, Nat, step)
      BY <3>1 DEF KeepsIn
    <3>4. \E f : IsRun(f, 15, Nat, 0, step)
      BY <3>2, <3>3, Unrolls
    <3> QED BY <3>4 DEF IsRun
  <2>3. \A k \in 1..15 : f[k] = next(k, f[k - 1])
    BY <2>1, <2>2
  <2>4. Is(f)
    BY <2>2, <2>3
  <2> QED BY <2>4
<1>3. Is(From)
  BY <1>2, Zenon
<1>4. From[15] \in Nat
  <2> HIDE DEF next
  <2>1. \A k \in 0..15 : From[k] = IF k = 0 THEN 0 ELSE next(k, From[k - 1])
    <3> HIDE DEF From
    <3> QED BY <1>3
  <2> HIDE DEF From
  <2>2. From[0] \in Nat /\ \A k \in 1..15 : From[k - 1] \in Nat => From[k] \in Nat
    <3>1. From[0] = 0
      BY <2>1
    <3>2. ASSUME NEW k \in 1..15, From[k - 1] \in Nat PROVE From[k] \in Nat
      <4>1. From[k] = next(k, From[k - 1])
        BY <2>1
      <4> QED BY <4>1, <3>2, <1>1, Zenon
    <3> QED BY <3>1, <3>2
  <2> QED BY <2>2, Stays
<1> QED BY <1>4 DEF Root

(* A mean of what lies between zero and a bound, weighted, lies between zero and the
   weighted bound. *)
LEMMA MeanIsBounded ==
    ASSUME NEW weight \in Nat, NEW of, NEW bound \in Nat, \A n \in 1..Points : of[n] \in 0..bound
    PROVE  Mean(weight, of) \in 0..(weight * bound)
<1> DEFINE Is(f) == f = [n \in 0..Points |-> IF n = 0 THEN 0 ELSE f[n - 1] + of[n]]
           step == [n \in 1..Points |-> [v \in Nat |-> v + of[n]]]
           sum == CHOOSE f : Is(f)
<1>1. Points = 25
  BY DEF Points
<1>2. \E f : Is(f)
  <2>1. KeepsIn(Points, Nat, step)
    <3>1. \A n \in 1..Points : of[n] \in Nat
      BY <1>1
    <3>2. \A n \in 1..Points : \A v \in Nat : step[n][v] = v + of[n]
      OBVIOUS
    <3>3. \A n \in 1..Points : \A v \in Nat : step[n][v] \in Nat
      BY <3>1, <3>2
    <3> HIDE DEF step
    <3> QED BY <3>3 DEF KeepsIn
  <2>2. PICK f : IsRun(f, Points, Nat, 0, step)
    <3> HIDE DEF step
    <3>1. Points \in Nat /\ 0 \in Nat
      BY <1>1
    <3> QED BY <2>1, <3>1, Unrolls
  <2>3. \A n \in 1..Points : f[n] = f[n - 1] + of[n]
    BY <1>1, <2>2 DEF IsRun
  <2>4. Is(f)
    BY <2>2, <2>3 DEF IsRun
  <2> QED BY <2>4
<1>3. \A n \in 0..Points : sum[n] = IF n = 0 THEN 0 ELSE sum[n - 1] + of[n]
  <2>1. Is(sum)
    BY <1>2, Zenon
  <2> HIDE DEF sum
  <2> QED BY <2>1
<1> DEFINE T == {n \in Nat : n <= Points => sum[n] \in 0..(n * bound)}
<1>4. 0 \in T
  <2> HIDE DEF sum
  <2> QED BY <1>1, <1>3
<1>5. ASSUME NEW n \in Nat, n \in T PROVE n + 1 \in T
  <2> HIDE DEF sum
  <2> SUFFICES ASSUME n + 1 <= Points PROVE sum[n + 1] \in 0..((n + 1) * bound)
    OBVIOUS
  <2>1. sum[n] \in Int /\ 0 <= sum[n] /\ sum[n] <= n * bound
    BY <1>1, <1>5
  <2>2. n + 1 \in 1..Points /\ sum[n + 1] = sum[n] + of[n + 1]
    <3>1. n + 1 \in 1..Points /\ n + 1 \in 0..Points /\ n + 1 # 0 /\ (n + 1) - 1 = n
      BY <1>1
    <3>2. sum[n + 1] = sum[(n + 1) - 1] + of[n + 1]
      BY <1>3, <3>1
    <3> QED BY <3>1, <3>2
  <2>3. of[n + 1] \in Int /\ 0 <= of[n + 1] /\ of[n + 1] <= bound
    BY <2>2
  <2>4. (n + 1) * bound = n * bound + bound /\ n * bound \in Int
    OBVIOUS
  <2> QED BY <2>1, <2>2, <2>3, <2>4
<1>6. sum[Points] \in 0..(25 * bound)
  <2>1. Points \in T
    <3> HIDE DEF T
    <3> QED BY <1>1, <1>4, <1>5, Induct
  <2>2. Points <= Points
    BY <1>1
  <2>3. sum[Points] \in 0..(Points * bound)
    <3> HIDE DEF sum
    <3> QED BY <2>1, <2>2
  <2>4. Points = 25
    BY <1>1
  <2> QED BY <2>3, <2>4, Zenon
<1>7. Mean(weight, of) = (weight * sum[Points]) \div Points
  BY DEF Mean
<1> HIDE DEF sum
<1>8. weight * sum[Points] \in 0..(25 * (weight * bound))
  <2>1. \A u, v, w \in Nat : u <= v => w * u <= w * v
    OBVIOUS
  <2> QED BY <1>6, <2>1
<1>9. \A v \in Nat, u \in Nat : v <= 25 * u => v \div 25 \in 0..u
  OBVIOUS
<1> QED BY <1>1, <1>7, <1>8, <1>9

-----------------------------------------------------------------------------
(* The greater and the lesser of two. *)
LEMMA OfTwo ==
    ASSUME NEW a \in Int, NEW b \in Int
    PROVE  /\ Max({a, b}) = IF a >= b THEN a ELSE b
           /\ Min({a, b}) = IF a <= b THEN a ELSE b
BY DEF Max, Min

(* What is clamped lies between the two bounds. *)
LEMMA ClampIsBetween ==
    ASSUME NEW v \in Int, NEW low \in Int, NEW high \in Int, low <= high
    PROVE  Clamp(v, low, high) \in low..high
BY OfTwo DEF Clamp

(* The clamps of the planner. *)
LEMMA ClampsAreBounds ==
    ASSUME NEW v \in Int
    PROVE  /\ Clamp(v, 0, MaxSpeed) \in Nat
           /\ Clamp(v, -HardDecel, MaxAccel) \in -9..4
           /\ Clamp(v, -ComfortDecel, MaxAccel) \in -5..4
           /\ Clamp(v, -MaxDelta, MaxDelta) \in -1..1
<1>1. /\ 0 \in Int /\ MaxSpeed \in Int /\ 0 <= MaxSpeed
      /\ -HardDecel \in Int /\ MaxAccel \in Int /\ -HardDecel <= MaxAccel
      /\ -ComfortDecel \in Int /\ -ComfortDecel <= MaxAccel
      /\ -MaxDelta \in Int /\ MaxDelta \in Int /\ -MaxDelta <= MaxDelta
  BY DEF MaxSpeed, HardDecel, MaxAccel, ComfortDecel, MaxDelta
<1>2. /\ Clamp(v, 0, MaxSpeed) \in 0..MaxSpeed
      /\ Clamp(v, -HardDecel, MaxAccel) \in -HardDecel..MaxAccel
      /\ Clamp(v, -ComfortDecel, MaxAccel) \in -ComfortDecel..MaxAccel
      /\ Clamp(v, -MaxDelta, MaxDelta) \in -MaxDelta..MaxDelta
  BY <1>1, ClampIsBetween, Zenon
<1> QED BY <1>2 DEF MaxSpeed, HardDecel, MaxAccel, ComfortDecel, MaxDelta

(* Nothing negative is left. *)
LEMMA AtLeastZero == ASSUME NEW v \in Int PROVE Max({0, v}) = IF 0 >= v THEN 0 ELSE v
<1>1. 0 \in Int
  OBVIOUS
<1> QED BY <1>1, OfTwo, Zenon

(* What is scaled is whole. *)
LEMMA ScaledIsInteger ==
    ASSUME NEW v \in Int, NEW n \in Nat, NEW d \in Nat \ {0}
    PROVE  Scaled(v, n, d) \in Int
BY DEF Scaled

(* A magnitude is not negative. *)
LEMMA MagnitudeIsNatural == ASSUME NEW v \in Int PROVE Magnitude(v) \in Nat
BY DEF Magnitude

-----------------------------------------------------------------------------
(* HybridPlanner: what run sees, where it may go, and how fast. *)
AreObjects(objects) == \A o \in objects : o.x \in Int /\ o.y \in Int /\ o.vx \in Int /\ o.vy \in Int
IsPath(path) == path.y \in Int /\ path.conf \in 0..100 /\ path.sharp \in BOOLEAN
IsTarget(t) == t.speed \in Nat /\ t.accel \in Int /\ -HardDecel <= t.accel

(* The object ahead, if there is one, is at some distance. *)
LEMMA LeadIsThere ==
    ASSUME NEW speed \in Int, NEW objects, AreObjects(objects), NEW path, IsPath(path)
    PROVE  \A l \in Lead(speed, objects, path) : l.distance \in Nat /\ l.closing \in Int
<1> DEFINE ahead == {o \in objects : o.x > 0 /\ Magnitude(o.y - path.y) <= PathGate}
           distance(o) == Hypot(o.x, o.y - path.y)
           closest == {o \in ahead : \A p \in ahead : distance(o) <= distance(p)}
           lead(o) == [distance |-> distance(o), closing |-> speed - o.vx]
<1>1. Lead(speed, objects, path) =
        {lead(o) : o \in IF closest = {} THEN {} ELSE {CHOOSE o \in closest : TRUE}}
  BY DEF Lead
<1>2. \A o \in objects : distance(o) \in Nat
  BY RootIsNatural DEF Hypot
<1>3. closest \subseteq objects
  OBVIOUS
<1>4. \A o \in objects : lead(o).distance \in Nat /\ lead(o).closing \in Int
  BY <1>2 DEF AreObjects
<1> HIDE DEF closest, lead
<1>5. closest # {} => (CHOOSE o \in closest : TRUE) \in objects
  BY <1>3
<1> QED BY <1>1, <1>4, <1>5

(* Whatever is wanted, a target is a speed that is not negative and no harder braking
   than there is. *)
LEMMA TargetsAreTargets ==
    ASSUME NEW s, IsScene(s), NEW speed \in Nat, NEW lead,
           \A l \in lead : l.distance \in Nat /\ l.closing \in Int
    PROVE  Targets(s, speed, lead) # {} /\ \A t \in Targets(s, speed, lead) : IsTarget(t)
<1> DEFINE cruise == Clamp(s.cruise, 0, MaxSpeed)
           own == [speed |-> cruise, accel |-> Clamp(Scaled(cruise - speed, 12, 100), -ComfortDecel, MaxAccel)]
           asked(w) == [speed |-> Clamp(w.speed, 0, MaxSpeed), accel |-> Clamp(w.accel, -HardDecel, MaxAccel)]
<1>1. MaxSpeed = 550 /\ ComfortDecel = 5 /\ HardDecel = 9 /\ MaxAccel = 4
  BY DEF MaxSpeed, ComfortDecel, HardDecel, MaxAccel
<1>2. cruise \in Nat /\ cruise \in Int
  <2>1. s.cruise \in Int
    BY DEF IsScene
  <2>2. cruise \in Nat
    BY <2>1, ClampsAreBounds, Zenon
  <2> QED BY <2>2
<1>3. IsTarget(own)
  <2>1. Scaled(cruise - speed, 12, 100) \in Int
    <3> HIDE DEF cruise
    <3>1. cruise - speed \in Int /\ 12 \in Nat /\ 100 \in Nat \ {0}
      BY <1>2
    <3> QED BY <3>1, ScaledIsInteger, Zenon
  <2>2. own.accel \in -5..4
    BY <2>1, ClampsAreBounds, Zenon
  <2> QED BY <1>1, <1>2, <2>2 DEF IsTarget
<1>4. ASSUME NEW w \in s.wanted PROVE IsTarget(asked(w))
  <2>1. w.speed \in Int /\ w.accel \in Int
    BY DEF IsScene
  <2>2. Clamp(w.speed, 0, MaxSpeed) \in Nat
    BY <2>1, ClampsAreBounds, Zenon
  <2>3. Clamp(w.accel, -HardDecel, MaxAccel) \in -9..4
    BY <2>1, ClampsAreBounds, Zenon
  <2> QED BY <1>1, <2>2, <2>3 DEF IsTarget
<1>5. ASSUME NEW l \in lead PROVE IsTarget(GapTarget(speed, cruise, l))
  <2> DEFINE error == l.distance - (200 + 9 * speed)
             follow == Max({0, Min({cruise, Max({0, speed - l.closing}) + Scaled(error, 7, 100)})})
             decel == Clamp(Scaled(follow - speed, 18, 100), -HardDecel, MaxAccel)
           slower == Max({0, speed - 5 * HardDecel})
  <2>1. error \in Int /\ Scaled(error, 7, 100) \in Int
    <3>1. error \in Int /\ 7 \in Nat /\ 100 \in Nat \ {0}
      OBVIOUS
    <3> QED BY <3>1, ScaledIsInteger, Zenon
  <2> HIDE DEF cruise
  <2>2. follow \in Nat
    <3> DEFINE free == Max({0, speed - l.closing}) + Scaled(error, 7, 100)
    <3>1. Max({0, speed - l.closing}) \in Int
      BY AtLeastZero
    <3>2. free \in Int
      BY <2>1, <3>1
    <3> HIDE DEF free
    <3>3. Min({cruise, free}) \in Int
      BY <1>2, <3>2, OfTwo
    <3>4. follow = Max({0, Min({cruise, free})})
      BY DEF free
    <3> DEFINE lower == Min({cruise, free})
    <3> HIDE DEF follow, lower
    <3>5. Max({0, lower}) = IF 0 >= lower THEN 0 ELSE lower
      BY <3>3, AtLeastZero, Zenon DEF lower
    <3> QED BY <3>3, <3>4, <3>5 DEF lower
  <2> HIDE DEF follow, error
  <2>3. decel \in -9..4
    <3>1. follow - speed \in Int /\ 18 \in Nat /\ 100 \in Nat \ {0}
      BY <2>2
    <3>2. Scaled(follow - speed, 18, 100) \in Int
      BY <3>1, ScaledIsInteger, Zenon
    <3> QED BY <3>2, ClampsAreBounds, Zenon
  <2>4. Min({follow, slower}) \in Nat
    <3>1. slower \in Nat
      BY <1>1, AtLeastZero
    <3> HIDE DEF slower
    <3>2. Min({follow, slower}) = IF follow <= slower THEN follow ELSE slower
      <4>1. follow \in Int /\ slower \in Int
        BY <2>2, <3>1
      <4> QED BY <4>1, OfTwo, Zenon
    <3> QED BY <2>2, <3>1, <3>2
  <2> HIDE DEF decel, slower
  <2>5. CASE IsCritical(l)
    <3>1. GapTarget(speed, cruise, l) = [speed |-> Min({follow, slower}), accel |-> -HardDecel]
      BY <2>5 DEF GapTarget, follow, error, slower
    <3> QED BY <1>1, <2>4, <3>1 DEF IsTarget
  <2>6. CASE ~IsCritical(l)
    <3>1. GapTarget(speed, cruise, l) = [speed |-> follow, accel |-> decel]
      BY <2>6 DEF GapTarget, follow, error, decel
    <3> QED BY <1>1, <2>2, <2>3, <3>1 DEF IsTarget
  <2> QED BY <2>5, <2>6
<1>6. Targets(s, speed, lead) = {own} \cup {GapTarget(speed, cruise, l) : l \in lead}
                                \cup {asked(w) : w \in {v \in s.wanted : v.conf >= MinModel}}
  BY DEF Targets
<1> HIDE DEF own, asked, cruise
<1> QED BY <1>3, <1>4, <1>5, <1>6

(* Of some targets one is chosen. *)
LEMMA TargetIsOne ==
    ASSUME NEW targets, targets # {}, \A t \in targets : IsTarget(t)
    PROVE  Target(targets) \in targets
<1>1. PICK t \in targets : \A u \in targets : t.speed <= u.speed
  <2> DEFINE speeds == {u.speed : u \in targets}
  <2>1. speeds \in SUBSET Nat /\ \E u \in targets : u.speed \in speeds
    BY DEF IsTarget
  <2> HIDE DEF speeds
  <2>2. PICK m \in speeds : \A k \in speeds : m <= k
    BY <2>1, Least
  <2> QED BY <2>2 DEF speeds
<1> DEFINE slowest == {u \in targets : u.speed = t.speed}
           brakings == {u.accel + HardDecel : u \in slowest}
<1>2. PICK v \in slowest : \A u \in slowest : v.accel <= u.accel
  <2>1. \A u \in targets : u.accel \in Int /\ HardDecel \in Int /\ u.accel + HardDecel \in Nat
    BY DEF IsTarget, HardDecel
  <2>2. brakings \in SUBSET Nat /\ t.accel + HardDecel \in brakings
    BY <2>1
  <2> HIDE DEF brakings
  <2>3. PICK m \in brakings : \A k \in brakings : m <= k
    BY <2>2, Least
  <2>4. PICK v \in slowest : m = v.accel + HardDecel
    BY <2>3 DEF brakings
  <2>5. \A u \in slowest : v.accel + HardDecel <= u.accel + HardDecel
    BY <2>3, <2>4 DEF brakings
  <2> QED BY <2>1, <2>4, <2>5
<1>3. \A u \in targets : v.speed < u.speed \/ (v.speed = u.speed /\ v.accel <= u.accel)
  <2> SUFFICES ASSUME NEW u \in targets PROVE v.speed < u.speed \/ (v.speed = u.speed /\ v.accel <= u.accel)
    OBVIOUS
  <2>1. u.speed \in Int /\ t.speed \in Int /\ t.speed <= u.speed /\ v.speed = t.speed
    BY <1>1 DEF IsTarget
  <2>2. CASE u.speed = t.speed
    BY <1>2, <2>1, <2>2
  <2> QED BY <2>1, <2>2
<1> QED BY <1>2, <1>3 DEF Target

(* How a vehicle may move, at first and after a step along a path. *)
AtFirst == [x : Int, speed : Int, accel : -9..4]
Along(path) == [t : Nat, x : Int, y : {path.y}, speed : Int, accel : -9..4, delta : -1..1,
                curvature : IF path.sharp THEN {0, SharpBend} ELSE {0}]

(* A step stays on the path, and jerks no more than it may. *)
LEMMA OnwardIsAlong ==
    ASSUME NEW path, IsPath(path), NEW target, IsTarget(target), NEW n \in Nat,
           NEW p, p.x \in Int, p.speed \in Int, p.accel \in -9..4
    PROVE  Onward(path, target, p, n) \in Along(path)
<1> DEFINE aim == Clamp(Scaled(target.speed - p.speed, 14, 100), -HardDecel, MaxAccel)
           delta == Clamp(Min({aim, target.accel}) - p.accel, -MaxDelta, MaxDelta)
           accel == Clamp(p.accel + delta, -HardDecel, MaxAccel)
           now == Clamp(p.speed + accel, 0, MaxSpeed)
           bend == IF path.sharp /\ n > 2 /\ now > 0 THEN SharpBend ELSE 0
<1>1. aim \in Int
  <2>1. target.speed - p.speed \in Int /\ 14 \in Nat /\ 100 \in Nat \ {0}
    BY DEF IsTarget
  <2>2. Scaled(target.speed - p.speed, 14, 100) \in Int
    BY <2>1, ScaledIsInteger, Zenon
  <2>3. aim \in -9..4
    BY <2>2, ClampsAreBounds, Zenon
  <2> QED BY <2>3
<1> HIDE DEF aim
<1>2. delta \in -1..1
  <2>1. Min({aim, target.accel}) = IF aim <= target.accel THEN aim ELSE target.accel
    BY <1>1, OfTwo, Zenon DEF IsTarget
  <2>2. Min({aim, target.accel}) - p.accel \in Int
    BY <1>1, <2>1 DEF IsTarget
  <2> QED BY <2>2, ClampsAreBounds, Zenon
<1> HIDE DEF delta
<1>3. accel \in -9..4 /\ accel - p.accel \in -1..1
  <2>1. p.accel + delta \in Int
    BY <1>2
  <2> DEFINE w == p.accel + delta
  <2>2. -HardDecel = -9 /\ MaxAccel = 4 /\ -9 \in Int /\ 4 \in Int
    BY DEF HardDecel, MaxAccel
  <2>3. accel = Max({-9, Min({4, w})})
    BY <2>2 DEF Clamp
  <2>4. accel = IF w > 4 THEN 4 ELSE IF w < -9 THEN -9 ELSE w
    <3> HIDE DEF w
    <3>1. Min({4, w}) = IF 4 <= w THEN 4 ELSE w
      BY <2>1, <2>2, OfTwo, Zenon DEF w
    <3>2. Min({4, w}) \in Int /\ w \in Int
      BY <2>1, <3>1 DEF w
    <3>3. Max({-9, Min({4, w})}) = IF -9 >= Min({4, w}) THEN -9 ELSE Min({4, w})
      BY <2>2, <3>2, OfTwo, Zenon
    <3> HIDE DEF accel
    <3> QED BY <2>3, <3>1, <3>2, <3>3
  <2> HIDE DEF accel
  <2> QED BY <1>2, <2>4 DEF w
<1> HIDE DEF accel
<1>4. now \in Int /\ p.x + now \in Int
  <2>1. p.speed + accel \in Int
    BY <1>3
  <2>2. now \in Nat
    BY <2>1, ClampsAreBounds, Zenon
  <2> QED BY <2>2
<1> HIDE DEF now
<1>5. bend \in IF path.sharp THEN {0, SharpBend} ELSE {0}
  OBVIOUS
<1> HIDE DEF bend
<1>6. Onward(path, target, p, n) = [t |-> n, x |-> p.x + now, y |-> path.y, speed |-> now, accel |-> accel,
                                   delta |-> accel - p.accel, curvature |-> bend]
  BY DEF Onward, aim, delta, accel, now, bend
<1> QED BY <1>3, <1>4, <1>5, <1>6 DEF Along

(* What a point is said to jerk is what it accelerates more than the one before. *)
IsSmooth(points) ==
    /\ DOMAIN points = 1..Points /\ Len(points) = Points
    /\ \A n \in 2..Points : points[n].delta = points[n].accel - points[n - 1].accel

(* So does every point of a trajectory, which is smooth. *)
LEMMA FollowingIsAlong ==
    ASSUME NEW path, IsPath(path), NEW speed \in Int, NEW target, IsTarget(target)
    PROVE  /\ \A n \in 1..Points : Following(path, speed, target)[n] \in Along(path)
           /\ IsSmooth(Following(path, speed, target))
<1> DEFINE S == AtFirst \cup Along(path)
           first == [x |-> 0, speed |-> Max({0, speed}), accel |-> 0]
           Is(f) == f = [n \in 0..Points |-> IF n = 0 THEN first ELSE Onward(path, target, f[n - 1], n)]
           step == [n \in 1..Points |-> [p \in S |-> Onward(path, target, p, n)]]
           After == CHOOSE f : Is(f)
<1>1. Points \in Nat
  BY DEF Points
<1>2. first \in S
  BY AtLeastZero DEF AtFirst
<1>3. \A n \in 1..Points : \A p \in S : Onward(path, target, p, n) \in Along(path)
  <2>1. \A n \in 1..Points : n \in Nat
    BY <1>1
  <2>2. \A p \in S : p.x \in Int /\ p.speed \in Int /\ p.accel \in -9..4
    BY DEF AtFirst, Along
  <2> QED BY <2>1, <2>2, OnwardIsAlong
<1> HIDE DEF first, S
<1>4. Along(path) \subseteq S
  BY DEF S
<1>5. \E f : Is(f)
  <2>1. \A n \in 1..Points : \A p \in S : step[n][p] = Onward(path, target, p, n)
    OBVIOUS
  <2>2. PICK f : IsRun(f, Points, S, first, step)
    <3>1. \A n \in 1..Points : \A p \in S : step[n][p] \in S
      BY <1>3, <1>4, <2>1
    <3> HIDE DEF step
    <3>2. KeepsIn(Points, S, step)
      BY <3>1 DEF KeepsIn
    <3> QED BY <1>1, <1>2, <3>2, Unrolls
  <2> HIDE DEF step
  <2>3. \A n \in 1..Points : f[n] = Onward(path, target, f[n - 1], n)
    <3> SUFFICES ASSUME NEW n \in 1..Points PROVE f[n] = Onward(path, target, f[n - 1], n)
      OBVIOUS
    <3>1. f[n - 1] \in S /\ f[n] = step[n][f[n - 1]]
      BY <1>1, <2>2 DEF IsRun
    <3> QED BY <2>1, <3>1
  <2>4. Is(f)
    BY <1>1, <2>2, <2>3 DEF IsRun
  <2> QED BY <2>4
<1>6. \A n \in 0..Points : After[n] = IF n = 0 THEN first ELSE Onward(path, target, After[n - 1], n)
  <2>1. Is(After)
    BY <1>5, Zenon
  <2> HIDE DEF After
  <2> QED BY <2>1
<1>7. Following(path, speed, target) = [n \in 1..Points |-> After[n]]
  BY DEF Following, first
<1> HIDE DEF After
<1>8. \A n \in 0..Points : After[n] \in S
  <2>1. After[0] \in S
    BY <1>1, <1>2, <1>6
  <2>2. ASSUME NEW n \in 1..Points, After[n - 1] \in S PROVE After[n] \in S
    <3>1. After[n] = Onward(path, target, After[n - 1], n)
      BY <1>1, <1>6
    <3> QED BY <1>3, <1>4, <2>2, <3>1
  <2> QED BY <1>1, <2>1, <2>2, Stays
<1>9. ASSUME NEW n \in 1..Points PROVE After[n] \in Along(path)
  <2>1. After[n] = Onward(path, target, After[n - 1], n) /\ n - 1 \in 0..Points
    BY <1>1, <1>6
  <2> QED BY <1>3, <1>8, <2>1
<1>10. ASSUME NEW n \in 2..Points PROVE After[n].delta = After[n].accel - After[n - 1].accel
  <2>1. After[n] = Onward(path, target, After[n - 1], n)
    BY <1>1, <1>6
  <2> QED BY <2>1 DEF Onward
<1>11. IsSmooth(Following(path, speed, target))
  <2> DEFINE points == [n \in 1..Points |-> After[n]]
  <2>1. DOMAIN points = 1..Points /\ Len(points) = Points
    BY <1>1
  <2>2. \A n \in 2..Points : points[n] = After[n] /\ points[n - 1] = After[n - 1]
    BY <1>1
  <2> HIDE DEF points
  <2>3. IsSmooth(points)
    BY <1>10, <2>1, <2>2 DEF IsSmooth
  <2> QED BY <1>7, <2>3 DEF points
<1> QED BY <1>7, <1>9, <1>11

-----------------------------------------------------------------------------
(* Proximity ends at a quarter of a metre. *)
LEMMA ProximityIsBounded == ASSUME NEW d \in Nat PROVE Proximity(d) \in 0..MaxProximity
<1> DEFINE divisor == Max({1, d})
           share == 50000 \div divisor
<1>1. divisor \in Nat \ {0}
  <2>1. 1 \in Int /\ d \in Int
    OBVIOUS
  <2>2. Max({1, d}) = IF 1 >= d THEN 1 ELSE d
    BY <2>1, OfTwo, Zenon
  <2> QED BY <2>2
<1> HIDE DEF divisor
<1>2. share \in Nat
  BY <1>1
<1> HIDE DEF share
<1>3. MaxProximity \in Nat /\ MaxProximity \in Int /\ share \in Int
  BY <1>2 DEF MaxProximity
<1>4. Proximity(d) = Min({MaxProximity, share})
  BY DEF Proximity, divisor, share
<1>5. Min({MaxProximity, share}) = IF MaxProximity <= share THEN MaxProximity ELSE share
  BY <1>3, OfTwo
<1> QED BY <1>2, <1>3, <1>4, <1>5

(* What a trajectory along a path scores at most, whatever is around it. *)
Most(path, reference) ==
    4 * MaxProximity + 30 * Magnitude(path.y - reference.y) + 625 + 2 * (IF path.sharp THEN SharpBend ELSE 0)
    + 15 * (100 - path.conf)

(* What bounds the terms, added up, bounds what they add up to. *)
LEMMA TermsAddUp ==
    ASSUME NEW p \in Nat, NEW q \in Nat, NEW r \in Nat, NEW t \in Nat, NEW more \in Nat,
           NEW i \in 0..p, NEW j \in 0..q, NEW k \in 0..r, NEW l \in 0..t
    PROVE  i + j + k + l + more \in 0..(p + q + r + t + more)
OBVIOUS

(* It scores no more than that. *)
LEMMA ScoreIsBounded ==
    ASSUME NEW path, IsPath(path), NEW c, c.conf = path.conf, \A n \in 1..Points : c.points[n] \in Along(path),
           NEW reference, reference.y \in Int, NEW objects
    PROVE  BaseScore(c, reference, objects) \in 0..Most(path, reference)
<1> DEFINE points == c.points
           near == {DistanceTo(o, points[n]) : o \in objects, n \in 1..Points}
           beside == [n \in 1..Points |-> Magnitude(points[n].y - reference.y)]
           jerks == [n \in 1..Points |-> Magnitude(points[n].delta)]
           bends == [n \in 1..Points |-> points[n].curvature]
           close == IF near = {} THEN 0 ELSE 4 * Proximity(Root(Min(near)))
           aside == Magnitude(path.y - reference.y)
           bend == IF path.sharp THEN SharpBend ELSE 0
<1>1. close \in 0..(4 * MaxProximity)
  <2> HIDE DEF near
  <2> DEFINE away == Root(Min(near))
             proximity == Proximity(away)
  <2>1. away \in Nat
    BY RootIsNatural, Zenon
  <2> HIDE DEF away
  <2>2. proximity \in 0..MaxProximity
    BY <2>1, ProximityIsBounded, Zenon
  <2>3. close = IF near = {} THEN 0 ELSE 4 * proximity
    BY DEF away
  <2> HIDE DEF proximity, close
  <2>4. MaxProximity \in Nat
    BY DEF MaxProximity
  <2>5. 0 \in 0..(4 * MaxProximity) /\ 4 * proximity \in 0..(4 * MaxProximity)
    BY <2>2, <2>4
  <2> QED BY <2>3, <2>5, Zenon
<1>2. aside \in Nat /\ Mean(30, beside) \in 0..(30 * aside)
  <2>1. aside \in Nat
    BY MagnitudeIsNatural DEF IsPath
  <2>2. \A n \in 1..Points : beside[n] \in 0..aside
    BY <2>1 DEF Along
  <2> HIDE DEF beside, aside
  <2>3. 30 \in Nat
    OBVIOUS
  <2> QED BY <2>1, <2>2, <2>3, MeanIsBounded, Zenon
<1>3. Mean(625, jerks) \in 0..625
  <2>1. \A n \in 1..Points : jerks[n] \in 0..1
    <3> SUFFICES ASSUME NEW n \in 1..Points PROVE jerks[n] \in 0..1
      OBVIOUS
    <3>1. points[n].delta \in -1..1
      BY DEF Along
    <3>2. \A d \in -1..1 : Magnitude(d) \in 0..1
      BY DEF Magnitude
    <3> QED BY <3>1, <3>2
  <2> HIDE DEF jerks
  <2> DEFINE weight == 625
  <2>2. weight \in Nat /\ 1 \in Nat
    OBVIOUS
  <2> HIDE DEF weight
  <2>3. Mean(weight, jerks) \in 0..(weight * 1)
    BY <2>1, <2>2, MeanIsBounded, Zenon
  <2> QED BY <2>3 DEF weight
<1>4. bend \in 0..300 /\ Mean(2, bends) \in 0..(2 * bend)
  <2>1. bend \in Nat /\ bend \in 0..300 /\ \A n \in 1..Points : bends[n] \in 0..bend
    BY DEF Along, SharpBend
  <2> HIDE DEF bends, bend
  <2>2. 2 \in Nat
    OBVIOUS
  <2> QED BY <2>1, <2>2, MeanIsBounded, Zenon
<1>5. 100 - path.conf \in 0..100
  BY DEF IsPath
<1>6. BaseScore(c, reference, objects) =
        close + Mean(30, beside) + Mean(625, jerks) + Mean(2, bends) + 15 * (100 - path.conf)
  BY DEF BaseScore
<1>7. Most(path, reference) = 4 * MaxProximity + 30 * aside + 625 + 2 * bend + 15 * (100 - path.conf)
  BY DEF Most
<1> DEFINE byPath == Mean(30, beside)  byJerk == Mean(625, jerks)  byBend == Mean(2, bends)
           doubt == 15 * (100 - path.conf)
           nearest == 4 * MaxProximity  farthest == 30 * aside  roughest == 625  sharpest == 2 * bend
<1>8. /\ nearest \in Nat /\ farthest \in Nat /\ roughest \in Nat /\ sharpest \in Nat /\ doubt \in Nat
      /\ close \in 0..nearest /\ byPath \in 0..farthest /\ byJerk \in 0..roughest /\ byBend \in 0..sharpest
  <2>1. nearest \in Nat /\ roughest \in Nat
    BY DEF MaxProximity
  <2>2. farthest \in Nat /\ byPath \in 0..farthest
    <3> HIDE DEF aside, beside
    <3> QED BY <1>2
  <2>3. sharpest \in Nat /\ byBend \in 0..sharpest
    <3> HIDE DEF bend, bends
    <3> QED BY <1>4
  <2>4. doubt \in Nat
    BY <1>5
  <2>5. close \in 0..nearest
    <3> HIDE DEF close
    <3> QED BY <1>1, Zenon
  <2>6. byJerk \in 0..roughest
    <3> HIDE DEF jerks
    <3> QED BY <1>3
  <2> HIDE DEF close, byPath, byJerk, byBend, doubt, nearest, farthest, roughest, sharpest
  <2> QED BY <2>1, <2>2, <2>3, <2>4, <2>5, <2>6
<1>9. /\ BaseScore(c, reference, objects) = close + byPath + byJerk + byBend + doubt
      /\ Most(path, reference) = nearest + farthest + roughest + sharpest + doubt
  BY <1>6, <1>7
<1> HIDE DEF close, byPath, byJerk, byBend, doubt, nearest, farthest, roughest, sharpest
<1>10. close + byPath + byJerk + byBend + doubt \in 0..(nearest + farthest + roughest + sharpest + doubt)
  BY <1>8, TermsAddUp, Zenon
<1> QED BY <1>9, <1>10, Zenon

-----------------------------------------------------------------------------
(* The candidates: trajectories along a path, the stop and others. *)
IsCandidate(c, path) ==
    /\ IsPath(path) /\ c.conf = path.conf
    /\ IsSmooth(c.points) /\ \A n \in 1..Points : c.points[n] \in Along(path)

(* Every trajectory that is made is one. *)
LEMMA TrajectoryIsCandidate ==
    ASSUME NEW generator, NEW path, IsPath(path), NEW speed \in Int, NEW target, IsTarget(target)
    PROVE  IsCandidate(Trajectory(generator, path, speed, target), path)
BY FollowingIsAlong DEF Trajectory, IsCandidate

(* The controlled stop is one, straight ahead. *)
LEMMA StopIsCandidate ==
    ASSUME NEW speed \in Int
    PROVE  /\ IsCandidate(ControlledStop(speed), StopPath)
           /\ ControlledStop(speed).generator = "controlled_stop"
<1>1. IsPath(StopPath)
  BY DEF IsPath, StopPath
<1>2. IsTarget([speed |-> 0, accel |-> -ComfortDecel])
  BY DEF IsTarget, ComfortDecel, HardDecel
<1>3. IsCandidate(ControlledStop(speed), StopPath)
  BY <1>1, <1>2, TrajectoryIsCandidate DEF ControlledStop
<1> QED BY <1>3 DEF ControlledStop, Trajectory

(* Two paths of which one has some confidence blend to a path. *)
LEMMA BlendIsPath ==
    ASSUME NEW lane, IsPath(lane), NEW model, IsPath(model), NEW sharp \in BOOLEAN, lane.conf > 0
    PROVE  IsPath(Blended(lane, model, sharp))
<1> DEFINE over == lane.y * lane.conf + model.y * model.conf
           total == lane.conf + model.conf
<1>1. lane.y \in Int /\ model.y \in Int /\ lane.conf \in 0..100 /\ model.conf \in 0..100
  BY DEF IsPath
<1>2. total \in Nat \ {0} /\ total \in 0..200 /\ over \in Int
  <2>1. total \in 1..200
    <3> DEFINE i == lane.conf  j == model.conf
    <3>1. i \in 0..100 /\ j \in 0..100 /\ i > 0 /\ total = i + j
      BY <1>1
    <3> HIDE DEF i, j, total
    <3> QED BY <3>1
  <2>2. \A i, j, k, l \in Int : i * j + k * l \in Int
    OBVIOUS
  <2> HIDE DEF total
  <2>3. lane.conf \in Int /\ model.conf \in Int
    BY <1>1
  <2>4. over \in Int
    BY <1>1, <2>2, <2>3, Zenon
  <2> QED BY <2>1, <2>4
<1>3. Blended(lane, model, sharp) =
        [y |-> over \div total, conf |-> total \div 2, sharp |-> IF lane.sharp = model.sharp THEN lane.sharp ELSE sharp]
  BY DEF Blended
<1> HIDE DEF over, total
<1>4. over \div total \in Int /\ total \div 2 \in 0..100
  BY <1>2
<1> QED BY <1>3, <1>4 DEF IsPath

Generators == {"lane_path", "model_path", "hybrid_path", "controlled_stop"}

(* Of every scene the candidates are trajectories along a path, and the only one that
   stops is the controlled stop. *)
LEMMA CandidatesOfScene ==
    ASSUME NEW s, IsScene(s), NEW speed \in Nat, NEW objects, AreObjects(objects)
    PROVE  /\ ControlledStop(speed) \in Candidates(s, speed, objects)
           /\ \A c \in Candidates(s, speed, objects) :
                 /\ c.generator \in Generators /\ \E path : IsCandidate(c, path)
                 /\ c.generator = "controlled_stop" => c = ControlledStop(speed)
<1> DEFINE lead == Lead(speed, objects, Reference(s))
           target == Target(Targets(s, speed, lead))
           byLane == s.lane.conf >= MinLane
           byModel == s.model.conf >= MinModel /\ ~s.modelStale
           along(name, path, usable) ==
               {Trajectory(name, path, speed, target) : once \in IF usable THEN {1} ELSE {}}
           blend == Blended(s.lane, s.model, s.sharpBlend)
<1>1. speed \in Int
  OBVIOUS
<1>2. IsPath(s.lane) /\ IsPath(s.model) /\ IsPath(Reference(s)) /\ s.sharpBlend \in BOOLEAN
  <2>1. IsPath(s.lane) /\ IsPath(s.model) /\ s.sharpBlend \in BOOLEAN
    BY Zenon DEF IsPath, IsScene
  <2> QED BY <2>1, Zenon DEF Reference
<1>3. IsTarget(target)
  <2>1. \A l \in lead : l.distance \in Nat /\ l.closing \in Int
    BY <1>1, <1>2, LeadIsThere, Zenon
  <2> HIDE DEF lead
  <2>2. Targets(s, speed, lead) # {} /\ \A t \in Targets(s, speed, lead) : IsTarget(t)
    BY <2>1, TargetsAreTargets, Zenon
  <2>3. target \in Targets(s, speed, lead)
    BY <2>2, TargetIsOne, Zenon
  <2> QED BY <2>2, <2>3
<1>4. Candidates(s, speed, objects) =
        along("lane_path", s.lane, byLane) \cup along("model_path", s.model, byModel)
        \cup along("hybrid_path", blend, byLane /\ byModel) \cup {ControlledStop(speed)}
  BY DEF Candidates, Towards
<1> HIDE DEF target
<1>5. \A name, path : IsPath(path) => IsCandidate(Trajectory(name, path, speed, target), path)
  BY <1>1, <1>3, TrajectoryIsCandidate, Zenon
<1>6. ASSUME NEW c \in Candidates(s, speed, objects), c # ControlledStop(speed)
      PROVE  (\E path : IsCandidate(c, path)) /\ c.generator \in Generators \ {"controlled_stop"}
  <2>1. PICK name, path : /\ name \in {"lane_path", "model_path", "hybrid_path"}
                          /\ IsPath(path) /\ c = Trajectory(name, path, speed, target)
    <3>1. CASE c \in along("lane_path", s.lane, byLane)
      BY <3>1, <1>2
    <3>2. CASE c \in along("model_path", s.model, byModel)
      BY <3>2, <1>2
    <3>3. CASE c \in along("hybrid_path", blend, byLane /\ byModel)
      <4>1. byLane
        BY <3>3
      <4>2. s.lane.conf > 0
        BY <1>2, <4>1 DEF IsPath, MinLane
      <4>3. IsPath(blend)
        BY <1>2, <4>2, BlendIsPath, Zenon
      <4> HIDE DEF blend, byLane, byModel
      <4> QED BY <3>3, <4>3
    <3> HIDE DEF along
    <3> QED BY <1>4, <1>6, <3>1, <3>2, <3>3
  <2>2. c.generator = name
    BY <2>1 DEF Trajectory
  <2> QED BY <1>5, <2>1, <2>2 DEF Generators
<1>7. /\ \E path : IsCandidate(ControlledStop(speed), path)
      /\ ControlledStop(speed).generator = "controlled_stop"
  BY <1>1, StopIsCandidate, Zenon
<1>8. ControlledStop(speed) \in Candidates(s, speed, objects)
  <2> HIDE DEF along
  <2> QED BY <1>4
<1> QED BY <1>6, <1>7, <1>8 DEF Generators

(* The stop scores less than what being outside of the design domain costs any other,
   as long as the reference is near. *)
LEMMA StopScoresLess ==
    ASSUME NEW speed \in Int, NEW reference, reference.y \in Int, Magnitude(reference.y) <= Near,
           NEW objects, NEW c, NEW path, IsCandidate(c, path), c.generator # "controlled_stop"
    PROVE  /\ BaseScore(ControlledStop(speed), reference, objects) + Penalties("controlled_stop", TRUE, {}) \in Int
           /\ BaseScore(c, reference, objects) + Penalties(c.generator, TRUE, {}) \in Int
           /\ BaseScore(ControlledStop(speed), reference, objects) + Penalties("controlled_stop", TRUE, {})
                < BaseScore(c, reference, objects) + Penalties(c.generator, TRUE, {})
<1>1. BaseScore(ControlledStop(speed), reference, objects) \in 0..Most(StopPath, reference)
  <2>1. IsCandidate(ControlledStop(speed), StopPath)
    BY StopIsCandidate, Zenon
  <2> QED BY <2>1, ScoreIsBounded, Zenon DEF IsCandidate
<1>2. BaseScore(c, reference, objects) \in 0..Most(path, reference)
  BY ScoreIsBounded, Zenon DEF IsCandidate
<1>3. Most(StopPath, reference) \in Int /\ Most(StopPath, reference) <= 91625
  <2>1. StopPath.y = 0 /\ StopPath.conf = 100 /\ StopPath.sharp = FALSE
    BY DEF StopPath
  <2>2. Magnitude(0 - reference.y) = Magnitude(reference.y)
    BY DEF Magnitude
  <2> DEFINE m == Magnitude(reference.y)
  <2>3. m \in Nat /\ m <= 2500
    BY MagnitudeIsNatural DEF Near
  <2>4. Most(StopPath, reference) = 16000 + 30 * m + 625
    BY <2>1, <2>2, <2>3 DEF Most, MaxProximity
  <2> HIDE DEF m
  <2> QED BY <2>3, <2>4
<1> DEFINE stop == BaseScore(ControlledStop(speed), reference, objects)
           other == BaseScore(c, reference, objects)
<1>4. stop \in Int /\ stop <= 91625 /\ other \in Nat
  <2> DEFINE m == Most(StopPath, reference)
  <2> HIDE DEF m, stop, other
  <2> QED BY <1>1, <1>2, <1>3 DEF m, stop, other
<1> DEFINE p == Penalties("controlled_stop", TRUE, {})
           q == Penalties(c.generator, TRUE, {})
<1>5. p = 2000 /\ q = 100000
  BY DEF Penalties
<1> HIDE DEF stop, other, p, q
<1>6. stop + p \in Int /\ other + q \in Int /\ stop + p < other + q
  BY <1>4, <1>5
<1> QED BY <1>6 DEF stop, other, p, q

TheStop(judged) == CHOOSE j \in judged : j.trajectory.generator = "controlled_stop"
Passing(judged) == {j \in judged : j.reasons = {}}

(* So it is selected when nothing is wrong with it. *)
LEMMA StopIsSelected ==
    ASSUME NEW s, IsScene(s), NEW odd, odd # {}, Magnitude(Reference(s).y) <= Near,
           NEW judged, judged = Judged(s, SeenObjects(s), odd),
           TheStop(judged).reasons = {}
    PROVE  Selection(judged, Passing(judged)) = TheStop(judged)
<1> DEFINE speed == Clamp(s.speed, 0, MaxSpeed)
           objects == SeenObjects(s)
           all == Candidates(s, speed, objects)
           reasons(c) == Guardian(c, objects, s.worldStale)
           judge(c) == [trajectory |-> c, reasons |-> reasons(c),
                        score |-> BaseScore(c, Reference(s), objects) + Penalties(c.generator, odd # {}, reasons(c))]
           passing == {j \in judged : j.reasons = {}}
           stop == TheStop(judged)
<1>1. speed \in Nat /\ speed \in Int
  <2>1. s.speed \in Int
    BY DEF IsScene
  <2>2. speed \in Nat
    BY <2>1, ClampsAreBounds, Zenon
  <2> QED BY <2>2
<1>2. AreObjects(objects) /\ Reference(s).y \in Int
  BY DEF AreObjects, SeenObjects, Reference, IsScene
<1>3. judged = {judge(c) : c \in all}
  BY DEF Judged
<1> HIDE DEF speed, objects
<1>4. /\ ControlledStop(speed) \in all
      /\ \A c \in all : /\ \E path : IsCandidate(c, path)
                        /\ c.generator = "controlled_stop" => c = ControlledStop(speed)
  BY <1>1, <1>2, CandidatesOfScene, Zenon
<1>5. ControlledStop(speed).generator = "controlled_stop"
  BY <1>1, StopIsCandidate, Zenon
<1> HIDE DEF all, reasons
<1>6. \A c : /\ judge(c).trajectory = c /\ judge(c).reasons = reasons(c)
             /\ judge(c).score = BaseScore(c, Reference(s), objects) + Penalties(c.generator, odd # {}, reasons(c))
  OBVIOUS
<1> HIDE DEF judge
<1>7. stop = judge(ControlledStop(speed))
  <2>1. judge(ControlledStop(speed)) \in judged
    BY <1>3, <1>4
  <2>2. \A j \in judged : j.trajectory.generator = "controlled_stop" => j = judge(ControlledStop(speed))
    BY <1>3, <1>4, <1>6
  <2>3. judge(ControlledStop(speed)).trajectory.generator = "controlled_stop"
    BY <1>5, <1>6
  <2>4. stop \in judged /\ stop.trajectory.generator = "controlled_stop"
    BY <2>1, <2>3, Zenon DEF TheStop
  <2> QED BY <2>2, <2>4
<1>8. stop \in passing
  BY <1>3, <1>4, <1>7
<1>9. ASSUME NEW k \in passing, k # stop
      PROVE  stop.score \in Int /\ k.score \in Int /\ stop.score < k.score
  <2>1. PICK c \in all : k = judge(c)
    BY <1>3
  <2>2. c.generator # "controlled_stop"
    BY <1>4, <1>7, <1>9, <2>1
  <2>3. reasons(c) = {} /\ reasons(ControlledStop(speed)) = {} /\ (odd # {}) = TRUE
    BY <1>6, <1>7, <2>1
  <2>4. PICK path : IsCandidate(c, path)
    BY <1>4
  <2>5. /\ stop.score = BaseScore(ControlledStop(speed), Reference(s), objects) + Penalties("controlled_stop", TRUE, {})
        /\ k.score = BaseScore(c, Reference(s), objects) + Penalties(c.generator, TRUE, {})
    BY <1>5, <1>6, <1>7, <2>1, <2>3, Zenon
  <2> DEFINE stopping == BaseScore(ControlledStop(speed), Reference(s), objects) + Penalties("controlled_stop", TRUE, {})
             other == BaseScore(c, Reference(s), objects) + Penalties(c.generator, TRUE, {})
  <2>6. stopping \in Int /\ other \in Int /\ stopping < other
    BY <1>1, <1>2, <2>2, <2>4, StopScoresLess, Zenon
  <2> HIDE DEF stopping, other
  <2> QED BY <2>5, <2>6 DEF stopping, other
<1> DEFINE Leads(j) == \A k \in passing :
              \/ j.score < k.score
              \/ j.score = k.score /\ MadeBefore(j.trajectory.generator, k.trajectory.generator)
<1>10. Selection(judged, passing) = CHOOSE j \in passing : Leads(j)
  BY <1>8 DEF Selection
<1>11. Leads(stop)
  <2>1. MadeBefore(stop.trajectory.generator, stop.trajectory.generator)
    <3>1. MadeBefore("controlled_stop", "controlled_stop")
      BY DEF MadeBefore
    <3>2. stop.trajectory.generator = "controlled_stop"
      BY <1>5, <1>6, <1>7
    <3> QED BY <3>1, <3>2
  <2> QED BY <1>9, <2>1
<1>12. ASSUME NEW j \in passing, Leads(j) PROVE j = stop
  <2> SUFFICES ASSUME j # stop PROVE FALSE
    OBVIOUS
  <2>1. stop.score \in Int /\ j.score \in Int /\ stop.score < j.score
    BY <1>9
  <2>2. j.score < stop.score \/ j.score = stop.score
    BY <1>8, <1>12, Zenon
  <2> QED BY <2>1, <2>2
<1> HIDE DEF Leads, passing
<1> QED BY <1>8, <1>10, <1>11, <1>12 DEF passing, Passing

(* Outside of the design domain the planner stops whenever stopping is safe, whatever
   it is called with: what the weights of score add up to stays below the penalty. *)
THEOREM StopsWhenOutside == HybridSpec => []StopsOutsideOdd
<1> DEFINE Inv == scene # <<>> => scene \in Scenes /\ planned = RunHybrid(scene)
<1>1. HybridInit => Inv
  BY DEF HybridInit
<1>2. Inv /\ [HybridNext]_hybridVars => Inv'
  BY DEF HybridNext, HybridRun, hybridVars
<1>3. Inv => StopsOutsideOdd
  <2> DEFINE odd == OddReasons(scene)
             judged == planned.judged
  <2> SUFFICES ASSUME Inv, scene # <<>>, Magnitude(Reference(scene).y) <= Near,
                      planned.odd # {}, TheStop(judged).reasons = {}
               PROVE  planned.selected = TheStop(judged)
    BY DEF StopsOutsideOdd, TheStop
  <2>1. IsScene(scene) /\ planned = Run(odd, Judged(scene, SeenObjects(scene), odd))
    BY ScenesAssumption DEF RunHybrid
  <2>2. /\ planned.odd = odd /\ judged = Judged(scene, SeenObjects(scene), odd)
        /\ planned.selected = Selection(judged, Passing(judged))
    BY <2>1 DEF Run, Passing
  <2> HIDE DEF odd, judged
  <2>3. Selection(judged, Passing(judged)) = TheStop(judged)
    BY <2>1, <2>2, StopIsSelected, Zenon
  <2> QED BY <2>2, <2>3
<1> QED BY <1>1, <1>2, <1>3, PTL DEF HybridSpec

-----------------------------------------------------------------------------
(***************************************************************************)
(* PlanningWorld, for any frames with confidences between none and         *)
(* certainty.                                                              *)
(*                                                                         *)
(* All that the score of a trajectory weighs but its risk is not negative, *)
(* and for the fallback, which runs along one path and jerks no more than  *)
(* it may, it adds up to less than 220 thousandths of risk count.          *)
(***************************************************************************)
(* The sum of what f gives to the elements of s, one of them apart. *)
Summed(f, sum, s) == IF s = {} THEN 0 ELSE LET x == CHOOSE x \in s : TRUE IN f[x] + sum[s \ {x}]
IsSum(f, sum) == sum = [s \in SUBSET DOMAIN f |-> Summed(f, sum, s)]

(* There is such a sum, of a function of finitely many things. *)
LEMMA SumUnfolds == ASSUME NEW f, IsFiniteSet(DOMAIN f) PROVE \E sum : IsSum(f, sum)
<1> DEFINE D == DOMAIN f
           Upto(k) == {s \in SUBSET D : Cardinality(s) <= k}
           Is(sum, k) == sum = [s \in Upto(k) |-> Summed(f, sum, s)]
           T == {k \in Nat : \E sum : Is(sum, k)}
<1>1. \A s \in SUBSET D : IsFiniteSet(s) /\ Cardinality(s) \in Nat /\ Cardinality(s) <= Cardinality(D)
  BY FS_Subset, FS_CardinalityType
<1>2. ASSUME NEW s \in SUBSET D, s # {}
      PROVE  LET x == CHOOSE x \in s : TRUE IN
             s \ {x} \in SUBSET D /\ Cardinality(s \ {x}) = Cardinality(s) - 1
  <2>1. (CHOOSE x \in s : TRUE) \in s
    BY <1>2
  <2> QED BY <1>1, <2>1, FS_RemoveElement
<1> HIDE DEF D
<1>3. 0 \in T
  <2> DEFINE sum == [s \in Upto(0) |-> 0]
  <2>1. \A s \in Upto(0) : s = {}
    BY <1>1, FS_EmptySet
  <2>2. \A s \in Upto(0) : Summed(f, sum, s) = 0
    BY <2>1 DEF Summed
  <2>3. Is(sum, 0)
    BY <2>2
  <2> QED BY <2>3
<1>4. ASSUME NEW k \in Nat, k \in T PROVE k + 1 \in T
  <2>1. PICK g : Is(g, k)
    BY <1>4
  <2> DEFINE sum == [s \in Upto(k + 1) |-> Summed(f, g, s)]
  <2>2. ASSUME NEW s \in Upto(k) PROVE s \in Upto(k + 1) /\ sum[s] = g[s]
    <3>1. s \in Upto(k + 1)
      BY <1>1
    <3>2. g[s] = Summed(f, g, s)
      BY <2>1
    <3> QED BY <3>1, <3>2
  <2> HIDE DEF sum
  <2>3. ASSUME NEW s \in Upto(k + 1) PROVE Summed(f, g, s) = Summed(f, sum, s)
    <3>1. CASE s = {}
      BY <3>1 DEF Summed
    <3>2. CASE s # {}
      <4> DEFINE x == CHOOSE x \in s : TRUE
      <4>1. s \ {x} \in SUBSET D /\ Cardinality(s \ {x}) = Cardinality(s) - 1
        BY <1>2, <3>2
      <4>2. s \ {x} \in Upto(k)
        BY <1>1, <4>1
      <4>3. sum[s \ {x}] = g[s \ {x}]
        BY <2>2, <4>2
      <4> QED BY <4>3 DEF Summed
    <3> QED BY <3>1, <3>2
  <2>4. Is(sum, k + 1)
    BY <2>3 DEF sum
  <2> HIDE DEF Is
  <2>5. k + 1 \in Nat /\ \E h : Is(h, k + 1)
    BY <2>4
  <2> QED BY <2>5
<1>5. Cardinality(D) \in T
  <2>1. D \in SUBSET D /\ Cardinality(D) \in Nat
    BY <1>1
  <2> HIDE DEF T
  <2> QED BY <1>3, <1>4, <2>1, Induct
<1>6. Upto(Cardinality(D)) = SUBSET D
  BY <1>1
<1>7. \E sum : Is(sum, Cardinality(D))
  BY <1>5
<1> HIDE DEF Upto
<1> QED BY <1>6, <1>7 DEF IsSum, D

(* What holds of nothing, and goes on holding with each value that is added, holds of
   the sum.  It may speak of how many there are. *)
StaysWithin(f, within) ==
    0 \in within[0] /\ \A k \in Nat : \A x \in DOMAIN f : \A v \in within[k] : f[x] + v \in within[k + 1]

LEMMA SumKeeps ==
    ASSUME NEW f, IsFiniteSet(DOMAIN f), NEW within, StaysWithin(f, within)
    PROVE  SumOf(f) \in within[Cardinality(DOMAIN f)]
<1> DEFINE D == DOMAIN f
           sum == CHOOSE sum : IsSum(f, sum)
           T == {k \in Nat : \A s \in SUBSET D : Cardinality(s) = k => sum[s] \in within[k]}
<1>1. SumOf(f) = sum[D]
  BY DEF SumOf, FoldFunction, FoldFunctionOnSet, MapThenFoldSet, IsSum, Summed
<1>2. \A s \in SUBSET D : sum[s] = Summed(f, sum, s)
  <2>1. IsSum(f, sum)
    BY SumUnfolds, Zenon
  <2> HIDE DEF sum
  <2> QED BY <2>1 DEF IsSum
<1> HIDE DEF sum
<1>3. \A s \in SUBSET D : IsFiniteSet(s) /\ Cardinality(s) \in Nat
  BY FS_Subset, FS_CardinalityType
<1>4. ASSUME NEW s \in SUBSET D, s # {}
      PROVE  LET x == CHOOSE x \in s : TRUE IN
             /\ x \in D /\ s \ {x} \in SUBSET D /\ Cardinality(s \ {x}) = Cardinality(s) - 1
             /\ sum[s] = f[x] + sum[s \ {x}]
  <2>1. (CHOOSE x \in s : TRUE) \in s
    BY <1>4
  <2>2. sum[s] = LET x == CHOOSE x \in s : TRUE IN f[x] + sum[s \ {x}]
    BY <1>2, <1>4 DEF Summed
  <2> QED BY <1>3, <2>1, <2>2, FS_RemoveElement
<1>5. 0 \in T
  <2>1. \A s \in SUBSET D : Cardinality(s) = 0 => s = {}
    BY <1>3, FS_EmptySet
  <2>2. {} \in SUBSET D => sum[{}] = 0
    BY <1>2 DEF Summed
  <2> QED BY <2>1, <2>2 DEF StaysWithin
<1>6. ASSUME NEW k \in Nat, k \in T PROVE k + 1 \in T
  <2> SUFFICES ASSUME NEW s \in SUBSET D, Cardinality(s) = k + 1 PROVE sum[s] \in within[k + 1]
    OBVIOUS
  <2> DEFINE x == CHOOSE x \in s : TRUE
  <2>1. s # {}
    <3>1. Cardinality({}) = 0
      BY FS_EmptySet
    <3> QED BY <3>1
  <2>2. x \in D /\ s \ {x} \in SUBSET D /\ Cardinality(s \ {x}) = k /\ sum[s] = f[x] + sum[s \ {x}]
    BY <1>4, <2>1
  <2> HIDE DEF x
  <2>3. sum[s \ {x}] \in within[k]
    BY <1>6, <2>2
  <2> QED BY <2>2, <2>3 DEF StaysWithin
<1>7. Cardinality(D) \in T
  <2> HIDE DEF T
  <2>1. Cardinality(D) \in Nat
    BY FS_CardinalityType
  <2> QED BY <1>5, <1>6, <2>1, Induct
<1> QED BY <1>1, <1>7

(* A sum of naturals is one. *)
LEMMA SumIsNatural ==
    ASSUME NEW f, IsFiniteSet(DOMAIN f), \A x \in DOMAIN f : f[x] \in Nat
    PROVE  SumOf(f) \in Nat
<1> DEFINE within == [k \in Nat |-> Nat]
<1>1. \A k \in Nat : within[k] = Nat /\ within[k + 1] = Nat
  OBVIOUS
<1>2. Cardinality(DOMAIN f) \in Nat
  BY FS_CardinalityType
<1>3. \A k \in Nat : \A x \in DOMAIN f : \A v \in within[k] : f[x] + v \in within[k + 1]
  BY <1>1
<1>4. 0 \in within[0]
  OBVIOUS
<1> HIDE DEF within
<1>5. SumOf(f) \in within[Cardinality(DOMAIN f)]
  BY <1>3, <1>4, SumKeeps, Zenon DEF StaysWithin
<1> QED BY <1>1, <1>2, <1>5

(* A sum of so many values, none above the bound, is at most that many times the bound. *)
AreUpTo(f, n, bound) ==
    IsFiniteSet(DOMAIN f) /\ Cardinality(DOMAIN f) = n /\ \A x \in DOMAIN f : f[x] \in 0..bound

LEMMA SumIsBounded ==
    ASSUME NEW f, NEW n \in Nat, NEW bound \in Nat, AreUpTo(f, n, bound)
    PROVE  SumOf(f) \in 0..(n * bound)
<1> DEFINE within == [k \in Nat |-> 0..(k * bound)]
<1>1. \A k \in Nat : within[k] = 0..(k * bound) /\ within[k + 1] = 0..((k + 1) * bound)
  OBVIOUS
<1>2. ASSUME NEW k \in Nat, NEW x \in DOMAIN f, NEW v \in within[k] PROVE f[x] + v \in within[k + 1]
  <2>1. v \in Int /\ 0 <= v /\ v <= k * bound
    BY <1>1
  <2>2. f[x] \in Int /\ 0 <= f[x] /\ f[x] <= bound
    BY DEF AreUpTo
  <2>3. k * bound \in Int /\ (k + 1) * bound = k * bound + bound
    OBVIOUS
  <2> DEFINE w == f[x]  most == k * bound
  <2> HIDE DEF w, most, within
  <2>4. w + v \in 0..(most + bound)
    BY <2>1, <2>2, <2>3 DEF w, most
  <2> QED BY <1>1, <2>3, <2>4 DEF w, most
<1>3. 0 \in within[0]
  OBVIOUS
<1> HIDE DEF within
<1>4. SumOf(f) \in within[Cardinality(DOMAIN f)]
  BY <1>2, <1>3, SumKeeps, Zenon DEF StaysWithin, AreUpTo
<1> QED BY <1>1, <1>4 DEF AreUpTo

(* The least of some naturals, zero up to a bound. *)
LEMMA LeastUpTo ==
    ASSUME NEW T, NEW bound \in Nat, T \subseteq Nat
    PROVE  Min({bound} \cup T) \in 0..bound
<1> DEFINE U == {bound} \cup T
<1>1. U \in SUBSET Nat /\ bound \in U
  OBVIOUS
<1> HIDE DEF U
<1>2. \E m \in U : \A k \in U : m <= k
  BY <1>1, Least
<1>3. Min(U) \in U /\ \A k \in U : Min(U) <= k
  BY <1>2 DEF Min
<1>4. Min(U) \in Nat /\ Min(U) <= bound
  BY <1>1, <1>3
<1> QED BY <1>4 DEF U

(* So many points, on lines and with accelerations. *)
ArePoints(points, n) ==
    /\ DOMAIN points = 1..n /\ Len(points) = n
    /\ \A i \in 1..n : points[i].y \in Int /\ points[i].accel \in Int

(* No route costs more than 250. *)
LEMMA RouteIsBounded ==
    ASSUME NEW n \in Nat \ {0}, NEW points, ArePoints(points, n), NEW lanes, \A l \in lanes : l.y \in Int
    PROVE  RoutePenalty(points, lanes) \in 0..250
<1> DEFINE away(i) == {Magnitude(points[i].y - l.y) : l \in lanes}
           f == [i \in DOMAIN points |-> Min({250} \cup away(i))]
<1>1. DOMAIN points = 1..n /\ Len(points) = n
  BY DEF ArePoints
<1>2. \A i \in 1..n : f[i] \in 0..250
  <2> SUFFICES ASSUME NEW i \in 1..n PROVE f[i] \in 0..250
    OBVIOUS
  <2>1. ASSUME NEW l \in lanes PROVE Magnitude(points[i].y - l.y) \in Nat
    <3>1. points[i].y - l.y \in Int
      BY DEF ArePoints
    <3> QED BY <3>1, MagnitudeIsNatural, Zenon
  <2>4. away(i) \subseteq Nat
    BY <2>1
  <2> HIDE DEF away
  <2>2. 250 \in Nat
    OBVIOUS
  <2>3. Min({250} \cup away(i)) \in 0..250
    BY <2>2, <2>4, LeastUpTo, Zenon
  <2> QED BY <1>1, <2>3
<1>3. DOMAIN f = 1..n /\ IsFiniteSet(1..n) /\ Cardinality(1..n) = n
  BY <1>1, FS_Interval
<1>4. CASE lanes = {}
  BY <1>4 DEF RoutePenalty
<1>5. CASE lanes # {}
  <2>1. RoutePenalty(points, lanes) = SumOf(f) \div n
    BY <1>1, <1>5 DEF RoutePenalty
  <2> HIDE DEF f
  <2>2. 250 \in Nat /\ n \in Nat
    OBVIOUS
  <2>4. AreUpTo(f, n, 250)
    BY <1>2, <1>3 DEF AreUpTo
  <2>3. SumOf(f) \in 0..(n * 250)
    BY <2>2, <2>4, SumIsBounded
  <2> QED BY <2>1, <2>3
<1> QED BY <1>4, <1>5

(* Comfort costs nothing at least, and where no point jerks more than it may 375 at most. *)
LEMMA ComfortIsBounded ==
    ASSUME NEW n \in Nat, n > 1, NEW points, ArePoints(points, n)
    PROVE  /\ Comfort(points) \in Nat
           /\ (\A i \in 2..n : points[i].accel - points[i - 1].accel \in -1..1) => Comfort(points) <= 375
<1> DEFINE f == [i \in 2..n |-> Magnitude(points[i].accel - points[i - 1].accel)]
<1>1. Len(points) = n
  BY DEF ArePoints
<1>2. \A i \in 2..n : f[i] \in Nat
  <2> SUFFICES ASSUME NEW i \in 2..n PROVE f[i] \in Nat
    OBVIOUS
  <2>1. points[i].accel - points[i - 1].accel \in Int
    BY DEF ArePoints
  <2> QED BY <2>1, MagnitudeIsNatural
<1>3. DOMAIN f = 2..n /\ IsFiniteSet(2..n) /\ Cardinality(2..n) = n - 1
  BY FS_Interval
<1>4. Comfort(points) = (375 * SumOf(f)) \div (n - 1)
  BY <1>1 DEF Comfort
<1>5. (\A i \in 2..n : points[i].accel - points[i - 1].accel \in -1..1) => \A i \in 2..n : f[i] \in 0..1
  BY DEF Magnitude
<1> HIDE DEF f
<1>6. SumOf(f) \in Nat
  BY <1>2, <1>3, SumIsNatural
<1>7. (\A i \in 2..n : f[i] \in 0..1) => SumOf(f) \in 0..((n - 1) * 1)
  <2>1. 1 \in Nat /\ n - 1 \in Nat
    OBVIOUS
  <2>2. (\A i \in 2..n : f[i] \in 0..1) => AreUpTo(f, n - 1, 1)
    BY <1>3 DEF AreUpTo
  <2> QED BY <2>1, <2>2, SumIsBounded
<1> DEFINE sum == SumOf(f)
<1> HIDE DEF sum
<1>8. (375 * sum) \div (n - 1) \in Nat
  BY <1>6 DEF sum
<1>9. sum <= n - 1 => (375 * sum) \div (n - 1) <= 375
  BY <1>6 DEF sum
<1> QED BY <1>4, <1>5, <1>7, <1>8, <1>9 DEF sum

(* Whatever may be collided with, and how likely, is finite. *)
AreHypotheses(hypotheses) == IsFiniteSet(hypotheses) /\ \A h \in hypotheses : h.probability \in Nat

(* What is expected to be collided with is not negative. *)
LEMMA RiskIsNatural ==
    ASSUME NEW n \in Nat, NEW points, ArePoints(points, n), NEW hypotheses, AreHypotheses(hypotheses)
    PROVE  Risk(points, hypotheses) \in Nat
<1> DEFINE met(h) == {i \in DOMAIN points : Clearance(h, points[i]) < CollisionRadius * CollisionRadius}
           f == [h \in hypotheses |-> h.probability * Cardinality(met(h))]
<1>1. DOMAIN points = 1..n /\ IsFiniteSet(1..n)
  BY FS_Interval DEF ArePoints
<1>2. \A h \in hypotheses : f[h] \in Nat
  <2> SUFFICES ASSUME NEW h \in hypotheses PROVE f[h] \in Nat
    OBVIOUS
  <2>1. met(h) \in SUBSET (1..n)
    BY <1>1
  <2>2. Cardinality(met(h)) \in Nat
    BY <1>1, <2>1, FS_Subset, FS_CardinalityType
  <2> HIDE DEF met
  <2> QED BY <2>2 DEF AreHypotheses
<1>3. Risk(points, hypotheses) = SumOf(f)
  BY DEF Risk
<1>4. DOMAIN f = hypotheses
  OBVIOUS
<1> HIDE DEF f
<1> QED BY <1>2, <1>3, <1>4, SumIsNatural DEF AreHypotheses

(* Four things are finitely many. *)
LEMMA FourAreFinite == \A a, b, c, d : IsFiniteSet({a, b, c, d})
<1> SUFFICES ASSUME NEW a, NEW b, NEW c, NEW d PROVE IsFiniteSet({a, b, c, d})
  OBVIOUS
<1>1. IsFiniteSet({a})
  BY FS_Singleton
<1>2. IsFiniteSet({a} \cup {b})
  BY <1>1, FS_AddElement
<1>3. IsFiniteSet(({a} \cup {b}) \cup {c})
  BY <1>2, FS_AddElement
<1>4. IsFiniteSet((({a} \cup {b}) \cup {c}) \cup {d})
  BY <1>3, FS_AddElement
<1>5. {a, b, c, d} = (({a} \cup {b}) \cup {c}) \cup {d}
  OBVIOUS
<1> QED BY <1>4, <1>5

(* A track goes on in finitely many ways. *)
LEMMA HypothesesOfTrack ==
    ASSUME NEW track, track.conf \in 0..100
    PROVE  AreHypotheses(Hypotheses(track))
<1> DEFINE speed == Hypot(track.vx, track.vy)
           goes(weight, along, across, vy) ==
               [x |-> track.x, y |-> track.y, vx |-> track.vx, vy |-> vy, along |-> along, across |-> across,
                probability |-> (weight * (100 + track.conf)) \div 200]
           straight == goes(550, Horizons, Straight, track.vy)
           braking == goes(200, Braking(Min({250, 30000 \div speed})), Straight, track.vy)
           left == goes(125, TurnAlong, TurnAcross, track.vy)
           right == goes(125, TurnAlong, [i \in 1..5 |-> -TurnAcross[i]], track.vy)
           walking == goes(700, Horizons, Straight, track.vy)
           aside(vy) == goes(150, Horizons, Straight, vy)
           only == goes(1000, Horizons, Straight, track.vy)
<1>1. \A weight \in Nat : \A along, across, vy : goes(weight, along, across, vy).probability \in Nat
  OBVIOUS
<1>2. /\ straight.probability \in Nat /\ braking.probability \in Nat /\ left.probability \in Nat
      /\ right.probability \in Nat /\ walking.probability \in Nat /\ only.probability \in Nat
      /\ aside(-10).probability \in Nat /\ aside(10).probability \in Nat
  <2>1. 550 \in Nat /\ 200 \in Nat /\ 125 \in Nat /\ 700 \in Nat /\ 150 \in Nat /\ 1000 \in Nat
    OBVIOUS
  <2> HIDE DEF goes
  <2> QED BY <1>1, <2>1
<1>3. \/ Hypotheses(track) = {straight, braking, left, right}
      \/ Hypotheses(track) = {walking} \cup {aside(vy) : vy \in {-10, 10}}
      \/ Hypotheses(track) = {only}
  <2>1. CASE speed > 5
    BY <2>1 DEF Hypotheses
  <2>2. CASE ~(speed > 5) /\ track.cls = "pedestrian"
    BY <2>2 DEF Hypotheses
  <2>3. CASE ~(speed > 5) /\ track.cls # "pedestrian"
    BY <2>3 DEF Hypotheses
  <2> HIDE DEF speed, straight, braking, left, right, walking, only, aside
  <2> QED BY <2>1, <2>2, <2>3
<1> HIDE DEF straight, braking, left, right, walking, aside, only, goes
<1> DEFINE all == Hypotheses(track)
<1>4. \E a, b, c, d : all = {a, b, c, d}
  <2>1. ASSUME all = {walking} \cup {aside(vy) : vy \in {-10, 10}}
        PROVE  all = {walking, walking, aside(-10), aside(10)}
    BY <2>1
  <2>2. ASSUME all = {only} PROVE all = {only, only, only, only}
    BY <2>2
  <2> HIDE DEF all
  <2> QED BY <1>3, <2>1, <2>2, Zenon DEF all
<1>5. \A h \in all : h.probability \in Nat
  BY <1>2, <1>3
<1> HIDE DEF all
<1>6. IsFiniteSet(all)
  <2>1. PICK a, b, c, d : all = {a, b, c, d}
    BY <1>4
  <2>2. IsFiniteSet({a, b, c, d})
    BY FourAreFinite, Zenon
  <2> QED BY <2>1, <2>2
<1> QED BY <1>5, <1>6, Zenon DEF AreHypotheses, all

(* So do finitely many tracks. *)
LEMMA HypothesesOfTracks ==
    ASSUME NEW objects, IsFiniteSet(objects), \A o \in objects : o.conf \in 0..100
    PROVE  AreHypotheses(UNION {Hypotheses(o) : o \in objects})
<1> DEFINE f == [o \in objects |-> Hypotheses(o)]
           all == {Hypotheses(o) : o \in objects}
<1>1. f \in Surjection(objects, all)
  <2>1. f \in [objects -> all] /\ \A t \in all : \E o \in objects : f[o] = t
    OBVIOUS
  <2> HIDE DEF f, all
  <2> QED BY <2>1 DEF Surjection
<1>2. \A t \in all : AreHypotheses(t)
  BY HypothesesOfTrack
<1> HIDE DEF f, all
<1>3. IsFiniteSet(all)
  BY <1>1, FS_Surjection
<1>4. IsFiniteSet(UNION all)
  BY <1>2, <1>3, FS_UNION DEF AreHypotheses
<1> QED BY <1>2, <1>4 DEF AreHypotheses, all

(* What may be selected: a confidence, and more points than one. *)
IsOffer(c) == c.conf \in 0..100 /\ \E n \in Nat : n > 1 /\ ArePoints(c.points, n)

(* The score is a hundred times the risk, and a rest that is not negative, and below
   22000 for a smooth trajectory along a path. *)
Weighed(e, rest) == e.risk \in Nat /\ rest \in Nat /\ e.score = 100 * e.risk + rest

IsWeighed(e, place, c) ==
    /\ e.at = place /\ e.id = c.id
    /\ \E rest \in Nat : Weighed(e, rest) /\ ((\E path : IsCandidate(c, path)) => rest <= 22000)

LEMMA EvaluationIsBounded ==
    ASSUME NEW hypotheses, AreHypotheses(hypotheses), NEW lanes, \A l \in lanes : l.y \in Int,
           NEW place, NEW c, IsOffer(c)
    PROVE  IsWeighed(Evaluation(place, c, hypotheses, lanes), place, c)
<1> DEFINE points == c.points
           clearances == {Clearance(h, points[i]) : h \in hypotheses, i \in DOMAIN points}
           away == Min(clearances)
           proximity == Proximity(Root(away))
           nearest == IF clearances = {} THEN 0 ELSE 5 * proximity
           risk == Risk(points, hypotheses)
           route == RoutePenalty(points, lanes)
           comfort == Comfort(points)
           doubt == 10 * (100 - c.conf)
           e == Evaluation(place, c, hypotheses, lanes)
<1>1. PICK n \in Nat : n > 1 /\ ArePoints(points, n)
  BY DEF IsOffer
<1>2. e.at = place /\ e.id = c.id /\ e.risk = risk /\ e.score = 100 * risk + nearest + route + comfort + doubt
  BY DEF Evaluation, Score
<1>3. nearest \in Nat /\ nearest <= 20000
  <2> HIDE DEF away
  <2>1. Root(away) \in Nat
    BY RootIsNatural, Zenon
  <2>2. proximity \in 0..MaxProximity
    BY <2>1, ProximityIsBounded, Zenon
  <2> HIDE DEF proximity, clearances
  <2>3. proximity \in Int /\ 0 <= proximity /\ proximity <= 4000
    BY <2>2 DEF MaxProximity
  <2> QED BY <2>3
<1>4. route \in Nat /\ route <= 250
  <2>1. n \in Nat \ {0}
    BY <1>1
  <2>2. route \in 0..250
    BY <1>1, <2>1, RouteIsBounded, Zenon
  <2> QED BY <2>2
<1>5. comfort \in Nat
  BY <1>1, ComfortIsBounded, Zenon
<1>6. ASSUME NEW path, IsCandidate(c, path) PROVE comfort <= 375
  <2>1. n = Points /\ IsSmooth(points) /\ \A i \in 1..Points : points[i] \in Along(path)
    BY <1>1, <1>6 DEF IsCandidate, IsSmooth, ArePoints
  <2>2. ASSUME NEW i \in 2..n PROVE points[i].accel - points[i - 1].accel \in -1..1
    <3>1. points[i].delta = points[i].accel - points[i - 1].accel
      BY <2>1 DEF IsSmooth
    <3>2. points[i].delta \in -1..1
      BY <2>1 DEF Along
    <3> QED BY <3>1, <3>2
  <2> QED BY <1>1, <2>2, ComfortIsBounded
<1>7. doubt \in Nat /\ doubt <= 1000
  BY DEF IsOffer
<1>8. risk \in Nat
  BY <1>1, RiskIsNatural
<1> HIDE DEF nearest, risk, route, comfort, doubt, e, points
<1> DEFINE rest == nearest + route + comfort + doubt
<1>9. rest \in Nat /\ (comfort <= 375 => rest <= 22000) /\ Weighed(e, rest)
  BY <1>2, <1>3, <1>4, <1>5, <1>7, <1>8 DEF Weighed
<1> HIDE DEF rest
<1> QED BY <1>2, <1>6, <1>9 DEF e, IsWeighed

(* What is made of every candidate: it has a name and a score. *)
IsJudged(j) == j.score \in Nat /\ j.trajectory.generator \in Generators

(* Of what is judged one is selected. *)
LEMMA SelectedIsJudged ==
    ASSUME NEW judged, judged # {}, \A j \in judged : IsJudged(j)
    PROVE  Selection(judged, Passing(judged)) \in judged
<1> DEFINE rank == [lane_path |-> 1, model_path |-> 2, hybrid_path |-> 3, controlled_stop |-> 4]
           open == IF Passing(judged) = {} THEN judged ELSE Passing(judged)
           Leads(j) == \A k \in open : \/ j.score < k.score
                                      \/ /\ j.score = k.score
                                         /\ MadeBefore(j.trajectory.generator, k.trajectory.generator)
<1>1. open # {} /\ open \subseteq judged
  BY DEF Passing
<1>2. \A g, h \in Generators : /\ rank[g] \in Nat
                               /\ MadeBefore(g, h) <=> rank[g] <= rank[h]
  BY DEF MadeBefore, Generators
<1>3. Selection(judged, Passing(judged)) = CHOOSE j \in open : Leads(j)
  BY DEF Selection
<1> HIDE DEF open, rank
<1>4. PICK i \in open : \A k \in open : i.score <= k.score
  <2> DEFINE scores == {k.score : k \in open}
  <2>1. scores \in SUBSET Nat /\ \E k \in open : k.score \in scores
    BY <1>1 DEF IsJudged
  <2> HIDE DEF scores
  <2>2. PICK m \in scores : \A k \in scores : m <= k
    BY <2>1, Least
  <2> QED BY <2>2 DEF scores
<1> DEFINE equal == {k \in open : k.score = i.score}
           made(k) == rank[k.trajectory.generator]
<1>5. \A k \in open : k.score \in Nat /\ k.trajectory.generator \in Generators
  BY <1>1 DEF IsJudged
<1>6. PICK j \in equal : \A k \in equal : made(j) <= made(k)
  <2> DEFINE ranks == {made(k) : k \in equal}
  <2>1. ranks \in SUBSET Nat /\ made(i) \in ranks
    BY <1>2, <1>5
  <2> HIDE DEF ranks
  <2>2. PICK m \in ranks : \A k \in ranks : m <= k
    BY <2>1, Least
  <2> QED BY <2>2 DEF ranks
<1>7. Leads(j)
  <2> SUFFICES ASSUME NEW k \in open
               PROVE  \/ j.score < k.score
                      \/ j.score = k.score /\ MadeBefore(j.trajectory.generator, k.trajectory.generator)
    OBVIOUS
  <2>1. CASE k \in equal
    BY <1>2, <1>5, <1>6, <2>1
  <2>2. CASE k \notin equal
    BY <1>4, <1>5, <1>6, <2>2
  <2> QED BY <2>1, <2>2
<1> HIDE DEF Leads
<1> QED BY <1>1, <1>3, <1>6, <1>7

(* The trajectory that run selects is one along a path. *)
LEMMA SelectedIsCandidate ==
    ASSUME NEW s, IsScene(s)
    PROVE  \E path : IsCandidate(RunHybrid(s).selected.trajectory, path)
<1> DEFINE speed == Clamp(s.speed, 0, MaxSpeed)
           objects == SeenObjects(s)
           odd == OddReasons(s)
           all == Candidates(s, speed, objects)
           reasons(c) == Guardian(c, objects, s.worldStale)
           judge(c) == [trajectory |-> c, reasons |-> reasons(c),
                        score |-> BaseScore(c, Reference(s), objects) + Penalties(c.generator, odd # {}, reasons(c))]
           judged == Judged(s, objects, odd)
<1>1. speed \in Nat
  <2>1. s.speed \in Int
    BY DEF IsScene
  <2> QED BY <2>1, ClampsAreBounds, Zenon
<1>2. AreObjects(objects) /\ Reference(s).y \in Int
  BY DEF AreObjects, SeenObjects, Reference, IsScene
<1>3. judged = {judge(c) : c \in all}
  BY DEF Judged
<1>4. RunHybrid(s).selected = Selection(judged, Passing(judged))
  BY DEF RunHybrid, Run, Passing
<1> HIDE DEF speed, objects, odd, judged
<1>5. /\ ControlledStop(speed) \in all
      /\ \A c \in all : c.generator \in Generators /\ \E path : IsCandidate(c, path)
  BY <1>1, <1>2, CandidatesOfScene, Zenon
<1> HIDE DEF all, reasons
<1>6. \A c : /\ judge(c).trajectory = c
             /\ judge(c).score = BaseScore(c, Reference(s), objects) + Penalties(c.generator, odd # {}, reasons(c))
  OBVIOUS
<1> HIDE DEF judge
<1>7. ASSUME NEW c \in all PROVE IsJudged(judge(c))
  <2> DEFINE base == BaseScore(c, Reference(s), objects)
             penalties == Penalties(c.generator, odd # {}, reasons(c))
  <2>1. PICK path : IsCandidate(c, path)
    BY <1>5
  <2>2. base \in 0..Most(path, Reference(s))
    BY <1>2, <2>1, ScoreIsBounded, Zenon DEF IsCandidate
  <2>3. penalties \in Nat
    BY DEF Penalties
  <2> DEFINE most == Most(path, Reference(s))
  <2> HIDE DEF base, penalties, most
  <2>4. base + penalties \in Nat
    <3>1. base \in 0..most
      BY <2>2 DEF most
    <3> QED BY <2>3, <3>1
  <2> QED BY <1>5, <1>6, <2>4 DEF IsJudged, base, penalties
<1>8. judged # {} /\ \A j \in judged : IsJudged(j)
  BY <1>3, <1>5, <1>7
<1>9. PICK c \in all : Selection(judged, Passing(judged)) = judge(c)
  <2>1. Selection(judged, Passing(judged)) \in judged
    BY <1>8, SelectedIsJudged, Zenon
  <2> QED BY <1>3, <2>1
<1>10. RunHybrid(s).selected.trajectory = c
  BY <1>4, <1>6, <1>9
<1> QED BY <1>5, <1>10

(* The lane that is best for the route is a path, where the frame has none of its own. *)
LEMMA LaneIsPath == ASSUME NEW f \in Frames PROVE IsPath(LanePath(f))
<1> DEFINE score(l) == Min({100, (70 * l.relevance + 30 * l.conf) \div 100})
           best == {l \in f.lanes : \A m \in f.lanes : score(m) <= score(l)}
           chosen == CHOOSE l \in best : TRUE
<1>1. \A l \in f.lanes : l.y \in Int /\ l.relevance \in 0..100 /\ l.conf \in 0..100
  BY FramesAssumption
<1>2. \A l \in f.lanes : score(l) \in 0..100
  <2> SUFFICES ASSUME NEW l \in f.lanes PROVE score(l) \in 0..100
    OBVIOUS
  <2> DEFINE share == (70 * l.relevance + 30 * l.conf) \div 100
  <2>1. share \in Nat /\ share \in Int /\ 100 \in Int
    <3> DEFINE i == l.relevance  j == l.conf
    <3>1. i \in 0..100 /\ j \in 0..100 /\ share = (70 * i + 30 * j) \div 100
      BY <1>1
    <3> HIDE DEF i, j, share
    <3>2. 70 * i + 30 * j \in Nat
      BY <3>1
    <3> QED BY <3>1, <3>2
  <2> HIDE DEF share
  <2>2. Min({100, share}) = IF 100 <= share THEN 100 ELSE share
    BY <2>1, OfTwo, Zenon
  <2>3. score(l) = Min({100, share})
    BY DEF share
  <2> QED BY <2>1, <2>2, <2>3
<1>3. CASE f.lane.conf > 0 \/ f.lanes = {}
  <2>1. LanePath(f) = f.lane
    BY <1>3 DEF LanePath
  <2>2. IsScene(f)
    BY FramesAssumption
  <2> QED BY <2>1, <2>2 DEF IsScene, IsPath
<1>4. CASE ~(f.lane.conf > 0 \/ f.lanes = {})
  <2>1. LanePath(f) = [y |-> chosen.y, conf |-> score(chosen), sharp |-> FALSE]
    BY <1>4 DEF LanePath
  <2> HIDE DEF score
  <2>2. best # {}
    <3> DEFINE short == {100 - score(l) : l \in f.lanes}
    <3>1. short \in SUBSET Nat /\ \E l \in f.lanes : 100 - score(l) \in short
      BY <1>2, <1>4
    <3> HIDE DEF short
    <3>2. PICK m \in short : \A k \in short : m <= k
      BY <3>1, Least
    <3>3. PICK l \in f.lanes : m = 100 - score(l)
      BY <3>2 DEF short
    <3>4. \A k \in f.lanes : 100 - score(l) <= 100 - score(k)
      BY <3>2, <3>3 DEF short
    <3>5. \A k \in f.lanes : score(k) <= score(l)
      BY <1>2, <3>4
    <3> QED BY <3>5
  <2>3. chosen \in f.lanes
    BY <2>2
  <2> HIDE DEF chosen
  <2> QED BY <1>1, <1>2, <2>1, <2>3 DEF IsPath
<1> QED BY <1>3, <1>4

(* So a frame is a scene, with that lane. *)
LEMMA FrameIsScene == ASSUME NEW f \in Frames PROVE IsScene([f EXCEPT !.lane = LanePath(f)])
<1> DEFINE s == [f EXCEPT !.lane = LanePath(f)]
<1>1. IsScene(f)
      /\ {"speed", "cruise", "sharpBlend", "objects", "lane", "model", "wanted"} \subseteq DOMAIN f
  BY FramesAssumption
<1>2. /\ s.speed = f.speed /\ s.cruise = f.cruise /\ s.sharpBlend = f.sharpBlend /\ s.objects = f.objects
      /\ s.model = f.model /\ s.wanted = f.wanted /\ s.lane = LanePath(f)
  BY <1>1
<1>3. IsPath(s.lane)
  BY <1>2, LaneIsPath
<1> HIDE DEF s
<1>4. IsScene(s)
  BY <1>1, <1>2, <1>3 DEF IsScene, IsPath
<1> QED BY <1>4 DEF s

(* What has so many points can be offered. *)
LEMMA CandidateIsOffer ==
    ASSUME NEW c, NEW path, IsCandidate(c, path)
    PROVE  IsOffer(c)
<1>1. Points \in Nat /\ Points > 1
  BY DEF Points
<1>2. c.conf \in 0..100 /\ IsSmooth(c.points) /\ \A n \in 1..Points : c.points[n] \in Along(path) /\ path.y \in Int
  BY DEF IsCandidate, IsPath
<1>3. \A n \in 1..Points : c.points[n].y \in Int /\ c.points[n].accel \in Int
  BY <1>2 DEF Along
<1>4. ArePoints(c.points, Points)
  BY <1>2, <1>3 DEF ArePoints, IsSmooth
<1> QED BY <1>1, <1>2, <1>4 DEF IsOffer

(* The candidates have places, the fallback the last, and can be offered. *)
LEMMA CandidatesOfFrame ==
    ASSUME NEW f \in Frames, NEW fallback, IsOffer(fallback)
    PROVE  LET candidates == WithFallback(f, fallback) IN
           /\ DOMAIN candidates \in SUBSET Nat /\ LastPlace(f) \in DOMAIN candidates
           /\ candidates[LastPlace(f)] = fallback
           /\ \A i \in DOMAIN candidates : IsOffer(candidates[i])
<1> DEFINE candidates == WithFallback(f, fallback)
<1>1. /\ Len(f.policies) \in Nat /\ DOMAIN f.policies = 1..Len(f.policies)
      /\ \A i \in DOMAIN f.policies : LET p == f.policies[i] IN p.length \in Nat /\ p.y \in Int /\ p.conf \in 0..100
  BY FramesAssumption
<1>2. ASSUME NEW i \in Usable(f) PROVE IsOffer(Offered(f.policies[i]))
  <2> DEFINE p == f.policies[i]
             point(n) == [t |-> n, x |-> p.speed * n, y |-> p.y, accel |-> 0]
             points == [n \in 1..p.length |-> point(n)]
  <2>1. p.length \in Nat /\ p.length > 1 /\ p.y \in Int /\ p.conf \in 0..100
    BY <1>1 DEF Usable
  <2>2. Offered(p) = [id |-> p.id, conf |-> p.conf, points |-> points]
    BY DEF Offered
  <2> HIDE DEF p
  <2>3. \A n : point(n).y = p.y /\ point(n).accel = 0
    OBVIOUS
  <2> HIDE DEF point
  <2>4. DOMAIN points = 1..p.length /\ \A n \in 1..p.length : points[n] = point(n)
    OBVIOUS
  <2>5. Len(points) = p.length
    BY <2>1
  <2> HIDE DEF points
  <2>6. ArePoints(points, p.length)
    BY <2>1, <2>3, <2>4, <2>5 DEF ArePoints
  <2> QED BY <2>1, <2>2, <2>6 DEF IsOffer, p
<1>3. /\ DOMAIN candidates = Usable(f) \cup {LastPlace(f)}
      /\ \A i \in DOMAIN candidates :
            candidates[i] = IF i = LastPlace(f) THEN fallback ELSE Offered(f.policies[i])
  BY DEF WithFallback
<1> HIDE DEF candidates
<1>4. Usable(f) \in SUBSET Nat /\ LastPlace(f) \in Nat
  BY <1>1 DEF Usable, LastPlace
<1> QED BY <1>2, <1>3, <1>4 DEF candidates

(* Of evaluations with scores and places that differ one has the least score. *)
LEMMA LeastScoreIsOne ==
    ASSUME NEW evaluations, evaluations # {}, \A e \in evaluations : e.score \in Nat /\ e.at \in Nat
    PROVE  /\ LeastScore(evaluations) \in evaluations
           /\ \A e \in evaluations : LeastScore(evaluations).score <= e.score
<1> DEFINE Leads(e) == \A f \in evaluations : e.score < f.score \/ (e.score = f.score /\ e.at <= f.at)
<1>1. PICK i \in evaluations : \A k \in evaluations : i.score <= k.score
  <2> DEFINE scores == {k.score : k \in evaluations}
  <2>1. scores \in SUBSET Nat /\ \E k \in evaluations : k.score \in scores
    OBVIOUS
  <2> HIDE DEF scores
  <2>2. PICK m \in scores : \A k \in scores : m <= k
    BY <2>1, Least
  <2> QED BY <2>2 DEF scores
<1> DEFINE equal == {k \in evaluations : k.score = i.score}
<1>2. PICK j \in equal : \A k \in equal : j.at <= k.at
  <2> DEFINE places == {k.at : k \in equal}
  <2>1. places \in SUBSET Nat /\ i.at \in places
    OBVIOUS
  <2> HIDE DEF places
  <2>2. PICK m \in places : \A k \in places : m <= k
    BY <2>1, Least
  <2> QED BY <2>2 DEF places
<1>3. Leads(j)
  BY <1>1, <1>2
<1>4. LeastScore(evaluations) = CHOOSE e \in evaluations : Leads(e)
  BY DEF LeastScore
<1>5. \A e \in evaluations : Leads(e) => \A f \in evaluations : e.score <= f.score
  OBVIOUS
<1> HIDE DEF Leads
<1> QED BY <1>2, <1>3, <1>4, <1>5

(* The only element of a set of naturals is its least. *)
LEMMA OnlyIsLeast == ASSUME NEW i \in Nat PROVE Min({i}) = i
BY DEF Min

(* What is ranked first is no more of a risk than the last candidate is, but for what
   the rest of that one's score is worth. *)
LEMMA RankedKeepsRisk ==
    ASSUME NEW f \in Frames, NEW candidates, DOMAIN candidates \in SUBSET Nat,
           \A i \in DOMAIN candidates : IsOffer(candidates[i]),
           LastPlace(f) \in DOMAIN candidates,
           NEW path, IsCandidate(candidates[LastPlace(f)], path),
           NEW hypotheses, AreHypotheses(hypotheses),
           NEW evaluations, evaluations = Evaluations(f, candidates, hypotheses),
           NEW shown, shown = Ranked(f, candidates, evaluations),
           \A d, e \in shown.evaluations : d.id = e.id => d = e
    PROVE  LET risk(i) == (CHOOSE e \in shown.evaluations : e.at = i).risk IN
           risk(shown.selected) <= risk(shown.fallback) + 220
<1> DEFINE made(i) == Evaluation(i, candidates[i], hypotheses, f.lanes)
           places == DOMAIN candidates
           last == LastPlace(f)
           best == LeastScore(evaluations)
           named == {i \in places : candidates[i].id = best.id}
<1>1. \A l \in f.lanes : l.y \in Int
  BY FramesAssumption
<1>2. \A i \in places : IsWeighed(made(i), i, candidates[i])
  BY <1>1, EvaluationIsBounded, Zenon
<1>3. evaluations = {made(i) : i \in places}
  BY DEF Evaluations
<1>4. shown.evaluations = evaluations /\ shown.selected = Min(named) /\ shown.fallback = last
  BY DEF Ranked, Shown
<1> HIDE DEF made
<1>5. \A e \in evaluations : e.score \in Nat /\ e.at \in Nat /\ e.risk \in Nat
  <2> SUFFICES ASSUME NEW i \in places PROVE made(i).score \in Nat /\ made(i).at \in Nat /\ made(i).risk \in Nat
    BY <1>3
  <2>1. PICK rest \in Nat : Weighed(made(i), rest)
    BY <1>2 DEF IsWeighed
  <2>2. made(i).risk \in Nat /\ made(i).score = 100 * made(i).risk + rest
    BY <2>1 DEF Weighed
  <2>3. made(i).at \in Nat
    BY <1>2 DEF IsWeighed
  <2> QED BY <2>2, <2>3
<1>6. best \in evaluations /\ \A e \in evaluations : best.score <= e.score
  <2>1. evaluations # {}
    BY <1>3
  <2> QED BY <1>5, <2>1, LeastScoreIsOne, Zenon
<1> HIDE DEF best
<1>7. PICK first \in places : best = made(first)
  BY <1>3, <1>6
<1>8. shown.selected = first
  <2>1. named = {first}
    <3>1. first \in named
      BY <1>2, <1>7 DEF IsWeighed
    <3>2. ASSUME NEW i \in named PROVE i = first
      <4>1. made(i) \in evaluations /\ made(i).id = best.id
        BY <1>2, <1>3 DEF IsWeighed
      <4>2. made(i) = best
        BY <1>4, <1>6, <4>1
      <4> QED BY <1>2, <1>7, <4>2 DEF IsWeighed
    <3> QED BY <3>1, <3>2
  <2> HIDE DEF named
  <2>2. first \in Nat
    OBVIOUS
  <2> QED BY <1>4, <2>1, <2>2, OnlyIsLeast
<1>9. ASSUME NEW i \in places PROVE (CHOOSE e \in evaluations : e.at = i) = made(i)
  <2>1. made(i) \in evaluations /\ made(i).at = i
    BY <1>2, <1>3 DEF IsWeighed
  <2>2. \A e \in evaluations : e.at = i => e = made(i)
    BY <1>2, <1>3 DEF IsWeighed
  <2> DEFINE one == CHOOSE e \in evaluations : e.at = i
  <2>3. one \in evaluations /\ one.at = i
    BY <2>1, Zenon
  <2> HIDE DEF one
  <2> QED BY <2>2, <2>3 DEF one
<1>10. made(first).risk <= made(last).risk + 220
  <2>1. PICK rest \in Nat : Weighed(made(first), rest)
    BY <1>2 DEF IsWeighed
  <2>2. PICK more \in Nat : Weighed(made(last), more) /\ more <= 22000
    BY <1>2 DEF IsWeighed
  <2>3. made(first).score <= made(last).score
    BY <1>3, <1>6, <1>7
  <2> DEFINE r == made(first).risk  q == made(last).risk
  <2>4. r \in Nat /\ q \in Nat /\ 100 * r + rest <= 100 * q + more
    BY <2>1, <2>2, <2>3 DEF Weighed
  <2> HIDE DEF r, q
  <2>5. r <= q + 220
    BY <2>1, <2>2, <2>4
  <2> QED BY <2>5 DEF r, q
<1>11. /\ (CHOOSE e \in shown.evaluations : e.at = shown.selected) = made(first)
       /\ (CHOOSE e \in shown.evaluations : e.at = shown.fallback) = made(last)
  <2>1. /\ (CHOOSE e \in evaluations : e.at = first) = made(first)
        /\ (CHOOSE e \in evaluations : e.at = last) = made(last)
    BY <1>7, <1>9
  <2> HIDE DEF last
  <2> QED BY <1>4, <1>8, <2>1, Zenon
<1> QED BY <1>10, <1>11, Zenon

(* Whatever the frame, no gain in anything else buys more than a remainder of risk: of
   candidates with names of their own none is selected that is expected to collide more
   than the fallback, by more than 0.22. *)
THEOREM RiskStaysWithFallback == PlanningSpec => []RiskIsNotTraded
<1> DEFINE Inv == frame # <<>> => frame \in Frames /\ outcome = Planned(frame)
<1>1. PlanningInit => Inv
  BY DEF PlanningInit
<1>2. Inv /\ [PlanningNext]_planningVars => Inv'
  BY DEF PlanningNext, PlanningStep, planningVars
<1>3. Inv => RiskIsNotTraded
  <2> DEFINE s == [frame EXCEPT !.lane = LanePath(frame)]
             trajectory == RunHybrid(s).selected.trajectory
             fallback == Fallback(trajectory)
             candidates == WithFallback(frame, fallback)
             hypotheses == UNION {Hypotheses(o) : o \in frame.objects}
             evaluations == Evaluations(frame, candidates, hypotheses)
  <2> SUFFICES ASSUME Inv, frame # <<>>, \A d, e \in outcome.evaluations : d.id = e.id => d = e
               PROVE  LET risk(i) == (CHOOSE e \in outcome.evaluations : e.at = i).risk IN
                      risk(outcome.selected) <= risk(outcome.fallback) + 220
    BY DEF RiskIsNotTraded
  <2>1. frame \in Frames /\ outcome = Ranked(frame, candidates, evaluations)
    BY DEF Planned, Evaluated
  <2>2. PICK path : IsCandidate(trajectory, path)
    <3>1. IsScene(s)
      BY <2>1, FrameIsScene, Zenon
    <3> QED BY <3>1, SelectedIsCandidate, Zenon
  <2> HIDE DEF s, trajectory
  <2>3. IsCandidate(fallback, path)
    BY <2>2 DEF Fallback, IsCandidate
  <2> HIDE DEF fallback
  <2>4. IsOffer(fallback)
    BY <2>3, CandidateIsOffer, Zenon
  <2>5. /\ DOMAIN candidates \in SUBSET Nat /\ LastPlace(frame) \in DOMAIN candidates
        /\ candidates[LastPlace(frame)] = fallback
        /\ \A i \in DOMAIN candidates : IsOffer(candidates[i])
    BY <2>1, <2>4, CandidatesOfFrame, Zenon
  <2>6. AreHypotheses(hypotheses)
    <3>1. IsFiniteSet(frame.objects) /\ \A o \in frame.objects : o.conf \in 0..100
      BY <2>1, FramesAssumption
    <3> QED BY <3>1, HypothesesOfTracks, Zenon
  <2> HIDE DEF candidates, hypotheses, evaluations
  <2>7. IsCandidate(candidates[LastPlace(frame)], path)
    BY <2>3, <2>5
  <2>8. evaluations = Evaluations(frame, candidates, hypotheses)
    BY DEF evaluations
  <2> QED BY <2>1, <2>5, <2>6, <2>7, <2>8, RankedKeepsRisk, Zenon
<1> QED BY <1>1, <1>2, <1>3, PTL DEF PlanningSpec

-----------------------------------------------------------------------------
(***************************************************************************)
(* The tracker, for any worlds it can be in and any frames.                *)
(*                                                                         *)
(* Detections are taken one after another, a step each; those of the       *)
(* cameras are fused before them, a fold over places in an order of its    *)
(* own.                                                                    *)
(***************************************************************************)
(* A finite set of naturals that is not empty has a greatest element. *)
LEMMA GreatestIsIn ==
    ASSUME NEW n \in Nat, NEW s \in SUBSET (1..n), s # {}
    PROVE  Max(s) \in s
<1> DEFINE T == {n - k : k \in s}
<1>1. PICK k \in s : TRUE
  OBVIOUS
<1>2. T \in SUBSET Nat /\ n - k \in T
  OBVIOUS
<1> HIDE DEF T
<1>3. PICK m \in T : \A l \in T : m <= l
  BY <1>2, Least
<1> USE DEF T
<1>4. PICK g \in s : m = n - g
  BY <1>3
<1>5. \A l \in s : g >= l
  <2> SUFFICES ASSUME NEW l \in s PROVE g >= l
    OBVIOUS
  <2>1. n - g <= n - l
    BY <1>3, <1>4
  <2> QED BY <2>1
<1> QED BY <1>5 DEF Max

(* Two folds over a set of places: of the fusion, from the surest detection to the
   least sure, and of the selection, from the hardest scenario to the least hard. *)
LastOf(kind, ds, s) ==
    CASE kind = "fuse" -> Max({i \in s : \A j \in s : ds[i].conf <= ds[j].conf})
      [] kind = "take" -> LeastHard(ds, s)
After(kind, v, ds, x, by) ==
    CASE kind = "fuse" -> Joined(v, ds[x], by)
      [] kind = "take" -> TakenUp(v, x, by)
Fold(kind, first, ds, by, fold, s) ==
    IF s = {} THEN first
    ELSE LET x == LastOf(kind, ds, s) IN After(kind, fold[s \ {x}], ds, x, by)
IsFold(kind, first, ds, by, S, fold) == fold = [s \in SUBSET S |-> Fold(kind, first, ds, by, fold, s)]
HasLast(kind, ds, S) == \A s \in SUBSET S : s # {} => LastOf(kind, ds, s) \in s

(* There is such a fold over finitely many places. *)
LEMMA FoldUnfolds ==
    ASSUME NEW kind, NEW first, NEW ds, NEW by, NEW S, IsFiniteSet(S), HasLast(kind, ds, S)
    PROVE  \E fold : IsFold(kind, first, ds, by, S, fold)
<1> DEFINE Upto(k) == {s \in SUBSET S : Cardinality(s) <= k}
           Of(fold, s) == Fold(kind, first, ds, by, fold, s)
           Is(fold, k) == fold = [s \in Upto(k) |-> Of(fold, s)]
           T == {k \in Nat : \E fold : Is(fold, k)}
<1>1. \A s \in SUBSET S : IsFiniteSet(s) /\ Cardinality(s) \in Nat /\ Cardinality(s) <= Cardinality(S)
  BY FS_Subset, FS_CardinalityType
<1>2. ASSUME NEW s \in SUBSET S, s # {}
      PROVE  LET x == LastOf(kind, ds, s) IN
             s \ {x} \in SUBSET S /\ Cardinality(s \ {x}) = Cardinality(s) - 1
  <2>1. LastOf(kind, ds, s) \in s
    BY <1>2 DEF HasLast
  <2> QED BY <1>1, <2>1, FS_RemoveElement
<1>3. 0 \in T
  <2> DEFINE fold == [s \in Upto(0) |-> first]
  <2>1. \A s \in Upto(0) : s = {}
    BY <1>1, FS_EmptySet
  <2>2. \A s \in Upto(0) : Of(fold, s) = first
    BY <2>1 DEF Fold
  <2>3. Is(fold, 0)
    BY <2>2
  <2> QED BY <2>3
<1>4. ASSUME NEW k \in Nat, k \in T PROVE k + 1 \in T
  <2>1. PICK g : Is(g, k)
    BY <1>4
  <2> DEFINE fold == [s \in Upto(k + 1) |-> Of(g, s)]
  <2>2. ASSUME NEW s \in Upto(k) PROVE s \in Upto(k + 1) /\ fold[s] = g[s]
    <3>1. s \in Upto(k + 1)
      BY <1>1
    <3>2. g[s] = Of(g, s)
      BY <2>1
    <3> QED BY <3>1, <3>2
  <2> HIDE DEF fold
  <2>3. ASSUME NEW s \in Upto(k + 1) PROVE Of(g, s) = Of(fold, s)
    <3>1. CASE s = {}
      BY <3>1 DEF Fold
    <3>2. CASE s # {}
      <4> DEFINE x == LastOf(kind, ds, s)
      <4>1. s \ {x} \in SUBSET S /\ Cardinality(s \ {x}) = Cardinality(s) - 1
        BY <1>2, <3>2
      <4>2. s \ {x} \in Upto(k)
        BY <1>1, <4>1
      <4>3. fold[s \ {x}] = g[s \ {x}]
        BY <2>2, <4>2
      <4> QED BY <4>3 DEF Fold
    <3> QED BY <3>1, <3>2
  <2>4. Is(fold, k + 1)
    BY <2>3 DEF fold
  <2> HIDE DEF Is
  <2>5. k + 1 \in Nat /\ \E h : Is(h, k + 1)
    BY <2>4
  <2> QED BY <2>5
<1>5. Cardinality(S) \in T
  <2>1. Cardinality(S) \in Nat
    BY FS_CardinalityType
  <2> HIDE DEF T
  <2> QED BY <1>3, <1>4, <2>1, Induct
<1>6. Upto(Cardinality(S)) = SUBSET S
  BY <1>1
<1>7. \E fold : Is(fold, Cardinality(S))
  BY <1>5
<1> HIDE DEF Upto
<1> QED BY <1>6, <1>7 DEF IsFold

(* What the tracker can take up. *)
IsTrack(t) == {"misses", "last"} \subseteq DOMAIN t /\ t.misses \in Nat /\ t.last \in Int
IsWorld(w) ==
    /\ DOMAIN w = {"tracks", "nextId", "last"}
    /\ IsFiniteSet(DOMAIN w.tracks) /\ w.nextId \in Nat
    /\ \A id \in DOMAIN w.tracks : IsTrack(w.tracks[id])

(* A new track has a name of its own: of one number more than there are tracks, one
   is in no name. *)
LEMMA NamedIsNew ==
    ASSUME NEW tracks, IsFiniteSet(DOMAIN tracks), NEW nextId \in Nat, NEW d
    PROVE  LET new == Named(tracks, nextId, d) IN new.id \notin DOMAIN tracks /\ new.nextId \in Nat
<1> DEFINE auto(n) == <<"t", n>>
           most == Cardinality(DOMAIN tracks)
           numbers == nextId..(nextId + most)
           unused == {n \in numbers : auto(n) \notin DOMAIN tracks}
<1>1. most \in Nat
  BY FS_CardinalityType
<1>2. unused # {}
  <2> SUFFICES ASSUME \A n \in numbers : auto(n) \in DOMAIN tracks PROVE FALSE
    OBVIOUS
  <2> DEFINE f == [n \in numbers |-> auto(n)]
  <2>1. f \in [numbers -> DOMAIN tracks]
    OBVIOUS
  <2>2. IsFiniteSet(numbers) /\ Cardinality(numbers) = most + 1
    <3>1. nextId \in Int /\ nextId + most \in Int /\ ~(nextId > nextId + most)
          /\ (nextId + most) - nextId + 1 = most + 1
      BY <1>1
    <3> HIDE DEF most
    <3> QED BY <3>1, FS_Interval
  <2>3. \A m, n \in numbers : f[m] = f[n] => m = n
    OBVIOUS
  <2> HIDE DEF f, numbers
  <2>4. Cardinality(DOMAIN tracks) < Cardinality(numbers)
    BY <1>1, <2>2
  <2>5. \E m, n \in numbers : m # n /\ f[m] = f[n]
    BY <2>1, <2>2, <2>4, FS_PigeonHole
  <2> QED BY <2>3, <2>5
<1>3. unused \in SUBSET Nat
  BY <1>1
<1> HIDE DEF unused
<1>4. \E m \in unused : \A k \in unused : m <= k
  BY <1>2, <1>3, Least
<1>5. Min(unused) \in unused
  BY <1>4 DEF Min
<1>6. Min(unused) \in Nat /\ auto(Min(unused)) \notin DOMAIN tracks
  BY <1>3, <1>5 DEF unused
<1>7. Named(tracks, nextId, d) =
          IF d.hint # NoName /\ d.hint \notin DOMAIN tracks
          THEN [id |-> d.hint, nextId |-> nextId + 1]
          ELSE [id |-> auto(Min(unused)), nextId |-> Min(unused) + 1]
  BY DEF Named, unused
<1> HIDE DEF auto
<1> QED BY <1>6, <1>7

(* A detection goes to no track that another one of the frame has gone to. *)
LEMMA AssociatedIsFree ==
    ASSUME NEW tracks, NEW used, NEW d, NEW ts
    PROVE  Associated(tracks, used, d, ts) \subseteq DOMAIN tracks \ used
BY DEF Associated

(* A track that takes a detection has been seen. *)
LEMMA FilteredIsHit ==
    ASSUME NEW track, IsTrack(track), NEW d, NEW ts \in Int
    PROVE  LET t == Filtered(track, d, ts) IN IsTrack(t) /\ t.misses = 0 /\ t.last = ts
<1> DEFINE t == Filtered(track, d, ts)
           dt == ts - track.last
           measured == IF dt <= 0 THEN 200 * (d.x - track.x) ELSE (2 * (d.x - track.x)) \div dt
           expected == track.x + (IF dt <= 0 THEN track.v \div 200 ELSE (track.v * dt) \div 2)
           x == (70 * d.x + 30 * expected) \div 100
           v == (45 * measured + 55 * track.v) \div 100
           conf == Min({100, (65 * track.conf + 35 * d.conf + 500) \div 100})
           cls == IF 10 * d.conf >= 6 * conf THEN d.cls ELSE track.cls
           hits == track.hits + 1
<1>1. t = [track EXCEPT !.x = x, !.v = v, !.conf = conf, !.cls = cls,
                        !.last = ts, !.hits = hits, !.misses = 0]
  BY Zenon DEF Filtered
<1> HIDE DEF dt, measured, expected, x, v, conf, cls, hits
<1> HIDE DEF t
<1>2. DOMAIN t = DOMAIN track
  BY <1>1
<1>3. t.misses = 0 /\ t.last = ts
  BY <1>1 DEF IsTrack
<1> QED BY <1>2, <1>3 DEF IsTrack, t

(* What is found for a detection: a new name, or a track that none has gone to. *)
LEMMA ChoiceIsFree ==
    ASSUME NEW w, IsWorld(w), NEW used, used \subseteq DOMAIN w.tracks, NEW d, NEW ts
    PROVE  LET choice == Choice(w, used, d, ts) IN
           /\ choice.id \notin used /\ choice.nextId \in Nat /\ choice.new \in BOOLEAN
           /\ choice.new <=> choice.id \notin DOMAIN w.tracks
<1> DEFINE found == Associated(w.tracks, used, d, ts)
           new == Named(w.tracks, w.nextId, d)
           id == CHOOSE i \in found : TRUE
           choice == Choice(w, used, d, ts)
<1>1. found \subseteq DOMAIN w.tracks \ used
  BY AssociatedIsFree
<1>2. new.id \notin DOMAIN w.tracks /\ new.nextId \in Nat
  BY NamedIsNew DEF IsWorld
<1>3. choice = IF found = {} THEN [new |-> TRUE, id |-> new.id, nextId |-> new.nextId]
               ELSE [new |-> FALSE, id |-> id, nextId |-> 0]
  BY DEF Choice, ChoiceOf
<1>4. found # {} => id \in found
  OBVIOUS
<1> DEFINE Free == /\ choice.id \notin used /\ choice.nextId \in Nat /\ choice.new \in BOOLEAN
                   /\ choice.new <=> choice.id \notin DOMAIN w.tracks
<1> HIDE DEF found, new, id, choice
<1>5. ASSUME found = {} PROVE Free
  BY <1>2, <1>3, <1>5
<1>6. ASSUME found # {} PROVE Free
  BY <1>1, <1>3, <1>4, <1>6
<1>7. Free
  BY <1>5, <1>6
<1> QED BY <1>7 DEF choice

(* What is written of it: a track that was seen now, beside those that were there. *)
Written(w, v, id, ts) ==
    /\ IsWorld(v) /\ DOMAIN v.tracks = DOMAIN w.tracks \cup {id}
    /\ v.tracks[id].misses = 0 /\ v.tracks[id].last = ts
    /\ \A other \in DOMAIN w.tracks \ {id} : v.tracks[other] = w.tracks[other]

LEMMA BegunIsWritten ==
    ASSUME NEW w, IsWorld(w), NEW choice, choice.nextId \in Nat, NEW d, NEW ts \in Int
    PROVE  Written(w, Begun(w, choice, d, ts), choice.id, ts)
<1> DEFINE id == choice.id
           t == Started(d, ts, choice.nextId)
           tracks == [i \in DOMAIN w.tracks \cup {id} |-> IF i = id THEN t ELSE w.tracks[i]]
           v == Begun(w, choice, d, ts)
<1>1. v = [w EXCEPT !.tracks = tracks, !.nextId = choice.nextId]
  BY DEF Begun
<1>2. IsTrack(t) /\ t.misses = 0 /\ t.last = ts
  BY DEF Started, IsTrack
<1> HIDE DEF t
<1>3. /\ DOMAIN tracks = DOMAIN w.tracks \cup {id} /\ tracks[id] = t
      /\ \A other \in DOMAIN w.tracks \ {id} : tracks[other] = w.tracks[other]
  OBVIOUS
<1> HIDE DEF tracks, id
<1>4. DOMAIN v = {"tracks", "nextId", "last"} /\ v.tracks = tracks /\ v.nextId \in Nat
  BY <1>1 DEF IsWorld
<1>5. IsFiniteSet(DOMAIN tracks)
  BY <1>3, FS_AddElement DEF IsWorld
<1> HIDE DEF v
<1> QED BY <1>2, <1>3, <1>4, <1>5 DEF Written, IsWorld, v, id

LEMMA ContinuedIsWritten ==
    ASSUME NEW w, IsWorld(w), NEW choice, choice.id \in DOMAIN w.tracks, NEW d, NEW ts \in Int
    PROVE  Written(w, Continued(w, choice, d, ts), choice.id, ts)
<1> DEFINE id == choice.id
           t == Filtered(w.tracks[id], d, ts)
           tracks == [w.tracks EXCEPT ![id] = t]
           v == Continued(w, choice, d, ts)
<1>1. v = [w EXCEPT !.tracks = tracks]
  BY DEF Continued
<1>2. IsTrack(t) /\ t.misses = 0 /\ t.last = ts
  BY FilteredIsHit DEF IsWorld
<1> HIDE DEF t
<1>3. /\ DOMAIN tracks = DOMAIN w.tracks \cup {id} /\ tracks[id] = t
      /\ \A other \in DOMAIN w.tracks \ {id} : tracks[other] = w.tracks[other]
  OBVIOUS
<1> HIDE DEF tracks
<1>4. DOMAIN v = {"tracks", "nextId", "last"} /\ v.tracks = tracks /\ v.nextId \in Nat
  BY <1>1 DEF IsWorld
<1>5. DOMAIN tracks = DOMAIN w.tracks
  BY <1>3
<1> HIDE DEF v, id
<1> QED BY <1>2, <1>3, <1>4, <1>5 DEF Written, IsWorld, v, id

(* What is aged: it is no longer shown as seen now, and gone when it is too old. *)
Aged(w, v, id, ts) ==
    /\ IsWorld(v) /\ DOMAIN v.tracks \in {DOMAIN w.tracks, DOMAIN w.tracks \ {id}}
    /\ id \in DOMAIN v.tracks => v.tracks[id].misses # 0 /\ ts - v.tracks[id].last <= StaleAfter
    /\ \A other \in DOMAIN w.tracks \ {id} : v.tracks[other] = w.tracks[other]

LEMMA UnseenIsAged ==
    ASSUME NEW w, IsWorld(w), NEW id \in DOMAIN w.tracks, NEW ts \in Int
    PROVE  Aged(w, Unseen(w, id, ts), id, ts)
<1> DEFINE v == Unseen(w, id, ts)
           old == w.tracks[id]
<1>1. IsTrack(old) /\ StaleAfter \in Int
  BY DEF IsWorld, StaleAfter
<1>2. CASE ts - old.last > StaleAfter
  <2> DEFINE tracks == [other \in DOMAIN w.tracks \ {id} |-> w.tracks[other]]
  <2>1. v = [w EXCEPT !.tracks = tracks]
    BY <1>2 DEF Unseen
  <2>2. DOMAIN tracks = DOMAIN w.tracks \ {id} /\ \A other \in DOMAIN tracks : tracks[other] = w.tracks[other]
    OBVIOUS
  <2> HIDE DEF tracks
  <2>3. DOMAIN v = {"tracks", "nextId", "last"} /\ v.tracks = tracks /\ v.nextId \in Nat
    BY <2>1 DEF IsWorld
  <2>4. IsFiniteSet(DOMAIN tracks)
    BY <2>2, FS_RemoveElement DEF IsWorld
  <2> HIDE DEF v
  <2> QED BY <2>2, <2>3, <2>4 DEF Aged, IsWorld, v
<1>3. CASE ~(ts - old.last > StaleAfter)
  <2> DEFINE misses == old.misses + 1
             conf == (85 * old.conf) \div 100
             t == [old EXCEPT !.misses = misses, !.conf = conf]
             tracks == [w.tracks EXCEPT ![id] = t]
  <2>1. v = [w EXCEPT !.tracks = tracks]
    BY <1>3 DEF Unseen, Faded
  <2>2. ts - old.last <= StaleAfter /\ misses \in Nat /\ misses # 0
    BY <1>1, <1>3 DEF IsTrack
  <2> HIDE DEF misses, conf
  <2>3. IsTrack(t) /\ t.misses # 0 /\ ts - t.last <= StaleAfter
    BY <1>1, <2>2 DEF IsTrack
  <2> HIDE DEF t
  <2>4. /\ DOMAIN tracks = DOMAIN w.tracks /\ tracks[id] = t
        /\ \A other \in DOMAIN w.tracks \ {id} : tracks[other] = w.tracks[other]
    OBVIOUS
  <2> HIDE DEF tracks
  <2>5. DOMAIN v = {"tracks", "nextId", "last"} /\ v.tracks = tracks /\ v.nextId \in Nat
    BY <2>1 DEF IsWorld
  <2> HIDE DEF v
  <2> QED BY <2>3, <2>4, <2>5 DEF Aged, IsWorld, v
<1> QED BY <1>2, <1>3

(* A fold goes on from all places but the last. *)
GoesOn(kind, first, ds, by, S, fold) ==
    /\ fold[{}] = first
    /\ \A s \in SUBSET S : s # {} =>
          \E x \in s : /\ x = LastOf(kind, ds, s) /\ fold[s] = After(kind, fold[s \ {x}], ds, x, by)
                       /\ s \ {x} \in SUBSET S /\ Cardinality(s \ {x}) = Cardinality(s) - 1

LEMMA FoldGoesOn ==
    ASSUME NEW kind, NEW first, NEW ds, NEW by, NEW S, IsFiniteSet(S), HasLast(kind, ds, S),
           NEW fold, IsFold(kind, first, ds, by, S, fold)
    PROVE  GoesOn(kind, first, ds, by, S, fold)
<1>1. \A s \in SUBSET S : fold[s] = Fold(kind, first, ds, by, fold, s)
  BY DEF IsFold
<1>2. fold[{}] = first
  BY <1>1 DEF Fold
<1>3. ASSUME NEW s \in SUBSET S, s # {}
      PROVE  \E x \in s : /\ x = LastOf(kind, ds, s) /\ fold[s] = After(kind, fold[s \ {x}], ds, x, by)
                          /\ s \ {x} \in SUBSET S /\ Cardinality(s \ {x}) = Cardinality(s) - 1
  <2> DEFINE x == LastOf(kind, ds, s)
  <2>1. x \in s
    BY <1>3 DEF HasLast
  <2>2. fold[s] = After(kind, fold[s \ {x}], ds, x, by)
    BY <1>1, <1>3 DEF Fold
  <2>3. IsFiniteSet(s)
    BY FS_Subset
  <2>4. Cardinality(s \ {x}) = Cardinality(s) - 1
    BY <2>1, <2>3, FS_RemoveElement
  <2>5. x = LastOf(kind, ds, s)
    OBVIOUS
  <2> HIDE DEF x
  <2> QED BY <2>1, <2>2, <2>4, <2>5
<1> QED BY <1>2, <1>3 DEF GoesOn

(* What an update leaves: as many tracks without a miss as the frame has credible
   detections, and no other that was not seen for too long. *)
AreDetections(tracks, seen, ts) ==
    LET hit == {id \in DOMAIN tracks : tracks[id].misses = 0} IN
    /\ Cardinality(hit) = Cardinality(seen)
    /\ \A id \in hit : tracks[id].last = ts
    /\ \A id \in DOMAIN tracks : ts - tracks[id].last <= StaleAfter

(* The cameras' detections are fused to a list, whichever cluster each one joins. *)
IsList(v) == \E T : v \in Seq(T)

LEMMA JoinedIsList == ASSUME NEW v, IsList(v), NEW d, NEW gate PROVE IsList(Joined(v, d, gate))
<1>1. PICK T : v \in Seq(T)
  BY DEF IsList
<1>2. Append(v, <<d>>) \in Seq(T \cup {<<d>>})
  <2>1. v \in Seq(T \cup {<<d>>})
    BY <1>1
  <2> QED BY <2>1
<1>3. ASSUME NEW k PROVE [v EXCEPT ![k] = Append(@, d)] \in Seq(T \cup {Append(v[k], d)})
  <2> DEFINE y == Append(v[k], d)
  <2>1. Len(v) \in Nat /\ DOMAIN v = 1..Len(v) /\ \A i \in 1..Len(v) : v[i] \in T
    BY <1>1
  <2>2. [v EXCEPT ![k] = Append(@, d)] = [v EXCEPT ![k] = y]
    OBVIOUS
  <2> HIDE DEF y
  <2>3. [v EXCEPT ![k] = y] \in [1..Len(v) -> T \cup {y}]
    BY <1>1, <2>1
  <2>4. \A f \in [1..Len(v) -> T \cup {y}] : f \in Seq(T \cup {y})
    BY <2>1
  <2> QED BY <2>2, <2>3, <2>4 DEF y
<1>4. PICK k : Joined(v, d, gate) \in {Append(v, <<d>>), [v EXCEPT ![k] = Append(@, d)]}
  <2> DEFINE distance(i) == Hypot(d.x - Centre(v[i]).x, d.y - Centre(v[i]).y)
             near == {i \in DOMAIN v : v[i][1].cls = d.cls /\ distance(i) <= gate}
             nearest == {i \in near : \A j \in near : distance(i) <= distance(j)}
             k == Min(nearest)
  <2>1. Joined(v, d, gate) = IF near = {} THEN Append(v, <<d>>) ELSE [v EXCEPT ![k] = Append(@, d)]
    BY Zenon DEF Joined
  <2> HIDE DEF near, k
  <2> QED BY <2>1
<1>5. \E U : Joined(v, d, gate) \in Seq(U)
  <2>1. CASE Joined(v, d, gate) = Append(v, <<d>>)
    BY <1>2, <2>1
  <2>2. CASE Joined(v, d, gate) = [v EXCEPT ![k] = Append(@, d)]
    <3>1. Joined(v, d, gate) \in Seq(T \cup {Append(v[k], d)})
      BY <1>3, <2>2
    <3> QED BY <3>1
  <2> QED BY <1>4, <2>1, <2>2
<1> QED BY <1>5 DEF IsList

LEMMA FusedIsList ==
    ASSUME NEW n \in Nat, NEW ds, DOMAIN ds \in SUBSET (1..n), \A i \in DOMAIN ds : ds[i].conf \in Nat, NEW gate
    PROVE  \E m \in Nat : DOMAIN Fused(ds, gate) = 1..m
<1> DEFINE S == DOMAIN ds
           leastSure(s) == Max({i \in s : \A j \in s : ds[i].conf <= ds[j].conf})
           IsIt(f) == f = [s \in SUBSET S |-> IF s = {} THEN <<>>
                             ELSE LET x == leastSure(s) IN Joined(f[s \ {x}], ds[x], gate)]
           fold == CHOOSE f : IsIt(f)
           clusters == fold[S]
           T == {k \in Nat : \A s \in SUBSET S : Cardinality(s) = k => IsList(fold[s])}
<1>1. Fused(ds, gate) = [i \in DOMAIN clusters |-> Fusion(clusters[i])]
  BY DEF Fused, MapThenFoldSet
<1>2. IsFiniteSet(S)
  <2>1. IsFiniteSet(1..n) /\ S \in SUBSET (1..n)
    BY FS_Interval
  <2> HIDE DEF S
  <2> QED BY <2>1, FS_Subset
<1>3. HasLast("fuse", ds, S)
  <2> SUFFICES ASSUME NEW s \in SUBSET S, s # {} PROVE leastSure(s) \in s
    BY DEF HasLast, LastOf
  <2> DEFINE confs == {ds[i].conf : i \in s}
             least == {i \in s : \A j \in s : ds[i].conf <= ds[j].conf}
  <2>1. PICK i \in s : TRUE
    OBVIOUS
  <2>2. confs \in SUBSET Nat /\ ds[i].conf \in confs
    OBVIOUS
  <2> HIDE DEF confs
  <2>3. PICK c \in confs : \A e \in confs : c <= e
    BY <2>2, Least
  <2> USE DEF confs
  <2>4. PICK j \in s : c = ds[j].conf
    BY <2>3
  <2>5. j \in least /\ least \in SUBSET (1..n) /\ least \subseteq s
    BY <2>3, <2>4
  <2> HIDE DEF least
  <2>6. Max(least) \in least
    BY <2>5, GreatestIsIn
  <2> QED BY <2>5, <2>6 DEF least
<1>4. ASSUME NEW f PROVE IsFold("fuse", <<>>, ds, gate, S, f) <=> IsIt(f)
  BY DEF IsFold, Fold, LastOf, After
<1>5. IsIt(fold)
  <2>1. \E f : IsIt(f)
    BY <1>2, <1>3, <1>4, FoldUnfolds
  <2> HIDE DEF IsIt
  <2> QED BY <2>1
<1>6. GoesOn("fuse", <<>>, ds, gate, S, fold)
  <2>1. IsFold("fuse", <<>>, ds, gate, S, fold)
    BY <1>4, <1>5
  <2> HIDE DEF fold, S
  <2> QED BY <1>2, <1>3, <2>1, FoldGoesOn
<1> HIDE DEF fold, S
<1>7. \A s \in SUBSET S : Cardinality(s) \in Nat /\ (Cardinality(s) = 0 <=> s = {})
  BY <1>2, FS_Subset, FS_CardinalityType, FS_EmptySet
<1>8. 0 \in T
  <2>1. <<>> \in Seq({})
    OBVIOUS
  <2> QED BY <1>6, <1>7, <2>1 DEF GoesOn, IsList
<1>9. ASSUME NEW k \in Nat, k \in T PROVE k + 1 \in T
  <2> SUFFICES ASSUME NEW s \in SUBSET S, Cardinality(s) = k + 1 PROVE IsList(fold[s])
    OBVIOUS
  <2>1. s # {}
    BY <1>7
  <2>2. PICK x \in s : /\ fold[s] = After("fuse", fold[s \ {x}], ds, x, gate)
                       /\ s \ {x} \in SUBSET S /\ Cardinality(s \ {x}) = Cardinality(s) - 1
    BY <1>6, <2>1 DEF GoesOn
  <2>3. IsList(fold[s \ {x}])
    BY <1>9, <2>2
  <2>4. fold[s] = Joined(fold[s \ {x}], ds[x], gate)
    BY <2>2 DEF After
  <2> QED BY <2>3, <2>4, JoinedIsList
<1>10. Cardinality(S) \in T
  <2>1. Cardinality(S) \in Nat
    BY <1>7
  <2> HIDE DEF T
  <2> QED BY <1>8, <1>9, <2>1, Induct
<1>11. PICK U : clusters \in Seq(U)
  BY <1>10 DEF IsList
<1>12. Len(clusters) \in Nat /\ DOMAIN clusters = 1..Len(clusters)
  BY <1>11
<1> QED BY <1>1, <1>12

(* A request that has a frame has one of the bodies, whose detections are a list. *)
Framed == {"check clock", "set clock", "check world"} \cup Tracking
BodiesAreSent == \A c \in Callers : at[c] \in Framed => body[c] \in Bodies

(* An update that is alone: what it has used was seen now, as many tracks as it has
   taken detections; what it found is free; and what it has aged is not too old. *)
TakesAlone(c) ==
    LET look == looking[c]
        tracks == world.tracks IN
    /\ look.used \subseteq DOMAIN tracks
    /\ \A id \in look.used : tracks[id].misses = 0 /\ tracks[id].last = body[c].ts
    /\ Cardinality(look.used) + Cardinality(look.todo) = Cardinality(Credible(FusedBy(c)))
    /\ at[c] = "store" => /\ look.choice.id \notin look.used
                          /\ look.choice.new <=> look.choice.id \notin DOMAIN tracks
    /\ at[c] = "age" =>
          /\ look.unseen \subseteq DOMAIN tracks \ look.used
          /\ \A id \in DOMAIN tracks \ (look.used \cup look.unseen) :
                tracks[id].misses # 0 /\ body[c].ts - tracks[id].last <= StaleAfter

Parts == {"todo", "used", "choice", "unseen", "alone"}
LookIsSound(c) ==
    /\ DOMAIN looking[c] = Parts
    /\ at[c] \in {"associate", "store", "age"} =>
          /\ looking[c].todo \subseteq Credible(FusedBy(c))
          /\ at[c] = "store" => looking[c].todo # {} /\ looking[c].choice.nextId \in Nat
          /\ at[c] = "age" => looking[c].todo = {}
          /\ looking[c].alone => TakesAlone(c)

LooksAreSound == DOMAIN looking = Callers /\ \A c \in Callers : LookIsSound(c)
WorldIInv == AutonomyIInv /\ BodiesAreSent /\ IsWorld(world) /\ LooksAreSound

LEMMA FrameIsList ==
    ASSUME NEW c \in Callers, body[c] \in Bodies
    PROVE  \E m \in Nat : DOMAIN FusedBy(c) = 1..m
<1> DEFINE detections == body[c].detections
           ds == Localized(detections, {})
<1>1. /\ Len(detections) \in Nat /\ DOMAIN detections = 1..Len(detections)
      /\ \A i \in DOMAIN detections : "conf" \in DOMAIN detections[i] /\ detections[i].conf \in Int
  BY BodiesAssumption
<1>2. DOMAIN ds \in SUBSET (1..Len(detections)) /\ \A i \in DOMAIN ds : ds[i].conf \in Nat
  <2> DEFINE placed(d) == d.conf >= 5 /\ (d.inPixels => d.camera \in {} /\ d.inside)
             places == {j \in DOMAIN detections : placed(detections[j])}
             seen(i) == [detections[i] EXCEPT !.hint = IF @ = <<>> THEN <<"", i - 1>> ELSE @,
                                              !.conf = Min({100, @})]
  <2>1. DOMAIN ds = places /\ \A i \in places : ds[i] = seen(i)
    <3>1. ds = [i \in places |-> seen(i)]
      BY DEF Localized
    <3> HIDE DEF ds, places, seen
    <3> QED BY <3>1
  <2>2. ASSUME NEW i \in places PROVE seen(i).conf \in Nat
    <3> DEFINE conf == detections[i].conf
    <3>1. conf \in Nat /\ "conf" \in DOMAIN detections[i]
      BY <1>1
    <3>2. seen(i).conf = Min({100, conf})
      BY <3>1
    <3> HIDE DEF conf
    <3>3. {100, conf} = {100} \cup {conf} /\ 100 \in Nat /\ {conf} \subseteq Nat
      BY <3>1
    <3>4. Min({100} \cup {conf}) \in 0..100
      BY <3>3, LeastUpTo
    <3> QED BY <3>2, <3>3, <3>4
  <2> HIDE DEF seen
  <2>3. places \in SUBSET (1..Len(detections))
    BY <1>1
  <2> HIDE DEF places, ds
  <2> QED BY <2>1, <2>2, <2>3
<1> HIDE DEF ds
<1> QED BY <1>1, <1>2, FusedIsList DEF FusedBy, ds

LEMMA BodyGoes ==
    ASSUME AutonomyTypeOK, BodiesAreSent, NEW c \in Callers, NEW to \in Stations, Goes(c, to),
           UNCHANGED body, to \in Framed => at[c] \in Framed
    PROVE  BodiesAreSent'
BY CallerGoes DEF BodiesAreSent

LEMMA BodyAnswered ==
    ASSUME AutonomyTypeOK, BodiesAreSent, NEW c \in Callers, NEW what, Answered(c, what)
    PROVE  BodiesAreSent'
BY CallerAnswered DEF BodiesAreSent, Framed, Tracking

(* There are finitely many credible detections, and a first one of some of them. *)
LEMMA CredibleIsFinite ==
    ASSUME NEW c \in Callers, body[c] \in Bodies
    PROVE  /\ IsFiniteSet(Credible(FusedBy(c))) /\ Cardinality(Credible(FusedBy(c))) \in Nat
           /\ \A s \in SUBSET Credible(FusedBy(c)) : s # {} => Min(s) \in s
<1>1. PICK m \in Nat : DOMAIN FusedBy(c) = 1..m
  BY FrameIsList
<1>2. Credible(FusedBy(c)) \in SUBSET (1..m)
  BY <1>1 DEF Credible
<1> DEFINE all == Credible(FusedBy(c))
<1> HIDE DEF all
<1>3. IsFiniteSet(1..m)
  BY FS_Interval
<1>4. IsFiniteSet(all) /\ Cardinality(all) \in Nat
  BY <1>2, <1>3, FS_Subset, FS_CardinalityType DEF all
<1>5. ASSUME NEW s \in SUBSET all, s # {} PROVE Min(s) \in s
  <2>1. PICK n \in s : TRUE
    BY <1>5
  <2>2. s \in SUBSET Nat
    BY <1>2 DEF all
  <2>3. \E k \in s : \A l \in s : k <= l
    BY <2>1, <2>2, Least
  <2> QED BY <2>3 DEF Min
<1> QED BY <1>4, <1>5 DEF all

(* What a step leaves of the look of a caller that does nothing, and of one that is in
   no update afterwards. *)
LEMMA OtherLooks ==
    ASSUME NEW q \in Callers, LookIsSound(q), at'[q] = at[q], body'[q] = body[q],
           \/ looking'[q] = looking[q] /\ world'.tracks = world.tracks
           \/ looking'[q] = [looking[q] EXCEPT !.alone = FALSE]
    PROVE  LookIsSound(q)'
<1>1. FusedBy(q)' = FusedBy(q)
  BY DEF FusedBy
<1>2. CASE looking'[q] = looking[q] /\ world'.tracks = world.tracks
  BY <1>1, <1>2 DEF LookIsSound, TakesAlone
<1>3. CASE looking'[q] = [looking[q] EXCEPT !.alone = FALSE]
  <2>1. /\ DOMAIN looking'[q] = Parts /\ looking'[q].todo = looking[q].todo
        /\ looking'[q].choice = looking[q].choice /\ ~looking'[q].alone
    BY <1>3 DEF LookIsSound, Parts
  <2> QED BY <1>1, <2>1 DEF LookIsSound
<1> QED BY <1>2, <1>3

LEMMA NotInUpdate ==
    ASSUME LooksAreSound, NEW c \in Callers, at'[c] \notin {"associate", "store", "age"},
           \A q \in Callers \ {c} : at'[q] = at[q] /\ body'[q] = body[q],
           NEW look, DOMAIN look = Parts,
           \/ looking' = [looking EXCEPT ![c] = look] /\ world'.tracks = world.tracks
           \/ UNCHANGED looking /\ look = looking[c] /\ world'.tracks = world.tracks
           \/ Looks(c, look)
    PROVE  LooksAreSound'
<1>1. /\ DOMAIN looking' = Callers /\ looking'[c] = look
      /\ \A q \in Callers \ {c} :
            \/ looking'[q] = looking[q] /\ world'.tracks = world.tracks
            \/ looking'[q] = [looking[q] EXCEPT !.alone = FALSE]
  BY DEF LooksAreSound, Looks
<1>2. LookIsSound(c)'
  BY <1>1 DEF LookIsSound
<1>3. \A q \in Callers \ {c} : LookIsSound(q)'
  BY <1>1, OtherLooks DEF LooksAreSound
<1> QED BY <1>1, <1>2, <1>3 DEF LooksAreSound

(* The step of a caller that is in an update afterwards. *)
LEMMA InUpdate ==
    ASSUME LooksAreSound, AutonomyTypeOK, NEW c \in Callers, NEW to \in {"associate", "store", "age"},
           Goes(c, to), UNCHANGED body, NEW look, DOMAIN look = Parts,
           \/ looking' = [looking EXCEPT ![c] = look] /\ world'.tracks = world.tracks
           \/ Looks(c, look),
           look.todo \subseteq Credible(FusedBy(c)),
           to = "store" => look.todo # {} /\ look.choice.nextId \in Nat,
           to = "age" => look.todo = {},
           at'[c] = to /\ looking'[c] = look /\ look.alone => TakesAlone(c)'
    PROVE  LooksAreSound'
<1>1. /\ DOMAIN looking' = Callers /\ looking'[c] = look
      /\ \A q \in Callers \ {c} :
            \/ looking'[q] = looking[q] /\ world'.tracks = world.tracks
            \/ looking'[q] = [looking[q] EXCEPT !.alone = FALSE]
  BY DEF LooksAreSound, Looks
<1>2. at'[c] = to /\ \A q \in Callers \ {c} : at'[q] = at[q]
  BY CallerGoes DEF Stations, Tracking
<1>3. LookIsSound(c)'
  <2>1. FusedBy(c)' = FusedBy(c)
    BY DEF FusedBy
  <2> QED BY <1>1, <1>2, <2>1 DEF LookIsSound
<1>4. \A q \in Callers \ {c} : LookIsSound(q)'
  BY <1>1, <1>2, OtherLooks DEF LooksAreSound
<1> QED BY <1>1, <1>3, <1>4 DEF LooksAreSound

(* An update begins with all its detections to take. *)
LEMMA BeginsSound == ASSUME WorldIInv, NEW c \in Callers, BeginUpdate(c) PROVE LooksAreSound' /\ IsWorld(world')
<1> DEFINE all == Credible(FusedBy(c))
           look == [NotLooking EXCEPT !.todo = all, !.alone = TRUE]
<1>1. /\ at[c] = "track" /\ Goes(c, "associate") /\ UNCHANGED body
      /\ world' = [world EXCEPT !.last = body[c].ts] /\ looking' = [looking EXCEPT ![c] = look]
  BY DEF BeginUpdate
<1>2. /\ AutonomyTypeOK /\ LooksAreSound /\ IsWorld(world) /\ body[c] \in Bodies /\ body[c].ts \in Int
  BY <1>1 DEF WorldIInv, AutonomyIInv, AutonomyTypeOK, BodiesAreSent, Framed, Tracking
<1>3. /\ DOMAIN world' = DOMAIN world /\ world'.tracks = world.tracks /\ world'.nextId = world.nextId
  BY <1>1, <1>2 DEF IsWorld
<1>4. IsWorld(world')
  BY <1>2, <1>3 DEF IsWorld
<1>5. Cardinality(all) \in Nat
  BY <1>2, CredibleIsFinite
<1> HIDE DEF all
<1>6. DOMAIN look = Parts /\ look.todo = all /\ look.used = {} /\ look.alone
  BY DEF NotLooking, Parts
<1>7. FusedBy(c)' = FusedBy(c)
  BY <1>1 DEF FusedBy
<1> HIDE DEF look
<1>8. ASSUME at'[c] = "associate", looking'[c] = look PROVE TakesAlone(c)'
  <2>1. Cardinality({}) = 0
    BY FS_EmptySet
  <2> QED BY <1>5, <1>6, <1>7, <1>8, <2>1 DEF TakesAlone, all
<1> QED BY <1>1, <1>2, <1>3, <1>4, <1>6, <1>8, InUpdate DEF all

(* What is found is free as long as the tracks are as they were. *)
LEMMA AssociateSound == ASSUME WorldIInv, NEW c \in Callers, Associate(c) PROVE LooksAreSound'
<1> DEFINE old == looking[c]
           d == FusedBy(c)[Min(old.todo)]
           choice == Choice(world, old.used, d, body[c].ts)
           look == [old EXCEPT !.choice = choice]
<1>1. /\ at[c] = "associate" /\ old.todo # {} /\ Goes(c, "store") /\ UNCHANGED <<body, world>>
      /\ looking' = [looking EXCEPT ![c].choice = choice]
  BY DEF Associate
<1>2. /\ AutonomyTypeOK /\ LooksAreSound /\ IsWorld(world) /\ LookIsSound(c)
  BY DEF WorldIInv, AutonomyIInv, LooksAreSound
<1>3. choice.nextId \in Nat
  <2> DEFINE found == Associated(world.tracks, old.used, d, body[c].ts)
             new == Named(world.tracks, world.nextId, d)
  <2>1. new.nextId \in Nat
    BY <1>2, NamedIsNew DEF IsWorld
  <2>2. choice.nextId \in {0, new.nextId}
    <3> HIDE DEF d, found
    <3>1. choice = IF found = {} THEN [new |-> TRUE, id |-> new.id, nextId |-> new.nextId]
                   ELSE [new |-> FALSE, id |-> CHOOSE i \in found : TRUE, nextId |-> 0]
      BY DEF Choice, ChoiceOf, found
    <3> HIDE DEF choice, new
    <3> QED BY <3>1
  <2> HIDE DEF choice, new
  <2> QED BY <2>1, <2>2
<1>4. old.used \subseteq DOMAIN world.tracks =>
        choice.id \notin old.used /\ (choice.new <=> choice.id \notin DOMAIN world.tracks)
  <2> HIDE DEF d, old
  <2> QED BY <1>2, ChoiceIsFree
<1> HIDE DEF choice
<1>5. /\ DOMAIN look = Parts /\ look.todo = old.todo /\ look.used = old.used /\ look.choice = choice
      /\ look.alone = old.alone
  BY <1>2 DEF LookIsSound, Parts
<1>6. looking' = [looking EXCEPT ![c] = look]
  BY <1>1
<1>7. FusedBy(c)' = FusedBy(c)
  BY <1>1 DEF FusedBy
<1> HIDE DEF look
<1>8. ASSUME at'[c] = "store", looking'[c] = look, look.alone PROVE TakesAlone(c)'
  <2>1. TakesAlone(c)
    BY <1>1, <1>2, <1>5, <1>8 DEF LookIsSound
  <2> QED BY <1>1, <1>4, <1>5, <1>7, <1>8, <2>1 DEF TakesAlone
<1>9. look.todo \subseteq Credible(FusedBy(c)) /\ look.todo # {}
  BY <1>1, <1>2, <1>5 DEF LookIsSound
<1> HIDE DEF old, d
<1> QED BY <1>1, <1>2, <1>3, <1>5, <1>6, <1>8, <1>9, InUpdate

(* One more track has been seen with each detection that is taken. *)
LEMMA TakeUpSound == ASSUME WorldIInv, NEW c \in Callers, TakeUp(c) PROVE LooksAreSound' /\ IsWorld(world')
<1> DEFINE old == looking[c]
           i == Min(old.todo)
           d == FusedBy(c)[i]
           choice == old.choice
           id == choice.id
           ts == body[c].ts
           look == [old EXCEPT !.todo = @ \ {i}, !.used = @ \cup {id}, !.choice = NoChoice]
<1>1. at[c] = "store"
  BY DEF TakeUp
<1>2. /\ AutonomyTypeOK /\ LooksAreSound /\ IsWorld(world) /\ LookIsSound(c)
      /\ body[c] \in Bodies /\ ts \in Int /\ BodiesAreSent
  BY <1>1 DEF WorldIInv, AutonomyIInv, AutonomyTypeOK, LooksAreSound, BodiesAreSent, Framed, Tracking
<1>3. CASE ~(choice.new \/ id \in DOMAIN world.tracks)
  <2>1. Answered(c, "error") /\ UNCHANGED world
    BY <1>3 DEF TakeUp
  <2>2. DOMAIN NotLooking = Parts
    BY DEF NotLooking, Parts
  <2>3. at'[c] = "idle" /\ \A q \in Callers \ {c} : at'[q] = at[q] /\ body'[q] = body[q]
    BY <1>2, <2>1, CallerAnswered
  <2>4. looking' = [looking EXCEPT ![c] = NotLooking]
    BY <2>1 DEF Answered
  <2>5. LooksAreSound'
    BY <1>2, <2>1, <2>2, <2>3, <2>4, NotInUpdate
  <2> QED BY <1>2, <2>1, <2>5
<1>4. CASE choice.new \/ id \in DOMAIN world.tracks
  <2>1. /\ world' = IF choice.new THEN Begun(world, choice, d, ts) ELSE Continued(world, choice, d, ts)
        /\ Looks(c, look) /\ Goes(c, "associate") /\ UNCHANGED body
    BY <1>4 DEF TakeUp
  <2>2. Written(world, world', id, ts)
    <3>1. CASE choice.new
      <4>1. choice.nextId \in Nat
        BY <1>1, <1>2 DEF LookIsSound
      <4> HIDE DEF d, choice, ts
      <4>2. Written(world, Begun(world, choice, d, ts), choice.id, ts)
        BY <1>2, <4>1, BegunIsWritten
      <4> QED BY <2>1, <3>1, <4>2
    <3>2. CASE ~choice.new
      <4> HIDE DEF d, choice, ts
      <4>1. Written(world, Continued(world, choice, d, ts), choice.id, ts)
        BY <1>2, <1>4, <3>2, ContinuedIsWritten
      <4> QED BY <2>1, <3>2, <4>1
    <3> QED BY <3>1, <3>2
  <2>3. /\ old.todo \subseteq Credible(FusedBy(c)) /\ i \in old.todo
        /\ IsFiniteSet(old.todo) /\ Cardinality(old.todo) \in Nat
        /\ Cardinality(old.todo \ {i}) = Cardinality(old.todo) - 1
    <3>1. old.todo \subseteq Credible(FusedBy(c)) /\ old.todo # {}
      BY <1>1, <1>2 DEF LookIsSound
    <3> HIDE DEF old
    <3>2. i \in old.todo /\ IsFiniteSet(Credible(FusedBy(c)))
      BY <1>2, <3>1, CredibleIsFinite
    <3> HIDE DEF i
    <3> QED BY <3>1, <3>2, FS_Subset, FS_CardinalityType, FS_RemoveElement
  <2>4. /\ DOMAIN look = Parts /\ look.todo = old.todo \ {i} /\ look.used = old.used \cup {id}
        /\ look.alone = old.alone
    <3> HIDE DEF i, id
    <3> QED BY <1>2 DEF LookIsSound, Parts
  <2>5. FusedBy(c)' = FusedBy(c)
    BY <2>1 DEF FusedBy
  <2> HIDE DEF look, i, d
  <2>6. ASSUME at'[c] = "associate", looking'[c] = look, look.alone PROVE TakesAlone(c)'
    <3>1. TakesAlone(c)
      BY <1>1, <1>2, <2>4, <2>6 DEF LookIsSound
    <3>2. /\ old.used \subseteq DOMAIN world.tracks /\ id \notin old.used
          /\ \A other \in old.used : world.tracks[other].misses = 0 /\ world.tracks[other].last = ts
          /\ Cardinality(old.used) + Cardinality(old.todo) = Cardinality(Credible(FusedBy(c)))
      BY <1>1, <3>1 DEF TakesAlone
    <3> HIDE DEF old, id
    <3>3. Cardinality(old.used) \in Nat /\ Cardinality(old.used \cup {id}) = Cardinality(old.used) + 1
      <4>1. IsFiniteSet(old.used)
        BY <1>2, <3>2, FS_Subset DEF IsWorld
      <4> QED BY <3>2, <4>1, FS_AddElement, FS_CardinalityType
    <3>4. Cardinality(look.used) + Cardinality(look.todo) = Cardinality(Credible(FusedBy(c)))
      BY <2>3, <2>4, <3>2, <3>3
    <3>5. look.used \subseteq DOMAIN world'.tracks
      BY <2>2, <2>4, <3>2 DEF Written
    <3>6. \A other \in look.used : world'.tracks[other].misses = 0 /\ world'.tracks[other].last = ts
      BY <2>2, <2>4, <3>2 DEF Written
    <3> QED BY <2>1, <2>5, <2>6, <3>4, <3>5, <3>6 DEF TakesAlone
  <2>7. look.todo \subseteq Credible(FusedBy(c))
    BY <2>3, <2>4
  <2> HIDE DEF old, id
  <2>8. LooksAreSound'
    BY <1>2, <2>1, <2>4, <2>6, <2>7, InUpdate
  <2> QED BY <2>2, <2>8 DEF Written
<1> QED BY <1>3, <1>4

(* What is to be aged is what was not used. *)
LEMMA BeginAgingSound == ASSUME WorldIInv, NEW c \in Callers, BeginAging(c) PROVE LooksAreSound'
<1> DEFINE old == looking[c]
           unseen == DOMAIN world.tracks \ old.used
           look == [old EXCEPT !.unseen = unseen]
<1>1. /\ at[c] = "associate" /\ old.todo = {} /\ Goes(c, "age") /\ UNCHANGED <<body, world>>
      /\ looking' = [looking EXCEPT ![c].unseen = unseen]
  BY DEF BeginAging
<1>2. /\ AutonomyTypeOK /\ LooksAreSound /\ LookIsSound(c)
  BY DEF WorldIInv, AutonomyIInv, LooksAreSound
<1>3. /\ DOMAIN look = Parts /\ look.todo = old.todo /\ look.used = old.used
      /\ look.alone = old.alone /\ look.unseen = unseen
  BY <1>2 DEF LookIsSound, Parts
<1>4. looking' = [looking EXCEPT ![c] = look]
  BY <1>1
<1>5. FusedBy(c)' = FusedBy(c)
  BY <1>1 DEF FusedBy
<1> HIDE DEF look
<1>6. ASSUME at'[c] = "age", looking'[c] = look, look.alone PROVE TakesAlone(c)'
  <2>1. TakesAlone(c)
    BY <1>1, <1>2, <1>3, <1>6 DEF LookIsSound
  <2> QED BY <1>1, <1>3, <1>5, <1>6, <2>1 DEF TakesAlone
<1>7. look.todo \subseteq Credible(FusedBy(c)) /\ look.todo = {}
  BY <1>1, <1>3
<1> HIDE DEF old, unseen
<1> QED BY <1>1, <1>2, <1>3, <1>4, <1>6, <1>7, InUpdate

(* What is aged was not used, and is not too old if it stays. *)
LEMMA AgeSound == ASSUME WorldIInv, NEW c \in Callers, Age(c) PROVE LooksAreSound' /\ IsWorld(world')
<1> DEFINE old == looking[c]
           ts == body[c].ts
<1>1. PICK id \in old.unseen :
        LET look == [old EXCEPT !.unseen = @ \ {id}] IN
        IF id \in DOMAIN world.tracks
        THEN world' = Unseen(world, id, ts) /\ Looks(c, look)
        ELSE UNCHANGED world /\ looking' = [looking EXCEPT ![c] = look]
  BY DEF Age
<1> DEFINE look == [old EXCEPT !.unseen = @ \ {id}]
<1>2. /\ at[c] = "age" /\ UNCHANGED <<at, body>>
  BY DEF Age
<1>3. /\ AutonomyTypeOK /\ LooksAreSound /\ IsWorld(world) /\ LookIsSound(c) /\ ts \in Int
  BY DEF WorldIInv, AutonomyIInv, AutonomyTypeOK, LooksAreSound
<1>4. Goes(c, "age")
  BY <1>2, <1>3 DEF Goes, AutonomyTypeOK
<1>5. /\ DOMAIN look = Parts /\ look.todo = old.todo /\ look.used = old.used
      /\ look.alone = old.alone /\ look.unseen = old.unseen \ {id}
  BY <1>3 DEF LookIsSound, Parts
<1>6. look.todo \subseteq Credible(FusedBy(c)) /\ look.todo = {}
  BY <1>2, <1>3, <1>5 DEF LookIsSound
<1>7. FusedBy(c)' = FusedBy(c)
  BY <1>2 DEF FusedBy
<1>8. old.alone => TakesAlone(c)
  BY <1>2, <1>3 DEF LookIsSound
<1>9. CASE id \in DOMAIN world.tracks
  <2>1. world' = Unseen(world, id, ts) /\ Looks(c, look)
    BY <1>1, <1>9
  <2> HIDE DEF look
  <2>2. Aged(world, world', id, ts)
    BY <1>3, <1>9, <2>1, UnseenIsAged
  <2>3. ASSUME at'[c] = "age", looking'[c] = look, look.alone PROVE TakesAlone(c)'
    <3>1. /\ old.used \subseteq DOMAIN world.tracks
          /\ \A other \in old.used : world.tracks[other].misses = 0 /\ world.tracks[other].last = ts
          /\ Cardinality(old.used) + Cardinality(old.todo) = Cardinality(Credible(FusedBy(c)))
          /\ old.unseen \subseteq DOMAIN world.tracks \ old.used
          /\ \A other \in DOMAIN world.tracks \ (old.used \cup old.unseen) :
                world.tracks[other].misses # 0 /\ ts - world.tracks[other].last <= StaleAfter
      BY <1>2, <1>5, <1>8, <2>3 DEF TakesAlone
    <3> HIDE DEF old
    <3>2. id \notin old.used
      BY <1>1, <3>1
    <3>3. /\ look.used \subseteq DOMAIN world'.tracks
          /\ \A other \in look.used : world'.tracks[other].misses = 0 /\ world'.tracks[other].last = ts
      BY <1>5, <2>2, <3>1, <3>2 DEF Aged
    <3>4. look.unseen \subseteq DOMAIN world'.tracks \ look.used
      BY <1>5, <2>2, <3>1 DEF Aged
    <3>5. \A other \in DOMAIN world'.tracks \ (look.used \cup look.unseen) :
             world'.tracks[other].misses # 0 /\ ts - world'.tracks[other].last <= StaleAfter
      BY <1>5, <2>2, <3>1 DEF Aged
    <3>6. Cardinality(look.used) + Cardinality(look.todo) = Cardinality(Credible(FusedBy(c)))
      BY <1>5, <3>1
    <3> QED BY <1>2, <1>7, <2>3, <3>3, <3>4, <3>5, <3>6 DEF TakesAlone
  <2> HIDE DEF old
  <2>4. LooksAreSound'
    BY <1>2, <1>3, <1>4, <1>5, <1>6, <2>1, <2>3, InUpdate
  <2> QED BY <2>2, <2>4 DEF Aged
<1>10. CASE id \notin DOMAIN world.tracks
  <2>1. UNCHANGED world /\ looking' = [looking EXCEPT ![c] = look]
    BY <1>1, <1>10
  <2>2. ~old.alone
    BY <1>1, <1>2, <1>8, <1>10 DEF TakesAlone
  <2> HIDE DEF look, old
  <2>3. LooksAreSound'
    BY <1>2, <1>3, <1>4, <1>5, <1>6, <2>1, <2>2, InUpdate
  <2> QED BY <1>3, <2>1, <2>3
<1> QED BY <1>9, <1>10

(* An update that is alone leaves tracks that are the detections of the frame. *)
LEMMA EndIsSound ==
    ASSUME WorldIInv, NEW c \in Callers, at[c] = "age", looking[c].alone, EndUpdate(c) \/ BreaksOff(c)
    PROVE  AreDetections(world.tracks, Credible(FusedBy(c)), body[c].ts)
<1> DEFINE old == looking[c]
           tracks == world.tracks
           hit == {id \in DOMAIN tracks : tracks[id].misses = 0}
           all == Credible(FusedBy(c))
<1>1. /\ LookIsSound(c) /\ IsWorld(world) /\ body[c] \in Bodies /\ body[c].ts \in Int
  BY DEF WorldIInv, AutonomyIInv, AutonomyTypeOK, LooksAreSound, BodiesAreSent, Framed, Tracking
<1>2. old.todo = {} /\ TakesAlone(c)
  BY <1>1 DEF LookIsSound
<1>3. old.unseen = {}
  BY <1>2 DEF EndUpdate, BreaksOff, TakesAlone
<1>4. /\ old.used \subseteq DOMAIN tracks
      /\ \A id \in old.used : tracks[id].misses = 0 /\ tracks[id].last = body[c].ts
      /\ Cardinality(old.used) + Cardinality(old.todo) = Cardinality(all)
      /\ \A id \in DOMAIN tracks \ old.used :
            tracks[id].misses # 0 /\ body[c].ts - tracks[id].last <= StaleAfter
  BY <1>2, <1>3 DEF TakesAlone
<1> HIDE DEF old, tracks, all
<1>5. hit = old.used
  BY <1>4
<1> HIDE DEF hit
<1>6. Cardinality(hit) = Cardinality(all)
  <2>1. IsFiniteSet(old.used) /\ Cardinality(old.used) \in Nat
    BY <1>1, <1>4, FS_Subset, FS_CardinalityType DEF IsWorld, tracks
  <2>2. Cardinality(old.todo) = 0
    BY <1>2, FS_EmptySet
  <2> QED BY <1>4, <1>5, <2>1, <2>2
<1>7. ASSUME NEW id \in old.used PROVE body[c].ts - tracks[id].last <= StaleAfter
  <2>1. body[c].ts - body[c].ts <= StaleAfter
    BY <1>1 DEF StaleAfter
  <2> QED BY <1>4, <2>1
<1>8. \A id \in DOMAIN tracks : body[c].ts - tracks[id].last <= StaleAfter
  BY <1>4, <1>7
<1> QED BY <1>4, <1>5, <1>6, <1>8 DEF AreDetections, tracks, all, hit

LEMMA WorldKeeps == ASSUME WorldIInv, [AutonomyNext]_autonomyVars PROVE WorldIInv'
<1>1. AutonomyIInv'
  BY AutonomyKeeps DEF WorldIInv
<1>2. AutonomyTypeOK /\ BodiesAreSent /\ IsWorld(world) /\ LooksAreSound
  BY DEF WorldIInv, AutonomyIInv
<1>0. DOMAIN NotLooking = Parts
  BY DEF NotLooking, Parts
<1> DEFINE Keeps == BodiesAreSent' /\ IsWorld(world') /\ LooksAreSound'
<1>3. ASSUME NEW c \in Callers, Request(c) PROVE Keeps
  <2>1. Goes(c, "check clock") /\ UNCHANGED <<world, looking>> /\ \E b \in Bodies : body' = [body EXCEPT ![c] = b]
    BY <1>3 DEF Request, Arrives
  <2>2. /\ at'[c] = "check clock" /\ body'[c] \in Bodies
        /\ \A d \in Callers \ {c} : at'[d] = at[d] /\ body'[d] = body[d]
    BY <1>2, <2>1, CallerGoes DEF Stations, AutonomyTypeOK
  <2>3. BodiesAreSent'
    BY <1>2, <2>1, <2>2 DEF BodiesAreSent
  <2>4. UNCHANGED looking /\ DOMAIN looking[c] = Parts
    BY <1>2, <2>1 DEF LooksAreSound, LookIsSound
  <2>5. LooksAreSound'
    BY <1>2, <2>1, <2>2, <2>4, NotInUpdate
  <2> QED BY <1>2, <2>1, <2>3, <2>5
<1>4. ASSUME NEW c \in Callers, ResetRequest(c) PROVE Keeps
  <2>1. Goes(c, "reset world") /\ UNCHANGED <<world, body, looking>>
    BY <1>4 DEF ResetRequest, Arrives
  <2>2. UNCHANGED looking /\ DOMAIN looking[c] = Parts
    BY <1>2, <2>1 DEF LooksAreSound, LookIsSound
  <2>3. at'[c] = "reset world" /\ \A d \in Callers \ {c} : at'[d] = at[d]
    BY <1>2, <2>1, CallerGoes DEF Stations
  <2>4. LooksAreSound'
    BY <1>2, <2>1, <2>2, <2>3, NotInUpdate
  <2> QED BY <1>2, <2>1, <2>4, BodyGoes DEF Stations, Framed, Tracking
<1>5. ASSUME NEW c \in Callers, NEW to \in Framed \ {"associate", "store", "age"}, at[c] \in Framed, Goes(c, to),
             NEW look, DOMAIN look = Parts, UNCHANGED <<body, world>>,
             looking' = [looking EXCEPT ![c] = look] \/ (UNCHANGED looking /\ look = looking[c])
      PROVE  Keeps
  <2>1. to \in Stations
    BY DEF Framed, Stations
  <2>2. at'[c] = to /\ \A d \in Callers \ {c} : at'[d] = at[d]
    BY <1>2, <1>5, <2>1, CallerGoes
  <2>3. LooksAreSound'
    BY <1>2, <1>5, <2>2, NotInUpdate
  <2> QED BY <1>2, <1>5, <2>1, <2>3, BodyGoes
<1>6. ASSUME NEW c \in Callers, NEW what, Answered(c, what), UNCHANGED world PROVE Keeps
  <2>1. looking' = [looking EXCEPT ![c] = NotLooking]
    BY <1>6 DEF Answered
  <2>2. at'[c] = "idle" /\ \A d \in Callers \ {c} : at'[d] = at[d] /\ body'[d] = body[d]
    BY <1>2, <1>6, CallerAnswered
  <2>3. LooksAreSound'
    BY <1>0, <1>2, <1>6, <2>1, <2>2, NotInUpdate
  <2> QED BY <1>2, <1>6, <2>3, BodyAnswered
<1>7. ASSUME NEW c \in Callers, CheckClock(c) \/ SetClock(c) \/ CheckWorld(c) PROVE Keeps
  <2>1. at[c] \in Framed /\ UNCHANGED world
    BY <1>7 DEF CheckClock, SetClock, CheckWorld, Framed
  <2>2. \/ \E to \in {"set clock", "check world", "track"} : Goes(c, to) /\ UNCHANGED <<body, looking>>
        \/ \E what : Answered(c, what)
    BY <1>7, Zenon DEF CheckClock, SetClock, CheckWorld
  <2>3. CASE \E to \in {"set clock", "check world", "track"} : Goes(c, to) /\ UNCHANGED <<body, looking>>
    <3>1. PICK to \in {"set clock", "check world", "track"} : Goes(c, to) /\ UNCHANGED <<body, looking>>
      BY <2>3
    <3>2. UNCHANGED looking /\ DOMAIN looking[c] = Parts
      BY <1>2, <3>1 DEF LooksAreSound, LookIsSound
    <3>3. to \in Framed \ {"associate", "store", "age"}
      BY DEF Framed, Tracking
    <3> HIDE DEF Keeps
    <3> QED BY <1>5, <2>1, <3>1, <3>2, <3>3
  <2>4. CASE \E what : Answered(c, what)
    <3> HIDE DEF Keeps
    <3> QED BY <1>6, <2>1, <2>4
  <2> QED BY <2>2, <2>3, <2>4
<1>8. ASSUME NEW c \in Callers, BeginUpdate(c) \/ Associate(c) \/ TakeUp(c) \/ BeginAging(c) \/ Age(c) PROVE Keeps
  <2>1. at[c] \in Framed
    BY <1>8 DEF BeginUpdate, Associate, TakeUp, BeginAging, Age, Framed, Tracking
  <2>2. \/ \E to \in Framed : Goes(c, to) /\ UNCHANGED body
        \/ \E what : Answered(c, what)
    <3>1. Age(c) => Goes(c, "age") /\ UNCHANGED body
      BY <1>2 DEF Age, Goes, AutonomyTypeOK
    <3>2. ASSUME ~Age(c) PROVE (\E to \in {"associate", "store", "age"} : Goes(c, to) /\ UNCHANGED body)
                               \/ Answered(c, "error")
      BY <1>8, <3>2, Zenon DEF BeginUpdate, Associate, TakeUp, BeginAging
    <3> QED BY <3>1, <3>2 DEF Framed, Tracking
  <2>3. BodiesAreSent'
    BY <1>2, <2>1, <2>2, BodyGoes, BodyAnswered DEF Framed, Stations
  <2>4. LooksAreSound' /\ IsWorld(world')
    <3>1. Associate(c) \/ BeginAging(c) => UNCHANGED world
      BY DEF Associate, BeginAging
    <3> QED BY <1>2, <1>8, <3>1, BeginsSound, AssociateSound, TakeUpSound, BeginAgingSound, AgeSound
  <2> QED BY <2>3, <2>4
<1>9. ASSUME NEW c \in Callers, EndUpdate(c) \/ BreaksOff(c) \/ Remember(c) PROVE Keeps
  <2>1. at[c] \in Framed /\ UNCHANGED world
    BY <1>9 DEF EndUpdate, BreaksOff, Remember, Framed, Tracking
  <2> DEFINE left == [NotLooking EXCEPT !.alone = looking[c].alone]
  <2>2. \/ Goes(c, "remember") /\ UNCHANGED body /\ looking' = [looking EXCEPT ![c] = left]
        \/ \E what : Answered(c, what)
    BY <1>9, Zenon DEF EndUpdate, BreaksOff, Remember
  <2>3. DOMAIN left = Parts
    BY DEF NotLooking, Parts
  <2>4. "remember" \in Framed \ {"associate", "store", "age"}
    BY DEF Framed, Tracking
  <2> HIDE DEF Keeps, left
  <2>5. ASSUME Goes(c, "remember") /\ UNCHANGED body /\ looking' = [looking EXCEPT ![c] = left] PROVE Keeps
    <3>1. PICK to \in Framed \ {"associate", "store", "age"} : Goes(c, to)
      BY <2>4, <2>5
    <3> QED BY <1>5, <2>1, <2>3, <2>5, <3>1
  <2>6. ASSUME NEW what, Answered(c, what) PROVE Keeps
    BY <1>6, <2>1, <2>6
  <2> QED BY <2>2, <2>5, <2>6
<1>10. ASSUME NEW c \in Callers, ResetWorld(c) PROVE Keeps
  <2>1. Goes(c, "reset memory") /\ world' = NoWorld /\ UNCHANGED body /\ Looks(c, NotLooking)
    BY <1>10 DEF ResetWorld
  <2>2. IsWorld(NoWorld)
    BY FS_EmptySet DEF NoWorld, IsWorld
  <2>3. at'[c] = "reset memory" /\ \A d \in Callers \ {c} : at'[d] = at[d]
    BY <1>2, <2>1, CallerGoes DEF Stations
  <2>4. LooksAreSound'
    BY <1>0, <1>2, <2>1, <2>3, NotInUpdate
  <2> QED BY <1>2, <2>1, <2>2, <2>4, BodyGoes DEF Framed, Stations, Tracking
<1>11. ASSUME NEW c \in Callers, ResetMemory(c) PROVE Keeps
  <2>1. Answered(c, "reset") /\ UNCHANGED world
    BY <1>11 DEF ResetMemory
  <2> HIDE DEF Keeps
  <2> QED BY <1>6, <2>1
<1>12. ASSUME UNCHANGED autonomyVars PROVE Keeps
  <2>1. UNCHANGED <<at, body, world, looking>>
    BY <1>12 DEF autonomyVars
  <2>2. LooksAreSound'
    BY <1>2, <2>1, OtherLooks DEF LooksAreSound
  <2> QED BY <1>2, <2>1, <2>2 DEF BodiesAreSent, IsWorld
<1>13. ASSUME AutonomyNext PROVE Keeps
  <2> HIDE DEF Keeps
  <2> QED BY <1>3, <1>4, <1>7, <1>8, <1>9, <1>10, <1>11, <1>13 DEF AutonomyNext
<1>14. Keeps
  <2> HIDE DEF Keeps
  <2> QED BY <1>12, <1>13
<1> QED BY <1>1, <1>14 DEF WorldIInv, IsWorld

(* When an update ends during which no other request has changed a track, every
   credible detection of its frame is a track of its own, and what else is a track was
   seen within stale_after_s: over any frames, any number of requests that overlap it
   otherwise, malformed bodies, errors and resets.  The names of the tracker never
   run out, and no track takes two detections of a frame. *)
THEOREM TracksStayDetections == AutonomySpec => TracksAreDetections
<1>1. AutonomyInit => WorldIInv
  <2> SUFFICES ASSUME AutonomyInit PROVE WorldIInv
    OBVIOUS
  <2>1. AutonomyIInv
    BY AutonomyStarts
  <2>2. IsWorld(world)
    BY FS_EmptySet DEF AutonomyInit, NoWorld, IsWorld
  <2>3. BodiesAreSent
    BY DEF AutonomyInit, BodiesAreSent, Framed, Tracking
  <2>4. LooksAreSound
    BY DEF AutonomyInit, LooksAreSound, LookIsSound, NotLooking, Parts
  <2> QED BY <2>1, <2>2, <2>3, <2>4 DEF WorldIInv
<1> DEFINE A == \A c \in Callers : at[c] = "age" /\ at'[c] # "age" /\ looking[c].alone =>
                   AreDetections(world.tracks, Credible(FusedBy(c)), body[c].ts)
<1>2. ASSUME WorldIInv, [AutonomyNext]_autonomyVars PROVE [A]_autonomyVars
  <2> SUFFICES ASSUME AutonomyNext, NEW c \in Callers, at[c] = "age", at'[c] # "age", looking[c].alone
               PROVE  EndUpdate(c) \/ BreaksOff(c)
    BY <1>2, EndIsSound
  <2>1. AutonomyTypeOK
    BY <1>2 DEF WorldIInv, AutonomyIInv
  <2>2. PICK d \in Callers :
            \/ Request(d) \/ CheckClock(d) \/ SetClock(d) \/ CheckWorld(d)
            \/ BeginUpdate(d) \/ Associate(d) \/ TakeUp(d) \/ BeginAging(d) \/ Age(d) \/ EndUpdate(d)
            \/ BreaksOff(d) \/ Remember(d)
            \/ ResetRequest(d) \/ ResetWorld(d) \/ ResetMemory(d)
    BY DEF AutonomyNext
  <2>3. \/ \E to \in Stations : Goes(d, to)
        \/ UNCHANGED at
    BY <2>2 DEF Request, CheckClock, SetClock, CheckWorld, BeginUpdate, Associate, TakeUp, BeginAging, Age,
                EndUpdate, BreaksOff, Remember, ResetRequest, ResetWorld,
                ResetMemory, Arrives, Answered, Stations, Tracking
  <2>4. d = c
    BY <2>1, <2>3, CallerGoes
  <2> QED BY <2>2, <2>4 DEF Request, CheckClock, SetClock, CheckWorld, BeginUpdate, Associate, TakeUp,
                            BeginAging, Age, Remember, ResetRequest, ResetWorld, ResetMemory, Arrives
<1>3. [A]_autonomyVars => [\A c \in Callers : at[c] = "age" /\ at'[c] # "age" /\ looking[c].alone =>
         LET tracks == world.tracks
             hit == {id \in DOMAIN tracks : tracks[id].misses = 0} IN
         /\ Cardinality(hit) = Cardinality(Credible(FusedBy(c)))
         /\ \A id \in hit : tracks[id].last = body[c].ts
         /\ \A id \in DOMAIN tracks : body[c].ts - tracks[id].last <= StaleAfter]_autonomyVars
  BY DEF AreDetections
<1> HIDE DEF A
<1> QED BY <1>1, <1>2, <1>3, WorldKeeps, PTL DEF AutonomySpec, TracksAreDetections

-----------------------------------------------------------------------------
(* HardCases: what is selected is a choice that every scenario, the hardest first,
   has been put to, and keeps what is said of it with each one that follows; what
   is measured is measured at the same times for every candidate. *)


(* A strict order in which any two elements of a set come one after the other. *)
IsOrder(R, s) ==
    /\ \A a, b \in s : a = b \/ <<a, b>> \in R \/ <<b, a>> \in R
    /\ \A a, b, c \in s : <<a, b>> \in R /\ <<b, c>> \in R => <<a, c>> \in R

IsEnded(R, s) == \E x \in s : \A y \in s \ {x} : <<y, x>> \in R

(* In such an order finitely many things have a last one. *)
LEMMA LastOfOrder ==
    ASSUME NEW R, NEW S, IsFiniteSet(S), S # {}, IsOrder(R, S)
    PROVE  IsEnded(R, S)
<1> DEFINE T == {k \in Nat : \A s \in SUBSET S : Cardinality(s) = k + 1 => IsEnded(R, s)}
<1>1. \A s \in SUBSET S : IsFiniteSet(s) /\ Cardinality(s) \in Nat
  BY FS_Subset, FS_CardinalityType
<1>2. 0 \in T
  <2> SUFFICES ASSUME NEW s \in SUBSET S, Cardinality(s) = 1 PROVE IsEnded(R, s)
    OBVIOUS
  <2>1. PICK x : s = {x}
    BY <1>1, FS_Singleton
  <2> QED BY <2>1 DEF IsEnded
<1>3. ASSUME NEW k \in Nat, k \in T PROVE k + 1 \in T
  <2> SUFFICES ASSUME NEW s \in SUBSET S, Cardinality(s) = k + 2 PROVE IsEnded(R, s)
    OBVIOUS
  <2>1. PICK a \in s : TRUE
    BY <1>1, FS_EmptySet
  <2>2. s \ {a} \in SUBSET S /\ Cardinality(s \ {a}) = k + 1
    BY <1>1, <2>1, FS_RemoveElement
  <2>3. PICK b \in s \ {a} : \A y \in (s \ {a}) \ {b} : <<y, b>> \in R
    BY <1>3, <2>2 DEF IsEnded
  <2>4. CASE <<a, b>> \in R
    BY <2>3, <2>4 DEF IsEnded
  <2>5. CASE <<b, a>> \in R
    <3>1. \A y \in s \ {a} : <<y, a>> \in R
      BY <2>1, <2>3, <2>5 DEF IsOrder
    <3> QED BY <2>1, <3>1 DEF IsEnded
  <2> QED BY <2>1, <2>3, <2>4, <2>5 DEF IsOrder
<1>4. Cardinality(S) - 1 \in T
  <2>1. Cardinality(S) \in Nat /\ Cardinality(S) # 0
    BY <1>1, FS_EmptySet
  <2>2. Cardinality(S) - 1 \in Nat
    BY <2>1
  <2> HIDE DEF T
  <2> QED BY <1>2, <1>3, <2>2, Induct
<1>5. Cardinality(S) \in Nat
  BY <1>1
<1> QED BY <1>4, <1>5

(* What makes a scenario hard counts in whole numbers. *)
LEMMA HardnessIsWhole == ASSUME NEW s, IsScenario(s) PROVE Hardness(s) \in Int
<1> DEFINE f == Counted(s)
           within == [k \in Nat |-> Int]
           names == <<"driver_intervention", "safety_fallback", "camera_desync", "occlusion", "rare_object",
                      "route_ambiguity", "predicted_collision_risk", "low_clearance", "policy_disagreement",
                      "perception_uncertainty">>
           all == {names[i] : i \in 1..10}
<1>1. IsFiniteSet(all)
  <2>1. IsFiniteSet(1..10)
    <3>1. \A n \in Nat : IsFiniteSet(1..n)
      BY FS_Interval
    <3> QED BY <3>1
  <2>2. [i \in 1..10 |-> names[i]] \in Surjection(1..10, all)
    BY DEF Surjection
  <2> HIDE DEF names, all
  <2> QED BY <2>1, <2>2, FS_Surjection
<1>2. DOMAIN f \subseteq all /\ \A r \in DOMAIN f : f[r] \in Int
  <2> DEFINE measures == Measures(s)
  <2>1. s.flags \subseteq all /\ \A r \in s.flags : FlagScore[r] \in Int
    <3>1. /\ names[1] = "driver_intervention" /\ names[2] = "safety_fallback" /\ names[3] = "camera_desync"
          /\ names[4] = "occlusion" /\ names[5] = "rare_object" /\ names[6] = "route_ambiguity"
      OBVIOUS
    <3> HIDE DEF names
    <3> QED BY <3>1 DEF IsScenario, FlagScore
  <2>2. \A m \in {"predicted_collision_risk", "low_clearance", "policy_disagreement", "perception_uncertainty"} :
          m \in all /\ measures[m] \in Int
    <3>1. /\ names[7] = "predicted_collision_risk" /\ names[8] = "low_clearance"
          /\ names[9] = "policy_disagreement" /\ names[10] = "perception_uncertainty"
      OBVIOUS
    <3> HIDE DEF names
    <3> QED BY <3>1 DEF IsScenario, Measures, Smaller, Larger, Bounded
  <2> HIDE DEF measures, all
  <2>3. \A r \in DOMAIN f : f[r] = IF r \in s.flags THEN FlagScore[r] ELSE measures[r]
    BY DEF Counted, measures
  <2>4. DOMAIN f \subseteq s.flags \cup {"predicted_collision_risk", "low_clearance", "policy_disagreement",
                                         "perception_uncertainty"}
    BY DEF Counted
  <2> HIDE DEF f
  <2> QED BY <2>1, <2>2, <2>3, <2>4
<1> HIDE DEF f, all
<1>3. IsFiniteSet(DOMAIN f)
  BY <1>1, <1>2, FS_Subset
<1>4. StaysWithin(f, within)
  BY <1>2 DEF StaysWithin
<1>5. SumOf(f) \in Int
  <2>1. SumOf(f) \in within[Cardinality(DOMAIN f)]
    BY <1>3, <1>4, SumKeeps, Zenon
  <2>2. Cardinality(DOMAIN f) \in Nat
    BY <1>3, FS_CardinalityType
  <2> QED BY <2>1, <2>2
<1>6. Hardness(s) = Smaller(2000, SumOf(f))
  BY DEF Hardness, SumOf, f
<1> QED BY <1>5, <1>6 DEF Smaller

(* Of finitely many scenarios one is to be taken last. *)
LEMMA LeastHardIsLast ==
    ASSUME NEW scenarios, NEW s, IsFiniteSet(s), s # {}, s \subseteq Int,
           \A i \in s : Hardness(scenarios[i]) \in Int
    PROVE  LET x == LeastHard(scenarios, s) IN x \in s /\ \A j \in s \ {x} : Before(scenarios, j, x)
<1> DEFINE R == {p \in s \X s : Before(scenarios, p[1], p[2])}
           hard == [i \in s |-> Hardness(scenarios[i])]
<1>1. \A i, j \in s : <<i, j>> \in R <=> hard[i] > hard[j] \/ (hard[i] = hard[j] /\ i < j)
  BY DEF Before
<1>2. \A i \in s : hard[i] \in Int
  OBVIOUS
<1>3. \A i, j \in s : <<i, j>> \in R <=> Before(scenarios, i, j)
  OBVIOUS
<1> HIDE DEF R, hard
<1>4. IsOrder(R, s)
  BY <1>1, <1>2 DEF IsOrder
<1>5. \E x \in s : \A j \in s \ {x} : <<j, x>> \in R
  BY <1>4, LastOfOrder DEF IsEnded
<1>6. \E x \in s : \A j \in s \ {x} : Before(scenarios, j, x)
  BY <1>3, <1>5
<1> QED BY <1>6 DEF LeastHard

(* Those that were kept and look like one of the scenarios. *)
Alike(scenarios, kept, i) ==
    {k \in Range(kept) : Fingerprint(scenarios[k]) = Fingerprint(scenarios[i])}

(* What is kept of some places. *)
IsFull(b, kept, i) ==
    \/ Cardinality(Range(kept)) = b.limit /\ \A k \in Range(kept) : Before(b.scenarios, k, i)
    \/ /\ Cardinality(Alike(b.scenarios, kept, i)) = b.perFingerprint
       /\ \A k \in Alike(b.scenarios, kept, i) : Before(b.scenarios, k, i)
IsChoice(b, n, s, kept) ==
    /\ kept \in Seq(s) /\ Cardinality(Range(kept)) = Len(kept) /\ Len(kept) <= b.limit
    /\ \A k, l \in DOMAIN kept : k < l => Before(b.scenarios, kept[k], kept[l])
    /\ \A k \in Range(kept) : Hardness(b.scenarios[k]) >= b.minScore
    /\ \A i \in 1..n : Cardinality(Alike(b.scenarios, kept, i)) <= b.perFingerprint
    /\ \A i \in s \ Range(kept) : Hardness(b.scenarios[i]) >= b.minScore => IsFull(b, kept, i)

(* Numbers that a b may bring, for n scenarios. *)
IsSelection(b, n) ==
    /\ b.limit \in Int /\ 1 <= b.limit /\ b.limit <= 10000
    /\ b.perFingerprint \in Int /\ 1 <= b.perFingerprint /\ b.perFingerprint <= 100
    /\ b.minScore \in Int
    /\ \A i \in 1..n : Hardness(b.scenarios[i]) \in Int

LEMMA LongerRange ==
    ASSUME NEW s, NEW kept \in Seq(s), NEW x
    PROVE  /\ Append(kept, x) \in Seq(s \cup {x}) /\ Range(Append(kept, x)) = Range(kept) \cup {x}
           /\ Len(Append(kept, x)) = Len(kept) + 1 /\ DOMAIN Append(kept, x) = 1..(Len(kept) + 1)
           /\ Append(kept, x)[Len(kept) + 1] = x
           /\ \A k \in 1..Len(kept) : Append(kept, x)[k] = kept[k] /\ kept[k] \in s
<1>1. /\ Append(kept, x) \in Seq(s \cup {x}) /\ Len(Append(kept, x)) = Len(kept) + 1
      /\ DOMAIN Append(kept, x) = 1..(Len(kept) + 1)
      /\ Append(kept, x)[Len(kept) + 1] = x
      /\ \A k \in 1..Len(kept) : Append(kept, x)[k] = kept[k] /\ kept[k] \in s
  <2>1. kept \in Seq(s \cup {x})
    OBVIOUS
  <2> QED BY <2>1
<1>2. Range(Append(kept, x)) = Range(kept) \cup {x}
  <2> DEFINE new == Append(kept, x)
  <2>1. DOMAIN new = DOMAIN kept \cup {Len(kept) + 1} /\ DOMAIN kept = 1..Len(kept) /\ Len(kept) \in Nat
    BY <1>1
  <2>2. \A k \in DOMAIN kept : new[k] = kept[k]
    BY <1>1, <2>1
  <2>3. new[Len(kept) + 1] = x
    BY <1>1
  <2> HIDE DEF new
  <2> QED BY <2>1, <2>2, <2>3 DEF Range
<1> QED BY <1>1, <1>2

(* One more place, which is taken last. *)
LEMMA TakenIsChoice ==
    ASSUME NEW n \in Nat, NEW b, IsSelection(b, n), NEW s \in SUBSET (1..n), NEW x \in s,
           \A j \in s \ {x} : Before(b.scenarios, j, x),
           NEW kept, IsChoice(b, n, s \ {x}, kept)
    PROVE  IsChoice(b, n, s, TakenUp(kept, x, b))
<1> DEFINE scenarios == b.scenarios
           may == MayTake(kept, scenarios, x, b)
           new == Append(kept, x)
           alike(i) == Alike(scenarios, kept, i)
           then(i) == Alike(scenarios, new, i)
<1>1. kept \in Seq(s \ {x}) /\ kept \in Seq(s) /\ Len(kept) \in Nat /\ DOMAIN kept = 1..Len(kept)
  BY DEF IsChoice
<1>2. Range(kept) \subseteq s \ {x} /\ IsFiniteSet(Range(kept))
  <2>1. Range(kept) \subseteq s \ {x}
    BY <1>1 DEF Range
  <2>2. IsFiniteSet(1..n)
    BY FS_Interval
  <2>3. Range(kept) \in SUBSET (1..n)
    BY <2>1
  <2> QED BY <2>1, <2>2, <2>3, FS_Subset
<1>3. \A i \in 1..n : IsFiniteSet(alike(i)) /\ Cardinality(alike(i)) \in Nat
  <2>1. \A i : alike(i) \in SUBSET Range(kept)
    BY DEF Alike
  <2> HIDE DEF alike
  <2> QED BY <1>2, <2>1, FS_Subset, FS_CardinalityType
<1>4. may <=> /\ Len(kept) < b.limit /\ Hardness(scenarios[x]) >= b.minScore
              /\ Cardinality(alike(x)) < b.perFingerprint
  <2>1. Bounded(1, 10000, b.limit) = b.limit /\ Bounded(1, 100, b.perFingerprint) = b.perFingerprint
    BY DEF IsSelection, Bounded, Larger, Smaller
  <2> QED BY <2>1 DEF MayTake, Alike
<1>5. b.limit \in Nat /\ b.perFingerprint \in Nat
  BY DEF IsSelection
<1>6. CASE ~may
  <2>1. TakenUp(kept, x, b) = kept
    BY <1>6 DEF TakenUp
  <2>2. Hardness(scenarios[x]) >= b.minScore => IsFull(b, kept, x)
    <3> SUFFICES ASSUME Hardness(scenarios[x]) >= b.minScore PROVE IsFull(b, kept, x)
      OBVIOUS
    <3>1. \A k \in Range(kept) : Before(scenarios, k, x)
      BY <1>2
    <3>2. \A k \in alike(x) : Before(scenarios, k, x)
      BY <3>1 DEF Alike
    <3>3. Len(kept) = b.limit \/ Cardinality(alike(x)) = b.perFingerprint
      <4>1. Len(kept) <= b.limit /\ Cardinality(alike(x)) <= b.perFingerprint
            /\ Cardinality(alike(x)) \in Nat
        BY <1>3 DEF IsChoice
      <4> HIDE DEF may, alike
      <4> QED BY <1>1, <1>4, <1>6, <1>5, <4>1
    <3> HIDE DEF may
    <3> QED BY <3>1, <3>2, <3>3 DEF IsFull, IsChoice
  <2> QED BY <1>1, <2>1, <2>2 DEF IsChoice
<1>7. CASE may
  <2>1. TakenUp(kept, x, b) = new
    BY <1>7 DEF TakenUp
  <2>2. /\ new \in Seq(s) /\ Range(new) = Range(kept) \cup {x}
        /\ Len(new) = Len(kept) + 1 /\ DOMAIN new = 1..(Len(kept) + 1) /\ new[Len(kept) + 1] = x
        /\ \A k \in 1..Len(kept) : new[k] = kept[k] /\ kept[k] \in s \ {x}
    <3>1. (s \ {x}) \cup {x} = s
      OBVIOUS
    <3> QED BY <1>1, <3>1, LongerRange
  <2> HIDE DEF new
  <2>3. Cardinality(Range(new)) = Len(new)
    <3>1. x \notin Range(kept)
      BY <1>2
    <3>2. Cardinality(Range(kept) \cup {x}) = Cardinality(Range(kept)) + 1
      BY <1>2, <3>1, FS_AddElement
    <3> QED BY <2>2, <3>2 DEF IsChoice
  <2>4. Len(new) <= b.limit
    <3> HIDE DEF may
    <3> QED BY <1>1, <1>4, <1>7, <1>5, <2>2
  <2>5. ASSUME NEW k \in DOMAIN new, NEW l \in DOMAIN new, k < l
        PROVE  Before(scenarios, new[k], new[l])
    <3>1. k \in 1..Len(kept)
      BY <1>1, <2>2, <2>5
    <3>2. CASE l \in 1..Len(kept)
      BY <1>1, <2>2, <2>5, <3>1, <3>2 DEF IsChoice
    <3>3. CASE l = Len(kept) + 1
      BY <2>2, <3>1, <3>3
    <3> QED BY <1>1, <2>2, <3>2, <3>3
  <2>6. \A k \in Range(new) : Hardness(scenarios[k]) >= b.minScore
    BY <1>4, <1>7, <2>2 DEF IsChoice
  <2>7. ASSUME NEW i \in 1..n
        PROVE  then(i) = IF Fingerprint(scenarios[x]) = Fingerprint(scenarios[i])
                         THEN alike(i) \cup {x} ELSE alike(i)
    BY <2>2 DEF Alike
  <2>8. ASSUME NEW i \in 1..n PROVE Cardinality(then(i)) <= b.perFingerprint
    <3>1. CASE Fingerprint(scenarios[x]) = Fingerprint(scenarios[i])
      <4>1. alike(i) = alike(x)
        BY <3>1 DEF Alike
      <4>2. Cardinality(alike(i)) < b.perFingerprint
        BY <1>4, <1>7, <4>1
      <4>3. then(i) = alike(i) \cup {x}
        BY <2>7, <3>1
      <4> HIDE DEF then, alike
      <4>4. IsFiniteSet(alike(i)) /\ Cardinality(alike(i)) \in Nat
        BY <1>3
      <4>5. Cardinality(alike(i) \cup {x}) \in {Cardinality(alike(i)), Cardinality(alike(i)) + 1}
        BY <4>4, FS_AddElement
      <4> QED BY <1>5, <4>2, <4>3, <4>4, <4>5
    <3>2. CASE Fingerprint(scenarios[x]) # Fingerprint(scenarios[i])
      <4>1. then(i) = alike(i)
        BY <2>7, <3>2
      <4> QED BY <4>1 DEF IsChoice
    <3> QED BY <3>1, <3>2
  <2>9. ASSUME NEW i \in s \ Range(new), Hardness(scenarios[i]) >= b.minScore
        PROVE  IsFull(b, new, i)
    <3>1. i \in (s \ {x}) \ Range(kept) /\ i \in 1..n
      BY <2>2
    <3>2. IsFull(b, kept, i)
      BY <2>9, <3>1 DEF IsChoice
    <3>3. Cardinality(Range(kept)) # b.limit
      <4> HIDE DEF may
      <4> QED BY <1>1, <1>4, <1>5, <1>7 DEF IsChoice
    <3>4. /\ Cardinality(alike(i)) = b.perFingerprint
          /\ \A k \in alike(i) : Before(scenarios, k, i)
      BY <3>2, <3>3 DEF IsFull
    <3>5. Fingerprint(scenarios[x]) # Fingerprint(scenarios[i])
      <4> SUFFICES ASSUME Fingerprint(scenarios[x]) = Fingerprint(scenarios[i]) PROVE FALSE
        OBVIOUS
      <4>1. alike(i) = alike(x)
        BY DEF Alike
      <4> QED BY <1>3, <1>4, <1>7, <3>1, <3>4, <4>1 DEF IsSelection
    <3>6. then(i) = alike(i)
      BY <2>7, <3>1, <3>5
    <3> QED BY <3>4, <3>6 DEF IsFull
  <2> QED BY <2>1, <2>2, <2>3, <2>4, <2>5, <2>6, <2>8, <2>9 DEF IsChoice
<1> QED BY <1>6, <1>7

LEMMA SelectedIsChoice ==
    ASSUME NEW n \in Nat, NEW b, DOMAIN b.scenarios = 1..n, IsSelection(b, n)
    PROVE  IsChoice(b, n, 1..n, Selected(b))
<1> DEFINE scenarios == b.scenarios
           S == 1..n
           IsIt(f) == f = [s \in SUBSET S |-> IF s = {} THEN <<>>
                             ELSE LET x == LeastHard(scenarios, s) IN TakenUp(f[s \ {x}], x, b)]
           fold == CHOOSE f : IsIt(f)
           T == {k \in Nat : \A s \in SUBSET S : Cardinality(s) = k => IsChoice(b, n, s, fold[s])}
<1>1. Selected(b) = fold[S]
  BY DEF Selected, MapThenFoldSet
<1>2. IsFiniteSet(S)
  BY FS_Interval
<1>3. ASSUME NEW s \in SUBSET S, s # {}
      PROVE  LET x == LeastHard(scenarios, s) IN x \in s /\ \A j \in s \ {x} : Before(scenarios, j, x)
  <2>1. s \subseteq Int
    OBVIOUS
  <2>2. IsFiniteSet(s)
    <3> HIDE DEF S
    <3> QED BY <1>2, FS_Subset
  <2>3. \A i \in s : Hardness(scenarios[i]) \in Int
    BY DEF IsSelection
  <2> QED BY <1>3, <2>1, <2>2, <2>3, LeastHardIsLast
<1> HIDE DEF scenarios
<1>4. HasLast("take", scenarios, S)
  BY <1>3 DEF HasLast, LastOf
<1>5. ASSUME NEW f PROVE IsFold("take", <<>>, scenarios, b, S, f) <=> IsIt(f)
  BY DEF IsFold, Fold, LastOf, After
<1>6. IsIt(fold)
  <2>1. \E f : IsIt(f)
    BY <1>2, <1>4, <1>5, FoldUnfolds
  <2> HIDE DEF IsIt
  <2> QED BY <2>1
<1>7. GoesOn("take", <<>>, scenarios, b, S, fold)
  <2>1. IsFold("take", <<>>, scenarios, b, S, fold)
    BY <1>5, <1>6
  <2> HIDE DEF fold, S
  <2> QED BY <1>2, <1>4, <2>1, FoldGoesOn
<1> HIDE DEF fold, IsIt
<1>8. \A s \in SUBSET S : Cardinality(s) \in Nat /\ (Cardinality(s) = 0 <=> s = {})
  BY <1>2, FS_Subset, FS_CardinalityType, FS_EmptySet
<1>9. IsChoice(b, n, {}, <<>>)
  <2>1. Range(<<>>) = {} /\ Len(<<>>) = 0 /\ DOMAIN <<>> = {} /\ <<>> \in Seq({})
    BY DEF Range
  <2>2. \A i : Alike(b.scenarios, <<>>, i) = {}
    BY <2>1 DEF Alike
  <2>3. Cardinality({}) = 0
    BY FS_EmptySet
  <2>4. 0 <= b.limit /\ 0 <= b.perFingerprint
    BY DEF IsSelection
  <2> DEFINE none == <<>>
  <2> HIDE DEF none
  <2>5. Range(none) = {} /\ Len(none) = 0 /\ DOMAIN none = {} /\ none \in Seq({})
        /\ \A i : Cardinality(Alike(b.scenarios, none, i)) = 0
    BY <2>1, <2>2, <2>3 DEF none
  <2>6. IsChoice(b, n, {}, none)
    BY <2>3, <2>4, <2>5 DEF IsChoice
  <2> QED BY <2>6 DEF none
<1>10. 0 \in T
  <2>1. fold[{}] = <<>>
    BY <1>7 DEF GoesOn
  <2> QED BY <1>8, <1>9, <2>1
<1>11. ASSUME NEW k \in Nat, k \in T PROVE k + 1 \in T
  <2> SUFFICES ASSUME NEW s \in SUBSET S, Cardinality(s) = k + 1 PROVE IsChoice(b, n, s, fold[s])
    OBVIOUS
  <2>1. s # {}
    BY <1>8
  <2>2. PICK x \in s : /\ x = LastOf("take", scenarios, s)
                       /\ fold[s] = After("take", fold[s \ {x}], scenarios, x, b)
                       /\ s \ {x} \in SUBSET S /\ Cardinality(s \ {x}) = Cardinality(s) - 1
    BY <1>7, <2>1 DEF GoesOn
  <2>3. IsChoice(b, n, s \ {x}, fold[s \ {x}])
    BY <1>11, <2>2
  <2>4. x = LeastHard(scenarios, s) /\ fold[s] = TakenUp(fold[s \ {x}], x, b)
    BY <2>2 DEF LastOf, After
  <2>5. \A j \in s \ {x} : Before(b.scenarios, j, x)
    BY <1>3, <2>1, <2>4 DEF scenarios
  <2> QED BY <2>3, <2>4, <2>5, TakenIsChoice
<1>12. Cardinality(S) \in T
  <2>1. Cardinality(S) \in Nat /\ S \in SUBSET S
    BY <1>8
  <2> HIDE DEF T, S
  <2> QED BY <1>10, <1>11, <2>1, Induct
<1> QED BY <1>1, <1>12

(* So nothing harder is left out of a selection than what is in it. *)
LEMMA HardestStaySelected ==
    ASSUME NEW request \in Selections, requested = [route |-> "select", body |-> request],
           reply = [route |-> "select", selected |-> Selected(request)]
    PROVE  HardestAreSelected
<1> DEFINE scenarios == request.scenarios
           n == Len(scenarios)
           chosen == Selected(request)
           order(i, j) == Before(scenarios, i, j) /\ Hardness(scenarios[i]) >= Hardness(scenarios[j])
<1>1. n \in Nat /\ DOMAIN scenarios = 1..n /\ IsSelection(request, n)
  <2>1. n \in Nat /\ DOMAIN scenarios = 1..n /\ \A i \in 1..n : IsScenario(scenarios[i])
    BY SelectionsAssumption
  <2>2. /\ request.limit \in Int /\ 1 <= request.limit /\ request.limit <= 10000
        /\ request.perFingerprint \in Int /\ 1 <= request.perFingerprint /\ request.perFingerprint <= 100
        /\ request.minScore \in Int
    BY SelectionsAssumption
  <2>3. \A i \in 1..n : Hardness(scenarios[i]) \in Int
    BY <2>1, HardnessIsWhole
  <2> HIDE DEF n, scenarios
  <2> QED BY <2>1, <2>2, <2>3 DEF IsSelection, scenarios
<1>2. IsChoice(request, n, 1..n, chosen)
  BY <1>1, SelectedIsChoice
<1>3. reply.selected = chosen /\ requested.body = request
  OBVIOUS
<1> HIDE DEF chosen
<1>4. Range(chosen) \subseteq 1..n /\ \A k \in DOMAIN chosen : chosen[k] \in 1..n
  BY <1>2 DEF IsChoice, Range
<1>5. \A i, j \in 1..n : Before(scenarios, i, j) => order(i, j)
  <2> SUFFICES ASSUME NEW i \in 1..n, NEW j \in 1..n, Before(scenarios, i, j)
               PROVE  Hardness(scenarios[i]) >= Hardness(scenarios[j])
    OBVIOUS
  <2>1. Hardness(scenarios[i]) \in Int /\ Hardness(scenarios[j]) \in Int
    BY <1>1 DEF IsSelection
  <2> QED BY <2>1 DEF Before
<1> HIDE DEF n
<1>6. \A k, l \in DOMAIN chosen : k < l => order(chosen[k], chosen[l])
  BY <1>2, <1>4, <1>5 DEF IsChoice
<1>7. /\ Cardinality(Range(chosen)) <= request.limit
      /\ \A k \in Range(chosen) : /\ Hardness(scenarios[k]) >= request.minScore
                                  /\ Cardinality(Alike(scenarios, chosen, k)) <= request.perFingerprint
  BY <1>2, <1>4 DEF IsChoice
<1>8. ASSUME NEW i \in DOMAIN scenarios \ Range(chosen), Hardness(scenarios[i]) >= request.minScore
      PROVE  \/ Cardinality(Range(chosen)) = request.limit /\ \A k \in Range(chosen) : order(k, i)
             \/ /\ Cardinality(Alike(scenarios, chosen, i)) = request.perFingerprint
                /\ \A k \in Alike(scenarios, chosen, i) : order(k, i)
  <2>1. IsFull(request, chosen, i)
    BY <1>1, <1>2, <1>8 DEF IsChoice
  <2>2. i \in 1..n /\ Alike(scenarios, chosen, i) \subseteq 1..n
    BY <1>1, <1>4 DEF Alike
  <2> HIDE DEF order
  <2> QED BY <1>4, <1>5, <2>1, <2>2 DEF IsFull
<1> HIDE DEF order
<1> QED BY <1>3, <1>6, <1>7, <1>8 DEF HardestAreSelected, Alike, order

(* The greatest of finitely many numbers. *)
LEMMA GreatestOfFinite ==
    ASSUME NEW s, IsFiniteSet(s), s # {}, s \subseteq Int
    PROVE  Max(s) \in s /\ \A a \in s : a <= Max(s)
<1> DEFINE R == {p \in s \X s : p[1] < p[2]}
<1>1. \A a, b \in s : <<a, b>> \in R <=> a < b
  OBVIOUS
<1> HIDE DEF R
<1>2. IsOrder(R, s)
  BY <1>1 DEF IsOrder
<1>3. PICK m \in s : \A a \in s \ {m} : <<a, m>> \in R
  BY <1>2, LastOfOrder DEF IsEnded
<1>4. ASSUME NEW a \in s PROVE m >= a
  <2>1. a = m \/ a < m
    BY <1>1, <1>3
  <2>2. a \in Int /\ m \in Int
    OBVIOUS
  <2> QED BY <2>1, <2>2
<1>5. Max(s) \in s /\ \A a \in s : Max(s) >= a
  BY <1>4 DEF Max
<1>6. \A a \in s : a \in Int /\ Max(s) \in Int
  BY <1>5
<1> QED BY <1>5, <1>6

(* The least of some naturals. *)
LEMMA LeastOfSome ==
    ASSUME NEW s \in SUBSET Nat, s # {}
    PROVE  Min(s) \in s /\ \A a \in s : Min(s) <= a
<1>1. \E m \in s : \A a \in s : m <= a
  BY Least
<1> QED BY <1>1 DEF Min

(* There is a first one of some places, by their times, and a last one. *)
AreTimed(clean, n) ==
    DOMAIN clean = 1..n /\ \A i \in 1..n : clean[i].t \in Int /\ clean[i].x \in Int /\ clean[i].speed \in Int

LEMMA EndsAreThere ==
    ASSUME NEW n \in Nat, NEW clean, AreTimed(clean, n), NEW s \in SUBSET (1..n), s # {}
    PROVE  Earliest(clean, s) \in s /\ Latest(clean, s) \in s
<1> DEFINE R == {p \in s \X s : Precedes(clean, p[1], p[2])}
           Q == {p \in s \X s : Precedes(clean, p[2], p[1])}
<1>1. \A i, j \in s : /\ <<i, j>> \in R <=> Precedes(clean, i, j)
                      /\ <<i, j>> \in Q <=> Precedes(clean, j, i)
  OBVIOUS
<1>2. ASSUME NEW i \in s PROVE clean[i].t \in Int /\ i \in Int
  <2>1. i \in 1..n
    OBVIOUS
  <2> QED BY <2>1 DEF AreTimed
<1> HIDE DEF R, Q
<1>3. IsOrder(R, s) /\ IsOrder(Q, s)
  BY <1>1, <1>2 DEF IsOrder, Precedes
<1>4. IsFiniteSet(s)
  <2>1. IsFiniteSet(1..n)
    BY FS_Interval
  <2> QED BY <2>1, FS_Subset
<1>5. IsEnded(R, s) /\ IsEnded(Q, s)
  BY <1>3, <1>4, LastOfOrder
<1>6. /\ \E i \in s : \A j \in s \ {i} : Precedes(clean, j, i)
      /\ \E i \in s : \A j \in s \ {i} : Precedes(clean, i, j)
  BY <1>1, <1>5 DEF IsEnded
<1> QED BY <1>6 DEF Earliest, Latest

(* Between two points, too, everything is a number. *)
LEMMA BetweenIsWhole ==
    ASSUME NEW a, NEW b, NEW t \in Int, a.t \in Int, a.x \in Int, a.speed \in Int,
           b.t \in Int, b.x \in Int, b.speed \in Int
    PROVE  Between(a, b, t).x \in Int /\ Between(a, b, t).speed \in Int
<1> DEFINE part(from, to) == from + ((to - from) * (t - a.t)) \div Larger(1, b.t - a.t)
<1>1. Larger(1, b.t - a.t) \in Nat \ {0}
  BY DEF Larger
<1>2. ASSUME NEW from \in Int, NEW to \in Int PROVE part(from, to) \in Int
  <2> DEFINE v == (to - from) * (t - a.t)
  <2>1. v \in Int
    OBVIOUS
  <2> HIDE DEF v
  <2> DEFINE w == Larger(1, b.t - a.t)
  <2> HIDE DEF w
  <2>2. \A m \in Nat \ {0} : v \div m \in Int
    BY <2>1
  <2>3. v \div w \in Int
    BY <1>1, <2>2 DEF w
  <2>4. part(from, to) = from + v \div w
    BY DEF v, w
  <2> HIDE DEF part
  <2> QED BY <2>3, <2>4
<1>3. Between(a, b, t).x = part(a.x, b.x) /\ Between(a, b, t).speed = part(a.speed, b.speed)
  BY DEF Between
<1> HIDE DEF part
<1> QED BY <1>2, <1>3

LEMMA PointIsWhole ==
    ASSUME NEW points, IsDriven(points), points # <<>>, NEW t \in Int
    PROVE  PointAt(points, t).x \in Int /\ PointAt(points, t).speed \in Int
<1> DEFINE clean == Clean(points)
           n == Len(points)
           first == Earliest(clean, DOMAIN clean)
           last == Latest(clean, DOMAIN clean)
           later == {i \in DOMAIN clean : t <= clean[i].t}
           right == Earliest(clean, later)
           sooner == {i \in DOMAIN clean : Precedes(clean, i, right)}
           left == Latest(clean, sooner)
<1>1. n \in Nat /\ DOMAIN clean = 1..n /\ 1..n # {}
  <2>1. n \in Nat /\ DOMAIN points = 1..n
    BY DEF IsDriven
  <2>2. n # 0
    <3> SUFFICES ASSUME n = 0 PROVE FALSE
      OBVIOUS
    <3>1. DOMAIN points = {} /\ points = [i \in DOMAIN points |-> points[i]]
      BY <2>1
    <3> QED BY <3>1
  <2>3. 1 \in 1..n /\ DOMAIN clean = DOMAIN points
    BY <2>1, <2>2 DEF Clean
  <2> HIDE DEF clean, n
  <2> QED BY <2>1, <2>3
<1>2. AreTimed(clean, n)
  <2> SUFFICES ASSUME NEW i \in 1..n PROVE clean[i].t \in Int /\ clean[i].x \in Int /\ clean[i].speed \in Int
    BY <1>1 DEF AreTimed
  <2>1. clean[i] = [points[i] EXCEPT !.t = Larger(0, @)]
    BY <1>1 DEF Clean
  <2>2. /\ DOMAIN points[i] = {"t", "x", "speed"}
        /\ points[i].t \in Int /\ points[i].x \in Int /\ points[i].speed \in Int
    BY <1>1 DEF IsDriven
  <2> HIDE DEF clean
  <2> QED BY <2>1, <2>2 DEF Larger
<1>3. PointAt(points, t) = IF t <= clean[first].t THEN clean[first]
                           ELSE IF t >= clean[last].t THEN clean[last]
                           ELSE Between(clean[left], clean[right], t)
  BY DEF PointAt
<1> HIDE DEF clean, n
<1>4. first \in 1..n /\ last \in 1..n
  BY <1>1, <1>2, EndsAreThere
<1>5. \A i \in 1..n : clean[i].t \in Int /\ clean[i].x \in Int /\ clean[i].speed \in Int
  BY <1>2 DEF AreTimed
<1>6. ASSUME ~(t <= clean[first].t), ~(t >= clean[last].t) PROVE left \in 1..n /\ right \in 1..n
  <2>1. later \in SUBSET (1..n) /\ last \in later
    <3> HIDE DEF last
    <3> QED BY <1>1, <1>4, <1>5, <1>6
  <2>2. right \in later
    <3> HIDE DEF later
    <3> QED BY <1>1, <1>2, <2>1, EndsAreThere
  <2>3. right \in 1..n /\ t <= clean[right].t
    BY <2>1, <2>2
  <2> HIDE DEF right, first
  <2>4. sooner \in SUBSET (1..n) /\ first \in sooner
    BY <1>1, <1>4, <1>5, <1>6, <2>3 DEF Precedes
  <2>5. left \in sooner
    <3> HIDE DEF sooner
    <3> QED BY <1>1, <1>2, <2>4, EndsAreThere
  <2> QED BY <2>3, <2>4, <2>5
<1> HIDE DEF left, right, first, last
<1>7. CASE t <= clean[first].t
  BY <1>3, <1>4, <1>5, <1>7
<1>8. CASE ~(t <= clean[first].t) /\ t >= clean[last].t
  BY <1>3, <1>4, <1>5, <1>8
<1>9. CASE ~(t <= clean[first].t) /\ ~(t >= clean[last].t)
  <2>1. PointAt(points, t) = Between(clean[left], clean[right], t)
    BY <1>3, <1>9
  <2>2. left \in 1..n /\ right \in 1..n
    BY <1>6, <1>9
  <2> QED BY <1>5, <2>1, <2>2, BetweenIsWhole
<1> QED BY <1>7, <1>8, <1>9

(* The times of a drive are finitely many numbers. *)
LEMMA TimesAreFinite ==
    ASSUME NEW points, IsDriven(points)
    PROVE  IsFiniteSet(Times(points)) /\ Times(points) \subseteq Int /\ (points = <<>> => Times(points) = {})
<1> DEFINE n == Len(points)
           all == {points[i].t : i \in 1..n}
<1>1. n \in Nat /\ DOMAIN points = 1..n /\ \A i \in 1..n : points[i].t \in Int
  BY DEF IsDriven
<1>2. Times(points) \subseteq all /\ all \subseteq Int
  BY <1>1 DEF Times, Range
<1>3. IsFiniteSet(all)
  <2>1. IsFiniteSet(1..n)
    BY <1>1, FS_Interval
  <2>2. [i \in 1..n |-> points[i].t] \in Surjection(1..n, all)
    BY DEF Surjection
  <2> HIDE DEF n, all
  <2> QED BY <2>1, <2>2, FS_Surjection
<1>4. points = <<>> => Times(points) = {}
  BY DEF Times, Range
<1> HIDE DEF all
<1> QED BY <1>2, <1>3, <1>4, FS_Subset

(* The sum of naturals is one, and of nothing but zeros is zero. *)
LEMMA SumOfErrors ==
    ASSUME NEW f, IsFiniteSet(DOMAIN f), \A x \in DOMAIN f : f[x] \in Nat
    PROVE  /\ FoldFunction(+, 0, f) \in Nat
           /\ (\A x \in DOMAIN f : f[x] = 0) => FoldFunction(+, 0, f) = 0
<1> DEFINE some == [k \in Nat |-> Nat]
           none == [k \in Nat |-> {0}]
<1>1. Cardinality(DOMAIN f) \in Nat
  BY FS_CardinalityType
<1>2. SumOf(f) \in Nat
  <2>1. StaysWithin(f, some)
    BY DEF StaysWithin
  <2>2. SumOf(f) \in some[Cardinality(DOMAIN f)]
    BY <2>1, SumKeeps, Zenon
  <2> QED BY <1>1, <2>2
<1>3. ASSUME \A x \in DOMAIN f : f[x] = 0 PROVE SumOf(f) = 0
  <2>1. StaysWithin(f, none)
    BY <1>3 DEF StaysWithin
  <2>2. SumOf(f) \in none[Cardinality(DOMAIN f)]
    BY <2>1, SumKeeps, Zenon
  <2> QED BY <1>1, <2>2
<1> QED BY <1>2, <1>3 DEF SumOf

(* What is measured of one candidate, as far as the best one is chosen by it. *)
IsMeasured(m, points, driven) ==
    m.samples > 0 =>
        /\ Times(driven) # {} /\ points # <<>> /\ driven # <<>>
        /\ m.position \in Nat
        /\ points = driven => m.position = 0 /\ m.final = 0 /\ m.speed = 0
        /\ m.final = PathDistance(PointAt(points, Max(Times(driven))).x, PointAt(driven, Max(Times(driven))).x)

LEMMA DistanceIsWhole ==
    ASSUME NEW a \in Int, NEW b \in Int
    PROVE  PathDistance(a, b) \in Nat /\ (a = b => PathDistance(a, b) = 0)
BY DEF PathDistance

LEMMA MeasuredIsSound ==
    ASSUME NEW points, IsDriven(points), NEW driven, IsDriven(driven)
    PROVE  IsMeasured(Measured(points, driven), points, driven) /\ Measured(points, driven).samples \in Nat
<1> DEFINE m == Measured(points, driven)
           times == Times(driven)
           error(t) == PathDistance(PointAt(points, t).x, PointAt(driven, t).x)
           off(t) == PathDistance(PointAt(points, t).speed, PointAt(driven, t).speed)
           errors == [t \in times |-> error(t)]
           offs == [t \in times |-> off(t)]
<1>1. m = IF times = {} \/ points = <<>> THEN [samples |-> 0]
          ELSE [samples |-> Cardinality(times), position |-> FoldFunction(+, 0, errors),
                final |-> error(Max(times)), speed |-> FoldFunction(+, 0, offs)]
  BY DEF Measured
<1>2. IsFiniteSet(times) /\ times \subseteq Int /\ (driven = <<>> => times = {})
  BY TimesAreFinite
<1> HIDE DEF m
<1>3. ASSUME times = {} \/ points = <<>> PROVE IsMeasured(m, points, driven) /\ m.samples \in Nat
  <2>1. m = [samples |-> 0]
    <3> HIDE DEF times, error, errors, off, offs
    <3> QED BY <1>1, <1>3, Zenon
  <2>2. m.samples = 0
    BY <2>1
  <2>3. ~(m.samples > 0) /\ m.samples \in Nat
    BY <2>2
  <2> QED BY <2>3, Zenon DEF IsMeasured
<1>4. ASSUME ~(times = {} \/ points = <<>>) PROVE IsMeasured(m, points, driven) /\ m.samples \in Nat
  <2>1. points # <<>> /\ driven # <<>> /\ times # {}
    BY <1>2, <1>4
  <2>2. ASSUME NEW t \in Int
        PROVE  error(t) \in Nat /\ off(t) \in Nat /\ (points = driven => error(t) = 0 /\ off(t) = 0)
    <3>1. /\ PointAt(points, t).x \in Int /\ PointAt(points, t).speed \in Int
          /\ PointAt(driven, t).x \in Int /\ PointAt(driven, t).speed \in Int
      BY <2>1, PointIsWhole
    <3> QED BY <3>1, DistanceIsWhole
  <2>3. Max(times) \in Int
    BY <1>2, <2>1, GreatestOfFinite
  <2>4. /\ m.samples = Cardinality(times) /\ m.position = FoldFunction(+, 0, errors)
        /\ m.final = error(Max(times)) /\ m.speed = FoldFunction(+, 0, offs)
    <3> HIDE DEF errors, offs, error, times
    <3> QED BY <1>1, <1>4
  <2>5. \A t \in times : /\ errors[t] \in Nat /\ offs[t] \in Nat
                         /\ points = driven => errors[t] = 0 /\ offs[t] = 0
    <3> HIDE DEF error, off
    <3> QED BY <1>2, <2>2
  <2>6. DOMAIN errors = times /\ DOMAIN offs = times
    OBVIOUS
  <2> HIDE DEF errors, offs, error, off, times
  <2>7. /\ m.position \in Nat
        /\ points = driven => m.position = 0 /\ m.speed = 0
    BY <1>2, <2>4, <2>5, <2>6, SumOfErrors
  <2>8. points = driven => m.final = 0
    BY <2>2, <2>3, <2>4
  <2>9. m.samples \in Nat
    BY <1>2, <2>4, FS_CardinalityType
  <2>10. m.final = PathDistance(PointAt(points, Max(Times(driven))).x, PointAt(driven, Max(Times(driven))).x)
    BY <2>4 DEF error, times
  <2>11. Times(driven) # {}
    BY <2>1 DEF times
  <2> QED BY <2>1, <2>7, <2>8, <2>9, <2>10, <2>11, Zenon DEF IsMeasured
<1>5. IsMeasured(m, points, driven) /\ m.samples \in Nat
  BY <1>3, <1>4
<1> QED BY <1>5 DEF m

(* The best of some rows is one that was measured, and no other is nearer. *)
LEMMA LeadIsNearest ==
    ASSUME NEW rows, DOMAIN rows \subseteq Nat, NEW i \in DOMAIN rows, rows[i].metrics.samples > 0,
           \A j \in DOMAIN rows : rows[j].metrics.samples > 0 => rows[j].metrics.position \in Nat
    PROVE  /\ Best(rows) \in DOMAIN rows /\ rows[Best(rows)].metrics.samples > 0
           /\ rows[Best(rows)].metrics.position <= rows[i].metrics.position
<1> DEFINE valid == {j \in DOMAIN rows : rows[j].metrics.samples > 0}
           errors == {rows[j].metrics.position : j \in valid}
           least == {j \in valid : rows[j].metrics.position = Min(errors)}
<1>1. Best(rows) = Min(least)
  BY DEF Best
<1>2. errors \in SUBSET Nat /\ rows[i].metrics.position \in errors
  OBVIOUS
<1>3. Min(errors) \in errors /\ Min(errors) <= rows[i].metrics.position
  <2> HIDE DEF errors
  <2> QED BY <1>2, LeastOfSome
<1>4. least \in SUBSET Nat /\ least # {}
  BY <1>3
<1>5. Min(least) \in least
  <2> HIDE DEF least
  <2> QED BY <1>4, LeastOfSome
<1>6. Best(rows) \in valid /\ rows[Best(rows)].metrics.position = Min(errors)
  <2> HIDE DEF errors, valid
  <2> QED BY <1>1, <1>5
<1> HIDE DEF errors
<1> QED BY <1>3, <1>6

LEMMA FiniteUpTo == \A m \in Nat : IsFiniteSet(1..m)
BY FS_Interval

(* Two candidates are no further apart than the reply says. *)
LEMMA ApartIsGreatest ==
    ASSUME NEW n \in Nat, NEW candidates, DOMAIN candidates = 1..n,
           \A i \in 1..n : IsDriven(candidates[i].points),
           NEW i \in 1..n, candidates[i].points # <<>>, NEW j \in 1..n, candidates[j].points # <<>>
    PROVE  LET apart == Max({0} \cup Range(Disagreements(candidates))) IN
           /\ apart \in Int
           /\ PathDistance(PointAt(candidates[i].points, 3).x, PointAt(candidates[j].points, 3).x) <= apart
<1> DEFINE with == {k \in DOMAIN candidates : candidates[k].points # <<>>}
           pairs == {p \in with \X with : p[1] < p[2]}
           x(k) == PointAt(candidates[k].points, 3).x
           f == Disagreements(candidates)
           all == {0} \cup Range(f)
<1>1. \A k \in with : x(k) \in Int
  <2> SUFFICES ASSUME NEW k \in with PROVE x(k) \in Int
    OBVIOUS
  <2>1. 3 \in Int /\ candidates[k].points # <<>> /\ IsDriven(candidates[k].points)
    OBVIOUS
  <2> QED BY <2>1, PointIsWhole
<1>2. f = [p \in pairs |-> PathDistance(x(p[1]), x(p[2]))]
  BY DEF Disagreements
<1>3. IsFiniteSet(pairs)
  <2>1. IsFiniteSet(1..n)
    BY FiniteUpTo
  <2>2. with \in SUBSET (1..n)
    OBVIOUS
  <2>3. IsFiniteSet(with)
    <3> HIDE DEF with
    <3> QED BY <2>1, <2>2, FS_Subset
  <2>4. pairs \in SUBSET (with \X with)
    OBVIOUS
  <2> HIDE DEF pairs, with
  <2>5. IsFiniteSet(with \X with)
    BY <2>3, FS_Product
  <2> QED BY <2>4, <2>5, FS_Subset
<1>4. i \in with /\ j \in with /\ with \subseteq Nat
  OBVIOUS
<1>5. \A p \in pairs : p[1] \in with /\ p[2] \in with
  OBVIOUS
<1>6. <<i, j>> \in pairs \/ <<j, i>> \in pairs \/ i = j
  BY <1>4
<1> HIDE DEF with, pairs, f, x
<1>7. \A p \in pairs : f[p] \in Nat
  BY <1>1, <1>2, <1>5, DistanceIsWhole
<1>8. DOMAIN f = pairs
  BY <1>2
<1>9. Range(f) \subseteq Nat /\ IsFiniteSet(Range(f))
  <2>1. Range(f) \subseteq Nat
    BY <1>7, <1>8 DEF Range
  <2>2. f \in Surjection(pairs, Range(f))
    BY <1>2, <1>8 DEF Surjection, Range
  <2> QED BY <1>3, <2>1, <2>2, FS_Surjection
<1>10. IsFiniteSet(all) /\ all # {} /\ all \subseteq Int /\ 0 \in all
  <2>1. IsFiniteSet({0})
    BY FS_Singleton
  <2>2. IsFiniteSet(Range(f)) /\ Range(f) \subseteq Int
    BY <1>9
  <2>3. IsFiniteSet({0} \cup Range(f))
    BY <2>1, <2>2, FS_Union, Zenon
  <2> QED BY <2>2, <2>3
<1>11. Max(all) \in Int /\ \A a \in all : a <= Max(all)
  <2> HIDE DEF all
  <2> QED BY <1>10, GreatestOfFinite
<1>12. PathDistance(x(i), x(j)) = PathDistance(x(j), x(i)) /\ (i = j => PathDistance(x(i), x(j)) = 0)
  <2>1. x(i) \in Int /\ x(j) \in Int
    BY <1>1, <1>4
  <2>2. \A a, b \in Int : PathDistance(a, b) = PathDistance(b, a) /\ (a = b => PathDistance(a, b) = 0)
    BY DEF PathDistance
  <2> QED BY <2>1, <2>2
<1>13. PathDistance(x(i), x(j)) \in all
  <2>1. \A p \in pairs : PathDistance(x(p[1]), x(p[2])) \in all
    BY <1>2, <1>8 DEF Range
  <2>2. CASE <<i, j>> \in pairs
    BY <2>1, <2>2
  <2>3. CASE <<j, i>> \in pairs
    BY <1>12, <2>1, <2>3
  <2>4. CASE i = j
    BY <1>10, <1>12, <2>4
  <2> QED BY <1>6, <2>2, <2>3, <2>4
<1>14. Max(all) \in Int /\ PathDistance(x(i), x(j)) <= Max(all)
  BY <1>11, <1>13
<1> QED BY <1>14 DEF all, f, x

(* So the best candidate is the nearest, and two that end at the horizon of the
   disagreement differ by no more than that. *)
LEMMA BestStaysNearest ==
    ASSUME NEW request \in Benchmarks, requested = [route |-> "benchmark", body |-> request],
           reply = [route |-> "benchmark", rows |-> Rows(request), best |-> Best(Rows(request)),
                    apart |-> Max({0} \cup Range(Disagreements(request.candidates)))]
    PROVE  BestIsNearest
<1> DEFINE candidates == request.candidates
           driven == request.driven
           rows == Rows(request)
           n == Len(candidates)
           best == Best(rows)
           valid == {i \in DOMAIN rows : rows[i].metrics.samples > 0}
           apart == Max({0} \cup Range(Disagreements(candidates)))
<1>1. /\ n \in Nat /\ DOMAIN candidates = 1..n /\ IsDriven(driven)
      /\ \A i \in 1..n : IsDriven(candidates[i].points)
  BY BenchmarksAssumption
<1>2. DOMAIN rows = 1..n /\ \A i \in 1..n : rows[i].metrics = Measured(candidates[i].points, driven)
  BY <1>1 DEF Rows
<1>3. /\ reply.rows = rows /\ reply.best = best /\ reply.apart = apart /\ requested.body = request
  OBVIOUS
<1> HIDE DEF candidates, driven, n, rows, apart
<1>4. \A i \in 1..n : /\ IsMeasured(rows[i].metrics, candidates[i].points, driven)
                      /\ rows[i].metrics.samples \in Nat
  BY <1>1, <1>2, MeasuredIsSound
<1>5. \A i \in valid : /\ i \in 1..n /\ candidates[i].points # <<>> /\ driven # <<>>
                       /\ rows[i].metrics.position \in Nat
                       /\ candidates[i].points = driven =>
                             rows[i].metrics.position = 0 /\ rows[i].metrics.final = 0 /\ rows[i].metrics.speed = 0
                       /\ rows[i].metrics.final = PathDistance(PointAt(candidates[i].points, Max(Times(driven))).x,
                                                               PointAt(driven, Max(Times(driven))).x)
  BY <1>2, <1>4 DEF IsMeasured
<1>6. ASSUME NEW i \in valid
      PROVE  best \in valid /\ rows[best].metrics.position <= rows[i].metrics.position
  <2>1. DOMAIN rows \subseteq Nat /\ i \in DOMAIN rows /\ rows[i].metrics.samples > 0
        /\ \A j \in DOMAIN rows : rows[j].metrics.samples > 0 => rows[j].metrics.position \in Nat
    BY <1>1, <1>2, <1>5
  <2> QED BY <2>1, LeadIsNearest
<1>7. ASSUME NEW i \in valid, candidates[i].points = driven
      PROVE  rows[best].metrics.position + rows[i].metrics.final + rows[i].metrics.speed = 0
  <2>1. best \in valid /\ rows[best].metrics.position <= rows[i].metrics.position
    BY <1>6
  <2>2. rows[best].metrics.position \in Nat
    BY <1>5, <2>1
  <2>3. rows[i].metrics.position = 0 /\ rows[i].metrics.final = 0 /\ rows[i].metrics.speed = 0
    BY <1>5, <1>7
  <2> QED BY <2>1, <2>2, <2>3
<1>8. ASSUME Max(Times(driven)) = 3, NEW i \in valid, NEW j \in valid
      PROVE  rows[i].metrics.final - rows[j].metrics.final <= apart
  <2> DEFINE a == PointAt(candidates[i].points, 3).x
             b == PointAt(candidates[j].points, 3).x
             d == PointAt(driven, 3).x
  <2>1. a \in Int /\ b \in Int /\ d \in Int
    <3>1. \A k \in valid : PointAt(candidates[k].points, 3).x \in Int /\ PointAt(driven, 3).x \in Int
      BY <1>1, <1>5, PointIsWhole
    <3> QED BY <3>1
  <2>2. rows[i].metrics.final = PathDistance(a, d) /\ rows[j].metrics.final = PathDistance(b, d)
    BY <1>5, <1>8
  <2>3. apart \in Int /\ PathDistance(a, b) <= apart
    BY <1>1, <1>5, ApartIsGreatest DEF apart
  <2> HIDE DEF a, b, d, apart
  <2>4. PathDistance(a, d) - PathDistance(b, d) <= PathDistance(a, b) /\ PathDistance(a, b) \in Int
        /\ PathDistance(a, d) \in Int /\ PathDistance(b, d) \in Int
    BY <2>1 DEF PathDistance
  <2> QED BY <2>2, <2>3, <2>4
<1> HIDE DEF best, valid
<1>9. request.candidates = candidates /\ request.driven = driven
  BY DEF candidates, driven
<1> QED BY <1>3, <1>6, <1>7, <1>8, <1>9 DEF BestIsNearest, valid

(* For any bodies, nothing that select and policy/benchmark leave out is harder, or
   nearer to what was driven, than what they take. *)
THEOREM NothingBetterStaysLeft == HardCaseSpec => []NothingBetterIsLeft
<1> DEFINE Inv == /\ requested.route = "select" \/ reply.route = "select" =>
                        \E b \in Selections : /\ requested = [route |-> "select", body |-> b]
                                              /\ reply = [route |-> "select", selected |-> Selected(b)]
                  /\ requested.route = "benchmark" \/ reply.route = "benchmark" =>
                        \E b \in Benchmarks :
                            /\ requested = [route |-> "benchmark", body |-> b]
                            /\ reply = [route |-> "benchmark", rows |-> Rows(b), best |-> Best(Rows(b)),
                                        apart |-> Max({0} \cup Range(Disagreements(b.candidates)))]
<1>1. HardCaseInit => Inv
  BY DEF HardCaseInit, NothingAsked
<1>2. Inv /\ [HardCaseNext]_hardCaseVars => Inv'
  <2> SUFFICES ASSUME Inv, [HardCaseNext]_hardCaseVars PROVE Inv'
    OBVIOUS
  <2>1. CASE UNCHANGED hardCaseVars
    BY <2>1 DEF hardCaseVars
  <2>2. ASSUME NEW b \in Selections, Select(b) PROVE Inv'
    BY <2>2 DEF Select
  <2>3. ASSUME NEW b \in Selections, BuildManifest(b) PROVE Inv'
    BY <2>3 DEF BuildManifest
  <2>4. ASSUME NEW b \in Benchmarks, Benchmark(b) PROVE Inv'
    BY <2>4 DEF Benchmark
  <2> QED BY <2>1, <2>2, <2>3, <2>4 DEF HardCaseNext
<1>3. Inv => NothingBetterIsLeft
  <2> SUFFICES ASSUME Inv PROVE NothingBetterIsLeft
    OBVIOUS
  <2>1. HardestAreSelected
    <3>1. CASE reply.route = "select"
      BY <3>1, HardestStaySelected
    <3>2. CASE reply.route # "select"
      BY <3>2 DEF HardestAreSelected
    <3> QED BY <3>1, <3>2
  <2>2. BestIsNearest
    <3>1. CASE reply.route = "benchmark"
      BY <3>1, BestStaysNearest
    <3>2. CASE reply.route # "benchmark"
      BY <3>2 DEF BestIsNearest
    <3> QED BY <3>1, <3>2
  <2> QED BY <2>1, <2>2 DEF NothingBetterIsLeft
<1> QED BY <1>1, <1>2, <1>3, PTL DEF HardCaseSpec
=============================================================================
