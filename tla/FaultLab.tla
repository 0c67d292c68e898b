------------------------------- MODULE FaultLab -------------------------------
(***************************************************************************)
(* vision_shark/communication_lab.py, startup_comm_lab.py and their routes *)
(* in field_api.py: synthetic supply faults, and what captured traces of   *)
(* start-up, flashing, diagnostics and bus traffic are found to say.       *)
(*                                                                         *)
(* Time counts ticks, of which a second has Second; volts are whole.       *)
(***************************************************************************)
EXTENDS Integers, FiniteSets, Sequences
LOCAL INSTANCE SequencesExt
LOCAL INSTANCE FiniteSetsExt
LOCAL INSTANCE Functions

CONSTANTS
    BenchProfiles, \* [nominal, duration, rate, environment, hazards, isolated, faults]
    StartupTraces, \* [events, voltage, onVehicle]: faults were commanded on a connected vehicle
    FlashTraces,   \* [events, onVehicle]: requests were generated for a connected vehicle
    Observations,  \* [payload, timeout, errors]
    Recordings     \* id -> its frames, [ts, bus, id, error]

Second == 100        \* 1_000_000_000 ns
Silence == 100       \* 1_000 ms without a frame
Correlation == 25    \* 250 ms

VARIABLES examined, report   \* the last request to a route, and its reply

labVars == <<examined, report>>

NotAsked == [route |-> "none"]
Declined == [refused |-> TRUE]   \* 422, or 404

LabInit == examined = NotAsked /\ report = NotAsked

Summed(f) == FoldFunction(+, 0, f)

-----------------------------------------------------------------------------
(* simulate_voltage_profile.                                                  *)

(* The model validators: bench or replay only, every fault within the profile. *)
Permitted(p) ==
    /\ p.hazards = {}   \* physical_vehicle_connected, driver_present, ...
    /\ p.environment = "hil_bench" => p.isolated
    /\ \A f \in Range(p.faults) : /\ f.start + f.length <= p.duration
                                  /\ (f.kind = "ripple") <=> (f.frequency > 0)

(* Cut to a whole tick, so that the last samples come before their time. *)
Step(p) == Second \div p.rate
Samples(p) == (p.duration * p.rate) \div Second + 1

(* A sine, by its value in each quarter of a period. *)
Sine(quarter) == CASE quarter % 4 = 1 -> 1 [] quarter % 4 = 3 -> -1 [] OTHER -> 0

Level(p, f, t) ==
    CASE f.kind = "sag" -> Max({0, p.nominal - f.magnitude})
      [] f.kind = "dropout" -> 0
      [] f.kind = "spike" -> p.nominal + f.magnitude
      [] f.kind = "ripple" -> p.nominal + f.magnitude * Sine((4 * f.frequency * (t - f.start)) \div Second)

(* Slip: a fault begins after its start. *)
ActsAfter(f, t) == f.start < t /\ t < f.start + f.length

Acts(f, t) == f.start <= t /\ t < f.start + f.length

(* Of several faults at a time the one that is listed last counts. *)
VoltsAt(p, t) ==
    LET acting == {i \in DOMAIN p.faults : Acts(p.faults[i], t)}
    IN  IF acting = {} THEN p.nominal ELSE Level(p, p.faults[Max(acting)], t)

Simulated(p) ==
    LET samples == [i \in 1..Samples(p) |-> [ts |-> (i - 1) * Step(p), volts |-> VoltsAt(p, (i - 1) * Step(p))]]
        volts == {p.nominal} \cup {s.volts : s \in Range(samples)}
    IN  [samples |-> samples, minimum |-> Min(volts), maximum |-> Max(volts)]

ReplayVoltage(p) ==
    /\ examined' = [route |-> "voltage", body |-> p]
    /\ report' = IF Permitted(p) THEN Simulated(p) ELSE Declined

-----------------------------------------------------------------------------
(* Traces.                                                                    *)

(* _sorted_events. *)
InTime(events) == SortSeq(events, LAMBDA a, b : a.ts < b.ts)

OfKind(events, kinds) == SelectSeq(events, LAMBDA e : e.event \in kinds)
Successes == {"frame_seen", "response_seen", "negative_response", "reconnect"}
Failures == {"timeout", "transport_error", "disconnect"}
NotYet == -1

ModuleReport(events) ==
    LET seen == OfKind(events, Successes)
    IN  [first |-> IF seen = <<>> THEN NotYet ELSE seen[1].ts,
         last |-> IF seen = <<>> THEN NotYet ELSE Last(seen).ts,
         seen |-> Len(seen), failed |-> Len(OfKind(events, Failures))]

StartupReport(trace) ==
    LET events == InTime(trace.events)
        failed == OfKind(events, Failures)
        nominal == Max({0} \cup {v.volts : v \in Range(trace.voltage)})
        low == SelectSeq(trace.voltage, LAMBDA v : 5 * v.volts <= 4 * nominal)
        near(e) == \E v \in Range(low) : e.ts - v.ts \in (-Correlation)..Correlation
        modules == [m \in {e.module : e \in Range(events)} |->
                       ModuleReport(SelectSeq(events, LAMBDA e : e.module = m))]
        firsts == {modules[m].first : m \in DOMAIN modules} \ {NotYet}
    IN  [modules |-> modules, failures |-> Len(failed), low |-> Len(low),
         correlated |-> Len(SelectSeq(failed, near)),
         first |-> IF firsts = {} THEN NotYet ELSE Min(firsts)]

AnalyzeStartup(trace) ==
    /\ examined' = [route |-> "startup", body |-> trace]
    /\ report' = IF trace.onVehicle THEN Declined ELSE StartupReport(trace)

(* The delay to the next reconnect, which several disconnects may share. *)
Recoveries(events) ==
    LET back(e) == SelectSeq(OfKind(events, {"reconnect"}), LAMBDA r : r.ts >= e.ts)
        lost == SelectSeq(OfKind(events, {"disconnect"}), LAMBDA e : back(e) # <<>>)
    IN  [i \in DOMAIN lost |-> back(lost[i])[1].ts - lost[i].ts]

FlashReport(trace) ==
    LET events == InTime(trace.events)
        sent == SelectSeq(events, LAMBDA e : e.direction = "host_to_target")
    IN  [duration |-> Last(events).ts - events[1].ts,
         sent |-> Summed([i \in DOMAIN sent |-> sent[i].bytes]),
         responses |-> Len(OfKind(events, {"response", "ack"})),
         failures |-> [kind \in Failures |-> Len(OfKind(events, {kind}))],
         recoveries |-> Recoveries(events),
         blocks |-> {e.block : e \in Range(OfKind(events, {"block_complete"}))}]

AnalyzeFlash(trace) ==
    /\ examined' = [route |-> "flash", body |-> trace]
    /\ report' = IF trace.onVehicle THEN Declined ELSE FlashReport(trace)

-----------------------------------------------------------------------------
(* A negative response is 0x7f, the service and a code.                        *)
Status(o) ==
    CASE o.timeout -> "timeout"
      [] ~o.timeout /\ o.errors -> "transport_error"
      [] ~o.timeout /\ ~o.errors /\ o.payload = <<>> -> "empty"
      [] OTHER -> IF o.payload[1] = 127 /\ Len(o.payload) >= 3
                  THEN "negative_response" ELSE "response_observed"

AnalyzeObservation(o) ==
    /\ examined' = [route |-> "observation", body |-> o]
    /\ report' = [status |-> Status(o),
                  negative |-> IF Status(o) = "negative_response" THEN SubSeq(o.payload, 2, 3) ELSE <<>>]

-----------------------------------------------------------------------------
(* communication_health.                                                      *)

BusReport(frames) ==
    LET times == SelectSeq(frames, LAMBDA f : ~f.error)
    IN  [frames |-> Len(frames), errors |-> Len(frames) - Len(times),
         gap |-> Max({0} \cup {times[i + 1].ts - times[i].ts : i \in 1..(Len(times) - 1)})]

HealthReport(recorded) ==
    LET frames == InTime(recorded)
        buses == [b \in {f.bus : f \in Range(frames)} |-> BusReport(SelectSeq(frames, LAMBDA f : f.bus = b))]
        errors == Len(SelectSeq(frames, LAMBDA f : f.error))
        gap == Max({0} \cup {buses[b].gap : b \in DOMAIN buses})
    IN  [buses |-> buses, ids |-> {<<f.bus, f.id>> : f \in {g \in Range(frames) : ~g.error}},
         quality |-> CASE frames = <<>> -> "no_data"
                       [] frames # <<>> /\ 20 * errors > Len(frames) -> "poor"
                       [] OTHER -> IF 200 * errors > Len(frames) \/ gap > Silence
                                   THEN "degraded" ELSE "good"]

(* require_recording, and the frames as the store has them. *)
CheckHealth(id) ==
    /\ examined' = [route |-> "health", body |-> [id |-> id]]
    /\ report' = IF id \in DOMAIN Recordings THEN HealthReport(Recordings[id]) ELSE Declined

(* A request is answered from what it brings; one after the other is one at a time. *)
LabNext ==
    /\ examined = NotAsked
    /\ \/ \E p \in BenchProfiles : ReplayVoltage(p)
       \/ \E trace \in StartupTraces : AnalyzeStartup(trace)
       \/ \E trace \in FlashTraces : AnalyzeFlash(trace)
       \/ \E o \in Observations : AnalyzeObservation(o)
       \/ \E id \in 0..Cardinality(DOMAIN Recordings) : CheckHealth(id)

-----------------------------------------------------------------------------
(* A fault as long as the time between two samples shows in one, with its own
   voltage or that of one listed after it, unless it lies in the stretch at the
   end that the samples do not reach because their distance was cut. *)
FaultsShow ==
    examined.route = "voltage" /\ report # Declined =>
        LET p == examined.body
            reach == ((p.duration * p.rate) \div Second) * Step(p)
        IN  \A i \in DOMAIN p.faults :
              p.faults[i].length >= Step(p) /\ p.faults[i].start <= reach =>
                  \E s \in Range(report.samples) :
                      /\ s.ts \in p.faults[i].start..(p.faults[i].start + p.faults[i].length - 1)
                      /\ s.volts \in {Level(p, p.faults[j], s.ts) : j \in i..Len(p.faults)}
                      /\ report.minimum <= s.volts /\ s.volts <= report.maximum

Shuffled(seq) == {[i \in DOMAIN seq |-> seq[p[i]]] : p \in Permutations(DOMAIN seq)}

(* What a trace or a recording is found to say does not depend on the order in
   which its events are listed: several taps are merged, imports come as they are. *)
OrderDoesNotMatter ==
    /\ examined.route = "startup" /\ report # Declined =>
          \A events \in Shuffled(examined.body.events) :
              StartupReport([examined.body EXCEPT !.events = events]) = report
    /\ examined.route = "flash" /\ report # Declined =>
          \A events \in Shuffled(examined.body.events) :
              FlashReport([examined.body EXCEPT !.events = events]) = report
    /\ examined.route = "health" /\ report # Declined =>
          \A frames \in Shuffled(Recordings[examined.body.id]) : HealthReport(frames) = report

(* Both: a report shows what is in the input, and only depends on that. *)
ReportsAreSound == FaultsShow /\ OrderDoesNotMatter
=============================================================================
