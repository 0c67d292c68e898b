------------------------------ MODULE HardCases ------------------------------
(***************************************************************************)
(* vision_shark/autonomy/data_engine.py and its routes in autonomy_api.py: *)
(* scoring scenarios, selecting the hard ones for labelling, and measuring *)
(* candidate trajectories against the one that was driven.                 *)
(*                                                                         *)
(* Scores count twentieths of a point, risk and uncertainty tenths; a      *)
(* trajectory lies on one axis, in units that its interpolation divides.   *)
(***************************************************************************)
EXTENDS Integers, SequencesExt

CONSTANTS
    Selections,  \* bodies of select and training-manifest: [scenarios, limit, minScore, perFingerprint]
    Benchmarks   \* bodies of policy/benchmark: [candidates, driven, chosen]

IsScenario(s) ==
    /\ s.flags \subseteq {"driver_intervention", "safety_fallback", "camera_desync", "occlusion",
                          "rare_object", "route_ambiguity"}
    /\ s.risk \in Int /\ s.clearance \in Int /\ s.disagreement \in Int /\ s.uncertainty \in Int
IsDriven(points) ==
    /\ Len(points) \in Nat /\ DOMAIN points = 1..Len(points)
    /\ \A i \in DOMAIN points : /\ DOMAIN points[i] = {"t", "x", "speed"}
                              /\ points[i].t \in Int /\ -1 <= points[i].t
                              /\ points[i].x \in Int /\ points[i].speed \in Int

(* DataEngineSelectBody refuses limits beyond these; numbers are numbers. *)
ASSUME SelectionsAssumption ==
    \A b \in Selections :
        /\ DOMAIN b = {"scenarios", "limit", "minScore", "perFingerprint"}
        /\ Len(b.scenarios) \in Nat /\ DOMAIN b.scenarios = 1..Len(b.scenarios)
        /\ \A i \in DOMAIN b.scenarios : IsScenario(b.scenarios[i])
        /\ b.minScore \in Int /\ b.limit \in Int /\ 1 <= b.limit /\ b.limit <= 10000
        /\ b.perFingerprint \in Int /\ 1 <= b.perFingerprint /\ b.perFingerprint <= 100
ASSUME BenchmarksAssumption ==
    \A b \in Benchmarks :
        /\ Len(b.candidates) \in Nat /\ DOMAIN b.candidates = 1..Len(b.candidates)
        /\ \A i \in DOMAIN b.candidates : IsDriven(b.candidates[i].points)
        /\ IsDriven(b.driven)

VARIABLES requested, reply   \* the last request to a route, and what it returned

hardCaseVars == <<requested, reply>>

NothingAsked == [route |-> "none"]
HardCaseInit == requested = NothingAsked /\ reply = NothingAsked

Smaller(a, b) == IF a < b THEN a ELSE b
Larger(a, b) == IF a > b THEN a ELSE b
Bounded(low, high, a) == Larger(low, Smaller(high, a))
PathDistance(a, b) == IF a < b THEN b - a ELSE a - b

-----------------------------------------------------------------------------
(* hard_case_score.                                                           *)

FlagScore == [driver_intervention |-> 700, safety_fallback |-> 500, camera_desync |-> 160,
              occlusion |-> 160, rare_object |-> 200, route_ambiguity |-> 160]

Unmeasured == -100   \* a clearance that was not given

(* What counts, and by how much. *)
Measures(s) ==
    [predicted_collision_risk |-> 70 * Bounded(0, 10, s.risk),
     low_clearance |-> 360 - 45 * Larger(0, s.clearance),
     policy_disagreement |-> Smaller(400, 50 * s.disagreement),
     perception_uncertainty |-> 30 * Bounded(0, 10, s.uncertainty)]

Counted(s) ==
    LET counts == [predicted_collision_risk |-> Bounded(0, 10, s.risk) > 0,
                   low_clearance |-> s.clearance # Unmeasured /\ s.clearance < 8,
                   policy_disagreement |-> s.disagreement > 1,
                   perception_uncertainty |-> Bounded(0, 10, s.uncertainty) > 3]
    IN  [reason \in s.flags \cup {m \in DOMAIN counts : counts[m]} |->
            IF reason \in s.flags THEN FlagScore[reason] ELSE Measures(s)[reason]]

Hardness(s) == Smaller(2000, FoldFunction(+, 0, Counted(s)))

Priority(score) == CASE score >= 1400 -> "critical" [] score >= 900 -> "high"
                     [] score >= 400 -> "medium" [] OTHER -> "routine"

Reasons(s) == s.tags \cup DOMAIN Counted(s)

(* scenario_fingerprint: what was seen, in buckets of 5 m/s and of a tenth of a
   risk; what makes a scenario hard is not in it, but for the tags. *)
Fingerprint(s) == [tags |-> s.tags, scene |-> s.scene, speed |-> 5 * ((s.speed + 2) \div 5),
                   risk |-> s.risk]

-----------------------------------------------------------------------------
(* FleetDataEngine.                                                           *)

(* Slip: they are taken as they come. *)
AsTheyCome(scenarios, i, j) == i < j

(* The sort is stable, also in reverse. *)
Before(scenarios, i, j) ==
    LET a == Hardness(scenarios[i]) b == Hardness(scenarios[j]) IN a > b \/ (a = b /\ i < j)

MayTake(kept, scenarios, i, body) ==
    /\ Len(kept) < Bounded(1, 10000, body.limit)
    /\ Hardness(scenarios[i]) >= body.minScore
    /\ Cardinality({k \in Range(kept) : Fingerprint(scenarios[k]) = Fingerprint(scenarios[i])})
          < Bounded(1, 100, body.perFingerprint)

TakenUp(kept, i, body) == IF MayTake(kept, body.scenarios, i, body) THEN Append(kept, i) ELSE kept

LeastHard(scenarios, places) == CHOOSE i \in places : \A j \in places \ {i} : Before(scenarios, j, i)

(* One after another, the least hard of them last. *)
Selected(body) ==
    MapThenFoldSet(LAMBDA i, kept : TakenUp(kept, i, body), <<>>, LAMBDA i : i,
                   LAMBDA places : LeastHard(body.scenarios, places), DOMAIN body.scenarios)

Labels(reasons) ==
    {"ego_trajectory", "dynamic_agents", "free_space"}
    \cup (IF "route_ambiguity" \in reasons THEN {"lane_topology"} ELSE {})
    \cup (IF "occlusion" \in reasons THEN {"occlusion_state"} ELSE {})

(* The route hands on the limit and the score, not the limit per fingerprint. *)
ManifestItems(body) ==
    LET kept == Selected([body EXCEPT !.perFingerprint = 2])
    IN  [rank \in DOMAIN kept |->
            LET s == body.scenarios[kept[rank]]
            IN  [index |-> kept[rank], score |-> Hardness(s), priority |-> Priority(Hardness(s)),
                 labels |-> Labels(Reasons(s))]]

Select(body) ==
    /\ requested' = [route |-> "select", body |-> body]
    /\ reply' = [route |-> "select", selected |-> Selected(body)]

BuildManifest(body) ==
    /\ requested' = [route |-> "manifest", body |-> body]
    /\ reply' = [route |-> "manifest", items |-> ManifestItems(body)]

-----------------------------------------------------------------------------
(* benchmark_policy.  A trajectory is a sequence of [t, x, speed]; t = -1 is a  *)
(* time that is not given.                                                    *)

(* _point_at reads a time that is not given as 0, trajectory_metrics leaves it out. *)
Clean(points) == [i \in DOMAIN points |-> [points[i] EXCEPT !.t = Larger(0, @)]]

Between(a, b, t) ==
    LET part(from, to) == from + ((to - from) * (t - a.t)) \div Larger(1, b.t - a.t)
    IN  [t |-> t, x |-> part(a.x, b.x), speed |-> part(a.speed, b.speed)]

(* The first of some places, by their times, and the last. *)
Precedes(clean, i, j) == clean[i].t < clean[j].t \/ (clean[i].t = clean[j].t /\ i < j)
Earliest(clean, places) == CHOOSE i \in places : \A j \in places \ {i} : Precedes(clean, i, j)
Latest(clean, places) == CHOOSE i \in places : \A j \in places \ {i} : Precedes(clean, j, i)

PointAt(points, t) ==
    LET clean == Clean(points)
        first == Earliest(clean, DOMAIN clean)
        last == Latest(clean, DOMAIN clean)
        right == Earliest(clean, {i \in DOMAIN clean : t <= clean[i].t})
        left == Latest(clean, {i \in DOMAIN clean : Precedes(clean, i, right)})
    IN  IF t <= clean[first].t THEN clean[first]
        ELSE IF t >= clean[last].t THEN clean[last]
        ELSE Between(clean[left], clean[right], t)

Times(points) == {p.t : p \in Range(points)} \ {-1}

(* Errors, summed up: the times are the same for every candidate. *)
Measured(points, driven) ==
    LET times == Times(driven)
        error(t) == PathDistance(PointAt(points, t).x, PointAt(driven, t).x)
        off(t) == PathDistance(PointAt(points, t).speed, PointAt(driven, t).speed)
    IN  IF times = {} \/ points = <<>> THEN [samples |-> 0]
        ELSE [samples |-> Cardinality(times), position |-> FoldFunction(+, 0, [t \in times |-> error(t)]),
              final |-> error(Max(times)), speed |-> FoldFunction(+, 0, [t \in times |-> off(t)])]

Rows(body) ==
    [i \in DOMAIN body.candidates |->
        [id |-> body.candidates[i].id, chosen |-> body.candidates[i].id = body.chosen,
         metrics |-> Measured(body.candidates[i].points, body.driven)]]

(* min() takes the first of several. *)
Best(rows) ==
    LET valid == {i \in DOMAIN rows : rows[i].metrics.samples > 0}
        errors == {rows[i].metrics.position : i \in valid}
    IN  IF valid = {} THEN 0 ELSE Min({i \in valid : rows[i].metrics.position = Min(errors)})

(* policy_disagreement, at three seconds. *)
Disagreements(candidates) ==
    LET with == {i \in DOMAIN candidates : candidates[i].points # <<>>}
        x(i) == PointAt(candidates[i].points, 3).x
    IN  [pair \in {p \in with \X with : p[1] < p[2]} |-> PathDistance(x(pair[1]), x(pair[2]))]

Benchmark(body) ==
    /\ requested' = [route |-> "benchmark", body |-> body]
    /\ reply' = [route |-> "benchmark", rows |-> Rows(body), best |-> Best(Rows(body)),
                 apart |-> Max({0} \cup Range(Disagreements(body.candidates)))]

(* A request is answered from what it brings; one after the other is one at a time. *)
HardCaseNext ==
    /\ requested = NothingAsked
    /\ \/ \E body \in Selections : Select(body) \/ BuildManifest(body)
       \/ \E body \in Benchmarks : Benchmark(body)

HardCaseSpec == HardCaseInit /\ [][HardCaseNext]_hardCaseVars

-----------------------------------------------------------------------------
(* No hard scenario is passed over: one that is hard enough and left out would
   come after everything that was taken, with the limit reached, or after as many
   with its own fingerprint as may be taken. *)
HardestAreSelected ==
    reply.route = "select" =>
        LET body == requested.body
            order(i, j) == Before(body.scenarios, i, j) /\ Hardness(body.scenarios[i]) >= Hardness(body.scenarios[j])
            kept == Range(reply.selected)
            alike(i) == {k \in kept : Fingerprint(body.scenarios[k]) = Fingerprint(body.scenarios[i])}
        IN  /\ \A k, l \in DOMAIN reply.selected : k < l => order(reply.selected[k], reply.selected[l])
            /\ Cardinality(kept) <= body.limit
            /\ \A k \in kept : /\ Hardness(body.scenarios[k]) >= body.minScore
                               /\ Cardinality(alike(k)) <= body.perFingerprint
            /\ \A i \in DOMAIN body.scenarios \ kept :
                  Hardness(body.scenarios[i]) >= body.minScore =>
                      \/ Cardinality(kept) = body.limit /\ \A k \in kept : order(k, i)
                      \/ Cardinality(alike(i)) = body.perFingerprint /\ \A k \in alike(i) : order(k, i)

(* Candidates are measured alike: none is nearer to what was driven than the best
   one, one that is what was driven has no error, and two candidates whose ends
   are measured at the horizon of the disagreement differ by no more than that. *)
BestIsNearest ==
    reply.route = "benchmark" =>
        LET valid == {i \in DOMAIN reply.rows : reply.rows[i].metrics.samples > 0}
            metrics(i) == reply.rows[i].metrics
        IN  /\ \A i \in valid : metrics(reply.best).position <= metrics(i).position
            /\ \A i \in valid : requested.body.candidates[i].points = requested.body.driven =>
                                  metrics(reply.best).position + metrics(i).final + metrics(i).speed = 0
            /\ Times(requested.body.driven) # {} /\ Max(Times(requested.body.driven)) = 3 =>
                  \A i, j \in valid : metrics(i).final - metrics(j).final <= reply.apart

(* Both: nothing that is left out is harder, or nearer, than what is taken. *)
NothingBetterIsLeft == HardestAreSelected /\ BestIsNearest
=============================================================================
