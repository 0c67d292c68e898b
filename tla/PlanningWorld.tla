---------------------------- MODULE PlanningWorld ----------------------------
(***************************************************************************)
(* vision_shark/autonomy/planning_world.py, from the cameras to the        *)
(* trajectory that is shown as selected.  The tracker between the two      *)
(* halves is TemporalWorld; AutonomyService puts them together.            *)
(*                                                                         *)
(* Units are those of HybridPlanner, and milliseconds where a forecast     *)
(* looks ahead; risk and probability are in thousandths.  A lane, like a   *)
(* path, runs straight ahead at an offset.                                 *)
(***************************************************************************)
EXTENDS HybridPlanner

CONSTANT Frames   \* what step may be called with, from the tracks on

(* A confidence is cut to what lies between none and certainty, wherever it is read. *)
ASSUME FramesAssumption ==
    \A f \in Frames :
        /\ {"speed", "cruise", "sharpBlend", "objects", "lane", "model", "wanted"} \subseteq DOMAIN f
        /\ IsScene(f)
        /\ IsFiniteSet(f.objects) /\ \A o \in f.objects : o.conf \in 0..100
        /\ \A l \in f.lanes : l.y \in Int /\ l.relevance \in 0..100 /\ l.conf \in 0..100
        /\ Len(f.policies) \in Nat /\ DOMAIN f.policies = 1..Len(f.policies)
        /\ \A i \in DOMAIN f.policies :
              LET p == f.policies[i] IN p.length \in Nat /\ p.y \in Int /\ p.conf \in 0..100

SumOf(f) == FoldFunction(+, 0, f)

(* MultiCameraSynchronizer.evaluate: of a camera seen twice the later frame
   counts.  What is expected defaults to the calibrated cameras. *)
Synchronization(images, expected, tolerance) ==
    LET observed == {i.camera : i \in images}
        latest == {Max({i.at : i \in {j \in images : j.camera = c}}) : c \in observed} IN
    IF images = {} THEN "no_camera_frames"
    ELSE IF ~(expected \subseteq observed) THEN "missing_camera"
    ELSE IF Max(latest) - Min(latest) > tolerance THEN "camera_desync" ELSE "ok"

(* normalize_camera_detections: pixels need a calibrated camera that can have
   seen them.  A detection without a name gets its place in the frame. *)
Localized(detections, cameras) ==
    LET placed(d) == d.conf >= 5 /\ (d.inPixels => d.camera \in cameras /\ d.inside) IN
    [i \in {j \in DOMAIN detections : placed(detections[j])} |->
        [detections[i] EXCEPT !.hint = IF @ = <<>> THEN <<"", i - 1>> ELSE @,
                              !.conf = Min({100, @})]]

(* fuse_multicamera_detections, the surest first: a detection joins the nearest
   cluster of its class within the gate, or starts one. *)
Centre(cluster) ==
    LET sum(Of(_)) == MapThenSumSet(LAMBDA i : Of(cluster[i]), DOMAIN cluster) IN
    [x |-> sum(LAMBDA d : d.x) \div Len(cluster), y |-> sum(LAMBDA d : d.y) \div Len(cluster)]

Joined(clusters, d, gate) ==
    LET distance(i) == Hypot(d.x - Centre(clusters[i]).x, d.y - Centre(clusters[i]).y)
        near == {i \in DOMAIN clusters : clusters[i][1].cls = d.cls /\ distance(i) <= gate}
        nearest == {i \in near : \A j \in near : distance(i) <= distance(j)} IN
    IF near = {} THEN Append(clusters, <<d>>)
    ELSE [clusters EXCEPT ![Min(nearest)] = Append(@, d)]

Fusion(cluster) ==
    LET weight(d) == Max({1, d.conf})
        sum(Of(_)) == MapThenSumSet(LAMBDA i : Of(cluster[i]), DOMAIN cluster)
        missed[i \in 0..Len(cluster)] ==
            IF i = 0 THEN 1000 ELSE (missed[i - 1] * (1000 - Min({999, 10 * cluster[i].conf}))) \div 1000 IN
    [hint |-> cluster[1].hint, cls |-> cluster[1].cls,
     x |-> sum(LAMBDA d : d.x * weight(d)) \div sum(weight),
     y |-> sum(LAMBDA d : d.y * weight(d)) \div sum(weight),
     conf |-> (1000 - missed[Len(cluster)]) \div 10]

Fused(detections, gate) ==
    LET leastSure(places) ==
            Max({i \in places : \A j \in places : detections[i].conf <= detections[j].conf})
        clusters == MapThenFoldSet(LAMBDA i, made : Joined(made, detections[i], gate), <<>>,
                                   LAMBDA i : i, leastSure, DOMAIN detections) IN
    [i \in DOMAIN clusters |-> Fusion(clusters[i])]

-----------------------------------------------------------------------------
(* MultimodalAgentForecaster: a hypothesis goes so many milliseconds along the
   velocity of the track, and across it, by each of the horizons. *)
Horizons == <<500, 1000, 2000, 3000, 4000>>
Straight == <<0, 0, 0, 0, 0>>
TurnAlong == <<500, 998, 1981, 2936, 3848>>   \* sin(0.12 t) / 0.12
TurnAcross == <<15, 60, 239, 534, 941>>       \* (1 - cos(0.12 t)) / 0.12
Braking(b) == <<500 - b \div 8, 1000 - b \div 2, 2000 - 2 * b, 3000 - (9 * b) \div 2, 4000 - 8 * b>>

Hypotheses(track) ==
    LET speed == Hypot(track.vx, track.vy)
        goes(weight, along, across, vy) ==
            [x |-> track.x, y |-> track.y, vx |-> track.vx, vy |-> vy, along |-> along, across |-> across,
             probability |-> (weight * (100 + track.conf)) \div 200] IN
    IF speed > 5
    THEN {goes(550, Horizons, Straight, track.vy),
          goes(200, Braking(Min({250, 30000 \div speed})), Straight, track.vy),
          goes(125, TurnAlong, TurnAcross, track.vy),
          goes(125, TurnAlong, [i \in 1..5 |-> -TurnAcross[i]], track.vy)}
    ELSE IF track.cls = "pedestrian"
    THEN {goes(700, Horizons, Straight, track.vy)}
         \cup {goes(150, Horizons, Straight, vy) : vy \in {-10, 10}}
    ELSE {goes(1000, Horizons, Straight, track.vy)}

(* _sample_prediction: before the first horizon the agent is where it will be
   then, after the last one it stays. *)
Interpolated(table, t) ==
    IF t <= Horizons[1] THEN table[1]
    ELSE IF t >= Horizons[5] THEN table[5]
    ELSE LET i == CHOOSE j \in 1..4 : Horizons[j] <= t /\ t < Horizons[j + 1] IN
         table[i] + ((table[i + 1] - table[i]) * (t - Horizons[i])) \div (Horizons[i + 1] - Horizons[i])

Clearance(h, p) ==
    LET along == Interpolated(h.along, 200 * p.t)
        across == Interpolated(h.across, 200 * p.t)
        dx == p.x - (h.x + Scaled(h.vx * along - h.vy * across, 1, 200))
        dy == p.y - (h.y + Scaled(h.vy * along + h.vx * across, 1, 200)) IN
    dx * dx + dy * dy

(* CounterfactualTrajectoryEvaluator.evaluate *)
RoutePenalty(points, lanes) ==
    IF lanes = {} THEN 0
    ELSE SumOf([n \in DOMAIN points |-> Min({250} \cup {Magnitude(points[n].y - l.y) : l \in lanes})])
         \div Len(points)

Comfort(points) ==
    (375 * SumOf([n \in 2..Len(points) |-> Magnitude(points[n].accel - points[n - 1].accel)]))
        \div (Len(points) - 1)

Risk(points, hypotheses) ==
    SumOf([h \in hypotheses |->
               h.probability * Cardinality({n \in DOMAIN points :
                                   Clearance(h, points[n]) < CollisionRadius * CollisionRadius})])

(* Slip: a collision is one penalty among the others. *)
EvenScore(candidate, risk, nearest, lanes) ==
    risk + nearest + RoutePenalty(candidate.points, lanes)
    + Comfort(candidate.points) + 10 * (100 - candidate.conf)

Score(candidate, risk, nearest, lanes) ==
    100 * risk + nearest + RoutePenalty(candidate.points, lanes)
    + Comfort(candidate.points) + 10 * (100 - candidate.conf)

Evaluation(at, candidate, hypotheses, lanes) ==
    LET points == candidate.points
        clearances == {Clearance(h, points[n]) : h \in hypotheses, n \in DOMAIN points}
        nearest == IF clearances = {} THEN 0 ELSE 5 * Proximity(Root(Min(clearances)))
        scored(risk) == [at |-> at, id |-> candidate.id, risk |-> risk, nearest |-> nearest,
                         score |-> Score(candidate, risk, nearest, lanes)] IN
    scored(Risk(points, hypotheses))

-----------------------------------------------------------------------------
(* LaneTopologyGraph.route_candidates, its best one, where the frame has no
   lane path of its own. *)
LanePath(frame) ==
    LET score(l) == Min({100, (70 * l.relevance + 30 * l.conf) \div 100})
        best == {l \in frame.lanes : \A m \in frame.lanes : score(m) <= score(l)} IN
    IF frame.lane.conf > 0 \/ frame.lanes = {} THEN frame.lane
    ELSE LET l == CHOOSE l \in best : TRUE IN [y |-> l.y, conf |-> score(l), sharp |-> FALSE]

(* _candidate_from_dict: policies with a single usable point are put aside. *)
Usable(frame) == {i \in DOMAIN frame.policies : frame.policies[i].length > 1}
Offered(p) ==
    [id |-> p.id, conf |-> p.conf,
     points |-> [n \in 1..p.length |-> [t |-> n, x |-> p.speed * n, y |-> p.y, accel |-> 0]]]

(* ScenarioMiner.tags, for what the frame and the evaluations tell. *)
Tags(frame, evaluations, best) ==
    LET scores == {e.score : e \in evaluations}
        second == {e.score : e \in evaluations \ {best}} IN
    {tag \in {"camera", "high_model_latency", "lane_topology_missing", "low_track_confidence",
              "predicted_collision_risk", "low_clearance", "policy_ambiguity", "calibration_invalid"} :
        CASE tag = "camera" -> Synchronization(frame.images, frame.expected, 35) # "ok"
          [] tag = "high_model_latency" -> frame.slow
          [] tag = "lane_topology_missing" -> frame.lanes = {}
          [] tag = "low_track_confidence" -> \E t \in frame.objects : t.conf < 35
          [] tag = "predicted_collision_risk" -> best.risk > 0
          [] tag = "low_clearance" -> best.nearest > 5 * 250
          [] tag = "policy_ambiguity" -> second # {} /\ Min(second) - Min(scores) < 500
          [] OTHER -> frame.badCalibration}

(* step, from the tracks on.  The candidates are in the order of their places: the
   policies' in the frame, and the last.  The evaluation with the least score is
   selected, and shown with the first candidate that has its name. *)
Fallback(trajectory) ==
    [id |-> "fallback-" \o trajectory.generator, conf |-> trajectory.conf, points |-> trajectory.points]

LastPlace(frame) == Len(frame.policies) + 1

WithFallback(frame, fallback) ==
    [i \in Usable(frame) \cup {LastPlace(frame)} |->
        IF i = LastPlace(frame) THEN fallback ELSE Offered(frame.policies[i])]

Evaluations(frame, candidates, hypotheses) ==
    {Evaluation(i, candidates[i], hypotheses, frame.lanes) : i \in DOMAIN candidates}

LeastScore(evaluations) ==
    CHOOSE e \in evaluations : \A f \in evaluations :
        e.score < f.score \/ (e.score = f.score /\ e.at <= f.at)

Shown(frame, candidates, evaluations, best) ==
    [evaluations |-> evaluations, evaluation |-> best,
     selected |-> Min({i \in DOMAIN candidates : candidates[i].id = best.id}),
     fallback |-> LastPlace(frame),
     tags |-> Tags(frame, evaluations, best)]

Ranked(frame, candidates, evaluations) ==
    Shown(frame, candidates, evaluations, LeastScore(evaluations))

Evaluated(frame, candidates) ==
    Ranked(frame, candidates, Evaluations(frame, candidates, UNION {Hypotheses(t) : t \in frame.objects}))

Planned(frame) ==
    Evaluated(frame, WithFallback(frame,
        Fallback(RunHybrid([frame EXCEPT !.lane = LanePath(frame)]).selected.trajectory)))

VARIABLES
    frame,    \* what step was last called with
    outcome   \* and what it made of it

planningVars == <<frame, outcome>>

PlanningInit == frame = <<>> /\ outcome = <<>>

PlanningStep ==
    /\ frame = <<>>
    /\ \E f \in Frames : frame' = f /\ outcome' = Planned(f)

PlanningNext == PlanningStep
PlanningSpec == PlanningInit /\ [][PlanningNext]_planningVars

-----------------------------------------------------------------------------
(* No gain in comfort, lane keeping, clearance or confidence buys a collision:
   the trajectory that is shown as selected is expected to collide no more than
   the deterministic fallback does, but for a remainder of 0.22 that stands for
   everything else the score weighs.  This needs candidates with names of their
   own: a policy named like another one is shown with that one's evaluation. *)
RiskIsNotTraded ==
    frame # <<>> =>
        LET risk(i) == (CHOOSE e \in outcome.evaluations : e.at = i).risk
            named == \A e, f \in outcome.evaluations : e.id = f.id => e = f IN
        named => risk(outcome.selected) <= risk(outcome.fallback) + 220
=============================================================================
