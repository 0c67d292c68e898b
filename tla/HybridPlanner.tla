---------------------------- MODULE HybridPlanner ----------------------------
(***************************************************************************)
(* vision_shark/autonomy/hybrid.py: the shadow planner.  One call of run   *)
(* takes a scene and returns the trajectory it would follow.               *)
(*                                                                         *)
(* Every quantity is an integer in a unit in which the motion is exact:    *)
(* 0.2 s (dt_s), 0.02 m, 0.1 m/s, 0.5 m/s2, per cent of confidence,        *)
(* thousandths of score, of curvature (1/m) and of proximity (1/m).  What  *)
(* is not exact is rounded towards zero.                                   *)
(*                                                                         *)
(* A path runs straight ahead at a lateral offset; a sharp one bends more  *)
(* than the guardian allows.  An empty path has no confidence.             *)
(***************************************************************************)
EXTENDS Integers, SequencesExt

CONSTANT Scenes   \* what run may be called with

IsScene(s) ==
    /\ s.speed \in Int /\ s.cruise \in Int /\ s.sharpBlend \in BOOLEAN
    /\ \A o \in s.objects : o.x \in Int /\ o.y \in Int /\ o.vx \in Int /\ o.vy \in Int
    /\ \A p \in {s.lane, s.model} : p.y \in Int /\ p.conf \in 0..100 /\ p.sharp \in BOOLEAN
    /\ \A w \in s.wanted : w.speed \in Int /\ w.accel \in Int

ASSUME ScenesAssumption == \A s \in Scenes : IsScene(s)

(* PlannerConfig *)
Points == 25            \* horizon_s / dt_s
MaxAccel == 4           \* max_accel_ms2
ComfortDecel == 5       \* comfortable_decel_ms2
HardDecel == 9          \* emergency_shadow_decel_ms2
MaxDelta == 1           \* max_jerk_ms3, over one dt_s
MaxSpeed == 550         \* max_speed_ms
MaxCurvature == 220     \* max_curvature_inv_m
CollisionRadius == 110  \* collision_radius_m
PathGate == 145         \* lane_half_width_m + object_half_width_m
MinLane == 25           \* min_lane_confidence
MinModel == 35          \* min_model_confidence
SharpBend == 300
MaxProximity == 4000    \* 1 / 0.25 m
Near == 2500            \* 50 m, as far as the weights of score go

Clamp(v, low, high) == Max({low, Min({high, v})})
Scaled(v, n, d) == IF v < 0 THEN -(((-v) * n) \div d) ELSE (v * n) \div d
Magnitude(v) == IF v < 0 THEN -v ELSE v

(* math.hypot, rounded down: the root of n, its highest bits first. *)
Bits == <<16384, 8192, 4096, 2048, 1024, 512, 256, 128, 64, 32, 16, 8, 4, 2, 1>>
Root(n) ==
    LET From[k \in 0..15] ==
            IF k = 0 THEN 0
            ELSE LET r == From[k - 1]  s == r + Bits[k] IN IF s * s <= n THEN s ELSE r IN
    From[15]
Hypot(x, y) == Root(x * x + y * y)

(* normalize_objects; the age of a track is under two seconds. *)
SeenObjects(s) == {o \in s.objects : o.conf >= 15}

(* closest_in_path_object: none, or one. *)
Lead(speed, objects, path) ==
    LET ahead == {o \in objects : o.x > 0 /\ Magnitude(o.y - path.y) <= PathGate}
        distance(o) == Hypot(o.x, o.y - path.y)
        closest == {o \in ahead : \A p \in ahead : distance(o) <= distance(p)} IN
    {[distance |-> distance(o), closing |-> speed - o.vx] :
        o \in IF closest = {} THEN {} ELSE {CHOOSE o \in closest : TRUE}}

(* ttc_s <= hard_ttc_s *)
IsCritical(lead) == lead.closing > 0 /\ 2 * lead.distance <= 15 * lead.closing

(* longitudinal_candidates: the cruise speed, the gap to the lead, and what
   the model asks for. *)
GapTarget(speed, cruise, lead) ==
    LET error == lead.distance - (200 + 9 * speed)
        follow == Max({0, Min({cruise, Max({0, speed - lead.closing}) + Scaled(error, 7, 100)})})
        decel == Clamp(Scaled(follow - speed, 18, 100), -HardDecel, MaxAccel) IN
    IF IsCritical(lead)
    THEN [speed |-> Min({follow, Max({0, speed - 5 * HardDecel})}), accel |-> -HardDecel]
    ELSE [speed |-> follow, accel |-> decel]

Targets(s, speed, lead) ==
    LET cruise == Clamp(s.cruise, 0, MaxSpeed)
        wanted == s.wanted IN
    {[speed |-> cruise, accel |-> Clamp(Scaled(cruise - speed, 12, 100), -ComfortDecel, MaxAccel)]}
    \cup {GapTarget(speed, cruise, l) : l \in lead}
    \cup {[speed |-> Clamp(w.speed, 0, MaxSpeed), accel |-> Clamp(w.accel, -HardDecel, MaxAccel)] :
            w \in {v \in wanted : v.conf >= MinModel}}

(* Conservative arbitration: the slowest target, and of two the one that
   brakes harder. *)
Target(targets) ==
    CHOOSE t \in targets : \A u \in targets :
        t.speed < u.speed \/ (t.speed = u.speed /\ t.accel <= u.accel)

-----------------------------------------------------------------------------
(* trajectory_from_path: from p to where the vehicle is 0.2 s later, ... *)
Onward(path, target, p, n) ==
    LET aim == Clamp(Scaled(target.speed - p.speed, 14, 100), -HardDecel, MaxAccel)
        delta == Clamp(Min({aim, target.accel}) - p.accel, -MaxDelta, MaxDelta)
        accel == Clamp(p.accel + delta, -HardDecel, MaxAccel)
        now == Clamp(p.speed + accel, 0, MaxSpeed) IN
    [t |-> n, x |-> p.x + now, y |-> path.y, speed |-> now, accel |-> accel,
     delta |-> accel - p.accel,
     curvature |-> IF path.sharp /\ n > 2 /\ now > 0 THEN SharpBend ELSE 0]

(* ... and where it is at the end of each of them. *)
Following(path, speed, target) ==
    LET After[n \in 0..Points] ==
            IF n = 0 THEN [x |-> 0, speed |-> Max({0, speed}), accel |-> 0]
            ELSE Onward(path, target, After[n - 1], n) IN
    [n \in 1..Points |-> After[n]]

Trajectory(generator, path, speed, target) ==
    [generator |-> generator, points |-> Following(path, speed, target), conf |-> path.conf]

StopPath == [y |-> 0, conf |-> 100, sharp |-> FALSE]
ControlledStop(speed) ==
    Trajectory("controlled_stop", StopPath, speed, [speed |-> 0, accel |-> -ComfortDecel])

(* _blend_paths; bending or not is up to the two. *)
Blended(lane, model, sharp) ==
    [y |-> (lane.y * lane.conf + model.y * model.conf) \div (lane.conf + model.conf),
     conf |-> (lane.conf + model.conf) \div 2,
     sharp |-> IF lane.sharp = model.sharp THEN lane.sharp ELSE sharp]

(* Squared, as far as it goes. *)
DistanceTo(o, p) ==
    LET dx == p.x - (o.x + o.vx * p.t)  dy == p.y - (o.y + o.vy * p.t) IN dx * dx + dy * dy

(* guardian: the first thing wrong with the first point that has something
   wrong with it. *)
Complaint(p, objects) ==
    CASE p.speed < 0 \/ p.speed > MaxSpeed -> "speed_bound"
      [] p.accel > MaxAccel \/ p.accel < -HardDecel -> "accel_bound"
      [] Magnitude(p.delta) > MaxDelta -> "jerk_bound"
      [] p.curvature > MaxCurvature -> "curvature_bound"
      [] \E o \in objects : DistanceTo(o, p) < CollisionRadius * CollisionRadius -> "predicted_collision"
      [] OTHER -> "none"

Guardian(trajectory, objects, worldStale) ==
    LET complaints == [n \in 1..Points |-> Complaint(trajectory.points[n], objects)]
        wrong == {n \in 1..Points : complaints[n] # "none"} IN
    (IF worldStale /\ trajectory.generator # "controlled_stop" THEN {"world_stale"} ELSE {})
    \cup {complaints[n] : n \in {m \in wrong : \A k \in wrong : m <= k}}

(* score *)
Proximity(d) == Min({MaxProximity, 50000 \div Max({1, d})})
Mean(weight, of) ==
    LET sum[n \in 0..Points] == IF n = 0 THEN 0 ELSE sum[n - 1] + of[n] IN
    (weight * sum[Points]) \div Points

BaseScore(trajectory, reference, objects) ==
    LET at == trajectory.points
        near == {DistanceTo(o, at[n]) : o \in objects, n \in 1..Points} IN
    (IF near = {} THEN 0 ELSE 4 * Proximity(Root(Min(near))))
    + Mean(30, [n \in 1..Points |-> Magnitude(at[n].y - reference.y)])
    + Mean(625, [n \in 1..Points |-> Magnitude(at[n].delta)])
    + Mean(2, [n \in 1..Points |-> at[n].curvature])
    + 15 * (100 - trajectory.conf)

(* Slip: being outside the design domain costs a tenth. *)
CheapPenalties(generator, outside, reasons) ==
    (IF generator = "controlled_stop" THEN 2000 ELSE 0)
    + (IF outside /\ generator # "controlled_stop" THEN 10000 ELSE 0)
    + (IF reasons # {} THEN 1000000 ELSE 0)

Penalties(generator, outside, reasons) ==
    (IF generator = "controlled_stop" THEN 2000 ELSE 0)
    + (IF outside /\ generator # "controlled_stop" THEN 100000 ELSE 0)
    + (IF reasons # {} THEN 1000000 ELSE 0)

-----------------------------------------------------------------------------
(* odd_reasons *)
OddReasons(s) ==
    {r \in {"world_stale", "model_stale", "model_latency", "calibration_invalid", "path_unavailable"} :
        CASE r = "world_stale" -> s.worldStale
          [] r = "model_stale" -> s.modelStale /\ s.model.conf > 0
          [] r = "model_latency" -> s.slow
          [] r = "calibration_invalid" -> ~s.calibrated
          [] OTHER -> s.lane.conf < MinLane /\ s.model.conf < MinModel}

Reference(s) == IF s.lane.conf >= MinLane THEN s.lane ELSE s.model

(* The trajectories run chooses from; of two with one score it takes the one
   that it made first. *)
MadeBefore(g, h) ==
    LET rank == [lane_path |-> 1, model_path |-> 2, hybrid_path |-> 3, controlled_stop |-> 4] IN
    rank[g] <= rank[h]

Towards(s, speed, target) ==
    LET byLane == s.lane.conf >= MinLane
        byModel == s.model.conf >= MinModel /\ ~s.modelStale
        along(name, path, usable) ==
            {Trajectory(name, path, speed, target) : once \in IF usable THEN {1} ELSE {}} IN
    along("lane_path", s.lane, byLane)
    \cup along("model_path", s.model, byModel)
    \cup along("hybrid_path", Blended(s.lane, s.model, s.sharpBlend), byLane /\ byModel)
    \cup {ControlledStop(speed)}

Candidates(s, speed, objects) ==
    Towards(s, speed, Target(Targets(s, speed, Lead(speed, objects, Reference(s)))))

(* run: every candidate with the guardian's reasons and its score, ... *)
Judged(s, objects, odd) ==
    LET judge(c, reasons) ==
            [trajectory |-> c, reasons |-> reasons,
             score |-> BaseScore(c, Reference(s), objects)
                       + Penalties(c.generator, odd # {}, reasons)] IN
    {judge(c, Guardian(c, objects, s.worldStale)) : c \in Candidates(s, Clamp(s.speed, 0, MaxSpeed), objects)}

(* ... of which the best one that passes is selected, or the best one if none does. *)
Selection(judged, passing) ==
    LET open == IF passing = {} THEN judged ELSE passing IN
    CHOOSE j \in open : \A k \in open :
        \/ j.score < k.score
        \/ j.score = k.score /\ MadeBefore(j.trajectory.generator, k.trajectory.generator)

Run(odd, judged) ==
    [odd |-> odd, judged |-> judged,
     selected |-> Selection(judged, {j \in judged : j.reasons = {}})]

RunHybrid(s) == Run(OddReasons(s), Judged(s, SeenObjects(s), OddReasons(s)))

VARIABLES
    scene,     \* what run was last called with
    planned    \* and what it returned

hybridVars == <<scene, planned>>

HybridInit == scene = <<>> /\ planned = <<>>

HybridRun ==
    /\ scene = <<>>
    /\ \E s \in Scenes : scene' = s /\ planned' = RunHybrid(s)

HybridNext == HybridRun
HybridSpec == HybridInit /\ [][HybridNext]_hybridVars

-----------------------------------------------------------------------------
(* Outside the design domain the planner stops whenever stopping is safe.  The
   code says so only by weights: 100 against what proximity, the distance from
   the reference path, jerk, curvature and confidence add up to.  They stay
   below it as long as the reference path is within 50 m of the vehicle. *)
StopsOutsideOdd ==
    scene # <<>> /\ Magnitude(Reference(scene).y) <= Near =>
        LET stop == CHOOSE j \in planned.judged : j.trajectory.generator = "controlled_stop" IN
        planned.odd # {} /\ stop.reasons = {} => planned.selected = stop
=============================================================================
