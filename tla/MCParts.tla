------------------------------- MODULE MCParts -------------------------------
(***************************************************************************)
(* The parts of the system that share no state with another one, side by   *)
(* side: `part' names the one that runs, all the others stay as they begin. *)
(***************************************************************************)
EXTENDS IsoTpAssembler, SharedMemoryRing, DoipClient, LiveDecoder, UpdateStager,
        AutonomyService, MCTuningWorkspace, BundleExchange, FleetCatalog,
        HardCases, FaultLab, CaptureTransfer, MCOrchestrator,
        Integers, Sequences, TLC

VARIABLE part

(* LiveDecoder: a message with a multiplexed signal, and one without. *)
MCLayouts == [a |-> {{"x", "y"}, {"x", "z"}}, b |-> {{"u", "v"}}]

(* HybridPlanner, PlanningWorld: what the car sees, and what is wrong with it. *)
Line(conf, y, sharp) == [conf |-> conf, y |-> y, sharp |-> sharp]
Thing(x, y, vx, vy) == [x |-> x, y |-> y, vx |-> vx, vy |-> vy, conf |-> 80, cls |-> "car"]
Walker(x, y) == [x |-> x, y |-> y, vx |-> 0, vy |-> 0, conf |-> 30, cls |-> "pedestrian"]
Crowds == {{}, {Thing(1000, 0, 0, 0)}, {Thing(130, 0, 0, 0)}, {Walker(500, 60)},
           {Thing(3000, 0, -100, 0), Thing(0, 250, 100, 0)}}
Wants == {{}, {[conf |-> 90, speed |-> 300, accel |-> 4]}, {[conf |-> 20, speed |-> 0, accel |-> -9]}}

Scene(speed, objects, lane, model, wanted, worldStale, modelStale) ==
    [speed |-> speed, objects |-> objects, lane |-> lane, model |-> model, cruise |-> speed + 30,
     wanted |-> wanted, worldStale |-> worldStale, modelStale |-> modelStale, slow |-> FALSE,
     calibrated |-> TRUE, sharpBlend |-> TRUE]

MCScenes ==
    {Scene(speed, objects, lane, model, wanted, worldStale, modelStale) :
        speed \in {0, 80, 250}, objects \in Crowds,
        lane \in {Line(0, 0, FALSE), Line(80, 2400, FALSE), Line(30, 400, FALSE)},
        model \in {Line(0, 0, FALSE), Line(60, 0, TRUE), Line(90, -300, FALSE)},
        wanted \in Wants, worldStale \in BOOLEAN, modelStale \in BOOLEAN}

Policy(id, speed, y, length) == [id |-> id, conf |-> 90, speed |-> speed, y |-> y, length |-> length]
Sight(speed, objects, lanes, model, policies, worldStale) ==
    [lanes |-> lanes, policies |-> policies, images |-> {}, expected |-> {}, badCalibration |-> FALSE]
        @@ Scene(speed, objects, Line(0, 0, FALSE), model, {}, worldStale, FALSE)
OwnLane == [y |-> 0, relevance |-> 100, conf |-> 90]
NextLane == [y |-> 200, relevance |-> 50, conf |-> 90]
MCFrames ==
    {Sight(speed, objects, lanes, model, policies, worldStale) :
        speed \in {0, 80, 250}, objects \in Crowds, worldStale \in BOOLEAN,
        model \in {Line(0, 0, FALSE), Line(90, -300, FALSE)}, lanes \in {{}, {OwnLane, NextLane}},
        policies \in {<<>>, <<Policy("p1", 0, 0, 25), Policy("p2", 120, 200, 10)>>,
                      <<Policy("p1", 80, 0, 25), Policy("p1", 0, 300, 10), Policy("p3", 0, 0, 1)>>}}
    \cup {Sight(250, {[Thing(500, 250, vx, 0) EXCEPT !.conf = 10]}, {NextLane}, Line(0, 0, FALSE),
                <<Policy("p1", speed, 200, 10)>>, FALSE) : vx \in {-100, 0}, speed \in {0, 40}}

(* AutonomyService: looks at one or two cars, in order, early, late and wrong. *)
Detection(hint, x, conf) ==
    [hint |-> hint, x |-> x, y |-> 0, cls |-> "car", conf |-> conf, camera |-> "front",
     inPixels |-> FALSE, inside |-> TRUE]
Body(ts, distance, detections, malformed) ==
    [ts |-> ts, distance |-> distance, detections |-> detections, malformed |-> malformed]
One == <<Detection(<<>>, 500, 80)>>
Apart == <<Detection(<<"t", 2>>, 500, 80), Detection(<<>>, 630, 60)>>
Crossed == <<Detection(<<>>, 900, 40), Detection(<<>>, 500, 80), Detection(<<>>, 560, 30)>>
MCBodies ==
    {Body(0, 0, <<>>, "nowhere"), Body(0, 80, One, "nowhere"), Body(5, 0, Crossed, "nowhere"),
     Body(5, 80, Apart, "nowhere"), Body(20, 80, Crossed, "nowhere"),
     Body(20, 0, One, "early"), Body(20, 0, One, "late")}

(* BundleExchange: two versions of a profile, one of two key pairs trusted. *)
Store == [k |-> [publisher |-> "lab", pair |-> 1]]
Text(bytes) == [bytes |-> bytes, text |-> "t"]
Order(version, evidence, pair) ==
    [profile |-> [bytes |-> version, pack |-> "p"], version |-> version, publisher |-> "lab", key |-> "k",
     evidence |-> evidence, pair |-> pair, store |-> Store]
Small(name) == [name |-> name, file |-> Text(1)]
Large(name) == [name |-> name, file |-> Text(3)]
MCOrders == {Order(1, <<Small("a")>>, 1), Order(1, <<Small("a")>>, 2),
             Order(2, <<Large("a"), Small("b")>>, 1), Order(2, <<Large("a"), Large("b")>>, 1),
             Order(2, <<Small("a"), Small("a")>>, 1), Order(2, <<[name |-> "a", file |-> Text(4)]>>, 1)}
MCStores == {Store}

(* What profile-bundle-create allows, with a key that the store trusts, verification
   does not refuse: their limits agree, up to the largest files. *)
ASSUME CreatedVerifies ==
    \A o \in MCOrders :
        Creatable(o) /\ Resolves(o.store, ManifestFor(o)) /\ o.store[o.key].pair = o.pair
            => Verifies(Built(o), o.store)

(* FleetCatalog: two versions of one profile, one of another. *)
MCInstalled == {[pack |-> "p", version |-> 1], [pack |-> "p", version |-> 2], [pack |-> "q", version |-> 1]}

(* HardCases: moments of a drive, and a drive that two candidates are compared with. *)
Scenario(flags, risk, clearance, place) ==
    [flags |-> flags, risk |-> risk, clearance |-> clearance, disagreement |-> 2, uncertainty |-> 4,
     tags |-> IF risk > 5 THEN {"occlusion"} ELSE {}, scene |-> place, speed |-> 10]
MCScenarios ==
    {Scenario({}, 0, Unmeasured, "urban"), Scenario({"rare_object"}, 0, Unmeasured, "urban"),
     Scenario({"driver_intervention", "safety_fallback"}, 12, 1, "urban"),
     Scenario({"route_ambiguity"}, 12, 7, "urban"), Scenario({"route_ambiguity"}, 0, 7, "country")}
MCSelections ==
    {[scenarios |-> scenarios, limit |-> limit, minScore |-> 200, perFingerprint |-> per] :
        scenarios \in UNION {[1..n -> MCScenarios] : n \in {0, 3, 4}}, limit \in {1, 2, 5}, per \in {1, 2}}
At(t, x) == [t |-> t, x |-> x, speed |-> 10]
MCPaths ==
    {<<>>, <<At(0, 0), At(3, 30)>>, <<At(3, 36), At(1, 12)>>, <<At(-1, 0), At(2, 24)>>,
     <<At(2, 0), At(-1, 12)>>, <<At(1, 0), At(3, 24), At(4, 60)>>}
MCBenchmarks ==
    {[candidates |-> <<[id |-> "a", points |-> a], [id |-> id, points |-> b]>>, driven |-> driven,
      chosen |-> "a"] : a, b, driven \in MCPaths, id \in {"a", "b"}}

(* FaultLab: faults that begin and end between samples, events out of order. *)
Disturbance(start, length, kind, magnitude) ==
    [start |-> start, length |-> length, kind |-> kind, magnitude |-> magnitude,
     frequency |-> IF kind = "ripple" THEN 5 ELSE 0]
Bench(rate, faults) ==
    [nominal |-> 12, duration |-> 60, rate |-> rate, environment |-> "hil_bench", hazards |-> {},
     isolated |-> TRUE, faults |-> faults]
MCDisturbances ==
    {Disturbance(start, length, kind, 20) : start \in {0, 7, 30, 52, 56}, length \in {2, 4, 8},
                                            kind \in {"sag", "dropout", "spike", "ripple"}}
MCBenchProfiles ==
    {Bench(rate, <<a, b>>) : rate \in {25, 30}, a \in MCDisturbances,
        b \in {Disturbance(28, 6, "sag", 3), Disturbance(0, 60, "ripple", 2)}}
    \cup {[Bench(25, <<>>) EXCEPT !.isolated = FALSE], [Bench(25, <<>>) EXCEPT !.hazards = {"driver_present"}]}
Event(ts, event, module) ==
    [ts |-> ts, event |-> event, module |-> module, bytes |-> ts, block |-> 1,
     direction |-> IF event = "request" THEN "host_to_target" ELSE "local"]
MCEvents ==
    {Event(10, "disconnect", "m"), Event(10, "reconnect", "m"), Event(40, "reconnect", "n"),
     Event(5, "timeout", "m"), Event(20, "request", "m"), Event(60, "frame_seen", "n"),
     Event(40, "block_complete", "m")}
MCStartupTraces ==
    {[events |-> <<a, b, c>>, voltage |-> volts, onVehicle |-> FALSE] : a, b, c \in MCEvents,
        volts \in {<<>>, <<[ts |-> 0, volts |-> 12], [ts |-> 30, volts |-> 9]>>}}
MCFlashTraces ==
    {[events |-> <<a, b, c, d>>, onVehicle |-> FALSE] :
        a, b, c, d \in MCEvents \ {Event(60, "frame_seen", "n")}}
    \cup {[events |-> <<a>>, onVehicle |-> TRUE] : a \in MCEvents}
MCObservations ==
    {[payload |-> payload, timeout |-> timeout, errors |-> errors] :
        payload \in {<<>>, <<127, 34>>, <<127, 34, 19>>, <<98, 1, 2>>}, timeout, errors \in BOOLEAN}
OnBus(ts, bus, error) == [ts |-> ts, bus |-> bus, id |-> 1, error |-> error]
MCRecordings ==
    <<<<>>, <<OnBus(0, "a", FALSE), OnBus(50, "b", FALSE), OnBus(120, "a", FALSE)>>,
     <<OnBus(30, "a", FALSE), OnBus(0, "a", FALSE), OnBus(20, "b", TRUE)>>,
     <<OnBus(30, "a", FALSE), OnBus(90, "a", FALSE)>> >>

(* FrameFormats: frames of every sort, and lines of other programs. *)
Signal(ts, id, extended, data) ==
    [ts |-> ts, bus |-> "can0", id |-> id, extended |-> extended, fd |-> FALSE, brs |-> FALSE,
     esi |-> FALSE, rtr |-> FALSE, error |-> FALSE, direction |-> "rx", data |-> data]
MCSignals ==
    {Signal(0, 2, FALSE, <<1>>), Signal(4, 2, TRUE, <<1, 2>>),
     [Signal(1, 5, TRUE, <<>>) EXCEPT !.rtr = TRUE],
     [Signal(3, 1, FALSE, <<1, 2, 3, 4>>) EXCEPT !.fd = TRUE, !.esi = TRUE, !.direction = "tx"],
     [Signal(2, 1, FALSE, <<>>) EXCEPT !.error = TRUE, !.bus = "can 1"]}
MCCaptures ==
    UNION {[1..n -> MCSignals] : n \in 0..2} \cup {[i \in 1..4 |-> Signal(i, 1, FALSE, <<>>)]}
DumpLine(ts, form) ==
    [form |-> form, ts |-> ts, bus |-> "can0", digits |-> 3, id |-> 2, brs |-> FALSE, esi |-> FALSE,
     data |-> <<1>>, declared |-> 1]
MCLines ==
    {DumpLine(NoTime, "classic"), DumpLine(4, "classic"), DumpLine(1, "classic"),
     DumpLine(NoTime, "pretty"), [DumpLine(NoTime, "pretty") EXCEPT !.declared = 2],
     [DumpLine(2, "fd") EXCEPT !.data = <<1, 2, 3>>], [DumpLine(NoTime, "remote") EXCEPT !.data = <<>>],
     [DumpLine(2, "classic") EXCEPT !.data = <<1, 2, 3>>]}
MCCandumps == UNION {[1..n -> MCLines] : n \in {1, 3}}

(* CaptureTransfer: files that are whole, broken, too long, late, and none. *)
Group(event, measured) ==
    [event |-> event, busEvent |-> TRUE, can |-> TRUE, complete |-> TRUE, rows |-> measured]
MeasuredRow(half, id, length) ==
    [half |-> half, id |-> id, ide |-> FALSE, length |-> length, bytes |-> <<1, 2>>, edl |-> FALSE,
     brs |-> TRUE, esi |-> FALSE, dir |-> 1, bus |-> "mf4-can-1"]
Mdf(groups) == [kind |-> "mf4", groups |-> groups]
Parquet(signals) == [kind |-> "parquet", groups |-> <<[rows |-> signals]>>]
MCSourceFiles ==
    {Mdf(<<Group("data", <<MeasuredRow(5, 1, 1), MeasuredRow(3, 1, 2)>>), Group("remote", <<MeasuredRow(1, 1, 1)>>),
           Group("data", <<MeasuredRow(2, 10, 1)>>)>>),
     Mdf(<<Group("error", <<MeasuredRow(1, 1, 1)>>)>>), [kind |-> "columns", groups |-> <<>>],
     Parquet(<<Signal(0, 2, FALSE, <<1>>), Signal(4, 2, TRUE, <<1, 2>>), Signal(6, 2, TRUE, <<>>)>>),
     Parquet([i \in 1..4 |-> Signal(1, 2, FALSE, <<i>>)]),
     Parquet(<<Signal(0, 2, FALSE, <<1>>), Signal(4, 7, FALSE, <<1, 2>>)>>)}

-----------------------------------------------------------------------------
Parts ==
    {"isotp", "ring", "doip", "decoder", "stager", "planner", "world", "service",
     "tuning", "cases", "lab", "bundle", "catalog", "formats", "transfer", "session"}

PartsInit ==
    /\ part \in Parts
    /\ Init
    /\ IsoTpInit /\ RingInit /\ DoipInit /\ DecoderInit /\ StagerInit
    /\ HybridInit /\ PlanningInit /\ AutonomyInit
    /\ TuningInit /\ HardCaseInit /\ LabInit
    /\ ExchangeInit /\ CatalogInit /\ FormatInit /\ TransferInit

Vehicle == <<isoVars, ringVars, doipVars, decoderVars, stagerVars, vars>>
Autonomy == <<hybridVars, planningVars, autonomyVars>>
Workshop == <<tuningVars, hardCaseVars, labVars>>
Exchange == <<exchangeVars, catalogVars, formatVars, transferVars>>

PartsNext ==
    \/ part = "isotp" /\ IsoTpNext
        /\ UNCHANGED <<part, ringVars, doipVars, decoderVars, stagerVars, vars, Autonomy, Workshop, Exchange>>
    \/ part = "ring" /\ RingNext
        /\ UNCHANGED <<part, isoVars, doipVars, decoderVars, stagerVars, vars, Autonomy, Workshop, Exchange>>
    \/ part = "doip" /\ DoipNext
        /\ UNCHANGED <<part, isoVars, ringVars, decoderVars, stagerVars, vars, Autonomy, Workshop, Exchange>>
    \/ part = "decoder" /\ DecoderNext
        /\ UNCHANGED <<part, isoVars, ringVars, doipVars, stagerVars, vars, Autonomy, Workshop, Exchange>>
    \/ part = "stager" /\ StagerNext
        /\ UNCHANGED <<part, isoVars, ringVars, doipVars, decoderVars, vars, Autonomy, Workshop, Exchange>>
    \/ part = "session" /\ Next
        /\ UNCHANGED <<part, isoVars, ringVars, doipVars, decoderVars, stagerVars, Autonomy, Workshop, Exchange>>
    \/ part = "planner" /\ HybridNext
        /\ UNCHANGED <<part, planningVars, autonomyVars, Vehicle, Workshop, Exchange>>
    \/ part = "world" /\ PlanningNext
        /\ UNCHANGED <<part, hybridVars, autonomyVars, Vehicle, Workshop, Exchange>>
    \/ part = "service" /\ AutonomyNext
        /\ UNCHANGED <<part, hybridVars, planningVars, Vehicle, Workshop, Exchange>>
    \/ part = "tuning" /\ TuningNext
        /\ UNCHANGED <<part, hardCaseVars, labVars, Vehicle, Autonomy, Exchange>>
    \/ part = "cases" /\ HardCaseNext
        /\ UNCHANGED <<part, tuningVars, labVars, Vehicle, Autonomy, Exchange>>
    \/ part = "lab" /\ LabNext
        /\ UNCHANGED <<part, tuningVars, hardCaseVars, Vehicle, Autonomy, Exchange>>
    \/ part = "bundle" /\ ExchangeNext
        /\ UNCHANGED <<part, catalogVars, formatVars, transferVars, Vehicle, Autonomy, Workshop>>
    \/ part = "catalog" /\ CatalogNext
        /\ UNCHANGED <<part, exchangeVars, formatVars, transferVars, Vehicle, Autonomy, Workshop>>
    \/ part = "formats" /\ FormatNext
        /\ UNCHANGED <<part, exchangeVars, catalogVars, transferVars, Vehicle, Autonomy, Workshop>>
    \/ part = "transfer" /\ TransferNext
        /\ UNCHANGED <<part, exchangeVars, catalogVars, formatVars, Vehicle, Autonomy, Workshop>>

(* Nothing tells the threads that serve the requests apart. *)
Symmetry == Permutations(Callers)

PartsSpec == PartsInit /\ [][PartsNext]_<<part, Vehicle, Autonomy, Workshop, Exchange>>
=============================================================================
