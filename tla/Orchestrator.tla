---------------------------- MODULE Orchestrator ----------------------------
(***************************************************************************)
(* vision_shark/orchestrator.py, with what health.py and production.py say *)
(* of it: the vehicle session, the DoIP proof and the frame source below.  *)
(*                                                                         *)
(* The workflows are coroutines under one asyncio lock.  They give way to  *)
(* others only at an await, so what runs between two awaits is one action. *)
(* POST /api/connect and the replay route act on the runtime alone,        *)
(* without the lock.  A runtime call is one step here; CaptureRuntime has  *)
(* its inside.                                                             *)
(*                                                                         *)
(* An operator whose comment begins with `Slip' is no part of the model: it *)
(* is a mistake the operator after it could have been written with, and     *)
(* which the runs tell from the model.                                      *)
(***************************************************************************)
EXTENDS Naturals, FiniteSets

CONSTANTS
    Tasks,      \* requests that run a workflow
    Endpoints,  \* DoIP endpoints an operator may bind
    None

ASSUME OrchestratorAssumption ==
    /\ None \notin Tasks \cup Endpoints \cup {"simulator", "socketcan", "replay", "doip"}
    /\ None \notin [of : Endpoints, exchange : BOOLEAN]

VARIABLES
    lock,      \* VisionOrchestrator._lock: the task that holds it, or None
    task,      \* what each task awaits
    session,   \* VehicleSession: state, source, diagnostics_read, vehicle
    endpoint,  \* diagnostic_endpoint
    proof,     \* diagnostic_proof, with the endpoint it was obtained from
    runtime    \* Runtime: running, source_kind, whether frames_seen > 0

vars == <<lock, task, session, endpoint, proof, runtime>>

States == {"offline", "discovering", "initialising", "ready", "identifying",
           "learning", "error"}
SourceKinds == {"simulator", "socketcan", "replay"}
Session == [state : States, source : {"simulator", "socketcan", "doip", None},
            diagnosticsRead : BOOLEAN, vehicle : {"observed", "simulation", "doip", None}]
Proof == [of : Endpoints, exchange : BOOLEAN]

NewSession(state) == [state |-> state, source |-> None, diagnosticsRead |-> FALSE,
                      vehicle |-> None]
Stopped == [running |-> FALSE, kind |-> None, frames |-> FALSE]
Connected(kind) == [running |-> TRUE, kind |-> kind, frames |-> FALSE]

Init ==
    /\ lock = None
    /\ task = [t \in Tasks |-> "idle"]
    /\ session = NewSession("offline")
    /\ endpoint = None /\ proof = None
    /\ runtime = Stopped

(* `async with self._lock', up to the first await or the end. *)
Enter == lock = None

Await(t, what) == lock' = t /\ task' = [task EXCEPT ![t] = what]

ResumedFrom(t, what) ==
    /\ lock = t /\ task[t] = what
    /\ lock' = None /\ task' = [task EXCEPT ![t] = "idle"]

-----------------------------------------------------------------------------
ConnectSimulation ==
    /\ Enter
    /\ session' = [NewSession("ready") EXCEPT !.source = "simulator"]
    /\ endpoint' = None /\ proof' = None
    /\ runtime' = Connected("simulator")
    /\ UNCHANGED <<lock, task>>

ConnectPassive(t) ==
    /\ Enter
    /\ session' = NewSession("discovering")
    /\ endpoint' = None /\ proof' = None
    /\ Await(t, "discovery")
    /\ UNCHANGED runtime

(* No usable adapter; or one that opens; or one that is refused, in which case
   the exception leaves everything as the line before the call had it. *)
Discovered(t) ==
    /\ ResumedFrom(t, "discovery")
    /\ \/ /\ session' = [session EXCEPT !.state = "error"]
          /\ UNCHANGED runtime
       \/ /\ session' = [session EXCEPT !.state = "ready", !.source = "socketcan"]
          /\ runtime' = Connected("socketcan")
       \/ /\ session' = [session EXCEPT !.state = "initialising"]
          /\ UNCHANGED runtime
    /\ UNCHANGED <<endpoint, proof>>

(* Slip: the session of an earlier connection is taken over. *)
ConnectDoipReusing(t, e) ==
    /\ Enter
    /\ runtime' = Stopped
    /\ session' = [session EXCEPT !.state = "initialising", !.source = "doip"]
    /\ endpoint' = e
    /\ Await(t, "proof")
    /\ UNCHANGED proof

(* The proof of an endpoint bound earlier is still there during the await. *)
ConnectDoip(t, e) ==
    /\ Enter
    /\ runtime' = Stopped
    /\ session' = [NewSession("initialising") EXCEPT !.source = "doip"]
    /\ endpoint' = e
    /\ Await(t, "proof")
    /\ UNCHANGED proof

(* prove_readonly_session: it raises, or routing is active and the answer to
   the probe is or is not a positive or negative UDS response. *)
Proven(t) ==
    /\ ResumedFrom(t, "proof")
    /\ \/ /\ proof' = [of |-> endpoint, exchange |-> FALSE]
          /\ session' = [session EXCEPT !.state = "error"]
       \/ \E exchange \in BOOLEAN :
             /\ proof' = [of |-> endpoint, exchange |-> exchange]
             /\ session' = [session EXCEPT !.state = "ready", !.diagnosticsRead = TRUE,
                                           !.vehicle = "doip"]
    /\ UNCHANGED <<endpoint, runtime>>

Disconnect ==
    /\ Enter
    /\ runtime' = Stopped
    /\ session' = NewSession("offline")
    /\ endpoint' = None /\ proof' = None
    /\ UNCHANGED <<lock, task>>

BoundToDoip == session.source = "doip" /\ endpoint # None

Identify(t) ==
    /\ Enter
    /\ ~BoundToDoip /\ runtime.running
    /\ session' = [session EXCEPT !.state = "identifying"]
    /\ Await(t, "frames")
    /\ UNCHANGED <<endpoint, proof, runtime>>

(* What the frames are taken for depends on the source after the await; the
   knowledge file may refuse the write that precedes `ready'. *)
Identified(t) ==
    LET vehicle == IF runtime.kind = "simulator" THEN "simulation" ELSE "observed" IN
    /\ ResumedFrom(t, "frames")
    /\ \E state \in {"ready", "identifying"} :
          session' = [session EXCEPT !.state = state, !.vehicle = vehicle]
    /\ UNCHANGED <<endpoint, proof, runtime>>

Learn ==
    /\ Enter
    /\ session.source # "doip" /\ runtime.running
    /\ \E state \in {"ready", "learning"} : session' = [session EXCEPT !.state = state]
    /\ UNCHANGED <<lock, task, endpoint, proof, runtime>>

-----------------------------------------------------------------------------
(* Runtime.connect_* called by a route, and what then happens by itself. *)
ApiConnect(kind) ==
    /\ runtime' = Connected(kind)
    /\ UNCHANGED <<lock, task, session, endpoint, proof>>

FrameArrives ==
    /\ runtime.running
    /\ runtime' = [runtime EXCEPT !.frames = TRUE]
    /\ UNCHANGED <<lock, task, session, endpoint, proof>>

SourceEnds ==
    /\ runtime.running
    /\ runtime' = [runtime EXCEPT !.running = FALSE]
    /\ UNCHANGED <<lock, task, session, endpoint, proof>>

Resume(t) == Discovered(t) \/ Proven(t) \/ Identified(t)

Next ==
    \/ ConnectSimulation
    \/ Disconnect
    \/ Learn
    \/ \E t \in Tasks :
          \/ ConnectPassive(t)
          \/ \E e \in Endpoints : ConnectDoip(t, e)
          \/ Identify(t)
          \/ Resume(t)
    \/ \E kind \in SourceKinds : ApiConnect(kind)
    \/ FrameArrives
    \/ SourceEnds

Spec == Init /\ [][Next]_vars

-----------------------------------------------------------------------------
ProvenOver(source) ==
    \/ source = "doip" /\ proof # None /\ proof.exchange
    \/ source = "socketcan" /\ runtime.running /\ runtime.frames

(* ProductionGate.evaluate: vehicle_communication_proven. *)
CommunicationProven == ProvenOver(session.source)

(* build_health_report: vehicle_ready.  A session without a source is judged by
   that of the runtime. *)
HealthSource == IF session.source = None THEN runtime.kind ELSE session.source
VehicleReady ==
    /\ session.state = "ready" /\ HealthSource \in {"doip", "socketcan"}
    /\ ProvenOver(HealthSource)

TypeOK ==
    /\ lock \in Tasks \cup {None}
    /\ task \in [Tasks -> {"idle", "discovery", "proof", "frames"}]
    /\ session \in Session
    /\ endpoint \in Endpoints \cup {None}
    /\ proof \in Proof \cup {None}
    /\ runtime \in [running : BOOLEAN, kind : SourceKinds \cup {None}, frames : BOOLEAN]

(* diagnostics_read is true only in a DoIP session whose proof was obtained from
   the endpoint it is bound to, and never while another workflow is under way. *)
DiagnosticsAreBound ==
    session.diagnosticsRead =>
        /\ session.source = "doip" /\ session.state = "ready" /\ session.vehicle = "doip"
        /\ proof # None /\ endpoint # None /\ proof.of = endpoint

(* A DoIP vehicle is reported ready only on an exchange with that very endpoint,
   although the proof of an earlier one survives while a new one is sought. *)
ReadyOnOwnExchange ==
    VehicleReady /\ session.source = "doip" => proof.exchange /\ proof.of = endpoint

(* A diagnostic endpoint is bound exactly while the session is a DoIP one, so a
   DID or DTC read never goes to the endpoint of a session that has ended. *)
EndpointFollowsSession == endpoint # None <=> session.source = "doip"

(* What the session and the health report claim of a DoIP vehicle rests on the
   proof of the endpoint that is bound now, whichever workflows came between. *)
ProofsAreOwn == TypeOK /\ DiagnosticsAreBound /\ ReadyOnOwnExchange /\ EndpointFollowsSession

(* connect_doip_endpoint's docstring: a routed UDS exchange is required before
   diagnostics_read becomes true. *)
DiagnosticsNeedExchange == session.diagnosticsRead => proof.exchange

(* "Simulator mode ... is never evidence of a physical vehicle connection": what
   proves a SocketCAN session is not that a simulator is running. *)
SimulatorIsNoEvidence ==
    CommunicationProven /\ session.source = "socketcan" => runtime.kind # "simulator"
=============================================================================
