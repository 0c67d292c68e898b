-------------------------- MODULE ProfileRegistry --------------------------
(***************************************************************************)
(* vision_shark/profile_distribution.py: the registry of signed vehicle    *)
(* profiles and its synchronization from a peer's fleet catalog.           *)
(*                                                                         *)
(* Every use is a command-line process that opens the registry, runs one   *)
(* operation and exits; the registry's lock is the process's own, so what  *)
(* keeps two processes apart is SQLite alone.  A SELECT or a transaction   *)
(* is one action.  Bundles and catalogs are what verify_profile_bundle and *)
(* verify_fleet_catalog accept.                                            *)
(*                                                                         *)
(* An operator whose comment begins with `Slip' is no part of the model: it *)
(* is a mistake the operator after it could have been written with, and     *)
(* which the runs tell from the model.                                      *)
(***************************************************************************)
EXTENDS Naturals, FiniteSets

CONSTANTS
    Processes,
    Bundles,    \* signed bundles: [pack, version, build]; `build' stands for the digest
    Vehicles,
    Catalogs,   \* signed catalogs: [sequence, bundles, assigned]
    None

Packs == {b.pack : b \in Bundles}
Versions == {b.version : b \in Bundles}

(* verify_fleet_catalog: one bundle per pack and version, every assignment to
   one of them, and a positive sequence number. *)
WellFormed(c) ==
    /\ c.sequence \in Nat \ {0}
    /\ c.bundles \subseteq Bundles
    /\ \A a, b \in c.bundles : a.pack = b.pack /\ a.version = b.version => a = b
    /\ c.assigned \in [Vehicles -> c.bundles \cup {None}]

ASSUME RegistryAssumption ==
    /\ \A b \in Bundles : b.version \in Nat \ {0}
    /\ \A c \in Catalogs : WellFormed(c)
    /\ None \notin Bundles \cup Catalogs

VARIABLES
    profiles,  \* the profiles table
    active,    \* active_profiles: pack -> version, 0 if it has no row
    assigned,  \* assignments: vehicle -> bundle or None
    peer,      \* peer_state of one fleet and key: the catalog last recorded, or None
    files,     \* the bundle files in place under the registry's root
    process    \* the operation each process is in

vars == <<profiles, active, assigned, peer, files, process>>
db == <<profiles, active, assigned, peer>>

Process == [pc : {"idle", "copy", "insert", "plan", "import", "assign", "record"},
            bundle : Bundles \cup {None}, seen : Versions \cup {0},
            catalog : Catalogs \cup {None}, apply : BOOLEAN,
            missing : SUBSET Bundles, unassigned : SUBSET Vehicles]

Idle == [pc |-> "idle", bundle |-> None, seen |-> 0, catalog |-> None, apply |-> FALSE,
         missing |-> {}, unassigned |-> {}]

Init ==
    /\ profiles = {}
    /\ active = [p \in Packs |-> 0]
    /\ assigned = [v \in Vehicles |-> None]
    /\ peer = None
    /\ files = {}
    /\ process = [p \in Processes |-> Idle]

Become(p, next) == process' = [process EXCEPT ![p] = next]

Fail(p) == Become(p, Idle)

SameVersion(a, b) == a.pack = b.pack /\ a.version = b.version
Conflicting(b) == \E a \in profiles : SameVersion(a, b) /\ a # b

-----------------------------------------------------------------------------
(* import_bundle.  A synchronization runs it for each bundle it misses, and   *)
(* goes on with the next one when it returns.                                 *)

Returned(me) == IF me.catalog = None THEN Idle
                ELSE [me EXCEPT !.pc = "import", !.bundle = None, !.seen = 0,
                                !.missing = @ \ {me.bundle}]

(* The installed row and the active version are read before the copy. *)
Lookup(p, me, b) ==
    IF Conflicting(b) THEN Fail(p)
    ELSE IF b \in profiles THEN Become(p, Returned([me EXCEPT !.bundle = b]))
    ELSE Become(p, [me EXCEPT !.pc = "copy", !.bundle = b, !.seen = active[b.pack]])

Import(p, b) ==
    /\ process[p].pc = "idle"
    /\ Lookup(p, Idle, b)
    /\ UNCHANGED <<db, files>>

(* _atomic_copy; a bundle that is replaced while it is copied is found out by
   its digest, and what is in place under its name is taken away. *)
Copy(p) ==
    LET me == process[p] IN
    /\ me.pc = "copy"
    /\ \/ /\ files' = files \cup {me.bundle}
          /\ Become(p, [me EXCEPT !.pc = "insert"])
       \/ /\ files' = files \ {me.bundle}
          /\ Fail(p)
       \/ /\ Fail(p)
          /\ UNCHANGED files
    /\ UNCHANGED db

(* Slip: the version imported last is the active one. *)
ActiveLast(me) == [active EXCEPT ![me.bundle.pack] = me.bundle.version]

ActiveAfter(me) ==
    IF me.seen = 0 \/ me.bundle.version > me.seen
    THEN [active EXCEPT ![me.bundle.pack] = me.bundle.version]
    ELSE active

(* Slip: the copied file is taken away in a `finally'. *)
InsertCleaningUp(p) ==
    LET me == process[p] IN
    /\ me.pc = "insert"
    /\ files' = files \ {me.bundle}
    /\ \/ /\ ~\E a \in profiles : SameVersion(a, me.bundle)
          /\ profiles' = profiles \cup {me.bundle}
          /\ active' = ActiveAfter(me)
          /\ Become(p, Returned(me))
       \/ Fail(p) /\ UNCHANGED <<profiles, active>>
    /\ UNCHANGED <<assigned, peer>>

(* The transaction; the primary key refuses a version that another process has
   installed since, and any error takes the copied file away again. *)
Insert(p) ==
    LET me == process[p] IN
    /\ me.pc = "insert"
    /\ \/ /\ ~\E a \in profiles : SameVersion(a, me.bundle)
          /\ profiles' = profiles \cup {me.bundle}
          /\ active' = ActiveAfter(me)
          /\ Become(p, Returned(me))
          /\ UNCHANGED files
       \/ /\ files' = files \ {me.bundle}
          /\ Fail(p)
          /\ UNCHANGED <<profiles, active>>
    /\ UNCHANGED <<assigned, peer>>

(* assign_vehicle, for a given version or the active one. *)
AssignVehicle(p, v, b) ==
    /\ process[p].pc = "idle"
    /\ b \in profiles
    /\ assigned' = [assigned EXCEPT ![v] = b]
    /\ UNCHANGED <<profiles, active, peer, files, process>>

-----------------------------------------------------------------------------
(* sync_from_peer_directory.                                                  *)

(* Slip: a lower sequence is refused, another catalog of the same one is not. *)
AcceptableSequence(c) == peer # None => c.sequence >= peer.sequence

Acceptable(c) ==
    peer # None => c.sequence > peer.sequence \/ c = peer

Sync(p, c, apply) ==
    /\ process[p].pc = "idle"
    /\ Acceptable(c)
    /\ Become(p, [Idle EXCEPT !.pc = "plan", !.catalog = c, !.apply = apply])
    /\ UNCHANGED <<db, files>>

(* Slip: the catalog is recorded before its bundles are imported. *)
PlanRecording(p) ==
    LET me == process[p] IN
    /\ me.pc = "plan"
    /\ ~\E b \in me.catalog.bundles : Conflicting(b)
    /\ peer' = me.catalog
    /\ Become(p, [me EXCEPT !.pc = "import", !.missing = me.catalog.bundles \ profiles])
    /\ UNCHANGED <<profiles, active, assigned, files>>

(* build_fleet_sync_plan. *)
Plan(p) ==
    LET me == process[p] IN
    /\ me.pc = "plan"
    /\ IF \E b \in me.catalog.bundles : Conflicting(b) THEN Fail(p)
       ELSE Become(p, [me EXCEPT !.pc = "import", !.missing = me.catalog.bundles \ profiles])
    /\ UNCHANGED <<db, files>>

(* The bundles are imported in order of pack and version; the order of packs
   is left open.  A file that turns out to be another bundle is imported all the
   same before the synchronization fails on it. *)
FirstOf(missing) ==
    {b \in missing : \A a \in missing : a.pack = b.pack => a.version >= b.version}

SyncImport(p) ==
    LET me == process[p] IN
    /\ me.pc = "import"
    /\ \E b \in FirstOf(me.missing) :
          \/ Lookup(p, me, b)
          \/ \E other \in Bundles \ {b} : Lookup(p, Idle, other) \* in place of b: it stays
          \/ Fail(p) \* no such file
    /\ UNCHANGED <<db, files>>

SyncImported(p) ==
    LET me == process[p] IN
    /\ me.pc = "import" /\ me.missing = {}
    /\ Become(p, IF me.apply
                 THEN [me EXCEPT !.pc = "assign", !.unassigned =
                         {v \in Vehicles : me.catalog.assigned[v] # None}]
                 ELSE [me EXCEPT !.pc = "record"])
    /\ UNCHANGED <<db, files>>

(* Each assignment is a transaction of its own. *)
SyncAssign(p) ==
    LET me == process[p] IN
    /\ me.pc = "assign"
    /\ \/ \E v \in me.unassigned :
             IF me.catalog.assigned[v] \in profiles
             THEN /\ assigned' = [assigned EXCEPT ![v] = me.catalog.assigned[v]]
                  /\ Become(p, [me EXCEPT !.unassigned = @ \ {v}])
             ELSE Fail(p) /\ UNCHANGED assigned
       \/ /\ me.unassigned = {}
          /\ Become(p, [me EXCEPT !.pc = "record"])
          /\ UNCHANGED assigned
    /\ UNCHANGED <<profiles, active, peer, files>>

(* record_peer_state. *)
Record(p) ==
    /\ process[p].pc = "record"
    /\ peer' = process[p].catalog
    /\ Become(p, Idle)
    /\ UNCHANGED <<profiles, active, assigned, files>>

(* The process is killed; what it has committed and copied stays. *)
Crash(p) ==
    /\ process[p].pc # "idle"
    /\ Become(p, Idle)
    /\ UNCHANGED <<db, files>>

Step(p) ==
    \/ Copy(p) \/ Insert(p)
    \/ Plan(p) \/ SyncImport(p) \/ SyncImported(p) \/ SyncAssign(p) \/ Record(p)

Next == \E p \in Processes :
    \/ \E b \in Bundles : Import(p, b)
    \/ \E v \in Vehicles, b \in Bundles : AssignVehicle(p, v, b)
    \/ \E c \in Catalogs, apply \in BOOLEAN : Sync(p, c, apply)
    \/ Step(p)
    \/ Crash(p)

Spec == Init /\ [][Next]_vars

-----------------------------------------------------------------------------
TypeOK ==
    /\ profiles \subseteq Bundles
    /\ active \in [Packs -> Versions \cup {0}]
    /\ assigned \in [Vehicles -> Bundles \cup {None}]
    /\ peer \in Catalogs \cup {None}
    /\ files \subseteq Bundles
    /\ process \in [Processes -> Process]

(* Every installed profile has its bundle file in place, whatever import failed
   or was killed at whatever step. *)
InstalledHasFile == profiles \subseteq files

(* The active version of a pack is the newest one installed, and there is one
   as soon as any is installed: importing an older one leaves it. *)
ActiveIsNewest ==
    \A p \in Packs :
        LET installed == {b.version : b \in {c \in profiles : c.pack = p}} IN
        IF installed = {} THEN active[p] = 0
        ELSE active[p] \in installed /\ \A v \in installed : v <= active[p]

(* A vehicle is only ever assigned a bundle that is installed. *)
AssignedIsInstalled == \A v \in Vehicles : assigned[v] \in profiles \cup {None}

(* A catalog counts as accepted from a peer only when every bundle it names is
   installed, even if the synchronization was cut short and run again. *)
RecordedIsInstalled == peer # None => peer.bundles \subseteq profiles

(* Whatever the registry counts on is there: the bundle of a vehicle, and every
   bundle of the catalog it has accepted from the peer. *)
UsedIsInstalled == AssignedIsInstalled /\ RecordedIsInstalled

(* "Peer state is monotonic": the sequence recorded for a peer never goes back,
   and no second catalog is accepted for a sequence. *)
PeerOnlyForward ==
    [][peer # None => peer'.sequence > peer.sequence \/ peer' = peer]_vars

(* An older version is imported "without moving the active profile backwards". *)
RollsForward == \A p \in Packs : active'[p] >= active[p]

ActiveNeverRollsBack == [][RollsForward]_vars
=============================================================================
