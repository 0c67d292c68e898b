---------------------------- MODULE FleetCatalog ----------------------------
(***************************************************************************)
(* vision_shark/profile_distribution.py, catalog() and sign_fleet_catalog, *)
(* and main.py, fleet-catalog-export: what is in a registry is signed and  *)
(* put at a path where peers find it.                                      *)
(*                                                                         *)
(* catalog() holds the registry's lock, which is its process's own, and    *)
(* its two SELECTs are no transaction: another process may commit between. *)
(***************************************************************************)
EXTENDS Naturals, FiniteSets

CONSTANTS
    Profiles,   \* [pack, version], the digest of a bundle being its own
    Fleet,      \* vehicles
    Exports,    \* export processes, all to one path
    Free        \* no profile, no catalog

VARIABLES
    inRegistry, \* the profiles installed
    holder,     \* vehicle -> the profile assigned to it, or Free
    exporter,   \* process -> [pc, profiles]: the SELECT it has done
    published   \* the catalog at the path, [profiles, holder, active], or [profiles |-> Free]

catalogVars == <<inRegistry, holder, exporter, published>>

AtRest == [pc |-> "idle", profiles |-> {}]
NoCatalog == [profiles |-> Free]

CatalogInit ==
    /\ inRegistry = {}
    /\ holder = [v \in Fleet |-> Free]
    /\ exporter = [x \in Exports |-> AtRest]
    /\ published = NoCatalog

(* profile-import and fleet-assign, in processes of their own. *)
InstallProfile(p) ==
    /\ \A q \in inRegistry : q.pack = p.pack => q.version # p.version
    /\ inRegistry' = inRegistry \cup {p}
    /\ UNCHANGED <<holder, exporter, published>>

GiveVehicle(v, p) ==
    /\ p \in inRegistry
    /\ holder' = [holder EXCEPT ![v] = p]
    /\ UNCHANGED <<inRegistry, exporter, published>>

ReadProfiles(x) ==
    /\ exporter[x].pc = "idle"
    /\ exporter' = [exporter EXCEPT ![x] = [pc |-> "reading", profiles |-> inRegistry]]
    /\ UNCHANGED <<inRegistry, holder, published>>

(* The row of active_profiles that the first SELECT joins. *)
ActiveOf(profiles) == {p \in profiles : \A q \in profiles : q.pack = p.pack => q.version <= p.version}

(* The assignments, the signature, and the replacement of what is at the path. *)
PutInPlace(x) ==
    /\ exporter[x].pc = "reading"
    /\ exporter' = [exporter EXCEPT ![x].pc = "published"]
    /\ published' = [profiles |-> exporter[x].profiles, active |-> ActiveOf(exporter[x].profiles),
                     holder |-> holder]
    /\ UNCHANGED <<inRegistry, holder>>

(* verify_fleet_catalog. *)
PeerAccepts(c) ==
    /\ c # NoCatalog
    /\ \A p, q \in c.profiles : p.pack = q.pack /\ p.version = q.version => p = q
    /\ \A p, q \in c.active : p.pack = q.pack => p = q
    /\ \A v \in Fleet : c.holder[v] \in c.profiles \cup {Free}

(* An export that cannot be signed takes away what is at the path as well. *)
ExportFails(x) ==
    /\ exporter[x].pc = "reading"
    /\ exporter' = [exporter EXCEPT ![x] = AtRest]
    /\ published' = NoCatalog
    /\ UNCHANGED <<inRegistry, holder>>

(* Slip: only a catalog of its own making is taken away, and that by its profiles. *)
VerifyOwn(x) ==
    /\ exporter[x].pc = "published"
    /\ exporter' = [exporter EXCEPT ![x] = AtRest]
    /\ published' = IF published.profiles = exporter[x].profiles \/ PeerAccepts(published)
                    THEN published ELSE NoCatalog
    /\ UNCHANGED <<inRegistry, holder>>

(* What is at the path by now is verified, and taken away if it fails. *)
Verify(x) ==
    /\ exporter[x].pc = "published"
    /\ exporter' = [exporter EXCEPT ![x] = AtRest]
    /\ published' = IF PeerAccepts(published) THEN published ELSE NoCatalog
    /\ UNCHANGED <<inRegistry, holder>>

CatalogNext ==
    \/ \E p \in Profiles : InstallProfile(p) \/ \E v \in Fleet : GiveVehicle(v, p)
    \/ \E x \in Exports : ReadProfiles(x) \/ PutInPlace(x) \/ ExportFails(x) \/ Verify(x)

CatalogSpec == CatalogInit /\ [][CatalogNext]_catalogVars

-----------------------------------------------------------------------------
(* A catalog that a peer would refuse, because a vehicle was assigned a profile
   that was installed between the two SELECTs, is at the path only as long as an
   export is still to verify it, whichever of several exports put it there; one
   that is killed before it has verified is left out here. *)
PublishedIsAcceptable ==
    published # NoCatalog /\ (\A x \in Exports : exporter[x].pc # "published")
        => PeerAccepts(published)
=============================================================================
