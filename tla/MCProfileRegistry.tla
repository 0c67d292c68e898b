------------------------- MODULE MCProfileRegistry -------------------------
(* One pack in three versions, one of them signed twice; catalogs that grow,
   that repeat a sequence with other contents, and that assign a vehicle. *)
EXTENDS ProfileRegistry

CONSTANTS p1, p2, pack, v1

OneProcess == {p1}
TwoProcesses == {p1, p2}
MCVehicles == {v1}

Bundle(version, build) == [pack |-> pack, version |-> version, build |-> build]
MCBundles == {Bundle(1, "a"), Bundle(2, "a"), Bundle(2, "b"), Bundle(3, "a")}

Catalog(sequence, bundles, bundle) ==
    [sequence |-> sequence, bundles |-> bundles, assigned |-> [v \in MCVehicles |-> bundle]]
MCCatalogs == {
    Catalog(1, {Bundle(1, "a")}, Bundle(1, "a")),
    Catalog(2, {Bundle(1, "a"), Bundle(2, "a")}, Bundle(2, "a")),
    Catalog(2, {Bundle(2, "b"), Bundle(3, "a")}, None),
    Catalog(2, {Bundle(1, "a"), Bundle(2, "a")}, None),
    Catalog(3, {Bundle(2, "b"), Bundle(3, "a")}, Bundle(3, "a"))}
=============================================================================
