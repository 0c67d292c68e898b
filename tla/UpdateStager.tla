---------------------------- MODULE UpdateStager ----------------------------
(***************************************************************************)
(* vision_shark/update_staging.py: signed artifacts are put into a         *)
(* directory and the newest version of each role into state.json.  Calls   *)
(* run one after the other in one process, which may be killed anywhere.   *)
(*                                                                         *)
(* The artifact replaces its predecessor in one step; state.json is first  *)
(* emptied and then written.                                               *)
(***************************************************************************)
LOCAL INSTANCE Integers

CONSTANTS
    Roles,         \* artifact roles
    MaxVersion     \* bound on the versions signed

VARIABLES
    artifacts,     \* the artifacts in the directory
    recorded,      \* state.json: role -> version
    readable,      \* state.json is not empty
    loaded,        \* stage: what _state returned
    step,          \* stage: what it does next
    staging,       \* the artifact in hand
    staged         \* history: the artifacts whose stage has returned

stagerVars == <<artifacts, recorded, readable, loaded, step, staging, staged>>

Artifact == [role : Roles, version : 1..MaxVersion]
NoArtifact == [role |-> "none", version |-> 0]

StagerInit ==
    /\ artifacts = {} /\ staged = {}
    /\ recorded = [r \in Roles |-> 0]
    /\ loaded = recorded
    /\ readable = TRUE
    /\ step = "idle"
    /\ staging = NoArtifact

(* Slip: any version but the recorded one may be staged. *)
Other(a) == a.version # recorded[a.role]

Newer(a) == a.version > recorded[a.role]

(* The role and the signature are those of an artifact that was signed; a
   state.json that cannot be read raises, as an older version does. *)
Stage(a) ==
    /\ step = "idle" /\ readable
    /\ Newer(a)
    /\ step' = "place" /\ staging' = a /\ loaded' = recorded
    /\ UNCHANGED <<artifacts, recorded, readable, staged>>

PlaceArtifact ==
    /\ step = "place"
    /\ artifacts' = artifacts \cup {staging}
    /\ step' = "empty"
    /\ UNCHANGED <<recorded, readable, loaded, staging, staged>>

(* write_text opens the file, which empties it, ... *)
EmptyState ==
    /\ step = "empty"
    /\ readable' = FALSE
    /\ step' = "write"
    /\ UNCHANGED <<artifacts, recorded, loaded, staging, staged>>

(* ... and then writes what _state had returned, brought up to date. *)
WriteState ==
    /\ step = "write"
    /\ recorded' = [loaded EXCEPT ![staging.role] = staging.version]
    /\ readable' = TRUE
    /\ staged' = staged \cup {staging}
    /\ step' = "idle"
    /\ UNCHANGED <<artifacts, loaded, staging>>

(* The process is killed, or a write raises. *)
Killed ==
    /\ step # "idle" /\ step' = "idle"
    /\ UNCHANGED <<artifacts, recorded, readable, loaded, staging, staged>>

StagerNext ==
    \/ \E a \in Artifact : Stage(a)
    \/ PlaceArtifact \/ EmptyState \/ WriteState \/ Killed

StagerSpec == StagerInit /\ [][StagerNext]_stagerVars

-----------------------------------------------------------------------------
(* A version that was staged stays recorded, or a newer one of its role is, as
   long as state.json can be read, and the artifact it records is there,
   wherever the process was killed. *)
StagedIsRecorded ==
    readable =>
        /\ \A a \in staged : a.version <= recorded[a.role]
        /\ \A r \in Roles : recorded[r] > 0 => [role |-> r, version |-> recorded[r]] \in artifacts
=============================================================================
