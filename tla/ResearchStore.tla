---------------------------- MODULE ResearchStore ----------------------------
(***************************************************************************)
(* vision_shark/research_context.py, field_api.py and the seed of          *)
(* all_terrain_research.py: sources, claims, incidents, contexts,          *)
(* modifications and feedback that are written once, and events appended   *)
(* to claims and incidents.                                                *)
(*                                                                         *)
(* Every request opens a store of its own, so that the store's lock keeps  *)
(* no two requests apart: they meet in SQLite, where each statement is a   *)
(* step and each insertion commits on its own.                             *)
(***************************************************************************)
LOCAL INSTANCE Integers
LOCAL INSTANCE Sequences
LOCAL INSTANCE FiniteSetsExt

CONSTANTS
    Researchers,   \* threads that serve requests
    Documents,     \* [kind, key, refs, recordings, content] a request may bring
    Seed,          \* the sources, then the claims, of the all-terrain seed
    Recorded,      \* what list_recordings lists; no recording ever goes
    MaxEvents      \* bound on the events appended

ASSUME SeedAssumption == Seed \in Seq({Seed[i] : i \in DOMAIN Seed}) /\ Seed # <<>>

VARIABLES
    rows,          \* the documents stored, in all the tables
    events,        \* claim_events and incident_events: what each is about
    doing,         \* researcher -> what its request does next
    bringing,      \* researcher -> documents its request has still to put
    brought,       \* researcher -> documents its request was to put
    comparing,     \* researcher -> the recordings compared last, and what was read of
                   \* them; history: those whose context was known to be stored before
    logged         \* documents the audit log says have been put, which is then answered

researchVars == <<rows, events, doing, bringing, brought, comparing, logged>>

NoContext == [stored |-> FALSE]
NoComparison == [pair |-> <<>>, known |-> {}, contexts |-> <<>>]

ResearchInit ==
    /\ rows = {} /\ events = <<>>
    /\ doing = [r \in Researchers |-> "nothing"]
    /\ bringing = [r \in Researchers |-> <<>>]
    /\ brought = [r \in Researchers |-> <<>>]
    /\ comparing = [r \in Researchers |-> NoComparison]
    /\ logged = {}

Now(r, what) == doing' = [doing EXCEPT ![r] = what]
Under(kind, key) == {d \in rows : d.kind = kind /\ d.key = key}

-----------------------------------------------------------------------------
Brings(r, documents) ==
    /\ doing[r] = "nothing"
    /\ Now(r, "look")
    /\ bringing' = [bringing EXCEPT ![r] = documents]
    /\ brought' = [brought EXCEPT ![r] = documents]
    /\ UNCHANGED <<rows, events, comparing, logged>>

(* A route that puts one document; require_recording comes first. *)
Put(r) == \E d \in Documents : d.recordings \subseteq Recorded /\ Brings(r, <<d>>)

(* seed_all_terrain_research puts one document after the other. *)
PutSeed(r) == Brings(r, Seed)

(* The request ends: answered, refused (404, 409), or with an error. *)
Ends(r) ==
    /\ Now(r, "nothing")
    /\ bringing' = [bringing EXCEPT ![r] = <<>>]
    /\ brought' = [brought EXCEPT ![r] = <<>>]

NextDocument(r) ==
    /\ bringing' = [bringing EXCEPT ![r] = Tail(@)]
    /\ Now(r, IF Len(bringing[r]) = 1 THEN "log" ELSE "look")
    /\ UNCHANGED brought

(* put_claim's look at its sources, and _insert_immutable's at the row. *)
Look(r) ==
    /\ doing[r] = "look"
    /\ LET d == Head(bringing[r])
           there == Under(d.kind, d.key) IN
       IF (\E s \in d.refs : Under("source", s) = {}) \/ (there # {} /\ d \notin there)
       THEN Ends(r)
       ELSE IF there # {} THEN NextDocument(r)
       ELSE Now(r, "insert") /\ UNCHANGED <<bringing, brought>>
    /\ UNCHANGED <<rows, events, comparing, logged>>

(* Slip: a row that has come in between is what was wanted. *)
InsertOrIgnore(r) ==
    /\ doing[r] = "insert"
    /\ LET d == Head(bringing[r]) IN
       rows' = IF Under(d.kind, d.key) = {} THEN rows \cup {d} ELSE rows
    /\ NextDocument(r)
    /\ UNCHANGED <<events, comparing, logged>>

(* Slip: the later of two insertions replaces the row. *)
InsertOrReplace(r) ==
    /\ doing[r] = "insert"
    /\ LET d == Head(bringing[r]) IN
       rows' = (rows \ Under(d.kind, d.key)) \cup {d}
    /\ NextDocument(r)
    /\ UNCHANGED <<events, comparing, logged>>

(* The key is the table's primary key: the later of two insertions raises. *)
InsertImmutable(r) ==
    /\ doing[r] = "insert"
    /\ LET d == Head(bringing[r]) IN
       IF Under(d.kind, d.key) = {}
       THEN rows' = rows \cup {d} /\ NextDocument(r)
       ELSE Ends(r) /\ UNCHANGED rows
    /\ UNCHANGED <<events, comparing, logged>>

(* add_claim_event and add_incident_event; what they are about never goes. *)
AppendEvent(r) ==
    /\ doing[r] = "nothing" /\ Len(events) < MaxEvents
    /\ \E d \in rows :
          /\ d.kind \in {"claim", "incident"}
          /\ events' = Append(events, <<d.kind, d.key>>)
    /\ Now(r, "log")
    /\ UNCHANGED <<rows, bringing, brought, comparing, logged>>

(* The store is closed by now; the answer follows. *)
Log(r) ==
    /\ doing[r] = "log"
    /\ logged' = logged \cup {brought[r][i] : i \in DOMAIN brought[r]}
    /\ Ends(r)
    /\ UNCHANGED <<rows, events, comparing>>

(* A statement raises, of a lock that is not let go of for instance. *)
Raises(r) ==
    /\ doing[r] \in {"look", "insert", "log"}
    /\ Ends(r)
    /\ UNCHANGED <<rows, events, comparing, logged>>

(* The process is killed; each insertion has been synchronized to the disk. *)
ServerKilled ==
    /\ \E r \in Researchers : doing[r] # "nothing"
    /\ doing' = [r \in Researchers |-> "nothing"]
    /\ bringing' = [r \in Researchers |-> <<>>]
    /\ brought' = [r \in Researchers |-> <<>>]
    /\ comparing' = [r \in Researchers |-> NoComparison]
    /\ UNCHANGED <<rows, events, logged>>

-----------------------------------------------------------------------------
(* compare_contexts: what a difference in a field weighs. *)
Weights ==
    [vehicle_id |-> 20, model |-> 10, variant |-> 15, preproduction |-> 20, model_year |-> 8,
     firmware |-> 15, profile_pack_id |-> 8, profile_version |-> 8, tyres |-> 7,
     tyre_pressures_kpa |-> 5, modification_ids |-> 7, purpose |-> 3, terrain |-> 3,
     route |-> 5, weather |-> 2, payload_kg |-> 2, trailer |-> 4]
Critical == {"vehicle_id", "model", "variant", "preproduction", "firmware"}
Unknown == -1000   \* ambient_c is None

Differing(a, b) == {f \in DOMAIN Weights : a[f] # b[f]}

AmbientDiffers(a, b) ==
    \/ (a.ambient_c = Unknown) # (b.ambient_c = Unknown)
    \/ a.ambient_c - b.ambient_c > 10 \/ b.ambient_c - a.ambient_c > 10

Penalty(fields) == MapThenSumSet(LAMBDA f : Weights[f], fields)

ContextScore(a, b) ==
    Max({0, 100 - Penalty(Differing(a, b)) - (IF AmbientDiffers(a, b) THEN 2 ELSE 0)})

Comparable(contexts) ==
    /\ \A i \in DOMAIN contexts : contexts[i].stored
    /\ LET a == contexts[1].content
           b == contexts[2].content IN
       Differing(a, b) \cap Critical = {} /\ ContextScore(a, b) >= 70

(* matched_recording_report reads the two contexts one after the other, each
   perhaps before it is put; what it says of the frames is left out. *)
Compare(r) ==
    /\ doing[r] = "nothing"
    /\ \E a, b \in Recorded :
          LET known == {k \in {a, b} : \E d \in logged : d.kind = "context" /\ d.key = k} IN
          /\ a # b
          /\ comparing' = [comparing EXCEPT ![r] = [pair |-> <<a, b>>, known |-> known, contexts |-> <<>>]]
    /\ Now(r, "compare")
    /\ UNCHANGED <<rows, events, bringing, brought, logged>>

ReadContext(r) ==
    /\ doing[r] = "compare"
    /\ LET read == comparing[r].contexts
           found == Under("context", comparing[r].pair[Len(read) + 1])
           one == IF found = {} THEN NoContext
                  ELSE [stored |-> TRUE, content |-> (CHOOSE d \in found : TRUE).content] IN
       /\ comparing' = [comparing EXCEPT ![r].contexts = Append(read, one)]
       /\ Now(r, IF Len(read) = 1 THEN "nothing" ELSE "compare")
    /\ UNCHANGED <<rows, events, bringing, brought, logged>>

ResearchNext ==
    \/ ServerKilled
    \/ \E r \in Researchers :
          \/ Put(r) \/ PutSeed(r) \/ Look(r) \/ InsertImmutable(r) \/ AppendEvent(r) \/ Log(r) \/ Raises(r)
          \/ Compare(r) \/ ReadContext(r)

ResearchSpec == ResearchInit /\ [][ResearchNext]_researchVars

-----------------------------------------------------------------------------
(* What was logged and answered as put, a seed as well as a single document, is
   what is stored under its key, beside the sources it refers to, and nothing
   else is stored under that key: whatever two requests put at the same time,
   whatever is refused half-way, and wherever the process is killed. *)
AnsweredIsStored ==
    /\ \A d \in logged : Under(d.kind, d.key) = {d}
    /\ \A d \in rows : \A s \in d.refs : Under("source", s) # {}

(* A report has read both contexts. *)
Reported(r) == Len(comparing[r].contexts) = 2
FoundBoth(r) == Reported(r) /\ \A i \in 1..2 : comparing[r].contexts[i].stored

(* Reports of the same two recordings that have found both contexts agree in the
   score and in the verdict, whoever asks for them, when, and in which order,
   while contexts are put that want to be those of the same recordings.  And no
   report misses a context that somebody had been told is stored before it. *)
ReportsAgree ==
    /\ \A r, q \in Researchers :
          LET mine == comparing[r]
              theirs == comparing[q] IN
          /\ FoundBoth(r) /\ FoundBoth(q)
          /\ {mine.pair[1], mine.pair[2]} = {theirs.pair[1], theirs.pair[2]}
          => /\ Comparable(mine.contexts) <=> Comparable(theirs.contexts)
             /\ ContextScore(mine.contexts[1].content, mine.contexts[2].content)
                  = ContextScore(theirs.contexts[1].content, theirs.contexts[2].content)
    /\ \A r \in Researchers : Reported(r) =>
          \A i \in 1..2 : comparing[r].pair[i] \in comparing[r].known => comparing[r].contexts[i].stored
=============================================================================
