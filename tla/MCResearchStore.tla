--------------------------- MODULE MCResearchStore ---------------------------
(* A source stored by a route and by the seed, and three contexts: two that want
   to be that of one recording, only one of which is comparable with the context
   of the other recording. *)
EXTENDS ResearchStore, Integers, TLC

Document(kind, key, refs, recordings, content) ==
    [kind |-> kind, key |-> key, refs |-> refs, recordings |-> recordings, content |-> content]
Conditions(differing, ambient) ==
    [f \in DOMAIN Weights |-> IF f \in differing THEN "other" ELSE "same"] @@ [ambient_c |-> ambient]
MCSeed == <<Document("source", "s", {}, {}, "a"), Document("claim", "c", {"s"}, {}, "a")>>
MCDocuments == {Document("source", "s", {}, {}, "b"),
                Document("context", 1, {}, {1}, Conditions({}, 20)),
                Document("context", 1, {}, {1}, Conditions({"firmware"}, 20)),
                Document("context", 2, {}, {2}, Conditions({"payload_kg"}, 35))}

(* Nothing tells the threads that serve the requests apart. *)
Symmetry == Permutations(Researchers)
=============================================================================
