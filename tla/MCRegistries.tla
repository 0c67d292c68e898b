----------------------------- MODULE MCRegistries -----------------------------
(* The two stores that several processes or requests put documents into, side by
   side: `store' names the one that is used, the other one stays as it begins. *)
EXTENDS MCProfileRegistry, MCResearchStore

VARIABLE store

StoresInit ==
    /\ store \in {"profiles", "research"}
    /\ Init /\ ResearchInit

StoresNext ==
    \/ store = "profiles" /\ Next /\ UNCHANGED <<store, researchVars>>
    \/ store = "research" /\ ResearchNext /\ UNCHANGED <<store, vars>>

StoresSpec == StoresInit /\ [][StoresNext]_<<store, vars, researchVars>>
=============================================================================
