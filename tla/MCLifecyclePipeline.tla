------------------------ MODULE MCLifecyclePipeline ------------------------
(***************************************************************************)
(* The same resource types, checked against the hypothesis of the theorems *)
(* and run by a pipeline.                                                  *)
(***************************************************************************)
EXTENDS MCLifecycle

\* The others cannot be created, or never learn that somebody changed the object.
PipelineTypes == AllTypes \ (TypesBlind \cup TypesImported)

\* All but the listed exceptions meet the hypothesis of the theorems of Lifecycle_proofs.
ASSUME OthersAreCareful ==
    /\ \A h \in AllTypes \ (TypesLoses \cup TypesKeeps \cup TypesAdopt) :
          CreatesCarefully(h)
    /\ \A h \in AllTypes \ (TypesDrops \cup TypesKeeps) : KeepsCarefully(h)
    /\ \A h \in AllTypes : SettlesCarefully(h) <=> h \notin TypesBlind \cup TypesAdopt
=============================================================================
