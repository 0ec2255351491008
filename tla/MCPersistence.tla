--------------------------- MODULE MCPersistence ---------------------------
(***************************************************************************)
(* What a mission leaves on disk: the planning map's database, with a      *)
(* handful of cells and three places to be, the artifact files and the     *)
(* profile.  They share no state, so a behaviour runs one of them and      *)
(* leaves the others where they start; the fairness is the planning map's  *)
(* and only its liveness needs it.                                         *)
(***************************************************************************)
EXTENDS PlanningMap, ArtifactWriters, PipelineProfile

VARIABLE part

PersistenceInit ==
    /\ PlanningInit /\ ArtifactInit /\ ProfileInit
    /\ part \in {"database", "files", "profile"}
    /\ part # "files" => enabled = {}

PersistenceNext ==
    /\ \/ part = "database" /\ PlanningNext /\ UNCHANGED <<artifactVars, profileVars>>
       \/ part = "files" /\ (ArtifactNext \/ ArtifactDone) /\ UNCHANGED <<vars, profileVars>>
       \/ part = "profile" /\ (ProfileNext \/ ProfileDone) /\ UNCHANGED <<vars, artifactVars>>
    /\ UNCHANGED part

PersistenceSpec ==
    /\ PersistenceInit /\ [][PersistenceNext]_<<part, vars, artifactVars, profileVars>>
    /\ PlanningFairness
=============================================================================
