------------------------------ MODULE CoreStack ------------------------------
(***************************************************************************)
(* The core stack from the configuration to the frames: the configuration  *)
(* is loaded, ProviderRegistry and CoreStackRunner create the providers it *)
(* names, and run_once() takes frames from the source and estimates the    *)
(* pose of the vehicle for each, until the frames end or the loop is left. *)
(***************************************************************************)
EXTENDS Configuration, FrameIngest, VisualEgo

VARIABLE ego    \* the provider of poses in use

coreVars == <<configVars, ingestVars, egoVars, ego>>

CoreInit == ConfigInit /\ IngestInit("none") /\ EgoInit(FALSE) /\ ego = "none"

\* ProviderRegistry::create() and the constructor of CoreStackRunner; the loader's
\* own state is gone.
create ==
    /\ loader = "loaded" /\ resolve(Keys \ EvalKeys)
    /\ loader' = "created"
    /\ mode' = config["bridge_mode"] /\ ego' = config["ego_provider"]
    /\ fallback' = (config["ego_provider"] = "visual_odometry" /\ config["ego_provider_eval"] # "off")
    /\ config' = Defaults /\ env' = Unset /\ own' = [f \in Files |-> None]
    /\ layout' = CHOOSE l \in Layouts : TRUE
    /\ UNCHANGED <<todo, stack, child, lives, written, pulled, taken, status, reader, got,
                   future, signalled, main, frames, seen, prev, features, scale, stride, drift>>

\* create() meets a name it does not know, a recording without a path, or the
\* constructor of a provider throws.
create_throws == loader = "loaded" /\ Fail /\ UNCHANGED <<ingestVars, egoVars, ego>>

load == ConfigNext /\ UNCHANGED <<ingestVars, egoVars, ego>>

ingest == loader = "created" /\ IngestNext /\ UNCHANGED <<configVars, egoVars, ego>>

Used(next) ==
    /\ main = "run" /\ main' = next
    /\ UNCHANGED <<configVars, ego, mode, childVars, pulled, taken, status, reader, got,
                   future, signalled, frames>>

\* run_once() with a frame: the pose is estimated, and without one it returns false.
run_once ==
    \/ ego # "visual_odometry" /\ Used("loop") /\ UNCHANGED egoVars
    \/ ego = "visual_odometry" /\ Used("dropped") /\ estimate_no_image
    \/ ego = "visual_odometry" /\ Used("loop") /\ (estimate_first \/ estimate(TRUE))
    \/ ego = "visual_odometry" /\ Used("dropped") /\ estimate(FALSE)

\* One of the providers throws; the prefetch goes on behind it.
run_once_throws == Used("failed") /\ UNCHANGED egoVars

CoreNext == load \/ create \/ create_throws \/ ingest \/ run_once \/ run_once_throws

Finished == main = "closed" \/ loader = "failed"

CoreSpec ==
    /\ CoreInit /\ [][CoreNext \/ (Finished /\ UNCHANGED coreVars)]_coreVars
    /\ ConfigFairness /\ WF_coreVars(create \/ create_throws) /\ WF_coreVars(run_once)
    /\ WF_coreVars(ingest /\ readerStep) /\ WF_coreVars(ingest /\ mainStep)

-----------------------------------------------------------------------------
\* The values of the keys are theirs, and no file is open twice.
CoreTypeOK ==
    /\ IngestTypeOK
    /\ loader \in {"load", "validate", "build", "resolve", "loaded", "created", "failed"}
    /\ DOMAIN config = Keys /\ \A k \in Keys : config[k] \in ValuesOf[k]
    /\ Len(stack) <= Cardinality(Files)
    /\ features \in [old : Nat, new : Nat] /\ {scale, stride, drift} \subseteq Nat

\* With a fallback provider a frame that takes the drift past the threshold is
\* answered by the fallback, which cuts the drift, or it is the last one.  What is
\* left of it may be past the threshold all the same, and is added to frame by frame,
\* but never beyond 3/7 of the longest step, however steps of all lengths alternate.
DriftIsReanchored ==
    fallback /\ main \in {"loop", "get", "run"} =>
        drift <= FallbackDrift \/ 7 * drift <= 3 * stride

\* The frames the pipeline gets are the child's, whole, in order and to the end, under
\* whatever configuration was loaded.
FrameStreamIsSound == CoreTypeOK /\ FramesWholeInOrder /\ EndIsTheEnd

\* Visual odometry keeps its lists short and, with a fallback, its drift.
EgoStaysBounded == FeaturesBounded /\ DriftIsReanchored

\* Loading ends in spite of cyclic includes; when no child stalls inside a part every
\* call returns, and when it ends as well closing does.
ProgramGoesOn == LoadingEnds /\ CallReturns /\ FrameSourceCloses
=============================================================================
