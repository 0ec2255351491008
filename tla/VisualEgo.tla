----------------------------- MODULE VisualEgo -----------------------------
(***************************************************************************)
(* VisualEgoStateProvider: the pose of the vehicle from its camera.  Of    *)
(* the image processing the model keeps how many features are tracked,     *)
(* which image their coordinates belong to, the scale (the length of the   *)
(* step a frame makes) and how the drift that the confidence is computed   *)
(* from moves; pixels and matrices are left out.  Lengths are whole units, *)
(* and nothing bounds a scale: it is the speed of the vehicle in a frame,  *)
(* or what the map makes of it.  Confidence is 1 / (1 + drift), so a       *)
(* threshold on it is a threshold on the drift.                            *)
(***************************************************************************)
EXTENDS Integers

CONSTANTS
    MaxFeatures,    \* max_features
    MinFeatures,    \* min_features
    StepFeatures,   \* features without which a step is not tried (8 in the code)
    FoeFeatures,    \* foe_min_inliers
    RelocDrift,     \* the drift of relocalization_confidence_threshold
    FallbackDrift,  \* the drift of fallback_confidence_threshold
    Scales,         \* initial_scale_m, and what a speed or the map may make of it
    MaxDrift        \* bound: drift is not followed beyond

ASSUME EgoAssumption ==
    /\ {MaxFeatures, MinFeatures, StepFeatures, FoeFeatures} \subseteq Nat \ {0}
    /\ {RelocDrift, FallbackDrift, MaxDrift} \subseteq Nat
    /\ Scales \subseteq Nat
    /\ RelocDrift < FallbackDrift /\ FallbackDrift < MaxDrift

VARIABLES
    seen,       \* frames estimate() has worked on; 0 until initialized
    prev,       \* the frame prev_gray holds
    features,   \* tracked features: seen twice (age >= 1), or just detected
    scale,      \* scale.scale
    stride,     \* history: the greatest scale a step was made with
    drift,      \* cumulative_drift_m
    fallback    \* a fallback provider is set

egoVars == <<seen, prev, features, scale, stride, drift, fallback>>

EgoInit(f) ==
    /\ seen = 0 /\ prev = 0 /\ features = [old |-> 0, new |-> 0]
    /\ scale = 0 /\ stride = 0 /\ drift = 0
    /\ fallback = f

-----------------------------------------------------------------------------

\* FAST-9 corners with suppression: any number up to max_features is appended.
detect_fast9 == 0..MaxFeatures

\* Lucas-Kanade: any of the features survive, and are older then.
track_lk == 0..(features.old + features.new)

\* Corners are detected again when too few are left.
redetect(old) == IF old < MinFeatures THEN detect_fast9 ELSE {0}

\* The translation a focus of expansion gives is as sure as its inliers.
foe_ransac(s) == drift..(drift + s)

\* The mean flow, when it shows any motion.
apply_mean_flow(s) == {drift + s}

\* Dead reckoning from the velocity of the hint, when a step gave nothing.
dead_reckoning(s, moving) == {IF moving THEN drift + s ELSE drift}

\* step_vl1() with scale s, and the fallback on the hint when that says how the
\* vehicle moves: the drift after the step.
step_vl1(old, new, s, moving) ==
    IF old + new < StepFeatures \/ old = 0 THEN dead_reckoning(s, moving)
    ELSE IF old < FoeFeatures THEN apply_mean_flow(s) \cup dead_reckoning(s, moving)
    ELSE foe_ransac(s) \cup apply_mean_flow(s) \cup dead_reckoning(s, moving)

\* update_scale_vl2(): with depth and an L2 map, the distances to the features that
\* are old enough multiply the scale by any factor.
update_scale_vl2(old, s) == IF old > 0 THEN Scales \cup {s} ELSE {s}

\* relocalize_vl2(): with an L2 map nearby, and features that are old enough.
relocalize_vl2(d) == IF d > RelocDrift THEN {d, d \div 2} ELSE {d}

\* Mutant of reanchor: the drift is kept.
reanchor_position(d) == d

\* The fallback's position replaces the estimate, and most of the drift goes.
reanchor(d) == (3 * d) \div 10

Bounded(d) == IF d > MaxDrift THEN MaxDrift ELSE d

\* estimate() for a frame without an image: no ego, and nothing changes.
estimate_no_image == UNCHANGED egoVars

\* estimate() for the first frame.
estimate_first ==
    /\ seen = 0
    /\ seen' = 1 /\ prev' = 1
    /\ \E new \in detect_fast9 : features' = [old |-> features.old, new |-> features.new + new]
    /\ scale' \in Scales
    /\ UNCHANGED <<stride, drift, fallback>>

\* estimate() from the second frame on: the speed of a hint that moves is the scale
\* of the step.  The features end up in the new frame in every case; the path through
\* the fallback returns before prev_gray follows.
estimate(found) ==
    /\ seen > 0 /\ seen' = seen + 1
    /\ \E moving \in BOOLEAN : \E s \in IF moving THEN Scales ELSE {scale} :
        /\ stride' = IF s > stride THEN s ELSE stride
        /\ \E old \in track_lk : \E new \in redetect(old) :
            /\ features' = [old |-> old, new |-> new]
            /\ scale' \in update_scale_vl2(old, s)
            /\ \E d1 \in step_vl1(old, new, s, moving) : \E d2 \in relocalize_vl2(d1) :
                IF fallback /\ d2 > FallbackDrift
                THEN /\ drift' = IF found THEN reanchor(d2) ELSE d2
                     /\ UNCHANGED prev
                ELSE found /\ prev' = seen + 1 /\ drift' = Bounded(d2)
    /\ UNCHANGED fallback

-----------------------------------------------------------------------------

\* The lists of features stay small although corners are only ever appended: a
\* frame adds at most max_features, and only to fewer than min_features.
FeaturesBounded == features.old + features.new <= MinFeatures - 1 + MaxFeatures

\* prev_gray is the image of the previous frame, the one the coordinates of the
\* features were left in: otherwise flow is measured between the wrong images.
FlowSpansOneFrame == prev = seen
=============================================================================
