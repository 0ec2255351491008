----------------------------- MODULE WorldModel -----------------------------
(***************************************************************************)
(* What run_once() makes of one frame once it has a pose: detections,      *)
(* tracks and observations (PerceptionPipeline), the depth evidence, the   *)
(* ghost targets of a scenario or of a child process, the in-memory world  *)
(* model, the local flight map around the vehicle with the verdict on the  *)
(* path ahead, and the perch candidates; the snapshot is published last.   *)
(*                                                                         *)
(* The ground is one line of cells: the vehicle, the objects and the       *)
(* obstacles each have a place on it, and ahead is towards larger places.  *)
(***************************************************************************)
EXTENDS Integers, Sequences, FiniteSets, SequencesExt

CONSTANTS
    Detectable,   \* detector_objects, in the order of the configuration
    Tracks,       \* track ids of ghosts, as sanitized_id_suffix() leaves them
    Exact,        \* ghost objects bound by name, in the order of the configuration
    Patterns,     \* ghost patterns, the matches in inventory order, with the track a match gets
    Lines,        \* the marked poses of a line of the child: objects and patterns
    Scenario,     \* the detections of a ghost scenario
    Classes,      \* the order of ClassLabel, as a sequence
    MaxObjects,   \* max_objects_per_frame, 0 for no limit
    Places,       \* places on the line
    Speeds,       \* cells the vehicle covers in one step of the path sampled ahead
    MinSpeed,     \* the least speed the path is sampled with
    Samples,      \* steps sampled ahead
    Rear, Forward,          \* cells of the local flight map behind and ahead
    Splat, Inflation,       \* radius of an occupied cell, of the vehicle and its margin
    Cadence,      \* perch_candidate_evaluator cadence_ticks
    MaxFrames     \* bound: frames of a run

NamesIn(s) == {s[k].object : k \in DOMAIN s}
Objects ==
    ToSet(Detectable) \cup NamesIn(Exact) \cup NamesIn(Scenario)
    \cup UNION {ToSet(Patterns[i].matches) : i \in DOMAIN Patterns}
Bindings == [object : Objects, class : ToSet(Classes), track : Tracks]

\* No two members of a list are the same object, or have one track.
Different(s) == \A a, b \in DOMAIN s : s[a].object = s[b].object => a = b
Named(s) == \A a, b \in DOMAIN s : s[a].track = s[b].track => a = b

\* A pattern matches an object of the inventory once, whatever the inventory repeats.
ASSUME GhostAssumption ==
    /\ Detectable \in Seq(Objects) /\ {Exact, Scenario} \subseteq Seq(Bindings) /\ MaxObjects \in Nat
    /\ Patterns \in Seq([class : ToSet(Classes), max : Nat, matches : Seq(Objects),
                          track : [Objects -> Tracks]])
    /\ \A i \in DOMAIN Patterns : IsInjective(Patterns[i].matches)
    /\ Classes \in Seq(ToSet(Classes)) /\ IsInjective(Classes)
\* The child asks for the pose of an object once (build_query_names).
ASSUME ChildAssumption ==
    \A line \in Lines : line \in Seq([object : Objects, pattern : DOMAIN Patterns]) /\ Different(line)
ASSUME PlacesAssumption == Places \subseteq Int /\ IsFiniteSet(Places)
ASSUME GridAssumption == Forward \in Nat \ {0} /\ {Rear, Splat, Inflation, Samples} \subseteq Nat
ASSUME CadenceAssumption == Cadence \in Nat \ {0} /\ MaxFrames \in Nat
\* Two samples leave no gap that an inflated obstacle fits between.
ASSUME SpeedAssumption == \A v \in Speeds \cup {MinSpeed} : v \in 0..2 * (Splat + Inflation) + 1

VARIABLES
    setup,     \* the providers configured
    stage,     \* where run_once() is
    n,         \* number of the frame
    pose,      \* place and speed of the vehicle in this frame
    streamed,  \* selected_stream_objects_: the bindings the child process was started with
    observed,  \* observations of this frame, in order
    evidence,  \* places where the depth provider saw an obstacle in this frame
    cells,     \* occupied cells of the mission-local obstacle map
    model,     \* InMemoryWorldModel::snapshot_
    perch,     \* cached_perch_candidates_: the frame and the places they are from
    shown      \* the snapshot that this run_once() published, with its depth evidence (ghost)

worldVars == <<setup, stage, n, pose, streamed, observed, evidence, cells, model, perch, shown>>

NoSnapshot == [frame |-> 0]
EmptyModel == [ego |-> 0, agents |-> <<>>, occupancy |-> {}, swept |-> "stale", evidence |-> {}, at |-> 0]

-----------------------------------------------------------------------------
\* Ghost targets.

\* The members of a sequence that are in S, in their order.
Only(s, S) ==
    LET pick[i \in 0..Len(s)] ==
          IF i = 0 THEN <<>> ELSE IF s[i] \in S THEN Append(pick[i - 1], s[i]) ELSE pick[i - 1]
    IN  pick[Len(s)]

\* The candidates of pattern i, skipping what is bound already.
Expand(i, used) ==
    LET p == Patterns[i]
        left == Only(p.matches, Objects \ used)
        kept == IF p.max > 0 /\ p.max < Len(left) THEN SubSeq(left, 1, p.max) ELSE left
    IN  [k \in 1..Len(kept) |-> [object |-> kept[k], class |-> p.class, track |-> p.track[kept[k]]]]

\* Earlier patterns take their matches first.
expand_patterns_from_scene_inventory ==
    LET Upto[i \in 0..Len(Patterns)] ==
            IF i = 0 THEN <<>> ELSE Upto[i - 1] \o Expand(i, NamesIn(Exact) \cup NamesIn(Upto[i - 1]))
    IN  Upto[Len(Patterns)]

\* The exact bindings, then the first of every class, the second of every class
\* and so on, up to the limit. pre_warm() passes no pose, so that no candidate is
\* left out for its distance.
select_nearby_candidates(all) ==
    LET Bucket(c) == Only(all, {x \in ToSet(all) : x.class = c})
        Round(r) == [k \in DOMAIN Classes |->
                        IF r <= Len(Bucket(Classes[k])) THEN <<Bucket(Classes[k])[r]>> ELSE <<>>]
        wanted == Exact \o FlattenSeq(FlattenSeq([r \in 1..Len(all) |-> Round(r)]))
    IN  IF MaxObjects > 0 /\ MaxObjects < Len(wanted) THEN SubSeq(wanted, 1, MaxObjects) ELSE wanted

\* inventory_candidates_. When there are any, the patterns are cleared.
inventory_candidates == IF setup.inventory THEN expand_patterns_from_scene_inventory ELSE <<>>

\* AirSimObjectsBackend::detections_at: what was asked for by name, then the poses
\* that the child has marked with a pattern. The child of this repository marks
\* none in a stream; one that does may mark an object that is bound by name too.
AirSimDetections(line) ==
    LET marked == [k \in DOMAIN line |->
            [object |-> line[k].object, class |-> Patterns[line[k].pattern].class,
             track |-> Patterns[line[k].pattern].track[line[k].object]]]
    IN  IF inventory_candidates = <<>> THEN streamed \o marked ELSE streamed

\* TrajectoryScenarioBackend has the detections of the scenario at any time.
detections_at(line) ==
    CASE setup.ghosts = "none" -> <<>>
      [] setup.ghosts = "trajectory_scenario" -> Scenario
      [] setup.ghosts = "airsim_objects" -> AirSimDetections(line)

-----------------------------------------------------------------------------
Setups == [cameras : BOOLEAN, depth : BOOLEAN, source : {"ground_truth", "synthetic"},
           ghosts : {"none", "trajectory_scenario", "airsim_objects"}, inventory : BOOLEAN]

\* validate_config(): ground truth is that of the simulator's objects.
WorldInit ==
    /\ setup \in Setups
    /\ setup.source = "ground_truth" => setup.ghosts # "trajectory_scenario"
    /\ setup.inventory => setup.ghosts = "airsim_objects"
    /\ stage = "start" /\ n = 0 /\ pose = [place |-> 0, speed |-> 0]
    /\ streamed = <<>> /\ observed = <<>> /\ evidence = {} /\ cells = {}
    /\ model = EmptyModel /\ perch = [frame |-> 0, places |-> {}] /\ shown = NoSnapshot

\* The constructor of CoreStackRunner starts the ghost stream.
pre_warm ==
    /\ stage = "start" /\ stage' = "frame"
    /\ streamed' = IF setup.ghosts = "airsim_objects" THEN select_nearby_candidates(inventory_candidates)
                   ELSE <<>>
    /\ UNCHANGED <<setup, n, pose, observed, evidence, cells, model, perch, shown>>

\* A frame with a pose.
next_frame ==
    /\ stage = "frame" /\ n < MaxFrames
    /\ stage' = "perceive" /\ n' = n + 1
    /\ pose' \in [place : Places, speed : Speeds]
    /\ shown' = NoSnapshot
    /\ UNCHANGED <<setup, streamed, observed, evidence, cells, model, perch>>

\* SimpleCentroidTracker numbers the detections of one frame, and nothing else.
update(detections) == [i \in DOMAIN detections |-> [id |-> <<"track", i>>, object |-> detections[i].object,
                                                    at |-> detections[i].at]]

\* AirSimGroundTruthDetector: the objects in view, in the order of the
\* configuration. Every object without a pose or out of view is left out.
detect(seen, at) ==
    LET inView == Only(Detectable, seen)
    IN  [i \in DOMAIN inView |-> [object |-> inView[i], at |-> at[inView[i]]]]

\* PerceptionPipeline::process. Without a hint of the pose, and once the stream of
\* poses has ended, nothing is seen.
process ==
    /\ stage = "perceive" /\ stage' = "depth"
    /\ \E seen \in SUBSET ToSet(Detectable) : \E at \in [seen -> Places] :
          /\ \A o \in seen : at[o] > pose.place
          /\ observed' = update(detect(seen, at))
    /\ UNCHANGED <<setup, n, pose, streamed, evidence, cells, model, perch, shown>>

\* The depth provider of slot A looks through every camera volume; the one of slot
\* B is only compared with it.
depth_slot_a ==
    /\ stage = "depth" /\ stage' = "ghosts"
    /\ \/ setup.cameras /\ setup.depth /\ evidence' \in SUBSET {p \in Places : p > pose.place}
       \/ ~(setup.cameras /\ setup.depth) /\ UNCHANGED evidence
    /\ UNCHANGED <<setup, n, pose, streamed, observed, cells, model, perch, shown>>

\* Where the ghosts are seen: an object that is there twice has one pose.
Observed(ghosts, at) ==
    [i \in DOMAIN ghosts |-> [id |-> ghosts[i].track, object |-> ghosts[i].object, at |-> at[ghosts[i].object]]]

\* GhostTargetProvider::frame_at: the observations go behind those of the detector.
frame_at ==
    /\ stage = "ghosts" /\ stage' = "ingest"
    /\ \E line \in Lines : \E at \in [NamesIn(detections_at(line)) -> Places] :
          observed' = observed \o Observed(detections_at(line), at)
    /\ UNCHANGED <<setup, n, pose, streamed, evidence, cells, model, perch, shown>>

\* A provider throws: a detection without depth where depth is required, a provider
\* of a reference slot, a ghost stream that ended or lacks an object. The exception
\* leaves run_once(), and with it the loop.
provider_throws ==
    /\ stage \in {"perceive", "depth", "ghosts"} /\ stage' = "failed"
    /\ UNCHANGED <<setup, n, pose, streamed, observed, evidence, cells, model, perch, shown>>

-----------------------------------------------------------------------------
\* The world model.

Synthetic == {5}    \* the forward obstacle of the synthetic fixture, from the vehicle

\* build_swept_volume, for the next cells of the path.
build_swept_volume(valid, occupied) ==
    CASE ~valid -> "stale"
      [] valid /\ \E p \in occupied : p - pose.place \in 0..Forward -> "blocked"
      [] OTHER -> "clear"

\* Where objects were observed and a camera would have seen them: the evidence
\* emulated from the ground truth.
Emulated(places) == IF setup.cameras THEN {p \in places : p > pose.place} ELSE {}

refresh_ground_truth_obstacle_products(m) ==
    LET places == {observed[i].at : i \in DOMAIN observed}
    IN  [m EXCEPT !.occupancy = places, !.swept = build_swept_volume(observed # <<>>, places),
                  !.evidence = Emulated(places)]

refresh_synthetic_obstacle_products(m) ==
    LET places == {pose.place + d : d \in Synthetic}
    IN  [m EXCEPT !.occupancy = places, !.swept = build_swept_volume(TRUE, places), !.evidence = places]

update_ego(m) ==
    LET moved == [m EXCEPT !.ego = pose.place, !.at = n]
    IN  IF setup.source = "synthetic" THEN refresh_synthetic_obstacle_products(moved) ELSE moved

\* One agent for every observation, named after its track.
AgentsOf(observations) ==
    [i \in DOMAIN observations |-> [id |-> observations[i].id, object |-> observations[i].object,
                                    at |-> observations[i].at, frame |-> n]]

\* Mutant of Agents: an agent that is not observed is kept.
AgentsKept(m) ==
    LET fresh == AgentsOf(observed)
        ids == {fresh[i].id : i \in DOMAIN fresh}
    IN  fresh \o SelectSeq(m.agents, LAMBDA a : a.id \notin ids)

Agents(m) == AgentsOf(observed)

\* Depth evidence replaces what was emulated, unless there is none.
ingest(m) ==
    LET fresh == [m EXCEPT !.agents = Agents(m)]
        products == IF setup.source = "ground_truth" THEN refresh_ground_truth_obstacle_products(fresh)
                                                     ELSE refresh_synthetic_obstacle_products(fresh)
    IN  IF evidence # {} THEN [products EXCEPT !.evidence = evidence] ELSE products

\* update_ego(), ingest(), snapshot() and the update of the mission-local map.
update_world ==
    /\ stage = "ingest" /\ stage' = "flight_map"
    /\ model' = ingest(update_ego(model))
    /\ cells' = cells \cup evidence
    /\ UNCHANGED <<setup, n, pose, streamed, observed, evidence, perch, shown>>

-----------------------------------------------------------------------------
\* The local flight map and the path ahead, in cells from the vehicle.

Grid == -Rear..Forward - 1
Around(S, r) == {x + d : x \in S, d \in -r..r} \cap Grid

\* Mutant of inflate_blocked_cells: the cells are not inflated.
inflate_nothing(occupied) == occupied

inflate_blocked_cells(occupied) == Around(occupied, Inflation)

\* A view of the mission map from the current pose: only cells whose centre is in
\* the grid are projected.
update_from_mission_local_map ==
    inflate_blocked_cells(Around({c - pose.place : c \in cells} \cap Grid, Splat))

Speed == IF pose.speed > MinSpeed THEN pose.speed ELSE MinSpeed
make_forward_trajectory_samples == {k * Speed : k \in 0..Samples}

\* TrajectorySafetyEvaluator::evaluate: samples outside the grid are passed over.
evaluate == make_forward_trajectory_samples \cap update_from_mission_local_map # {}

PerchDue == n % Cadence = 0

\* The rest of run_once(): local flight map, path, perch candidates, publication.
publish ==
    /\ stage = "flight_map" /\ stage' = "frame"
    /\ perch' = IF PerchDue THEN [frame |-> n, places |-> model.evidence] ELSE perch
    /\ shown' = [frame |-> n, world |-> model, blocked |-> evaluate, perch |-> perch', depth |-> evidence]
    /\ observed' = <<>> /\ evidence' = {}
    /\ UNCHANGED <<setup, n, pose, streamed, cells, model>>

WorldNext ==
    \/ pre_warm \/ next_frame \/ process \/ depth_slot_a \/ frame_at \/ provider_throws
    \/ update_world \/ publish

WorldDone == (stage = "failed" \/ (stage = "frame" /\ n = MaxFrames)) /\ UNCHANGED worldVars

WorldSpec == WorldInit /\ [][WorldNext \/ WorldDone]_worldVars

-----------------------------------------------------------------------------
Published == shown # NoSnapshot
Ids(agents) == {agents[i].id : i \in DOMAIN agents}

\* The stages follow one another, and no more objects are streamed than allowed.
WorldTypeOK ==
    /\ stage \in {"start", "frame", "perceive", "depth", "ghosts", "ingest", "flight_map", "failed"}
    /\ n \in 0..MaxFrames /\ cells \subseteq Places /\ evidence \subseteq Places
    /\ \A i \in DOMAIN observed : observed[i].object \in Objects /\ observed[i].at \in Places
    /\ MaxObjects > 0 => Len(streamed) <= MaxObjects

\* The configuration gives every binding, match and detection a track of its own,
\* and none of those the tracker gives; nothing in the program checks it.
WellNamed ==
    /\ Named(Exact) /\ Named(Scenario) /\ \A t \in Tracks : t[1] # "track"
    /\ \A i \in DOMAIN Patterns, o \in Objects :
          /\ \A j \in DOMAIN Patterns, p \in Objects :
                Patterns[i].track[o] = Patterns[j].track[p] => o = p
          /\ \A k \in DOMAIN Exact : Exact[k].track # Patterns[i].track[o]

\* No two agents of a snapshot have one name, when the configuration names them
\* apart: of the patterns that match an object only one has it streamed, although
\* two of them may give it the same track. The object itself may be there twice, as
\* a track of the detector or under a pattern that the child has marked it with.
AgentIdsAreDistinct ==
    Published /\ WellNamed => Cardinality(Ids(shown.world.agents)) = Len(shown.world.agents)

\* An agent stands for the object it stood for in the frame before: the documents
\* call agent_id and source_track_id the stable handles for behaviour. The tracker
\* numbers what is in view, so that a name passes to another object.
AgentKeepsItsObject ==
    [][\A i \in DOMAIN model.agents, j \in DOMAIN model'.agents :
          model.agents[i].id = model'.agents[j].id => model.agents[i].object = model'.agents[j].object]_worldVars

\* The evidence of a snapshot without any from the depth provider: what a camera
\* would have seen of the agents, or the synthetic obstacle.
EmulatedFrom(world) ==
    IF setup.source = "synthetic" THEN {world.ego + d : d \in Synthetic}
    ELSE {p \in {world.agents[i].at : i \in DOMAIN world.agents} : setup.cameras /\ p > world.ego}

\* A published snapshot is one frame throughout: its agents, occupancy and evidence
\* belong to the frame its pose and its timestamp do, whatever an earlier frame left.
SnapshotIsOneFrame ==
    Published =>
        LET world == shown.world
        IN  /\ world.at = shown.frame
            /\ \A i \in DOMAIN world.agents : world.agents[i].frame = shown.frame
            /\ world.occupancy = IF setup.source = "synthetic" THEN {world.ego + d : d \in Synthetic}
                                 ELSE {world.agents[i].at : i \in DOMAIN world.agents}
            /\ world.evidence = IF shown.depth # {} THEN shown.depth ELSE EmulatedFrom(world)

\* A path called clear meets no obstacle: between the vehicle and the last sample
\* within the grid there is no cell that the mission-local map holds as occupied,
\* including those seen in earlier frames from another place.
ClearPathIsClear ==
    Published /\ stage = "frame" /\ ~shown.blocked =>
        \A s \in make_forward_trajectory_samples \cap Grid, c \in cells : c - pose.place \notin 0..s

\* The perch candidates shown are those of one of the last Cadence frames, or none
\* before the first evaluation.
PerchIsRecent ==
    Published => \/ shown.frame < Cadence /\ shown.perch.frame = 0
                 \/ shown.perch.frame \in shown.frame - Cadence + 1..shown.frame
                    /\ shown.perch.frame > 0

\* The snapshot the mission flies by is coherent: of one frame, with agents that can
\* be told apart, and perches no older than the cadence.
WorldIsCoherent == WorldTypeOK /\ AgentIdsAreDistinct /\ SnapshotIsOneFrame /\ PerchIsRecent
=============================================================================
