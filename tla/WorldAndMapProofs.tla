------------------------- MODULE WorldAndMapProofs -------------------------
(***************************************************************************)
(* Proofs about the world model and the path ahead, and about the Level 1  *)
(* maps.                                                                   *)
(***************************************************************************)
EXTENDS WorldModel, LevelOneMap, FiniteSetTheorems, SequenceTheorems, WellFoundedInduction, TLAPS

-----------------------------------------------------------------------------
\* The path ahead.

\* The nearest of the samples k * v to a place x that is not beyond the last.
LEMMA NearestSample ==
    ASSUME NEW R \in Nat, NEW v \in 0..(2 * R + 1), NEW k \in Nat, NEW x \in Nat, x <= k * v
    PROVE  \E m \in 0..k : m * v <= k * v /\ m * v - x <= R /\ x - m * v <= R
<1>1. CASE v = 0
    <2>1. x = 0 /\ 0 * v = 0 /\ k * v = 0
        BY <1>1
    <2> QED BY <2>1
<1>2. CASE v > 0
    <2> DEFINE q == x \div v
               r == x % v
    <2>1. q \in Nat /\ r \in 0..(v - 1) /\ x = v * q + r
        BY <1>2
    <2> HIDE DEF q, r
    <2>2. v * q = q * v /\ (q + 1) * v = q * v + v
        BY <1>2, <2>1
    <2>3. q <= k
        <3> SUFFICES ASSUME k + 1 <= q PROVE FALSE
            BY <2>1
        <3>1. (k + 1) * v <= q * v
            BY <1>2, <2>1
        <3>2. (k + 1) * v = k * v + v /\ k * v \in Nat /\ q * v \in Nat
            BY <1>2, <2>1
        <3> QED BY <1>2, <2>1, <2>2, <3>1, <3>2
    <2>4. CASE r <= R
        <3>1. q * v <= k * v
            BY <1>2, <2>1, <2>3
        <3> QED BY <1>2, <2>1, <2>2, <2>3, <2>4, <3>1
    <2>5. CASE r > R
        <3>1. q # k
            BY <1>2, <2>1, <2>2, <2>5
        <3>2. q + 1 \in 0..k
            BY <2>1, <2>3, <3>1
        <3>3. (q + 1) * v <= k * v
            BY <1>2, <2>1, <3>2
        <3>4. (q + 1) * v - x <= R /\ x - (q + 1) * v <= R
            <4>1. q * v \in Nat
                BY <1>2, <2>1
            <4> QED BY <1>2, <2>1, <2>2, <2>5, <4>1
        <3> QED BY <3>2, <3>3, <3>4
    <2> QED BY <2>1, <2>4, <2>5
<1> QED BY <1>1, <1>2

\* A place in the grid reaches every place of it within both radii together: what
\* is between the two is in the grid as well.
LEMMA InflationReaches ==
    ASSUME NEW x \in Grid, NEW y \in Grid, y - x <= Splat + Inflation, x - y <= Splat + Inflation,
           NEW S, x \in S, S \subseteq Grid
    PROVE  y \in Around(Around(S, Splat), Inflation)
<1>1. Rear \in Nat /\ Forward \in Nat /\ Splat \in Nat /\ Inflation \in Nat
    BY GridAssumption DEF GridAssumption
<1>2. x \in Int /\ y \in Int /\ -Rear <= x /\ x <= Forward - 1 /\ -Rear <= y /\ y <= Forward - 1
    BY <1>1 DEF Grid
<1>3. PICK d \in -Splat..Splat, e \in -Inflation..Inflation :
          y = x + d + e /\ -Rear <= x + d /\ x + d <= Forward - 1
    <2>1. CASE y - x \in -Splat..Splat
        <3>1. y - x \in -Splat..Splat /\ 0 \in -Inflation..Inflation /\ y = x + (y - x) + 0
            BY <1>1, <1>2, <2>1
        <3> QED BY <1>2, <3>1
    <2>2. CASE y - x > Splat
        <3>1. Splat \in -Splat..Splat /\ y - x - Splat \in -Inflation..Inflation
            BY <1>1, <1>2, <2>2
        <3>2. y = x + Splat + (y - x - Splat) /\ -Rear <= x + Splat /\ x + Splat <= Forward - 1
            BY <1>1, <1>2, <2>2
        <3> QED BY <3>1, <3>2
    <2>3. CASE x - y > Splat
        <3>1. -Splat \in -Splat..Splat /\ y - x + Splat \in -Inflation..Inflation
            BY <1>1, <1>2, <2>3
        <3>2. y = x + (-Splat) + (y - x + Splat) /\ -Rear <= x + (-Splat)
              /\ x + (-Splat) <= Forward - 1
            BY <1>1, <1>2, <2>3
        <3> QED BY <3>1, <3>2
    <2> QED BY <1>1, <1>2, <2>1, <2>2, <2>3
<1>4. x + d \in Grid
    BY <1>1, <1>2, <1>3 DEF Grid
<1>5. x + d \in Around(S, Splat)
    BY <1>3, <1>4 DEF Around
<1>6. y = (x + d) + e
    BY <1>3
<1> QED BY <1>3, <1>5, <1>6 DEF Around

\* Where the vehicle and the obstacles are.
PlacesSound ==
    /\ pose \in [place : Int, speed : Speeds \cup {0}]
    /\ evidence \subseteq Places /\ cells \subseteq Places

\* The verdict of a published snapshot is that on the current pose and map.
VerdictIsCurrent ==
    /\ stage = "start" => shown = NoSnapshot
    /\ Published /\ stage = "frame" => shown.blocked = evaluate

\* An occupied cell at or before a sample within the grid blocks the path.
LEMMA ObstacleBlocks ==
    ASSUME PlacesSound, NEW s \in make_forward_trajectory_samples \cap Grid, NEW c \in cells,
           c - pose.place \in 0..s
    PROVE  evaluate
<1>1. /\ Rear \in Nat /\ Forward \in Nat \ {0} /\ Splat \in Nat /\ Inflation \in Nat
      /\ Samples \in Nat
    BY GridAssumption DEF GridAssumption
<1> DEFINE x == c - pose.place
           R == Splat + Inflation
<1>2. x \in Nat /\ x <= s
    <2>1. c \in Int /\ pose.place \in Int
        BY PlacesAssumption DEF PlacesSound, PlacesAssumption
    <2>2. s \in Int
        BY <1>1 DEF Grid
    <2> QED BY <2>1, <2>2
<1>3. Speed \in 0..(2 * R + 1)
    <2>1. \A v \in Speeds \cup {MinSpeed} : v \in 0..(2 * R + 1)
        BY SpeedAssumption DEF SpeedAssumption
    <2>2. 0 \in 0..(2 * R + 1)
        BY <1>1
    <2>3. pose.speed \in 0..(2 * R + 1) /\ MinSpeed \in 0..(2 * R + 1)
        BY <2>1, <2>2 DEF PlacesSound
    <2> QED BY <2>3 DEF Speed
<1>4. PICK k \in 0..Samples : s = k * Speed
    BY DEF make_forward_trajectory_samples
<1>5. R \in Nat /\ k \in Nat
    BY <1>1, <1>4
<1> HIDE DEF x, R
<1>6. PICK m \in 0..k : m * Speed <= k * Speed /\ m * Speed - x <= R /\ x - m * Speed <= R
    BY <1>2, <1>3, <1>4, <1>5, NearestSample
<1> DEFINE y == m * Speed
<1>7. y \in make_forward_trajectory_samples
    <2>1. m \in 0..Samples
        BY <1>1, <1>4, <1>6
    <2> QED BY <2>1 DEF make_forward_trajectory_samples
<1>8. s \in -Rear..(Forward - 1)
    BY DEF Grid
<1>9. y \in Nat /\ y <= s
    <2>1. Speed \in Nat /\ m \in Nat
        BY <1>3, <1>5, <1>6
    <2> QED BY <1>4, <1>6, <2>1
<1> HIDE DEF y
<1>10. x \in Grid /\ y \in Grid
    BY <1>1, <1>2, <1>8, <1>9 DEF Grid
<1>11. y - x <= Splat + Inflation /\ x - y <= Splat + Inflation
    BY <1>6 DEF y, R
<1> DEFINE S == {d - pose.place : d \in cells} \cap Grid
<1>12. x \in S /\ S \subseteq Grid
    BY <1>10 DEF x
<1> HIDE DEF S
<1>13. y \in Around(Around(S, Splat), Inflation)
    BY <1>10, <1>11, <1>12, InflationReaches
<1>14. y \in update_from_mission_local_map
    BY <1>13 DEF update_from_mission_local_map, inflate_blocked_cells, S
<1> QED BY <1>7, <1>14 DEF evaluate

\* Where things are is sound and the verdict current initially.
LEMMA PathSafeInit == WorldInit => PlacesSound /\ VerdictIsCurrent
BY DEF WorldInit, PlacesSound, VerdictIsCurrent, Published

\* The two are inductive.
LEMMA PathSafeStep ==
    ASSUME PlacesSound, VerdictIsCurrent, [WorldNext \/ WorldDone]_worldVars
    PROVE  (PlacesSound /\ VerdictIsCurrent)'
<1>1. CASE pre_warm
    BY <1>1 DEF pre_warm, PlacesSound, VerdictIsCurrent, Published
<1>2. CASE next_frame
    BY <1>2, PlacesAssumption
       DEF next_frame, PlacesSound, VerdictIsCurrent, PlacesAssumption
<1>3. CASE process
    BY <1>3 DEF process, PlacesSound, VerdictIsCurrent
<1>4. CASE depth_slot_a
    BY <1>4 DEF depth_slot_a, PlacesSound, VerdictIsCurrent
<1>5. CASE frame_at
    BY <1>5 DEF frame_at, PlacesSound, VerdictIsCurrent
<1>6. CASE provider_throws
    BY <1>6 DEF provider_throws, PlacesSound, VerdictIsCurrent
<1>7. CASE update_world
    BY <1>7 DEF update_world, PlacesSound, VerdictIsCurrent
<1>8. CASE publish
    <2>1. UNCHANGED <<pose, cells>> /\ evidence' = {} /\ stage' = "frame"
        BY <1>8 DEF publish
    <2>2. evaluate' = evaluate
        BY <2>1 DEF evaluate, make_forward_trajectory_samples, Speed,
                    update_from_mission_local_map, inflate_blocked_cells
    <2>3. shown'.blocked = evaluate
        BY <1>8 DEF publish
    <2> QED BY <2>1, <2>2, <2>3 DEF PlacesSound, VerdictIsCurrent
<1>9. CASE UNCHANGED worldVars
    <2>1. UNCHANGED <<stage, pose, evidence, cells, shown>>
        BY <1>9 DEF worldVars
    <2>2. evaluate' = evaluate
        BY <2>1 DEF evaluate, make_forward_trajectory_samples, Speed,
                    update_from_mission_local_map, inflate_blocked_cells
    <2>3. PlacesSound'
        BY <2>1 DEF PlacesSound
    <2>4. VerdictIsCurrent'
        BY <2>1, <2>2 DEF VerdictIsCurrent, Published
    <2> QED BY <2>3, <2>4
<1> QED BY <1>1, <1>2, <1>3, <1>4, <1>5, <1>6, <1>7, <1>8, <1>9 DEF WorldNext, WorldDone

\* For every speed, number of samples, grid and radii for which two samples leave no
\* gap that an inflated obstacle fits between: a path the trajectory safety
\* evaluator calls clear has no cell of the mission-local map on it, up to the last
\* sample within the grid.
THEOREM PathCalledClearIsClear == WorldSpec => []ClearPathIsClear
<1>1. PlacesSound /\ VerdictIsCurrent => ClearPathIsClear
    <2> SUFFICES ASSUME PlacesSound, VerdictIsCurrent, Published, stage = "frame", ~shown.blocked,
                        NEW s \in make_forward_trajectory_samples \cap Grid, NEW c \in cells
                 PROVE  c - pose.place \notin 0..s
        BY DEF ClearPathIsClear
    <2>1. ~evaluate
        BY DEF VerdictIsCurrent
    <2> QED BY <2>1, ObstacleBlocks
<1> QED BY <1>1, PathSafeInit, PathSafeStep, PTL DEF WorldSpec

-----------------------------------------------------------------------------
\* Induction and recursion over the natural numbers, for sets and functions.

\* A set of naturals has a least element.
LEMMA LeastNat ==
    ASSUME NEW S \in SUBSET Nat, S # {}
    PROVE  \E m \in S : \A k \in S : m <= k
<1> DEFINE R == OpToRel(<, Nat)
<1>1. IsWellFoundedOn(R, Nat)
    BY NatLessThanWellFounded
<1>2. \A x, y \in Nat : y < x => <<y, x>> \in R
    BY DEF OpToRel
<1> HIDE DEF R
<1>3. PICK x \in S : \A y \in S : ~ (<<y, x>> \in R)
    BY <1>1, WFMin
<1>4. \A y \in S : x <= y
    <2> TAKE y \in S
    <2>1. x \in Nat /\ y \in Nat /\ ~(y < x)
        BY <1>2, <1>3
    <2> QED BY <2>1
<1> QED BY <1>4

\* A set that holds 0 and with every number the next holds them all.
LEMMA AllNats ==
    ASSUME NEW S, 0 \in S, \A m \in Nat : m \in S => m + 1 \in S
    PROVE  \A m \in Nat : m \in S
<1> SUFFICES ASSUME NEW m \in Nat, m \notin S PROVE FALSE
    OBVIOUS
<1> DEFINE T == {k \in Nat : k \notin S}
<1>1. T \in SUBSET Nat /\ T # {}
    OBVIOUS
<1>2. PICK l \in T : \A k \in T : l <= k
    BY <1>1, LeastNat
<1>3. l \in Nat /\ l \notin S /\ l # 0
    BY <1>2
<1>4. l - 1 \in Nat /\ l - 1 \notin T
    BY <1>2, <1>3
<1> QED BY <1>3, <1>4

\* g is the first m steps of h from b.
StepsOf(g, m, b, h) == g = [k \in 0..m |-> IF k = 0 THEN b ELSE h[<<g[k - 1], k>>]]

\* What is defined step by step up to a number exists.
LEMMA StepsExist ==
    ASSUME NEW b, NEW h
    PROVE  \A m \in Nat : \E g : StepsOf(g, m, b, h)
<1> DEFINE S == {m \in Nat : \E g : StepsOf(g, m, b, h)}
<1>1. 0 \in S
    <2> DEFINE g == [k \in 0..0 |-> b]
    <2>1. StepsOf(g, 0, b, h)
        BY DEF StepsOf
    <2> QED BY <2>1
<1>2. ASSUME NEW m \in Nat, m \in S PROVE m + 1 \in S
    <2>1. PICK g : StepsOf(g, m, b, h)
        BY <1>2
    <2> DEFINE f == [k \in 0..(m + 1) |-> IF k <= m THEN g[k] ELSE h[<<g[m], m + 1>>]]
    <2>2. \A k \in 0..m : g[k] = IF k = 0 THEN b ELSE h[<<g[k - 1], k>>]
        BY <2>1 DEF StepsOf
    <2>3. \A k \in 0..m : f[k] = g[k]
        OBVIOUS
    <2>4. f[m + 1] = h[<<g[m], m + 1>>]
        OBVIOUS
    <2>5. ASSUME NEW k \in 0..(m + 1) PROVE f[k] = IF k = 0 THEN b ELSE h[<<f[k - 1], k>>]
        <3>1. CASE k = 0
            <4>1. 0 \in 0..m
                OBVIOUS
            <4>2. g[0] = b
                BY <2>2, <4>1
            <4>3. f[0] = b
                BY <2>3, <4>1, <4>2
            <4> HIDE DEF f
            <4> QED BY <3>1, <4>3
        <3>2. CASE k \in 1..m
            <4>1. k \in 0..m /\ k - 1 \in 0..m /\ k # 0
                BY <3>2
            <4>2. f[k] = g[k] /\ f[k - 1] = g[k - 1]
                BY <2>3, <4>1
            <4>3. g[k] = h[<<g[k - 1], k>>]
                BY <2>2, <4>1
            <4> HIDE DEF f
            <4> QED BY <4>1, <4>2, <4>3
        <3>3. CASE k = m + 1
            <4>1. k # 0 /\ k - 1 = m /\ m \in 0..m
                BY <3>3
            <4>2. f[k - 1] = g[m]
                BY <2>3, <4>1
            <4> HIDE DEF f
            <4> QED BY <2>4, <3>3, <4>1, <4>2
        <3> QED BY <3>1, <3>2, <3>3
    <2>6. f = [k \in 0..(m + 1) |-> IF k = 0 THEN b ELSE h[<<f[k - 1], k>>]]
        <3>1. f = [k \in 0..(m + 1) |-> f[k]]
            OBVIOUS
        <3> HIDE DEF f
        <3> QED BY <2>5, <3>1
    <2>7. StepsOf(f, m + 1, b, h)
        BY <2>6 DEF StepsOf
    <2> HIDE DEF f
    <2> QED BY <2>7
<1> HIDE DEF S
<1>3. \A m \in Nat : m \in S
    BY <1>1, <1>2, AllNats
<1> QED BY <1>3 DEF S

\* What holds of the first step, and of each with the one before, holds of the last.
LEMMA StepsKeep ==
    ASSUME NEW m \in Nat, NEW g, NEW P, g[0] \in P,
           \A k \in 0..(m - 1) : g[k] \in P => g[k + 1] \in P
    PROVE  \A k \in 0..m : g[k] \in P
<1> DEFINE S == {k \in Nat : k <= m => g[k] \in P}
<1>1. 0 \in S
    OBVIOUS
<1>2. ASSUME NEW k \in Nat, k \in S PROVE k + 1 \in S
    <2> SUFFICES ASSUME k + 1 <= m PROVE g[k + 1] \in P
        OBVIOUS
    <2>1. k \in 0..(m - 1) /\ k <= m
        OBVIOUS
    <2> QED BY <1>2, <2>1
<1> HIDE DEF S
<1>3. \A k \in Nat : k \in S
    BY <1>1, <1>2, AllNats
<1> QED BY <1>3 DEF S

-----------------------------------------------------------------------------
\* Sequences made of the members of others.

\* t takes its members from S and from the places loc of s up to k, no place twice.
Takes(t, s, S, loc, k) ==
    /\ loc \in [1..Len(t) -> 1..k] /\ IsInjective(loc)
    /\ \A j \in 1..Len(t) : t[j] = s[loc[j]] /\ t[j] \in S

\* One more member.
LEMMA TakesOneMore ==
    ASSUME NEW T, NEW t \in Seq(T), NEW s, NEW S, NEW k \in Nat, NEW loc, Takes(t, s, S, loc, k),
           s[k + 1] \in S, s[k + 1] \in T
    PROVE  \E new : Takes(Append(t, s[k + 1]), s, S, new, k + 1)
<1> DEFINE u == Append(t, s[k + 1])
           new == [j \in 1..(Len(t) + 1) |-> IF j = Len(t) + 1 THEN k + 1 ELSE loc[j]]
<1>1. Len(t) \in Nat /\ Len(u) = Len(t) + 1 /\ u[Len(t) + 1] = s[k + 1]
      /\ \A j \in 1..Len(t) : u[j] = t[j]
    OBVIOUS
<1>2. /\ loc \in [1..Len(t) -> 1..k]
      /\ \A j \in 1..Len(t) : t[j] = s[loc[j]] /\ t[j] \in S
      /\ \A i, j \in 1..Len(t) : loc[i] = loc[j] => i = j
    BY DEF Takes, IsInjective
<1>3. new[Len(t) + 1] = k + 1 /\ \A j \in 1..Len(t) : new[j] = loc[j] /\ new[j] \in 1..k
    BY <1>1, <1>2
<1>4. new \in [1..(Len(t) + 1) -> 1..(k + 1)]
    <2>1. ASSUME NEW j \in 1..(Len(t) + 1) PROVE new[j] \in 1..(k + 1)
        <3>1. j = Len(t) + 1 \/ j \in 1..Len(t)
            BY <1>1
        <3> HIDE DEF new
        <3> QED BY <1>3, <3>1
    <2> QED BY <2>1
<1>5. DOMAIN new = 1..(Len(t) + 1)
    OBVIOUS
<1> HIDE DEF new, u
<1>6. ASSUME NEW i \in 1..(Len(t) + 1), NEW j \in 1..(Len(t) + 1), new[i] = new[j] PROVE i = j
    <2>1. \A l \in 1..(Len(t) + 1) : l = Len(t) + 1 \/ l \in 1..Len(t)
        BY <1>1
    <2>2. \A l \in 1..Len(t) : new[l] # k + 1
        BY <1>3
    <2> QED BY <1>2, <1>3, <1>6, <2>1, <2>2
<1>7. IsInjective(new)
    BY <1>5, <1>6 DEF IsInjective
<1>8. ASSUME NEW j \in 1..(Len(t) + 1) PROVE u[j] = s[new[j]] /\ u[j] \in S
    <2>1. CASE j = Len(t) + 1
        BY <1>1, <1>3, <2>1
    <2>2. CASE j \in 1..Len(t)
        BY <1>1, <1>2, <1>3, <2>2
    <2> QED BY <1>1, <2>1, <2>2
<1>9. Takes(u, s, S, new, k + 1)
    BY <1>1, <1>4, <1>7, <1>8 DEF Takes
<1> QED BY <1>9 DEF u

\* Only(s, S) takes members of s that are in S.
LEMMA OnlyTakes ==
    ASSUME NEW T, NEW s \in Seq(T), NEW S
    PROVE  /\ Only(s, S) \in Seq(T)
           /\ \E loc : Takes(Only(s, S), s, S, loc, Len(s))
<1> DEFINE h == [p \in Seq(T) \X Nat |-> IF p[2] \in 1..Len(s) /\ s[p[2]] \in S
                                         THEN Append(p[1], s[p[2]]) ELSE p[1]]
           Steps(g) == g = [i \in 0..Len(s) |->
                              IF i = 0 THEN <<>>
                              ELSE IF s[i] \in S THEN Append(g[i - 1], s[i]) ELSE g[i - 1]]
           pick == CHOOSE g : Steps(g)
<1>0. Len(s) \in Nat /\ \A k \in 1..Len(s) : s[k] \in T
    OBVIOUS
<1>1. \E g : Steps(g)
    <2>1. PICK g : StepsOf(g, Len(s), <<>>, h)
        BY <1>0, StepsExist
    <2>2. \A k \in 0..Len(s) : g[k] = IF k = 0 THEN <<>> ELSE h[<<g[k - 1], k>>]
        BY <2>1 DEF StepsOf
    <2>3. \A v \in Seq(T), k \in 1..Len(s) : h[<<v, k>>] = IF s[k] \in S THEN Append(v, s[k]) ELSE v
        BY <1>0
    <2>4. g[0] \in Seq(T)
        <3>1. 0 \in 0..Len(s)
            BY <1>0
        <3>2. g[0] = <<>>
            BY <2>2, <3>1
        <3> QED BY <3>2
    <2>5. ASSUME NEW k \in 0..(Len(s) - 1), g[k] \in Seq(T) PROVE g[k + 1] \in Seq(T)
        <3>1. k + 1 \in 1..Len(s) /\ k + 1 \in 0..Len(s) /\ (k + 1) - 1 = k /\ k + 1 # 0
            BY <1>0
        <3>2. g[k + 1] = h[<<g[k], k + 1>>]
            BY <2>2, <3>1
        <3>3. g[k + 1] = IF s[k + 1] \in S THEN Append(g[k], s[k + 1]) ELSE g[k]
            BY <2>3, <2>5, <3>1, <3>2
        <3>4. s[k + 1] \in T
            BY <1>0, <3>1
        <3> HIDE DEF h
        <3> QED BY <2>5, <3>3, <3>4
    <2> HIDE DEF h
    <2>6. \A k \in 0..Len(s) : g[k] \in Seq(T)
        <3> DEFINE P == Seq(T)
        <3>1. g[0] \in P /\ \A k \in 0..(Len(s) - 1) : g[k] \in P => g[k + 1] \in P
            BY <2>4, <2>5
        <3> HIDE DEF P
        <3>2. \A k \in 0..Len(s) : g[k] \in P
            BY <1>0, <3>1, StepsKeep
        <3> QED BY <3>2 DEF P
    <2>7. ASSUME NEW k \in 0..Len(s)
          PROVE  g[k] = IF k = 0 THEN <<>>
                        ELSE IF s[k] \in S THEN Append(g[k - 1], s[k]) ELSE g[k - 1]
        <3>1. CASE k = 0
            BY <2>2, <3>1
        <3>2. CASE k # 0
            <4>1. k \in 1..Len(s) /\ k - 1 \in 0..Len(s)
                BY <1>0, <3>2
            <4>2. g[k - 1] \in Seq(T)
                BY <2>6, <4>1
            <4> QED BY <2>2, <2>3, <3>2, <4>1, <4>2
        <3> QED BY <3>1, <3>2
    <2>8. g = [k \in 0..Len(s) |-> g[k]]
        BY <2>1 DEF StepsOf
    <2>9. Steps(g)
        BY <2>7, <2>8
    <2> QED BY <2>9
<1>2. Only(s, S) = pick[Len(s)]
    BY DEF Only
<1>3. Steps(pick)
    <2> HIDE DEF Steps
    <2> QED BY <1>1
<1> HIDE DEF pick, h
<1>4. \A k \in 0..Len(s) : pick[k] = IF k = 0 THEN <<>>
                                     ELSE IF s[k] \in S THEN Append(pick[k - 1], s[k]) ELSE pick[k - 1]
    BY <1>3
<1> HIDE DEF Steps
<1> DEFINE Good(k) == pick[k] \in Seq(T) /\ \E loc : Takes(pick[k], s, S, loc, k)
           N == {k \in Nat : k <= Len(s) => Good(k)}
<1>5. 0 \in N
    <2>1. pick[0] = <<>>
        <3>1. 0 \in 0..Len(s)
            BY <1>0
        <3> QED BY <1>4, <3>1
    <2>2. Takes(<<>>, s, S, <<>>, 0)
        <3>1. Len(<<>>) = 0 /\ 1..0 = {} /\ DOMAIN <<>> = {}
            OBVIOUS
        <3>2. <<>> \in [1..0 -> 1..0]
            OBVIOUS
        <3> QED BY <3>1, <3>2 DEF Takes, IsInjective
    <2>3. <<>> \in Seq(T)
        OBVIOUS
    <2>4. Good(0)
        BY <2>1, <2>2, <2>3
    <2> HIDE DEF Good
    <2> QED BY <2>4
<1>6. ASSUME NEW k \in Nat, k \in N PROVE k + 1 \in N
    <2> SUFFICES ASSUME k + 1 <= Len(s) PROVE Good(k + 1)
        <3> HIDE DEF Good
        <3> QED OBVIOUS
    <2>1. Good(k)
        <3> HIDE DEF Good
        <3> QED BY <1>0, <1>6
    <2>2. k + 1 \in 0..Len(s) /\ (k + 1) - 1 = k /\ k + 1 # 0 /\ k + 1 \in 1..Len(s)
        BY <1>0
    <2>3. pick[k + 1] = IF s[k + 1] \in S THEN Append(pick[k], s[k + 1]) ELSE pick[k]
        BY <1>4, <2>2
    <2>4. PICK loc : Takes(pick[k], s, S, loc, k)
        BY <2>1
    <2>5. s[k + 1] \in T
        BY <1>0, <2>2
    <2>6. CASE s[k + 1] \in S
        <3>1. pick[k + 1] = Append(pick[k], s[k + 1])
            BY <2>3, <2>6
        <3>2. \E new : Takes(Append(pick[k], s[k + 1]), s, S, new, k + 1)
            BY <2>1, <2>4, <2>5, <2>6, TakesOneMore
        <3>3. pick[k + 1] \in Seq(T)
            BY <2>1, <2>5, <3>1
        <3> QED BY <3>1, <3>2, <3>3
    <2>7. CASE s[k + 1] \notin S
        <3>1. pick[k + 1] = pick[k]
            BY <2>3, <2>7
        <3>2. Takes(pick[k], s, S, loc, k + 1)
            <4>1. loc \in [1..Len(pick[k]) -> 1..(k + 1)]
                BY <2>4 DEF Takes
            <4> QED BY <2>4, <4>1 DEF Takes
        <3> QED BY <2>1, <3>1, <3>2
    <2> QED BY <2>6, <2>7
<1> HIDE DEF N
<1>7. \A k \in Nat : k \in N
    BY <1>5, <1>6, AllNats
<1>8. Good(Len(s))
    <2> HIDE DEF Good
    <2> QED BY <1>0, <1>7 DEF N
<1> QED BY <1>2, <1>8

\* The j-th member of t is that in column col[j] of row row[j], no place twice.
Lists(t, rows, row, col, k) ==
    /\ row \in [1..Len(t) -> 1..k] /\ col \in [1..Len(t) -> Nat]
    /\ \A j \in 1..Len(t) : col[j] \in 1..Len(rows[row[j]]) /\ t[j] = rows[row[j]][col[j]]
    /\ \A i, j \in 1..Len(t) : row[i] = row[j] /\ col[i] = col[j] => i = j

\* One more row.
LEMMA ListsOneMore ==
    ASSUME NEW T, NEW t \in Seq(T), NEW rows, NEW k \in Nat, NEW row, NEW col,
           Lists(t, rows, row, col, k), rows[k + 1] \in Seq(T)
    PROVE  \E r, c : Lists(t \o rows[k + 1], rows, r, c, k + 1)
<1> DEFINE e == rows[k + 1]
           u == t \o e
           r == [j \in 1..(Len(t) + Len(e)) |-> IF j > Len(t) THEN k + 1 ELSE row[j]]
           c == [j \in 1..(Len(t) + Len(e)) |-> IF j > Len(t) THEN j - Len(t) ELSE col[j]]
<1>1. Len(t) \in Nat /\ Len(e) \in Nat /\ Len(u) = Len(t) + Len(e)
    OBVIOUS
<1>2. \A j \in 1..Len(t) : u[j] = t[j]
    OBVIOUS
<1>3. \A j \in (Len(t) + 1)..(Len(t) + Len(e)) : u[j] = e[j - Len(t)]
    BY <1>1
<1>4. /\ row \in [1..Len(t) -> 1..k] /\ col \in [1..Len(t) -> Nat]
      /\ \A j \in 1..Len(t) : col[j] \in 1..Len(rows[row[j]]) /\ t[j] = rows[row[j]][col[j]]
      /\ \A i, j \in 1..Len(t) : row[i] = row[j] /\ col[i] = col[j] => i = j
    BY DEF Lists
<1>5. \A j \in 1..Len(t) : r[j] = row[j] /\ c[j] = col[j] /\ r[j] \in 1..k /\ c[j] \in Nat
    <2> TAKE j \in 1..Len(t)
    <2>1. j \in 1..(Len(t) + Len(e)) /\ ~(j > Len(t))
        BY <1>1
    <2>2. r[j] = row[j] /\ c[j] = col[j]
        BY <2>1
    <2> HIDE DEF r, c
    <2> QED BY <1>4, <2>2
<1>6. \A j \in (Len(t) + 1)..(Len(t) + Len(e)) :
          r[j] = k + 1 /\ c[j] = j - Len(t) /\ c[j] \in Nat /\ c[j] \in 1..Len(e)
    BY <1>1
<1>7. \A j \in 1..(Len(t) + Len(e)) : j \in 1..Len(t) \/ j \in (Len(t) + 1)..(Len(t) + Len(e))
    BY <1>1
<1>8. r = [j \in 1..(Len(t) + Len(e)) |-> r[j]] /\ c = [j \in 1..(Len(t) + Len(e)) |-> c[j]]
    OBVIOUS
<1> HIDE DEF r, c, u, e
<1>9. r \in [1..(Len(t) + Len(e)) -> 1..(k + 1)] /\ c \in [1..(Len(t) + Len(e)) -> Nat]
    <2>1. \A j \in 1..(Len(t) + Len(e)) : r[j] \in 1..(k + 1) /\ c[j] \in Nat
        BY <1>5, <1>6, <1>7
    <2> QED BY <1>8, <2>1
<1>10. ASSUME NEW j \in 1..(Len(t) + Len(e))
       PROVE  c[j] \in 1..Len(rows[r[j]]) /\ u[j] = rows[r[j]][c[j]]
    <2>1. CASE j \in 1..Len(t)
        BY <1>2, <1>4, <1>5, <2>1
    <2>2. CASE j \in (Len(t) + 1)..(Len(t) + Len(e))
        BY <1>3, <1>6, <2>2 DEF e
    <2> QED BY <1>7, <2>1, <2>2
<1>11. ASSUME NEW i \in 1..(Len(t) + Len(e)), NEW j \in 1..(Len(t) + Len(e)),
              r[i] = r[j], c[i] = c[j]
       PROVE  i = j
    <2>1. CASE i \in 1..Len(t) /\ j \in 1..Len(t)
        BY <1>4, <1>5, <1>11, <2>1
    <2>2. CASE i \in 1..Len(t) /\ j \in (Len(t) + 1)..(Len(t) + Len(e))
        BY <1>5, <1>6, <1>11, <2>2
    <2>3. CASE i \in (Len(t) + 1)..(Len(t) + Len(e)) /\ j \in 1..Len(t)
        BY <1>5, <1>6, <1>11, <2>3
    <2>4. CASE i \in (Len(t) + 1)..(Len(t) + Len(e)) /\ j \in (Len(t) + 1)..(Len(t) + Len(e))
        BY <1>1, <1>6, <1>11, <2>4
    <2> QED BY <1>7, <2>1, <2>2, <2>3, <2>4
<1>12. Lists(u, rows, r, c, k + 1)
    BY <1>1, <1>9, <1>10, <1>11 DEF Lists
<1> QED BY <1>12 DEF u, e

\* FlattenSeq lists the members of the rows.
LEMMA FlattenLists ==
    ASSUME NEW T, NEW rows \in Seq(Seq(T))
    PROVE  /\ FlattenSeq(rows) \in Seq(T)
           /\ \E row, col : Lists(FlattenSeq(rows), rows, row, col, Len(rows))
<1>0. Len(rows) \in Nat /\ \A k \in 1..Len(rows) : rows[k] \in Seq(T)
    OBVIOUS
<1>1. CASE Len(rows) = 0
    <2>1. FlattenSeq(rows) = <<>>
        BY <1>1 DEF FlattenSeq
    <2>2. Len(<<>>) = 0 /\ 1..0 = {} /\ <<>> \in Seq(T)
        OBVIOUS
    <2>3. <<>> \in [1..0 -> 1..Len(rows)] /\ <<>> \in [1..0 -> Nat]
        OBVIOUS
    <2>4. Lists(<<>>, rows, <<>>, <<>>, Len(rows))
        BY <2>2, <2>3 DEF Lists
    <2> QED BY <2>1, <2>2, <2>4
<1>2. CASE Len(rows) # 0
    <2> DEFINE n1 == Len(rows) - 1
               h == [p \in Seq(T) \X Nat |-> IF p[2] \in 1..n1 THEN p[1] \o rows[p[2] + 1] ELSE p[1]]
               Steps(g) == g = [i \in 1..Len(rows) |-> IF i = 1 THEN rows[i] ELSE g[i - 1] \o rows[i]]
               flatten == CHOOSE g : Steps(g)
    <2>1. n1 \in Nat
        BY <1>0, <1>2
    <2>2. \E g : Steps(g)
        <3>1. PICK f : StepsOf(f, n1, rows[1], h)
            BY <2>1, StepsExist
        <3>2. \A k \in 0..n1 : f[k] = IF k = 0 THEN rows[1] ELSE h[<<f[k - 1], k>>]
            BY <3>1 DEF StepsOf
        <3>3. \A v \in Seq(T), k \in 1..n1 : h[<<v, k>>] = v \o rows[k + 1]
            <4> HIDE DEF n1
            <4> TAKE v \in Seq(T), k \in 1..n1
            <4>1. <<v, k>> \in Seq(T) \X Nat /\ <<v, k>>[1] = v /\ <<v, k>>[2] = k
                BY <2>1
            <4>2. h[<<v, k>>] = IF <<v, k>>[2] \in 1..n1 THEN <<v, k>>[1] \o rows[<<v, k>>[2] + 1]
                               ELSE <<v, k>>[1]
                BY <4>1
            <4> QED BY <4>1, <4>2
        <3>4. f[0] \in Seq(T)
            <4>1. 0 \in 0..n1 /\ 1 \in 1..Len(rows)
                BY <1>0, <2>1
            <4>2. f[0] = rows[1]
                BY <3>2, <4>1
            <4> QED BY <1>0, <4>1, <4>2
        <3>5. ASSUME NEW k \in 0..(n1 - 1), f[k] \in Seq(T) PROVE f[k + 1] \in Seq(T)
            <4>1. k + 1 \in 1..n1 /\ k + 1 \in 0..n1 /\ (k + 1) - 1 = k /\ k + 1 # 0
                  /\ (k + 1) + 1 \in 1..Len(rows)
                BY <1>0, <2>1
            <4>2. f[k + 1] = h[<<f[k], k + 1>>]
                BY <3>2, <4>1
            <4>3. f[k + 1] = f[k] \o rows[(k + 1) + 1]
                BY <3>3, <3>5, <4>1, <4>2
            <4>4. rows[(k + 1) + 1] \in Seq(T)
                BY <1>0, <4>1
            <4> HIDE DEF h, n1
            <4> QED BY <3>5, <4>3, <4>4
        <3> HIDE DEF h
        <3>6. \A k \in 0..n1 : f[k] \in Seq(T)
            <4> DEFINE P == Seq(T)
            <4>1. f[0] \in P /\ \A k \in 0..(n1 - 1) : f[k] \in P => f[k + 1] \in P
                BY <3>4, <3>5
            <4> HIDE DEF P, n1
            <4>2. \A k \in 0..n1 : f[k] \in P
                BY <2>1, <4>1, StepsKeep
            <4> QED BY <4>2 DEF P
        <3> DEFINE g == [i \in 1..Len(rows) |-> f[i - 1]]
        <3>7. ASSUME NEW i \in 1..Len(rows)
              PROVE  g[i] = IF i = 1 THEN rows[i] ELSE g[i - 1] \o rows[i]
            <4>1. CASE i = 1
                <5>1. 0 \in 0..n1 /\ i - 1 = 0
                    BY <2>1, <4>1
                <5>2. f[i - 1] = rows[1]
                    BY <3>2, <5>1
                <5> QED BY <4>1, <5>2
            <4>2. CASE i # 1
                <5>1. i - 1 \in 1..n1 /\ i - 1 \in 0..n1 /\ i - 1 # 0 /\ (i - 1) - 1 \in 0..n1
                      /\ (i - 1) + 1 = i /\ i - 1 \in 1..Len(rows)
                    BY <1>0, <2>1, <4>2
                <5>2. f[i - 1] = h[<<f[(i - 1) - 1], i - 1>>]
                    BY <3>2, <5>1
                <5>3. f[(i - 1) - 1] \in Seq(T)
                    BY <3>6, <5>1
                <5>4. f[i - 1] = f[(i - 1) - 1] \o rows[i]
                    BY <3>3, <5>1, <5>2, <5>3
                <5>5. g[i] = f[i - 1] /\ g[i - 1] = f[(i - 1) - 1]
                    BY <5>1
                <5> HIDE DEF g
                <5> QED BY <4>2, <5>4, <5>5
            <4> QED BY <4>1, <4>2
        <3>8. g = [i \in 1..Len(rows) |-> g[i]]
            OBVIOUS
        <3> HIDE DEF g
        <3>9. Steps(g)
            BY <3>7, <3>8
        <3> QED BY <3>9
    <2>3. FlattenSeq(rows) = flatten[Len(rows)]
        BY <1>2 DEF FlattenSeq
    <2>4. Steps(flatten)
        <3> HIDE DEF Steps
        <3> QED BY <2>2
    <2> HIDE DEF flatten, h
    <2>5. \A i \in 1..Len(rows) : flatten[i] = IF i = 1 THEN rows[i] ELSE flatten[i - 1] \o rows[i]
        BY <2>4
    <2> HIDE DEF Steps
    <2> DEFINE Good(k) == flatten[k] \in Seq(T) /\ \E row, col : Lists(flatten[k], rows, row, col, k)
               N == {k \in Nat : k + 1 <= Len(rows) => Good(k + 1)}
    <2>6. 0 \in N
        <3>1. 1 \in 1..Len(rows)
            BY <1>0, <1>2
        <3> DEFINE e == rows[1]
        <3>2. flatten[1] = e /\ e \in Seq(T) /\ Len(e) \in Nat
            BY <1>0, <2>5, <3>1
        <3> DEFINE row == [j \in 1..Len(e) |-> 1]
                   col == [j \in 1..Len(e) |-> j]
        <3>3. Lists(e, rows, row, col, 1)
            <4>1. row \in [1..Len(e) -> 1..1] /\ col \in [1..Len(e) -> Nat]
                BY <3>2
            <4>2. \A j \in 1..Len(e) : row[j] = 1 /\ col[j] = j
                OBVIOUS
            <4> HIDE DEF row, col
            <4> QED BY <4>1, <4>2 DEF Lists
        <3> HIDE DEF row, col, e
        <3>4. Good(1)
            BY <3>2, <3>3
        <3> HIDE DEF Good
        <3> QED BY <3>4
    <2>7. ASSUME NEW k \in Nat, k \in N PROVE k + 1 \in N
        <3> SUFFICES ASSUME (k + 1) + 1 <= Len(rows) PROVE Good((k + 1) + 1)
            <4> HIDE DEF Good
            <4> QED OBVIOUS
        <3>1. Good(k + 1)
            <4> HIDE DEF Good
            <4> QED BY <1>0, <2>7
        <3>2. (k + 1) + 1 \in 1..Len(rows) /\ (k + 1) + 1 # 1 /\ ((k + 1) + 1) - 1 = k + 1
              /\ k + 1 \in Nat
            BY <1>0
        <3>3. flatten[(k + 1) + 1] = flatten[k + 1] \o rows[(k + 1) + 1]
            BY <2>5, <3>2
        <3>4. rows[(k + 1) + 1] \in Seq(T)
            BY <1>0, <3>2
        <3>5. PICK row, col : Lists(flatten[k + 1], rows, row, col, k + 1)
            BY <3>1
        <3>6. \E r, c : Lists(flatten[k + 1] \o rows[(k + 1) + 1], rows, r, c, (k + 1) + 1)
            BY <3>1, <3>2, <3>4, <3>5, ListsOneMore
        <3>7. flatten[(k + 1) + 1] \in Seq(T)
            BY <3>1, <3>3, <3>4
        <3> QED BY <3>3, <3>6, <3>7
    <2> HIDE DEF N
    <2>8. \A k \in Nat : k \in N
        BY <2>6, <2>7, AllNats
    <2>9. Good(n1 + 1)
        <3> HIDE DEF Good
        <3>1. n1 + 1 <= Len(rows)
            BY <1>0
        <3> HIDE DEF n1
        <3> QED BY <2>1, <2>8, <3>1 DEF N
    <2>10. n1 + 1 = Len(rows)
        BY <1>0
    <2> HIDE DEF n1
    <2> QED BY <2>3, <2>9, <2>10
<1> QED BY <1>1, <1>2

-----------------------------------------------------------------------------
\* The ghost targets that are streamed.

\* A candidate has the track that a pattern gives it.
Candidates == {b \in Bindings : \E i \in DOMAIN Patterns : b.track = Patterns[i].track[b.object]}

\* The candidates of a pattern are different objects, none of them in use.
LEMMA ExpandFacts ==
    ASSUME NEW i \in DOMAIN Patterns, NEW used
    PROVE  /\ Expand(i, used) \in Seq(Candidates) /\ Different(Expand(i, used))
           /\ \A a \in DOMAIN Expand(i, used) : Expand(i, used)[a].object \notin used
<1> DEFINE p == Patterns[i]
           left == Only(p.matches, Objects \ used)
           kept == IF p.max > 0 /\ p.max < Len(left) THEN SubSeq(left, 1, p.max) ELSE left
           e == [k \in 1..Len(kept) |->
                   [object |-> kept[k], class |-> p.class, track |-> p.track[kept[k]]]]
<1>1. Expand(i, used) = e
    BY DEF Expand
<1>2. /\ p.class \in ToSet(Classes) /\ p.max \in Nat /\ p.matches \in Seq(Objects)
      /\ p.track \in [Objects -> Tracks] /\ IsInjective(p.matches)
    <2> DEFINE R == [class : ToSet(Classes), max : Nat, matches : Seq(Objects),
                     track : [Objects -> Tracks]]
    <2>1. p \in R
        <3>1. Patterns \in Seq(R)
            BY GhostAssumption DEF GhostAssumption
        <3> HIDE DEF R
        <3> QED BY <3>1
    <2>2. IsInjective(p.matches)
        BY GhostAssumption DEF GhostAssumption
    <2> HIDE DEF p
    <2> QED BY <2>1, <2>2
<1> HIDE DEF p
<1>3. PICK loc : left \in Seq(Objects) /\ Takes(left, p.matches, Objects \ used, loc, Len(p.matches))
    BY <1>2, OnlyTakes
<1> HIDE DEF left
<1>4. /\ Len(left) \in Nat
      /\ \A a \in 1..Len(left) : left[a] \in Objects /\ left[a] \notin used
      /\ \A a, b \in 1..Len(left) : left[a] = left[b] => a = b
    <2>1. \A a \in 1..Len(left) : /\ left[a] = p.matches[loc[a]] /\ left[a] \in Objects \ used
                                  /\ loc[a] \in DOMAIN p.matches
        BY <1>2, <1>3 DEF Takes
    <2>2. \A a, b \in 1..Len(left) : loc[a] = loc[b] => a = b
        BY <1>3 DEF Takes, IsInjective
    <2>3. \A a, b \in DOMAIN p.matches : p.matches[a] = p.matches[b] => a = b
        BY <1>2 DEF IsInjective
    <2>4. ASSUME NEW a \in 1..Len(left), NEW b \in 1..Len(left), left[a] = left[b] PROVE a = b
        <3>1. p.matches[loc[a]] = p.matches[loc[b]]
            BY <2>1, <2>4
        <3>2. loc[a] = loc[b]
            BY <2>1, <2>3, <3>1
        <3> QED BY <2>2, <3>2
    <2>5. Len(left) \in Nat
        BY <1>3
    <2> QED BY <2>1, <2>4, <2>5
<1>5. Len(kept) \in Nat /\ Len(kept) <= Len(left) /\ \A a \in 1..Len(kept) : kept[a] = left[a]
    <2>1. CASE p.max > 0 /\ p.max < Len(left)
        <3>1. kept = SubSeq(left, 1, p.max)
            BY <2>1
        <3> DEFINE m == p.max
        <3>3. m \in Nat /\ m <= Len(left)
            BY <1>2, <1>4, <2>1
        <3> HIDE DEF m
        <3>4. Len(SubSeq(left, 1, m)) = m /\ \A a \in 1..m : SubSeq(left, 1, m)[a] = left[a]
            BY <1>3, <1>4, <3>3
        <3>5. kept = SubSeq(left, 1, m)
            BY <3>1 DEF m
        <3> HIDE DEF kept
        <3> QED BY <3>3, <3>4, <3>5
    <2>2. CASE ~(p.max > 0 /\ p.max < Len(left))
        <3>1. kept = left
            BY <2>2
        <3> HIDE DEF kept
        <3> QED BY <1>4, <3>1
    <2> HIDE DEF kept
    <2> QED BY <2>1, <2>2
<1> HIDE DEF kept
<1>6. \A a \in 1..Len(kept) : a \in 1..Len(left)
    BY <1>4, <1>5
<1>7. \A a \in 1..Len(kept) : e[a] \in Candidates /\ e[a].object = left[a]
    <2> TAKE a \in 1..Len(kept)
    <2>1. kept[a] \in Objects /\ kept[a] = left[a]
        BY <1>4, <1>5, <1>6
    <2>2. e[a] = [object |-> kept[a], class |-> p.class, track |-> p.track[kept[a]]]
        OBVIOUS
    <2>3. e[a] \in Bindings /\ e[a].track = Patterns[i].track[e[a].object]
        BY <1>2, <2>1, <2>2 DEF Bindings, p
    <2> QED BY <2>1, <2>2, <2>3 DEF Candidates
<1>8. e \in Seq(Candidates) /\ DOMAIN e = 1..Len(kept)
    <2>1. e = [a \in 1..Len(kept) |-> e[a]] /\ DOMAIN e = 1..Len(kept)
        OBVIOUS
    <2> HIDE DEF e
    <2>2. e \in [1..Len(kept) -> Candidates]
        BY <1>7, <2>1
    <2> QED BY <1>5, <2>1, <2>2, SeqDef
<1> HIDE DEF e
<1>9. Different(e) /\ \A a \in DOMAIN e : e[a].object \notin used
    BY <1>4, <1>6, <1>7, <1>8 DEF Different
<1> QED BY <1>1, <1>8, <1>9

\* Two lists of different objects that share none are one.
LEMMA DifferentTogether ==
    ASSUME NEW s \in Seq(Candidates), NEW t \in Seq(Candidates), Different(s), Different(t),
           \A b \in DOMAIN t : t[b].object \notin NamesIn(s)
    PROVE  /\ Different(s \o t)
           /\ NamesIn(s \o t) = NamesIn(s) \cup NamesIn(t)
<1> DEFINE u == s \o t
<1>1. /\ Len(s) \in Nat /\ Len(t) \in Nat /\ DOMAIN u = 1..(Len(s) + Len(t))
      /\ DOMAIN s = 1..Len(s) /\ DOMAIN t = 1..Len(t)
      /\ \A a \in 1..Len(s) : u[a] = s[a]
    OBVIOUS
<1>2. \A a \in (Len(s) + 1)..(Len(s) + Len(t)) : u[a] = t[a - Len(s)] /\ a - Len(s) \in 1..Len(t)
    BY <1>1
<1>3. \A a \in 1..Len(t) : u[a + Len(s)] = t[a] /\ a + Len(s) \in DOMAIN u
    BY <1>1
<1> HIDE DEF u
<1>4. \A a \in DOMAIN u : a \in 1..Len(s) \/ a \in (Len(s) + 1)..(Len(s) + Len(t))
    BY <1>1
<1>5. ASSUME NEW a \in DOMAIN u, NEW b \in DOMAIN u, u[a].object = u[b].object PROVE a = b
    <2>1. CASE a \in 1..Len(s) /\ b \in 1..Len(s)
        BY <1>1, <1>5, <2>1 DEF Different
    <2>2. CASE a \in 1..Len(s) /\ b \in (Len(s) + 1)..(Len(s) + Len(t))
        BY <1>1, <1>2, <1>5, <2>2 DEF NamesIn
    <2>3. CASE a \in (Len(s) + 1)..(Len(s) + Len(t)) /\ b \in 1..Len(s)
        BY <1>1, <1>2, <1>5, <2>3 DEF NamesIn
    <2>4. CASE a \in (Len(s) + 1)..(Len(s) + Len(t)) /\ b \in (Len(s) + 1)..(Len(s) + Len(t))
        <3>1. t[a - Len(s)].object = t[b - Len(s)].object /\ a - Len(s) \in DOMAIN t
              /\ b - Len(s) \in DOMAIN t
            BY <1>1, <1>2, <1>5, <2>4
        <3>2. a - Len(s) = b - Len(s)
            BY <3>1 DEF Different
        <3> QED BY <1>1, <2>4, <3>2
    <2> QED BY <1>4, <2>1, <2>2, <2>3, <2>4
<1>6. Different(u)
    BY <1>5 DEF Different
<1>7. \A a \in DOMAIN u : u[a].object \in NamesIn(s) \cup NamesIn(t)
    BY <1>1, <1>2, <1>4 DEF NamesIn
<1>8. \A a \in 1..Len(s) : a \in DOMAIN u
    BY <1>1
<1>9. NamesIn(u) = NamesIn(s) \cup NamesIn(t)
    <2>1. NamesIn(u) \subseteq NamesIn(s) \cup NamesIn(t)
        BY <1>7 DEF NamesIn
    <2>2. NamesIn(s) \subseteq NamesIn(u)
        BY <1>1, <1>8 DEF NamesIn
    <2>3. NamesIn(t) \subseteq NamesIn(u)
        BY <1>1, <1>3 DEF NamesIn
    <2> QED BY <2>1, <2>2, <2>3
<1> QED BY <1>6, <1>9 DEF u

\* The candidates of all patterns are different objects, none of them bound by name.
LEMMA ExpandedFacts ==
    LET all == expand_patterns_from_scene_inventory
    IN  /\ all \in Seq(Candidates) /\ Different(all)
        /\ NamesIn(all) \cap NamesIn(Exact) = {}
<1> DEFINE m == Len(Patterns)
           Next(v, k) == v \o Expand(k, NamesIn(Exact) \cup NamesIn(v))
           h == [p \in Seq(Candidates) \X Nat |-> IF p[2] \in 1..m THEN Next(p[1], p[2]) ELSE p[1]]
           Steps(g) == g = [i \in 0..m |-> IF i = 0 THEN <<>> ELSE Next(g[i - 1], i)]
           Upto == CHOOSE g : Steps(g)
           Sound == {v \in Seq(Candidates) : Different(v) /\ NamesIn(v) \cap NamesIn(Exact) = {}}
<1>1. m \in Nat /\ DOMAIN Patterns = 1..m
    BY GhostAssumption DEF GhostAssumption
<1> HIDE DEF m
<1>2. ASSUME NEW v \in Sound, NEW k \in 1..m PROVE Next(v, k) \in Sound
    <2> DEFINE e == Expand(k, NamesIn(Exact) \cup NamesIn(v))
    <2>1. /\ e \in Seq(Candidates) /\ Different(e)
          /\ \A a \in DOMAIN e : e[a].object \notin NamesIn(Exact) \cup NamesIn(v)
        BY <1>1, ExpandFacts
    <2> HIDE DEF e
    <2>2. Different(v \o e) /\ NamesIn(v \o e) = NamesIn(v) \cup NamesIn(e)
        BY <2>1, DifferentTogether
    <2>3. NamesIn(e) \cap NamesIn(Exact) = {}
        BY <2>1 DEF NamesIn
    <2>4. v \o e \in Sound
        BY <2>1, <2>2, <2>3
    <2> QED BY <2>4 DEF e
<1>3. <<>> \in Sound
    <2>1. <<>> \in Seq(Candidates) /\ DOMAIN <<>> = {}
        OBVIOUS
    <2> QED BY <2>1 DEF Different, NamesIn
<1>4. Sound \subseteq Seq(Candidates)
    OBVIOUS
<1>5. \A v \in Sound, k \in 1..m : h[<<v, k>>] = Next(v, k)
    <2> TAKE v \in Sound, k \in 1..m
    <2>1. <<v, k>> \in Seq(Candidates) \X Nat /\ <<v, k>>[1] = v /\ <<v, k>>[2] = k
        BY <1>1, <1>4
    <2> HIDE DEF Next, Sound
    <2>2. h[<<v, k>>] = IF <<v, k>>[2] \in 1..m THEN Next(<<v, k>>[1], <<v, k>>[2]) ELSE <<v, k>>[1]
        BY <2>1
    <2> QED BY <2>1, <2>2
<1> HIDE DEF h, Next, Sound
<1>6. \E g : Steps(g)
    <2>1. PICK g : StepsOf(g, m, <<>>, h)
        BY <1>1, StepsExist
    <2>2. \A k \in 0..m : g[k] = IF k = 0 THEN <<>> ELSE h[<<g[k - 1], k>>]
        BY <2>1 DEF StepsOf
    <2>3. g[0] \in Sound
        <3>1. 0 \in 0..m
            BY <1>1
        <3> QED BY <1>3, <2>2, <3>1
    <2>4. ASSUME NEW k \in 0..(m - 1), g[k] \in Sound PROVE g[k + 1] \in Sound
        <3>1. k + 1 \in 1..m /\ k + 1 \in 0..m /\ (k + 1) - 1 = k /\ k + 1 # 0
            BY <1>1
        <3>2. g[k + 1] = h[<<g[k], k + 1>>]
            BY <2>2, <3>1
        <3> QED BY <1>2, <1>5, <2>4, <3>1, <3>2
    <2>5. \A k \in 0..m : g[k] \in Sound
        BY <1>1, <2>3, <2>4, StepsKeep
    <2>6. ASSUME NEW k \in 0..m PROVE g[k] = IF k = 0 THEN <<>> ELSE Next(g[k - 1], k)
        <3>1. CASE k = 0
            BY <2>2, <3>1
        <3>2. CASE k # 0
            <4>1. k \in 1..m /\ k - 1 \in 0..m
                BY <1>1, <3>2
            <4> QED BY <1>5, <2>2, <2>5, <3>2, <4>1
        <3> QED BY <3>1, <3>2
    <2>7. g = [k \in 0..m |-> g[k]]
        BY <2>1 DEF StepsOf
    <2>8. Steps(g)
        BY <2>6, <2>7
    <2> QED BY <2>8
<1>7. expand_patterns_from_scene_inventory = Upto[m]
    BY DEF expand_patterns_from_scene_inventory, Next, m
<1>8. Steps(Upto)
    <2> HIDE DEF Steps
    <2> QED BY <1>6
<1> HIDE DEF Upto
<1>9. \A k \in 0..m : Upto[k] = IF k = 0 THEN <<>> ELSE Next(Upto[k - 1], k)
    BY <1>8
<1> HIDE DEF Steps
<1>10. Upto[0] \in Sound
    <2>1. 0 \in 0..m
        BY <1>1
    <2> QED BY <1>3, <1>9, <2>1
<1>11. ASSUME NEW k \in 0..(m - 1), Upto[k] \in Sound PROVE Upto[k + 1] \in Sound
    <2>1. k + 1 \in 1..m /\ k + 1 \in 0..m /\ (k + 1) - 1 = k /\ k + 1 # 0
        BY <1>1
    <2>2. Upto[k + 1] = Next(Upto[k], k + 1)
        BY <1>9, <2>1
    <2> QED BY <1>2, <1>11, <2>1, <2>2
<1>12. Upto[m] \in Sound
    <2>1. m \in 0..m
        BY <1>1
    <2> QED BY <1>1, <1>10, <1>11, <2>1, StepsKeep
<1> QED BY <1>7, <1>12 DEF Sound

\* The candidates of one class.
BucketOf(all, c) == Only(all, {x \in ToSet(all) : x.class = c})

\* A candidate is in the bucket of its class only, and there once.
LEMMA BucketFacts ==
    ASSUME NEW all \in Seq(Candidates), Different(all)
    PROVE  /\ \A c : BucketOf(all, c) \in Seq(Candidates)
           /\ \A c : \A r \in 1..Len(BucketOf(all, c)) : BucketOf(all, c)[r] \in ToSet(all)
           /\ \A c, d : \A r \in 1..Len(BucketOf(all, c)), q \in 1..Len(BucketOf(all, d)) :
                 BucketOf(all, c)[r].object = BucketOf(all, d)[q].object => c = d /\ r = q
<1>1. all \in Seq(Candidates) /\ Different(all) /\ DOMAIN all = 1..Len(all)
    OBVIOUS
<1> DEFINE Locates(c, loc) ==
        /\ BucketOf(all, c) \in Seq(Candidates)
        /\ \A r \in 1..Len(BucketOf(all, c)) :
              /\ loc[r] \in DOMAIN all /\ BucketOf(all, c)[r] = all[loc[r]]
              /\ all[loc[r]].class = c
        /\ \A r, q \in 1..Len(BucketOf(all, c)) : loc[r] = loc[q] => r = q
<1>2. ASSUME NEW c PROVE \E loc : Locates(c, loc)
    <2> DEFINE S == {x \in ToSet(all) : x.class = c}
               b == Only(all, S)
    <2>1. BucketOf(all, c) = b
        BY DEF BucketOf
    <2>2. \A x \in S : x.class = c
        OBVIOUS
    <2> HIDE DEF S
    <2>3. b \in Seq(Candidates) /\ \E loc : Takes(b, all, S, loc, Len(all))
        BY <1>1, OnlyTakes
    <2>4. PICK loc : Takes(b, all, S, loc, Len(all))
        BY <2>3
    <2> HIDE DEF b
    <2>5. \A r \in 1..Len(b) : loc[r] \in 1..Len(all) /\ b[r] = all[loc[r]] /\ b[r] \in S
        BY <2>4 DEF Takes
    <2>6. \A r, q \in 1..Len(b) : loc[r] = loc[q] => r = q
        BY <2>4 DEF Takes, IsInjective
    <2>7. \A r \in 1..Len(b) : /\ loc[r] \in DOMAIN all /\ b[r] = all[loc[r]]
                               /\ all[loc[r]].class = c
        BY <1>1, <2>2, <2>5
    <2>8. Locates(c, loc)
        BY <2>1, <2>3, <2>6, <2>7
    <2> HIDE DEF Locates
    <2> QED BY <2>8
<1>3. ASSUME NEW c, NEW d, NEW r \in 1..Len(BucketOf(all, c)), NEW q \in 1..Len(BucketOf(all, d)),
             BucketOf(all, c)[r].object = BucketOf(all, d)[q].object
      PROVE  c = d /\ r = q
    <2> HIDE DEF Locates
    <2>1. PICK loc : Locates(c, loc)
        BY <1>2
    <2>2. PICK lod : Locates(d, lod)
        BY <1>2
    <2> USE DEF Locates
    <2>3. loc[r] = lod[q]
        BY <1>1, <1>3, <2>1, <2>2 DEF Different
    <2>4. c = d
        BY <2>1, <2>2, <2>3
    <2>5. q \in 1..Len(BucketOf(all, c)) /\ loc[q] \in DOMAIN all /\ all[loc[q]] = all[loc[r]]
        BY <2>1, <2>2, <2>3, <2>4
    <2>6. loc[q] = loc[r]
        BY <1>1, <2>1, <2>5 DEF Different
    <2> QED BY <2>1, <2>4, <2>5, <2>6
<1>4. ASSUME NEW c, NEW r \in 1..Len(BucketOf(all, c)) PROVE BucketOf(all, c)[r] \in ToSet(all)
    <2> HIDE DEF Locates
    <2>1. PICK loc : Locates(c, loc)
        BY <1>2
    <2>2. loc[r] \in DOMAIN all /\ BucketOf(all, c)[r] = all[loc[r]]
        BY <2>1 DEF Locates
    <2> QED BY <2>2 DEF ToSet
<1>5. ASSUME NEW c PROVE BucketOf(all, c) \in Seq(Candidates)
    <2> HIDE DEF Locates
    <2>1. PICK loc : Locates(c, loc)
        BY <1>2
    <2> QED BY <2>1 DEF Locates
<1> QED BY <1>3, <1>4, <1>5

\* The rounds over the classes, each candidate a sequence of its own.
Rounds(all) ==
    [r \in 1..Len(all) |->
        [k \in DOMAIN Classes |->
            IF r <= Len(BucketOf(all, Classes[k])) THEN <<BucketOf(all, Classes[k])[r]>> ELSE <<>>]]

\* What the rounds list: candidates, each once.
LEMMA RoundsFacts ==
    ASSUME NEW all \in Seq(Candidates), Different(all)
    PROVE  LET picked == FlattenSeq(FlattenSeq(Rounds(all)))
           IN  /\ picked \in Seq(Candidates) /\ Different(picked)
               /\ \A j \in DOMAIN picked : picked[j] \in ToSet(all)
<1> DEFINE F1 == FlattenSeq(Rounds(all))
           F2 == FlattenSeq(F1)
<1>1. /\ Classes \in Seq(ToSet(Classes)) /\ DOMAIN Classes = 1..Len(Classes) /\ Len(Classes) \in Nat
      /\ \A k, l \in DOMAIN Classes : Classes[k] = Classes[l] => k = l
    BY GhostAssumption DEF GhostAssumption, IsInjective
<1>2. Len(all) \in Nat
    OBVIOUS
<1>3. /\ DOMAIN Rounds(all) = 1..Len(all)
      /\ \A r \in 1..Len(all) : /\ DOMAIN Rounds(all)[r] = 1..Len(Classes)
                                /\ Rounds(all)[r] = [k \in 1..Len(Classes) |-> Rounds(all)[r][k]]
    BY <1>1 DEF Rounds
<1>4. \A r \in 1..Len(all), k \in 1..Len(Classes) :
          Rounds(all)[r][k] = IF r <= Len(BucketOf(all, Classes[k]))
                         THEN <<BucketOf(all, Classes[k])[r]>> ELSE <<>>
    BY <1>1 DEF Rounds
<1>5. ASSUME NEW r \in 1..Len(all), NEW k \in 1..Len(Classes)
      PROVE  /\ Rounds(all)[r][k] \in Seq(Candidates)
             /\ \A p \in 1..Len(Rounds(all)[r][k]) :
                   /\ p = 1 /\ r \in 1..Len(BucketOf(all, Classes[k]))
                   /\ Rounds(all)[r][k][p] = BucketOf(all, Classes[k])[r]
    <2>1. BucketOf(all, Classes[k]) \in Seq(Candidates)
        BY BucketFacts
    <2>2. CASE r <= Len(BucketOf(all, Classes[k]))
        <3> DEFINE o == BucketOf(all, Classes[k])[r]
        <3>1. r \in 1..Len(BucketOf(all, Classes[k]))
            BY <1>2, <2>1, <2>2
        <3>2. o \in Candidates
            BY <2>1, <3>1
        <3>3. Rounds(all)[r][k] = <<o>>
            BY <1>4, <2>2
        <3> HIDE DEF o
        <3>4. <<o>> \in Seq(Candidates) /\ Len(<<o>>) = 1 /\ <<o>>[1] = o
            BY <3>2
        <3> QED BY <3>1, <3>3, <3>4 DEF o
    <2>3. CASE ~(r <= Len(BucketOf(all, Classes[k])))
        <3>1. Rounds(all)[r][k] = <<>>
            BY <1>4, <2>3
        <3>2. <<>> \in Seq(Candidates) /\ Len(<<>>) = 0 /\ 1..0 = {}
            OBVIOUS
        <3> QED BY <3>1, <3>2
    <2> QED BY <2>2, <2>3
<1>6. Rounds(all) \in Seq(Seq(Seq(Candidates)))
    <2>1. ASSUME NEW r \in 1..Len(all) PROVE Rounds(all)[r] \in Seq(Seq(Candidates))
        <3>1. Rounds(all)[r] \in [1..Len(Classes) -> Seq(Candidates)]
            <4>1. \A k \in 1..Len(Classes) : Rounds(all)[r][k] \in Seq(Candidates)
                BY <1>5
            <4>2. Rounds(all)[r] = [k \in 1..Len(Classes) |-> Rounds(all)[r][k]]
                BY <1>3
            <4> QED BY <4>1, <4>2
        <3> DEFINE V == Seq(Candidates)
        <3>2. Rounds(all)[r] \in [1..Len(Classes) -> V]
            BY <3>1
        <3> HIDE DEF V
        <3>3. Rounds(all)[r] \in Seq(V)
            BY <1>1, <3>2, SeqDef
        <3> QED BY <3>3 DEF V
    <2>2. Rounds(all) = [r \in 1..Len(all) |-> Rounds(all)[r]]
        BY DEF Rounds
    <2>3. Rounds(all) \in [1..Len(all) -> Seq(Seq(Candidates))]
        BY <2>1, <2>2
    <2> DEFINE V == Seq(Seq(Candidates))
    <2>4. Rounds(all) \in [1..Len(all) -> V]
        BY <2>3
    <2> HIDE DEF V
    <2>5. Rounds(all) \in Seq(V)
        BY <1>2, <2>4, SeqDef
    <2> QED BY <2>5 DEF V
<1>7. Len(Rounds(all)) = Len(all)
    BY <1>2, <1>3, <1>6
<1>8. PICK row1, col1 : F1 \in Seq(Seq(Candidates)) /\ Lists(F1, Rounds(all), row1, col1, Len(Rounds(all)))
    BY <1>6, FlattenLists
<1> HIDE DEF F1
<1>9. PICK row2, col2 : F2 \in Seq(Candidates) /\ Lists(F2, F1, row2, col2, Len(F1))
    BY <1>8, FlattenLists
<1> HIDE DEF F2
<1>10. ASSUME NEW a \in 1..Len(F1)
       PROVE  /\ row1[a] \in 1..Len(all) /\ col1[a] \in 1..Len(Classes)
              /\ F1[a] = Rounds(all)[row1[a]][col1[a]]
    <2>1. row1[a] \in 1..Len(all) /\ col1[a] \in 1..Len(Rounds(all)[row1[a]])
          /\ F1[a] = Rounds(all)[row1[a]][col1[a]]
        BY <1>7, <1>8 DEF Lists
    <2>2. Rounds(all)[row1[a]] \in Seq(Seq(Candidates))
        BY <1>6, <1>7, <2>1
    <2>3. Len(Rounds(all)[row1[a]]) = Len(Classes)
        BY <1>1, <1>3, <2>1, <2>2
    <2> QED BY <2>1, <2>3
<1>11. ASSUME NEW j \in 1..Len(F2)
       PROVE  /\ row2[j] \in 1..Len(F1) /\ col2[j] = 1
              /\ row1[row2[j]] \in 1..Len(BucketOf(all, Classes[col1[row2[j]]]))
              /\ col1[row2[j]] \in DOMAIN Classes
              /\ F2[j] = BucketOf(all, Classes[col1[row2[j]]])[row1[row2[j]]]
    <2>1. row2[j] \in 1..Len(F1) /\ col2[j] \in 1..Len(F1[row2[j]]) /\ F2[j] = F1[row2[j]][col2[j]]
        BY <1>9 DEF Lists
    <2> DEFINE r == row1[row2[j]]
               k == col1[row2[j]]
    <2>2. r \in 1..Len(all) /\ k \in 1..Len(Classes) /\ F1[row2[j]] = Rounds(all)[r][k]
        BY <1>10, <2>1
    <2> HIDE DEF r, k
    <2>3. col2[j] = 1 /\ r \in 1..Len(BucketOf(all, Classes[k]))
          /\ Rounds(all)[r][k][col2[j]] = BucketOf(all, Classes[k])[r]
        BY <1>5, <2>1, <2>2
    <2>4. F2[j] = BucketOf(all, Classes[k])[r]
        BY <2>1, <2>2, <2>3
    <2> QED BY <1>1, <2>1, <2>2, <2>3, <2>4 DEF r, k
<1>12. DOMAIN F2 = 1..Len(F2)
    BY <1>9
<1>13. ASSUME NEW i \in 1..Len(F2), NEW j \in 1..Len(F2), F2[i].object = F2[j].object PROVE i = j
    <2>1. /\ Classes[col1[row2[i]]] = Classes[col1[row2[j]]]
          /\ row1[row2[i]] = row1[row2[j]]
        <3> DEFINE c == Classes[col1[row2[i]]]
                   d == Classes[col1[row2[j]]]
                   r == row1[row2[i]]
                   q == row1[row2[j]]
        <3>1. r \in 1..Len(BucketOf(all, c)) /\ F2[i] = BucketOf(all, c)[r]
            BY <1>11
        <3>2. q \in 1..Len(BucketOf(all, d)) /\ F2[j] = BucketOf(all, d)[q]
            BY <1>11
        <3> HIDE DEF c, d, r, q
        <3>3. \A p \in 1..Len(BucketOf(all, c)), s \in 1..Len(BucketOf(all, d)) :
                  BucketOf(all, c)[p].object = BucketOf(all, d)[s].object => c = d /\ p = s
            BY BucketFacts
        <3>4. BucketOf(all, c)[r].object = BucketOf(all, d)[q].object
            BY <1>13, <3>1, <3>2
        <3>5. c = d /\ r = q
            BY <3>1, <3>2, <3>3, <3>4
        <3> QED BY <3>5 DEF c, d, r, q
    <2>2. col1[row2[i]] = col1[row2[j]]
        BY <1>1, <1>11, <2>1
    <2>3. row2[i] = row2[j]
        BY <1>8, <1>11, <2>1, <2>2 DEF Lists
    <2>4. col2[i] = col2[j]
        BY <1>11
    <2> QED BY <1>9, <2>3, <2>4 DEF Lists
<1>14. \A j \in DOMAIN F2 : F2[j] \in ToSet(all)
    <2> SUFFICES ASSUME NEW j \in 1..Len(F2) PROVE F2[j] \in ToSet(all)
        BY <1>12
    <2> QED BY <1>11, BucketFacts
<1>15. Different(F2)
    BY <1>12, <1>13 DEF Different
<1> QED BY <1>9, <1>14, <1>15 DEF F2, F1

\* Two lists that each name their members apart, and share no name, make one.
LEMMA NamedTogether ==
    ASSUME NEW T, NEW s \in Seq(T), NEW t \in Seq(T), Named(s), Named(t),
           \A a \in DOMAIN s, b \in DOMAIN t : s[a].track # t[b].track
    PROVE  Named(s \o t)
<1> DEFINE u == s \o t
<1>1. /\ Len(s) \in Nat /\ Len(t) \in Nat /\ DOMAIN u = 1..(Len(s) + Len(t))
      /\ DOMAIN s = 1..Len(s) /\ DOMAIN t = 1..Len(t)
      /\ \A a \in 1..Len(s) : u[a] = s[a]
    OBVIOUS
<1>2. \A a \in (Len(s) + 1)..(Len(s) + Len(t)) : u[a] = t[a - Len(s)] /\ a - Len(s) \in 1..Len(t)
    BY <1>1
<1> HIDE DEF u
<1>3. \A a \in DOMAIN u : a \in 1..Len(s) \/ a \in (Len(s) + 1)..(Len(s) + Len(t))
    BY <1>1
<1>4. ASSUME NEW a \in DOMAIN u, NEW b \in DOMAIN u, u[a].track = u[b].track PROVE a = b
    <2>1. CASE a \in 1..Len(s) /\ b \in 1..Len(s)
        BY <1>1, <1>4, <2>1 DEF Named
    <2>2. CASE a \in 1..Len(s) /\ b \in (Len(s) + 1)..(Len(s) + Len(t))
        BY <1>1, <1>2, <1>4, <2>2
    <2>3. CASE a \in (Len(s) + 1)..(Len(s) + Len(t)) /\ b \in 1..Len(s)
        BY <1>1, <1>2, <1>4, <2>3
    <2>4. CASE a \in (Len(s) + 1)..(Len(s) + Len(t)) /\ b \in (Len(s) + 1)..(Len(s) + Len(t))
        <3>1. t[a - Len(s)].track = t[b - Len(s)].track /\ a - Len(s) \in DOMAIN t /\ b - Len(s) \in DOMAIN t
            BY <1>1, <1>2, <1>4, <2>4
        <3>2. a - Len(s) = b - Len(s)
            BY <3>1 DEF Named
        <3> QED BY <1>1, <2>4, <3>2
    <2> QED BY <1>3, <2>1, <2>2, <2>3, <2>4
<1>5. Named(u)
    BY <1>4 DEF Named
<1> QED BY <1>5 DEF u

\* The candidates of different objects have tracks of their own.
LEMMA CandidatesNamed ==
    ASSUME WellNamed, NEW x \in Candidates
    PROVE  /\ \A y \in Candidates : x.track = y.track => x.object = y.object
           /\ \A k \in DOMAIN Exact : Exact[k].track # x.track
<1>1. PICK i \in DOMAIN Patterns : x.object \in Objects /\ x.track = Patterns[i].track[x.object]
    BY DEF Candidates, Bindings
<1>2. ASSUME NEW y \in Candidates, x.track = y.track PROVE x.object = y.object
    <2>1. PICK j \in DOMAIN Patterns : y.object \in Objects /\ y.track = Patterns[j].track[y.object]
        BY DEF Candidates, Bindings
    <2> QED BY <1>1, <1>2, <2>1 DEF WellNamed
<1>3. ASSUME NEW k \in DOMAIN Exact PROVE Exact[k].track # x.track
    BY <1>1 DEF WellNamed
<1> QED BY <1>2, <1>3

\* A list of different candidates names them apart, behind the exact bindings too.
LEMMA DifferentAreNamed ==
    ASSUME WellNamed, NEW s \in Seq(Candidates), Different(s)
    PROVE  Named(s) /\ \A a \in DOMAIN Exact, b \in DOMAIN s : Exact[a].track # s[b].track
<1>1. \A b \in DOMAIN s : s[b] \in Candidates
    OBVIOUS
<1>2. ASSUME NEW a \in DOMAIN s, NEW b \in DOMAIN s, s[a].track = s[b].track PROVE a = b
    <2>1. s[a].object = s[b].object
        BY <1>1, <1>2, CandidatesNamed
    <2> QED BY <2>1 DEF Different
<1> QED BY <1>1, <1>2, CandidatesNamed DEF Named

\* The beginning of a list that names its members apart does.
LEMMA NamedPrefix ==
    ASSUME NEW T, NEW s \in Seq(T), NEW k \in 0..Len(s), Named(s)
    PROVE  Named(SubSeq(s, 1, k))
<1>1. /\ Len(s) \in Nat /\ DOMAIN s = 1..Len(s) /\ DOMAIN SubSeq(s, 1, k) = 1..k
      /\ \A i \in 1..k : SubSeq(s, 1, k)[i] = s[i]
    OBVIOUS
<1>2. \A i \in 1..k : i \in DOMAIN s
    BY <1>1
<1> QED BY <1>1, <1>2 DEF Named

\* Candidates are bindings.
LEMMA CandidateLists ==
    ASSUME NEW s \in Seq(Candidates)
    PROVE  s \in Seq(Bindings)
<1>1. Candidates \subseteq Bindings
    BY DEF Candidates
<1>2. \A i \in 1..Len(s) : s[i] \in Bindings
    BY <1>1
<1> HIDE DEF Candidates
<1>3. s \in [1..Len(s) -> Bindings] /\ Len(s) \in Nat
    BY <1>2
<1> QED BY <1>3, SeqDef

\* What select_nearby_candidates() promises of a list of bindings.
Selected(list, all) ==
    /\ list \in Seq(Bindings)
    /\ WellNamed => Named(list)
    /\ MaxObjects > 0 => Len(list) <= MaxObjects
    /\ all = <<>> => \A i \in DOMAIN list : list[i] \in ToSet(Exact)

\* No more objects are streamed than allowed; they have tracks of their own when
\* the configuration names them apart; without candidates they are bound by name.
LEMMA SelectedFacts ==
    ASSUME NEW all \in Seq(Candidates), Different(all), NamesIn(all) \cap NamesIn(Exact) = {}
    PROVE  Selected(select_nearby_candidates(all), all)
<1> DEFINE picked == FlattenSeq(FlattenSeq(Rounds(all)))
           wanted == Exact \o picked
           selected == select_nearby_candidates(all)
<1>1. selected = IF MaxObjects > 0 /\ MaxObjects < Len(wanted) THEN SubSeq(wanted, 1, MaxObjects)
                 ELSE wanted
    BY DEF select_nearby_candidates, Rounds, BucketOf
<1>2. /\ picked \in Seq(Candidates) /\ Different(picked)
      /\ \A j \in DOMAIN picked : picked[j] \in ToSet(all)
    BY RoundsFacts
<1> HIDE DEF picked, selected
<1>3. Exact \in Seq(Bindings) /\ MaxObjects \in Nat /\ picked \in Seq(Bindings)
    BY <1>2, CandidateLists, GhostAssumption DEF GhostAssumption
<1>4. wanted \in Seq(Bindings) /\ Len(wanted) \in Nat /\ DOMAIN wanted = 1..Len(wanted)
    BY <1>3
<1>5. WellNamed => Named(wanted)
    <2> SUFFICES ASSUME WellNamed PROVE Named(wanted)
        OBVIOUS
    <2>1. Named(picked) /\ \A a \in DOMAIN Exact, b \in DOMAIN picked : Exact[a].track # picked[b].track
        BY <1>2, DifferentAreNamed
    <2>2. Named(Exact)
        BY DEF WellNamed
    <2> QED BY <1>3, <2>1, <2>2, NamedTogether
<1>6. all = <<>> => wanted = Exact
    <2> SUFFICES ASSUME all = <<>> PROVE wanted = Exact
        OBVIOUS
    <2>1. ToSet(all) = {}
        BY DEF ToSet
    <2>2. DOMAIN picked = {} /\ DOMAIN picked = 1..Len(picked) /\ Len(picked) \in Nat
        BY <1>2, <2>1
    <2>3. Len(picked) = 0
        BY <2>2
    <2>4. picked = <<>>
        BY <1>2, <2>3
    <2> QED BY <1>3, <2>4
<1>7. Len(Exact) \in Nat /\ DOMAIN Exact = 1..Len(Exact) /\ \A i \in DOMAIN Exact : Exact[i] \in ToSet(Exact)
    BY <1>3 DEF ToSet
<1> HIDE DEF wanted
<1>8. CASE MaxObjects > 0 /\ MaxObjects < Len(wanted)
    <2>1. selected = SubSeq(wanted, 1, MaxObjects) /\ MaxObjects \in 0..Len(wanted)
        BY <1>1, <1>3, <1>4, <1>8
    <2>2. \A i \in 1..MaxObjects : wanted[i] \in Bindings /\ i \in DOMAIN wanted
        BY <1>3, <1>4, <1>8
    <2>3. /\ selected \in Seq(Bindings) /\ Len(selected) = MaxObjects /\ DOMAIN selected = 1..MaxObjects
          /\ \A i \in 1..MaxObjects : selected[i] = wanted[i]
        BY <1>3, <1>4, <1>8, <2>1, <2>2
    <2>4. WellNamed => Named(selected)
        BY <1>4, <1>5, <2>1, NamedPrefix
    <2>5. all = <<>> => \A i \in DOMAIN selected : selected[i] \in ToSet(Exact)
        BY <1>6, <1>7, <2>2, <2>3
    <2>6. MaxObjects > 0 => Len(selected) <= MaxObjects
        BY <1>3, <2>3
    <2> QED BY <2>3, <2>4, <2>5, <2>6 DEF selected, Selected
<1>9. CASE ~(MaxObjects > 0 /\ MaxObjects < Len(wanted))
    <2>1. selected = wanted
        BY <1>1, <1>9
    <2>2. MaxObjects > 0 => Len(wanted) <= MaxObjects
        BY <1>3, <1>4, <1>9
    <2>3. all = <<>> => \A i \in DOMAIN wanted : wanted[i] \in ToSet(Exact)
        BY <1>6, <1>7
    <2> QED BY <1>4, <1>5, <2>1, <2>2, <2>3 DEF selected, Selected
<1> QED BY <1>8, <1>9

-----------------------------------------------------------------------------
\* The world model.

TrackNames == {"track"} \X Nat
Names == TrackNames \cup Tracks
Observation == [id : Names, object : Objects, at : Places]
ModelFields == {"ego", "agents", "occupancy", "swept", "evidence", "at"}

\* No two members of a list have one name.
Distinct(s) == \A i, j \in DOMAIN s : s[i].id = s[j].id => i = j

StageSound ==
    /\ setup \in Setups
    /\ stage \in {"start", "frame", "perceive", "depth", "ghosts", "ingest", "flight_map", "failed"}
    /\ n \in 0..MaxFrames
    /\ stage \notin {"start", "frame"} => n > 0

StreamSound == Selected(streamed, inventory_candidates)

\* The observations of a frame can be told apart when the configuration names them
\* apart; before the ghosts come they are tracks.
ObservedSound ==
    /\ observed \in Seq(Observation)
    /\ WellNamed => Distinct(observed)
    /\ stage \in {"depth", "ghosts"} => \A i \in DOMAIN observed : observed[i].id \in TrackNames

\* What the frame shows of obstacles, to ground truth and to the synthetic fixture.
Seen == {observed[i].at : i \in DOMAIN observed}
Fixture == {pose.place + d : d \in Synthetic}
EmulatedHere == IF setup.source = "synthetic" THEN Fixture
                ELSE {p \in Seen : setup.cameras /\ p > pose.place}

\* A model is that of the frame.
OfFrame(m) ==
    /\ m.at = n /\ m.agents = AgentsOf(observed) /\ m.ego = pose.place
    /\ m.occupancy = IF setup.source = "synthetic" THEN Fixture ELSE Seen
    /\ m.evidence = IF evidence # {} THEN evidence ELSE EmulatedHere

\* When the model has been updated, it is that of the frame.
ModelSound ==
    /\ DOMAIN model = ModelFields
    /\ stage = "flight_map" => OfFrame(model)

\* Frames that are through with the perch evaluator.
PerchTick == IF stage \in {"start", "frame"} THEN n ELSE n - 1

\* The cached perch candidates are those of the last multiple of the cadence.
PerchSound ==
    \E q \in Nat : /\ perch.frame = q * Cadence
                   /\ q * Cadence <= PerchTick /\ PerchTick < q * Cadence + Cadence

ShownSound == AgentIdsAreDistinct /\ SnapshotIsOneFrame /\ PerchIsRecent

\* The inductive invariant of the world model.
WorldSafe ==
    /\ StageSound /\ PlacesSound /\ StreamSound /\ ObservedSound /\ ModelSound /\ PerchSound
    /\ ShownSound

\* A list whose members have different names has as many names as members.
LEMMA IdsCount ==
    ASSUME NEW T, NEW s \in Seq(T), Distinct(s)
    PROVE  Cardinality(Ids(s)) = Len(s)
<1> DEFINE f == [i \in 1..Len(s) |-> s[i].id]
<1>1. Len(s) \in Nat /\ DOMAIN s = 1..Len(s)
    OBVIOUS
<1>2. Ids(s) = {s[i].id : i \in 1..Len(s)}
    BY <1>1 DEF Ids
<1>3. f \in [1..Len(s) -> Ids(s)]
    BY <1>2
<1>4. f \in Surjection(1..Len(s), Ids(s))
    BY <1>2, <1>3 DEF Surjection
<1>5. f \in Injection(1..Len(s), Ids(s))
    BY <1>1, <1>3 DEF Injection, IsInjective, Distinct
<1>6. IsFiniteSet(1..Len(s)) /\ Cardinality(1..Len(s)) = Len(s)
    BY <1>1, FS_Interval
<1> HIDE DEF f
<1> QED BY <1>4, <1>5, <1>6, FS_Surjection

\* The agents are the observations, named alike.
LEMMA AgentsFollow ==
    ASSUME observed \in Seq(Observation)
    PROVE  LET agents == AgentsOf(observed)
           IN  /\ Distinct(observed) => Cardinality(Ids(agents)) = Len(agents)
               /\ \A i \in DOMAIN agents : agents[i].frame = n
               /\ {agents[i].at : i \in DOMAIN agents} = {observed[i].at : i \in DOMAIN observed}
<1> DEFINE agents == AgentsOf(observed)
<1>1. DOMAIN agents = DOMAIN observed /\ DOMAIN observed = 1..Len(observed) /\ Len(observed) \in Nat
    BY DEF AgentsOf
<1>2. \A i \in DOMAIN observed : agents[i].id = observed[i].id /\ agents[i].at = observed[i].at
                                 /\ agents[i].frame = n
    BY DEF AgentsOf
<1> DEFINE T == {agents[i] : i \in DOMAIN agents}
<1>3. agents = [i \in 1..Len(observed) |-> agents[i]]
    BY <1>1 DEF AgentsOf
<1> HIDE DEF agents
<1>4. agents \in [1..Len(observed) -> T]
    BY <1>1, <1>3
<1> HIDE DEF T
<1>5. agents \in Seq(T)
    BY <1>1, <1>4, SeqDef
<1>6. Distinct(observed) => Distinct(agents)
    BY <1>1, <1>2 DEF Distinct
<1>7. Distinct(observed) => Cardinality(Ids(agents)) = Len(agents)
    BY <1>5, <1>6, IdsCount
<1>8. {agents[i].at : i \in DOMAIN agents} = {observed[i].at : i \in DOMAIN observed}
    BY <1>1, <1>2
<1> QED BY <1>1, <1>2, <1>7, <1>8 DEF agents

\* What ingest() makes of the model.
LEMMA IngestFacts ==
    ASSUME DOMAIN model = ModelFields, setup \in Setups
    PROVE  LET m == ingest(update_ego(model))
           IN  DOMAIN m = ModelFields /\ OfFrame(m)
<1> DEFINE e == update_ego(model)
           f == [e EXCEPT !.agents = Agents(e)]
           p == IF setup.source = "ground_truth" THEN refresh_ground_truth_obstacle_products(f)
                ELSE refresh_synthetic_obstacle_products(f)
           m == IF evidence # {} THEN [p EXCEPT !.evidence = evidence] ELSE p
<1>0. setup.source = "ground_truth" \/ setup.source = "synthetic"
    BY DEF Setups
<1>1. ingest(e) = m
    BY DEF ingest
<1>2. DOMAIN e = ModelFields /\ e.at = n /\ e.ego = pose.place
    BY DEF update_ego, refresh_synthetic_obstacle_products, ModelFields
<1> HIDE DEF e
<1>3. DOMAIN f = ModelFields /\ f.at = n /\ f.agents = AgentsOf(observed) /\ f.ego = pose.place
    BY <1>2 DEF ModelFields, Agents
<1> HIDE DEF f
<1>4. /\ DOMAIN p = ModelFields /\ p.at = n /\ p.agents = AgentsOf(observed) /\ p.ego = pose.place
      /\ p.occupancy = IF setup.source = "synthetic" THEN Fixture ELSE Seen
      /\ p.evidence = EmulatedHere
    <2>1. CASE setup.source = "ground_truth"
        <3>1. p = refresh_ground_truth_obstacle_products(f)
            BY <2>1
        <3>2. p = [f EXCEPT !.occupancy = Seen, !.swept = build_swept_volume(observed # <<>>, Seen),
                            !.evidence = Emulated(Seen)]
            BY <3>1 DEF refresh_ground_truth_obstacle_products, Seen
        <3>3. Emulated(Seen) = EmulatedHere
            BY <2>1 DEF Emulated, EmulatedHere
        <3> HIDE DEF p
        <3> QED BY <1>3, <2>1, <3>2, <3>3 DEF ModelFields
    <2>2. CASE setup.source = "synthetic"
        <3>1. p = refresh_synthetic_obstacle_products(f)
            BY <2>2
        <3>2. p = [f EXCEPT !.occupancy = Fixture, !.swept = build_swept_volume(TRUE, Fixture),
                            !.evidence = Fixture]
            BY <3>1 DEF refresh_synthetic_obstacle_products, Fixture
        <3> HIDE DEF p
        <3> QED BY <1>3, <2>2, <3>2 DEF ModelFields, EmulatedHere
    <2> QED BY <1>0, <2>1, <2>2
<1> HIDE DEF p
<1>5. DOMAIN m = ModelFields /\ OfFrame(m)
    <2>1. CASE evidence # {}
        <3>1. m = [p EXCEPT !.evidence = evidence]
            BY <2>1
        <3> HIDE DEF m
        <3> QED BY <1>4, <2>1, <3>1 DEF ModelFields, OfFrame
    <2>2. CASE evidence = {}
        <3>1. m = p
            BY <2>2
        <3> HIDE DEF m
        <3> QED BY <1>4, <2>2, <3>1 DEF OfFrame
    <2> QED BY <2>1, <2>2
<1> HIDE DEF m
<1> QED BY <1>1, <1>5 DEF e

\* The tracks of a frame: objects that are there, numbered.
LEMMA TracksFacts ==
    ASSUME NEW seen \in SUBSET ToSet(Detectable), NEW at_ \in [seen -> Places]
    PROVE  LET tracks == update(detect(seen, at_))
           IN  /\ tracks \in Seq(Observation) /\ Distinct(tracks)
               /\ \A i \in DOMAIN tracks : tracks[i].id \in TrackNames
<1> DEFINE view == Only(Detectable, seen)
           d == detect(seen, at_)
           tracks == update(d)
<1>1. Detectable \in Seq(Objects)
    BY GhostAssumption DEF GhostAssumption
<1>2. PICK loc : view \in Seq(Objects) /\ Takes(view, Detectable, seen, loc, Len(Detectable))
    BY <1>1, OnlyTakes
<1> HIDE DEF view
<1>3. /\ Len(view) \in Nat /\ DOMAIN view = 1..Len(view)
      /\ \A i \in 1..Len(view) : view[i] \in seen /\ view[i] \in Objects
    BY <1>2 DEF Takes
<1>4. d = [i \in DOMAIN view |-> [object |-> view[i], at |-> at_[view[i]]]]
    BY DEF detect, view
<1> HIDE DEF d
<1>5. DOMAIN d = 1..Len(view) /\ \A i \in 1..Len(view) : d[i].object \in Objects /\ d[i].at \in Places
    BY <1>3, <1>4
<1>6. tracks = [i \in 1..Len(view) |-> [id |-> <<"track", i>>, object |-> d[i].object, at |-> d[i].at]]
    BY <1>5 DEF update
<1> HIDE DEF tracks
<1>7. \A i \in 1..Len(view) : <<"track", i>> \in TrackNames /\ tracks[i].id = <<"track", i>>
    BY <1>3, <1>6 DEF TrackNames
<1>8. \A i \in 1..Len(view) : tracks[i] \in Observation
    <2> TAKE i \in 1..Len(view)
    <2>1. <<"track", i>> \in Names
        BY <1>7 DEF Names
    <2> QED BY <1>5, <1>6, <2>1 DEF Observation
<1>9. DOMAIN tracks = 1..Len(view) /\ tracks \in Seq(Observation)
    <2>1. tracks = [i \in 1..Len(view) |-> tracks[i]] /\ DOMAIN tracks = 1..Len(view)
        BY <1>6
    <2>2. tracks \in [1..Len(view) -> Observation]
        BY <1>8, <2>1
    <2> QED BY <1>3, <2>1, <2>2, SeqDef
<1>10. Distinct(tracks)
    <2> SUFFICES ASSUME NEW i \in DOMAIN tracks, NEW j \in DOMAIN tracks, tracks[i].id = tracks[j].id
                 PROVE  i = j
        BY DEF Distinct
    <2>1. <<"track", i>> = <<"track", j>>
        BY <1>7, <1>9
    <2> QED BY <2>1
<1> QED BY <1>7, <1>9, <1>10 DEF tracks, d

\* The candidates of the inventory.
LEMMA InventoryFacts ==
    LET all == inventory_candidates
    IN  /\ all \in Seq(Candidates) /\ Different(all)
        /\ NamesIn(all) \cap NamesIn(Exact) = {}
<1>1. CASE setup.inventory
    <2>1. inventory_candidates = expand_patterns_from_scene_inventory
        BY <1>1 DEF inventory_candidates
    <2> QED BY <2>1, ExpandedFacts
<1>2. CASE ~setup.inventory
    <2>1. inventory_candidates = <<>>
        BY <1>2 DEF inventory_candidates
    <2>2. <<>> \in Seq(Candidates) /\ DOMAIN <<>> = {}
        OBVIOUS
    <2> QED BY <2>1, <2>2 DEF Different, NamesIn
<1> QED BY <1>1, <1>2

\* The poses of a line, as bindings.
PosesOf(line) ==
    [k \in DOMAIN line |->
        [object |-> line[k].object, class |-> Patterns[line[k].pattern].class,
         track |-> Patterns[line[k].pattern].track[line[k].object]]]

\* They are candidates, and different objects.
LEMMA PosesAreCandidates ==
    ASSUME NEW line \in Lines
    PROVE  PosesOf(line) \in Seq(Candidates) /\ Different(PosesOf(line))
<1> DEFINE e == PosesOf(line)
<1>1. line \in Seq([object : Objects, pattern : DOMAIN Patterns]) /\ Different(line)
    BY ChildAssumption DEF ChildAssumption
<1>2. /\ Len(line) \in Nat /\ DOMAIN line = 1..Len(line)
      /\ \A k \in 1..Len(line) : line[k].object \in Objects /\ line[k].pattern \in DOMAIN Patterns
    <2> DEFINE R == [object : Objects, pattern : DOMAIN Patterns]
    <2>1. line \in Seq(R) /\ \A x \in R : x.object \in Objects /\ x.pattern \in DOMAIN Patterns
        BY <1>1
    <2> HIDE DEF R
    <2>2. Len(line) \in Nat /\ DOMAIN line = 1..Len(line) /\ \A k \in 1..Len(line) : line[k] \in R
        BY <2>1
    <2> QED BY <2>1, <2>2
<1>3. ASSUME NEW i \in DOMAIN Patterns
      PROVE  Patterns[i].class \in ToSet(Classes) /\ Patterns[i].track \in [Objects -> Tracks]
    <2> DEFINE p == Patterns[i]
               R == [class : ToSet(Classes), max : Nat, matches : Seq(Objects),
                     track : [Objects -> Tracks]]
    <2>1. p \in R
        <3>1. Patterns \in Seq(R)
            BY GhostAssumption DEF GhostAssumption
        <3> HIDE DEF R
        <3> QED BY <3>1
    <2> HIDE DEF p
    <2>2. p.class \in ToSet(Classes) /\ p.track \in [Objects -> Tracks]
        BY <2>1
    <2> QED BY <2>2 DEF p
<1>4. \A k \in 1..Len(line) : e[k] \in Candidates /\ e[k].object = line[k].object
    <2> TAKE k \in 1..Len(line)
    <2> DEFINE i == line[k].pattern
               o == line[k].object
    <2>1. e[k] = [object |-> o, class |-> Patterns[i].class, track |-> Patterns[i].track[o]]
        BY <1>2 DEF PosesOf
    <2>2. i \in DOMAIN Patterns /\ o \in Objects
        BY <1>2
    <2> HIDE DEF i, o, e
    <2>3. e[k] \in Bindings /\ e[k].track = Patterns[i].track[e[k].object]
        BY <1>3, <2>1, <2>2 DEF Bindings
    <2> QED BY <2>1, <2>2, <2>3 DEF Candidates, o
<1>5. e \in Seq(Candidates) /\ DOMAIN e = 1..Len(line)
    <2>1. e = [a \in 1..Len(line) |-> e[a]] /\ DOMAIN e = 1..Len(line)
        BY <1>2 DEF PosesOf
    <2> HIDE DEF e
    <2>2. e \in [1..Len(line) -> Candidates]
        BY <1>4, <2>1
    <2> QED BY <1>2, <2>1, <2>2, SeqDef
<1> HIDE DEF e
<1>6. Different(e)
    BY <1>1, <1>2, <1>4, <1>5 DEF Different
<1> QED BY <1>5, <1>6 DEF e

\* The ghosts of a frame have tracks of their own when the configuration names them
\* apart: what the child has marked comes only behind what is bound by name.
LEMMA DetectionsFacts ==
    ASSUME StreamSound, setup \in Setups, NEW line \in Lines
    PROVE  detections_at(line) \in Seq(Bindings) /\ (WellNamed => Named(detections_at(line)))
<1>1. /\ streamed \in Seq(Bindings) /\ (WellNamed => Named(streamed))
      /\ inventory_candidates = <<>> => \A i \in DOMAIN streamed : streamed[i] \in ToSet(Exact)
    BY DEF StreamSound, Selected
<1>2. CASE setup.ghosts = "none"
    <2>1. detections_at(line) = <<>>
        BY <1>2 DEF detections_at
    <2>2. <<>> \in Seq(Bindings) /\ DOMAIN <<>> = {}
        OBVIOUS
    <2> QED BY <2>1, <2>2 DEF Named
<1>3. CASE setup.ghosts = "trajectory_scenario"
    <2>1. detections_at(line) = Scenario
        BY <1>3 DEF detections_at
    <2>2. Scenario \in Seq(Bindings)
        BY GhostAssumption DEF GhostAssumption
    <2> QED BY <2>1, <2>2 DEF WellNamed
<1>4. CASE setup.ghosts = "airsim_objects" /\ inventory_candidates # <<>>
    <2>1. detections_at(line) = streamed
        BY <1>4 DEF detections_at, AirSimDetections
    <2> QED BY <1>1, <2>1
<1>5. CASE setup.ghosts = "airsim_objects" /\ inventory_candidates = <<>>
    <2> DEFINE marked == PosesOf(line)
    <2>1. detections_at(line) = streamed \o marked
        BY <1>5 DEF detections_at, AirSimDetections, PosesOf
    <2>2. marked \in Seq(Candidates) /\ Different(marked)
        BY PosesAreCandidates
    <2> HIDE DEF marked
    <2>3. marked \in Seq(Bindings) /\ streamed \o marked \in Seq(Bindings)
        BY <1>1, <2>2, CandidateLists
    <2>4. ASSUME WellNamed PROVE Named(streamed \o marked)
        <3>1. Named(marked) /\ \A a \in DOMAIN Exact, b \in DOMAIN marked : Exact[a].track # marked[b].track
            BY <2>2, <2>4, DifferentAreNamed
        <3>2. \A a \in DOMAIN streamed, b \in DOMAIN marked : streamed[a].track # marked[b].track
            <4> TAKE a \in DOMAIN streamed, b \in DOMAIN marked
            <4>1. PICK k \in DOMAIN Exact : streamed[a] = Exact[k]
                BY <1>1, <1>5 DEF ToSet
            <4> QED BY <3>1, <4>1
        <3> QED BY <1>1, <2>3, <2>4, <3>1, <3>2, NamedTogether
    <2> QED BY <2>1, <2>3, <2>4
<1> QED BY <1>2, <1>3, <1>4, <1>5 DEF Setups

\* The ghosts go behind the tracks.
LEMMA GhostsFacts ==
    ASSUME observed \in Seq(Observation), WellNamed => Distinct(observed),
           \A i \in DOMAIN observed : observed[i].id \in TrackNames,
           NEW list \in Seq(Bindings), WellNamed => Named(list), NEW at_ \in [NamesIn(list) -> Places]
    PROVE  LET both == observed \o Observed(list, at_)
           IN  both \in Seq(Observation) /\ (WellNamed => Distinct(both))
<1> DEFINE ghosts == Observed(list, at_)
           u == observed \o ghosts
<1>1. /\ Len(list) \in Nat /\ DOMAIN list = 1..Len(list)
      /\ \A i \in 1..Len(list) : list[i] \in Bindings /\ list[i].object \in NamesIn(list)
    BY DEF NamesIn
<1>2. ASSUME NEW i \in 1..Len(list)
      PROVE  ghosts[i] \in Observation /\ ghosts[i].id = list[i].track /\ list[i].track \in Tracks
    <2>1. ghosts[i] = [id |-> list[i].track, object |-> list[i].object, at |-> at_[list[i].object]]
        BY <1>1 DEF Observed
    <2>2. list[i].track \in Tracks /\ list[i].object \in Objects /\ at_[list[i].object] \in Places
        BY <1>1 DEF Bindings
    <2> HIDE DEF ghosts
    <2> QED BY <2>1, <2>2 DEF Observation, Names
<1>3. ghosts \in Seq(Observation) /\ DOMAIN ghosts = 1..Len(list)
    <2>1. ghosts = [i \in 1..Len(list) |-> ghosts[i]] /\ DOMAIN ghosts = 1..Len(list)
        BY <1>1 DEF Observed
    <2> HIDE DEF ghosts
    <2>2. ghosts \in [1..Len(list) -> Observation]
        BY <1>2, <2>1
    <2> QED BY <1>1, <2>1, <2>2, SeqDef
<1> HIDE DEF ghosts
<1>4. /\ Len(observed) \in Nat /\ DOMAIN observed = 1..Len(observed) /\ Len(ghosts) = Len(list)
      /\ u \in Seq(Observation) /\ DOMAIN u = 1..(Len(observed) + Len(list))
      /\ \A i \in 1..Len(observed) : u[i] = observed[i]
    <2>1. Len(ghosts) = Len(list)
        BY <1>1, <1>3
    <2>2. /\ Len(observed) \in Nat /\ DOMAIN observed = 1..Len(observed)
          /\ u \in Seq(Observation) /\ DOMAIN u = 1..(Len(observed) + Len(ghosts))
          /\ \A i \in 1..Len(observed) : u[i] = observed[i]
        BY <1>3
    <2> QED BY <2>1, <2>2
<1>5. \A i \in (Len(observed) + 1)..(Len(observed) + Len(list)) :
          u[i] = ghosts[i - Len(observed)] /\ i - Len(observed) \in 1..Len(list)
    BY <1>1, <1>3, <1>4
<1> HIDE DEF u
<1>6. \A i \in DOMAIN u : i \in 1..Len(observed) \/ i \in (Len(observed) + 1)..(Len(observed) + Len(list))
    BY <1>1, <1>4
<1>7. ASSUME WellNamed, NEW i \in DOMAIN u, NEW j \in DOMAIN u, u[i].id = u[j].id PROVE i = j
    <2>0. \A x \in TrackNames, t \in Tracks : x # t
        <3>1. \A x \in TrackNames : x[1] = "track"
            BY DEF TrackNames
        <3>2. \A t \in Tracks : t[1] # "track"
            BY <1>7 DEF WellNamed
        <3> QED BY <3>1, <3>2
    <2>1. CASE i \in 1..Len(observed) /\ j \in 1..Len(observed)
        BY <1>4, <1>7, <2>1 DEF Distinct
    <2>2. CASE i \in 1..Len(observed) /\ j \in (Len(observed) + 1)..(Len(observed) + Len(list))
        <3>1. u[i].id \in TrackNames
            BY <1>4, <2>2
        <3>2. u[j].id \in Tracks
            BY <1>2, <1>5, <2>2
        <3> QED BY <1>7, <2>0, <3>1, <3>2
    <2>3. CASE i \in (Len(observed) + 1)..(Len(observed) + Len(list)) /\ j \in 1..Len(observed)
        <3>1. u[j].id \in TrackNames
            BY <1>4, <2>3
        <3>2. u[i].id \in Tracks
            BY <1>2, <1>5, <2>3
        <3> QED BY <1>7, <2>0, <3>1, <3>2
    <2>4. CASE /\ i \in (Len(observed) + 1)..(Len(observed) + Len(list))
               /\ j \in (Len(observed) + 1)..(Len(observed) + Len(list))
        <3> DEFINE a == i - Len(observed)
                   b == j - Len(observed)
        <3>1. a \in 1..Len(list) /\ b \in 1..Len(list) /\ u[i] = ghosts[a] /\ u[j] = ghosts[b]
            BY <1>5, <2>4
        <3> HIDE DEF a, b
        <3>2. list[a].track = list[b].track
            BY <1>2, <1>7, <3>1
        <3>3. a = b
            BY <1>1, <1>7, <3>1, <3>2 DEF Named
        <3> QED BY <1>4, <2>4, <3>3 DEF a, b
    <2> QED BY <1>6, <2>1, <2>2, <2>3, <2>4
<1>8. WellNamed => Distinct(u)
    BY <1>7 DEF Distinct
<1> QED BY <1>4, <1>8 DEF u, ghosts

\* A frame that is not a multiple of the cadence leaves the last multiple what it was.
LEMMA CadenceKeeps ==
    ASSUME NEW m \in Nat, NEW q \in Nat, q * Cadence <= m - 1, m - 1 < q * Cadence + Cadence,
           m % Cadence # 0
    PROVE  m < q * Cadence + Cadence
<1> DEFINE d == m \div Cadence
           r == m % Cadence
           e == q + 1 - d
<1>1. Cadence \in Nat /\ Cadence > 0
    BY CadenceAssumption DEF CadenceAssumption
<1>2. d \in Int /\ r \in 0..(Cadence - 1) /\ m = Cadence * d + r
    BY <1>1
<1> HIDE DEF d, r
<1>3. SUFFICES ASSUME m = q * Cadence + Cadence PROVE FALSE
    <2>1. q * Cadence \in Nat
        BY <1>1
    <2> QED BY <1>1, <2>1
<1>4. e \in Int /\ Cadence * e = r
    <2>1. Cadence * e = Cadence * q + Cadence - Cadence * d
        BY <1>1, <1>2
    <2>2. Cadence * q = q * Cadence /\ Cadence * q \in Int /\ Cadence * d \in Int
        BY <1>1, <1>2
    <2> QED BY <1>1, <1>2, <1>3, <2>1, <2>2
<1> HIDE DEF e
<1>5. CASE e <= 0
    <2>1. Cadence * e <= 0
        BY <1>1, <1>4, <1>5
    <2> QED BY <1>2, <1>4, <2>1 DEF r
<1>6. CASE e >= 1
    <2>1. Cadence * e >= Cadence
        BY <1>1, <1>4, <1>6
    <2> QED BY <1>1, <1>2, <1>4, <2>1
<1> QED BY <1>4, <1>5, <1>6

\* A multiple of the cadence is one.
LEMMA CadenceHits ==
    ASSUME NEW m \in Nat, m % Cadence = 0
    PROVE  \E q \in Nat : m = q * Cadence
<1> DEFINE d == m \div Cadence
           r == m % Cadence
<1>1. Cadence \in Nat /\ Cadence > 0
    BY CadenceAssumption DEF CadenceAssumption
<1>2. d \in Int /\ r \in 0..(Cadence - 1) /\ m = Cadence * d + r
    BY <1>1
<1>3. r = 0
    OBVIOUS
<1> HIDE DEF d, r
<1>31. m = Cadence * d
    <2>1. Cadence * d \in Int
        BY <1>1, <1>2
    <2> QED BY <1>2, <1>3, <2>1
<1>4. d >= 0
    <2> SUFFICES ASSUME d <= -1 PROVE FALSE
        BY <1>2
    <2>1. Cadence * d <= -Cadence
        BY <1>1, <1>2
    <2> QED BY <1>1, <1>31, <2>1
<1>5. d \in Nat /\ m = d * Cadence
    BY <1>1, <1>2, <1>31, <1>4
<1> QED BY <1>5

\* The perch candidates that publish() leaves are those of the last multiple of the
\* cadence, and recent.
LEMMA PerchFacts ==
    ASSUME StageSound, PerchSound, publish
    PROVE  PerchSound' /\ PerchIsRecent'
<1>1. Cadence \in Nat /\ Cadence > 0
    BY CadenceAssumption DEF CadenceAssumption
<1>2. /\ n \in Nat /\ n > 0 /\ n' = n /\ PerchTick = n - 1 /\ PerchTick' = n
      /\ shown'.frame = n /\ shown'.perch = perch'
    <2>1. stage = "flight_map" /\ stage' = "frame" /\ n' = n
        BY DEF publish
    <2>2. n \in Nat /\ n > 0
        BY <2>1, CadenceAssumption DEF StageSound, CadenceAssumption
    <2>3. shown'.frame = n /\ shown'.perch = perch'
        BY DEF publish
    <2>4. PerchTick = n - 1 /\ PerchTick' = n
        BY <2>1 DEF PerchTick
    <2> QED BY <2>1, <2>2, <2>3, <2>4
<1>3. PICK q \in Nat : perch'.frame = q * Cadence /\ q * Cadence <= n /\ n < q * Cadence + Cadence
    <2>1. CASE PerchDue
        <3>1. perch'.frame = n
            BY <2>1 DEF publish
        <3>2. PICK q \in Nat : n = q * Cadence
            BY <1>2, <2>1, CadenceHits DEF PerchDue
        <3>3. q * Cadence <= n /\ n < q * Cadence + Cadence
            BY <1>1, <1>2, <3>2
        <3> QED BY <3>1, <3>2, <3>3
    <2>2. CASE ~PerchDue
        <3>1. perch' = perch
            BY <2>2 DEF publish
        <3>2. PICK q \in Nat : /\ perch.frame = q * Cadence
                               /\ q * Cadence <= n - 1 /\ n - 1 < q * Cadence + Cadence
            BY <1>2 DEF PerchSound
        <3>3. n < q * Cadence + Cadence
            BY <1>2, <2>2, <3>2, CadenceKeeps DEF PerchDue
        <3>4. q * Cadence <= n
            <4>1. q * Cadence \in Nat
                BY <1>1
            <4> QED BY <1>2, <3>2, <4>1
        <3> QED BY <3>1, <3>2, <3>3, <3>4
    <2> QED BY <2>1, <2>2
<1>4. PerchSound'
    <2>1. Cadence' = Cadence
        OBVIOUS
    <2> QED BY <1>2, <1>3 DEF PerchSound
<1>5. PerchIsRecent'
    <2> DEFINE f == q * Cadence
    <2>1. f \in Nat /\ (f > 0 \/ f = 0)
        BY <1>1
    <2>2. perch'.frame = f /\ f <= n /\ n < f + Cadence
        BY <1>3
    <2> HIDE DEF f
    <2>3. \/ n < Cadence /\ f = 0
          \/ f \in n - Cadence + 1..n /\ f > 0
        BY <1>1, <1>2, <2>1, <2>2
    <2> QED BY <1>2, <2>2, <2>3 DEF PerchIsRecent
<1> QED BY <1>4, <1>5

\* The invariant holds when the runner is constructed.
LEMMA WorldSafeInit == WorldInit => WorldSafe
<1> SUFFICES ASSUME WorldInit PROVE WorldSafe
    OBVIOUS
<1>1. Cadence \in Nat /\ Cadence > 0 /\ MaxFrames \in Nat /\ MaxObjects \in Nat
    BY CadenceAssumption, GhostAssumption DEF CadenceAssumption, GhostAssumption
<1>2. StageSound
    BY <1>1 DEF WorldInit, StageSound
<1>3. PlacesSound
    BY PathSafeInit
<1>4. StreamSound
    <2>1. streamed = <<>> /\ <<>> \in Seq(Bindings) /\ Len(<<>>) = 0 /\ DOMAIN <<>> = {}
        BY DEF WorldInit
    <2> QED BY <1>1, <2>1 DEF StreamSound, Selected, Named
<1>5. ObservedSound
    BY DEF WorldInit, ObservedSound, Distinct
<1>6. ModelSound
    BY DEF WorldInit, ModelSound, EmptyModel, ModelFields
<1>7. PerchSound
    <2>1. perch.frame = 0 /\ PerchTick = 0
        BY DEF WorldInit, PerchTick
    <2>2. 0 * Cadence = 0 /\ 0 < 0 + Cadence
        BY <1>1
    <2> QED BY <2>1, <2>2 DEF PerchSound
<1>8. ShownSound
    BY DEF WorldInit, ShownSound, AgentIdsAreDistinct, SnapshotIsOneFrame, PerchIsRecent, Published
<1> QED BY <1>2, <1>3, <1>4, <1>5, <1>6, <1>7, <1>8 DEF WorldSafe

\* What was shown stays sound while it is not replaced.
LEMMA ShownKept ==
    ASSUME ShownSound, UNCHANGED <<setup, shown>>
    PROVE  ShownSound'
<1>1. AgentIdsAreDistinct'
    BY DEF ShownSound, AgentIdsAreDistinct, Published, Ids
<1>2. SnapshotIsOneFrame'
    BY DEF ShownSound, SnapshotIsOneFrame, EmulatedFrom, Published
<1>3. PerchIsRecent'
    BY DEF ShownSound, PerchIsRecent, Published
<1> QED BY <1>1, <1>2, <1>3 DEF ShownSound

\* The cached perch candidates stay those of the last multiple of the cadence while
\* no frame is through.
LEMMA PerchKept ==
    ASSUME PerchSound, UNCHANGED perch, PerchTick' = PerchTick
    PROVE  PerchSound'
BY DEF PerchSound

\* The bindings streamed stay what they are.
LEMMA StreamKept ==
    ASSUME StreamSound, UNCHANGED <<setup, streamed>>
    PROVE  StreamSound'
<1>1. inventory_candidates' = inventory_candidates
    BY DEF inventory_candidates
<1> QED BY <1>1 DEF StreamSound, Selected

\* Before the model is updated nothing is said of it but its fields.
LEMMA ModelKept ==
    ASSUME ModelSound, UNCHANGED model, stage' # "flight_map"
    PROVE  ModelSound'
BY DEF ModelSound

\* What publish() shows is sound.
LEMMA PublishFacts ==
    ASSUME StageSound, ObservedSound, ModelSound, PerchSound, publish
    PROVE  ShownSound'
<1>1. /\ shown'.frame = n /\ shown'.world = model /\ shown'.depth = evidence /\ setup' = setup
      /\ stage = "flight_map"
    BY DEF publish
<1>2. OfFrame(model)
    BY <1>1 DEF ModelSound
<1>3. observed \in Seq(Observation) /\ (WellNamed => Distinct(observed))
    BY DEF ObservedSound
<1> DEFINE agents == AgentsOf(observed)
<1>4. /\ Distinct(observed) => Cardinality(Ids(agents)) = Len(agents)
      /\ \A i \in DOMAIN agents : agents[i].frame = n
      /\ {agents[i].at : i \in DOMAIN agents} = Seen
    BY <1>3, AgentsFollow DEF Seen
<1>5. model.agents = agents /\ model.at = n /\ model.ego = pose.place
    BY <1>2 DEF OfFrame
<1> HIDE DEF agents
<1>6. AgentIdsAreDistinct'
    BY <1>1, <1>3, <1>4, <1>5 DEF AgentIdsAreDistinct, Ids
<1>7. SnapshotIsOneFrame'
    <2>1. {model.ego + d : d \in Synthetic} = Fixture
        BY <1>5 DEF Fixture
    <2>2. {model.agents[i].at : i \in DOMAIN model.agents} = Seen
        BY <1>4, <1>5
    <2>3. EmulatedFrom(model) = EmulatedHere
        BY <1>5, <2>1, <2>2 DEF EmulatedFrom, EmulatedHere
    <2>5. /\ model.occupancy = IF setup.source = "synthetic" THEN {model.ego + d : d \in Synthetic}
                               ELSE {model.agents[i].at : i \in DOMAIN model.agents}
          /\ model.evidence = IF evidence # {} THEN evidence ELSE EmulatedFrom(model)
          /\ \A i \in DOMAIN model.agents : model.agents[i].frame = n
        BY <1>2, <1>4, <1>5, <2>1, <2>2, <2>3 DEF OfFrame
    <2> QED BY <1>1, <1>5, <2>5 DEF SnapshotIsOneFrame, EmulatedFrom
<1> QED BY <1>6, <1>7, PerchFacts DEF ShownSound

\* Every step of run_once() keeps the invariant.
LEMMA WorldSafeStep ==
    ASSUME WorldSafe, [WorldNext \/ WorldDone]_worldVars
    PROVE  WorldSafe'
<1> USE DEF WorldSafe
<1>p. PlacesSound'
    <2>1. CASE pre_warm
        BY <2>1 DEF pre_warm, PlacesSound
    <2>2. CASE next_frame
        BY <2>2, PlacesAssumption DEF next_frame, PlacesSound, PlacesAssumption
    <2>3. CASE process \/ frame_at \/ provider_throws
        BY <2>3 DEF process, frame_at, provider_throws, PlacesSound
    <2>4. CASE depth_slot_a
        BY <2>4 DEF depth_slot_a, PlacesSound
    <2>5. CASE update_world
        BY <2>5 DEF update_world, PlacesSound
    <2>6. CASE publish
        BY <2>6 DEF publish, PlacesSound
    <2>7. CASE UNCHANGED worldVars
        BY <2>7 DEF worldVars, PlacesSound
    <2> QED BY <2>1, <2>2, <2>3, <2>4, <2>5, <2>6, <2>7 DEF WorldNext, WorldDone
<1>1. CASE pre_warm
    <2>1. /\ stage = "start" /\ stage' = "frame"
          /\ streamed' = IF setup.ghosts = "airsim_objects"
                         THEN select_nearby_candidates(inventory_candidates) ELSE <<>>
          /\ UNCHANGED <<setup, n, observed, model, perch, shown>>
        BY <1>1 DEF pre_warm
    <2>2. StageSound'
        BY <2>1 DEF StageSound
    <2>3. StreamSound'
        <3> DEFINE all == inventory_candidates
                   list == select_nearby_candidates(all)
        <3>1. Selected(list, all)
            BY InventoryFacts, SelectedFacts
        <3>2. Selected(<<>>, all)
            <4>1. <<>> \in Seq(Bindings) /\ Len(<<>>) = 0 /\ DOMAIN <<>> = {} /\ MaxObjects \in Nat
                BY GhostAssumption DEF GhostAssumption
            <4> QED BY <4>1 DEF Selected, Named
        <3>3. streamed' = list \/ streamed' = <<>>
            BY <2>1
        <3>4. all' = all
            BY <2>1 DEF inventory_candidates
        <3> HIDE DEF list, all
        <3>5. Selected(streamed', all)
            BY <3>1, <3>2, <3>3
        <3> QED BY <3>4, <3>5 DEF StreamSound, Selected, all
    <2>4. ObservedSound'
        BY <2>1 DEF ObservedSound, Distinct
    <2>5. PerchSound'
        BY <2>1, PerchKept DEF PerchTick
    <2> QED BY <1>p, <2>1, <2>2, <2>3, <2>4, <2>5, ModelKept, ShownKept
<1>2. CASE next_frame
    <2>1. /\ stage = "frame" /\ stage' = "perceive" /\ n' = n + 1 /\ n < MaxFrames /\ shown' = NoSnapshot
          /\ UNCHANGED <<setup, streamed, observed, model, perch>>
        BY <1>2 DEF next_frame
    <2>2. n \in Nat /\ MaxFrames \in Nat
        BY CadenceAssumption DEF StageSound, CadenceAssumption
    <2>3. StageSound'
        BY <2>1, <2>2 DEF StageSound
    <2>4. StreamSound'
        BY <2>1, StreamKept
    <2>5. ObservedSound'
        BY <2>1 DEF ObservedSound, Distinct
    <2>6. PerchTick' = PerchTick
        BY <2>1, <2>2 DEF PerchTick
    <2>7. PerchSound'
        BY <2>1, <2>6, PerchKept
    <2>8. ShownSound'
        BY <2>1 DEF ShownSound, AgentIdsAreDistinct, SnapshotIsOneFrame, PerchIsRecent, Published
    <2> QED BY <1>p, <2>1, <2>3, <2>4, <2>5, <2>7, <2>8, ModelKept
<1>3. CASE process
    <2>1. /\ stage = "perceive" /\ stage' = "depth"
          /\ UNCHANGED <<setup, n, streamed, model, perch, shown>>
        BY <1>3 DEF process
    <2>2. StageSound' /\ StreamSound' /\ PerchTick' = PerchTick
        BY <2>1, StreamKept DEF StageSound, PerchTick
    <2>3. PICK seen \in SUBSET ToSet(Detectable) : \E a \in [seen -> Places] :
              observed' = update(detect(seen, a))
        BY <1>3 DEF process
    <2>4. PICK a \in [seen -> Places] : observed' = update(detect(seen, a))
        BY <2>3
    <2>5. ObservedSound'
        <3> DEFINE tracks == update(detect(seen, a))
        <3>1. /\ tracks \in Seq(Observation) /\ Distinct(tracks)
              /\ \A i \in DOMAIN tracks : tracks[i].id \in TrackNames
            BY TracksFacts
        <3>2. observed' = tracks
            BY <2>4
        <3> HIDE DEF tracks
        <3> QED BY <3>1, <3>2 DEF ObservedSound, Distinct
    <2> QED BY <1>p, <2>1, <2>2, <2>5, ModelKept, ShownKept, PerchKept
<1>4. CASE depth_slot_a
    <2>1. /\ stage = "depth" /\ stage' = "ghosts"
          /\ UNCHANGED <<setup, n, streamed, observed, model, perch, shown>>
        BY <1>4 DEF depth_slot_a
    <2>2. StageSound' /\ StreamSound' /\ PerchTick' = PerchTick
        BY <2>1, StreamKept DEF StageSound, PerchTick
    <2>3. ObservedSound'
        BY <2>1 DEF ObservedSound, Distinct
    <2> QED BY <1>p, <2>1, <2>2, <2>3, ModelKept, ShownKept, PerchKept
<1>5. CASE frame_at
    <2>1. /\ stage = "ghosts" /\ stage' = "ingest"
          /\ UNCHANGED <<setup, n, streamed, model, perch, shown>>
        BY <1>5 DEF frame_at
    <2>2. StageSound' /\ StreamSound' /\ PerchTick' = PerchTick
        BY <2>1, StreamKept DEF StageSound, PerchTick
    <2>3. PICK line \in Lines : \E a \in [NamesIn(detections_at(line)) -> Places] :
              observed' = observed \o Observed(detections_at(line), a)
        BY <1>5 DEF frame_at
    <2>4. ObservedSound'
        <3> DEFINE list == detections_at(line)
        <3>1. list \in Seq(Bindings) /\ (WellNamed => Named(list))
            BY DetectionsFacts DEF StageSound
        <3>2. PICK a \in [NamesIn(list) -> Places] : observed' = observed \o Observed(list, a)
            BY <2>3
        <3> HIDE DEF list
        <3>3. /\ observed \in Seq(Observation) /\ (WellNamed => Distinct(observed))
              /\ \A i \in DOMAIN observed : observed[i].id \in TrackNames
            BY <2>1 DEF ObservedSound
        <3> DEFINE both == observed \o Observed(list, a)
        <3>4. both \in Seq(Observation) /\ (WellNamed => Distinct(both))
            BY <3>1, <3>3, GhostsFacts
        <3>5. observed' = both
            BY <3>2
        <3> HIDE DEF both
        <3> QED BY <2>1, <3>4, <3>5 DEF ObservedSound, Distinct
    <2> QED BY <1>p, <2>1, <2>2, <2>4, ModelKept, ShownKept, PerchKept
<1>6. CASE provider_throws
    <2>1. /\ stage \in {"perceive", "depth", "ghosts"} /\ stage' = "failed"
          /\ UNCHANGED <<setup, n, streamed, observed, model, perch, shown>>
        BY <1>6 DEF provider_throws
    <2>2. StageSound' /\ StreamSound' /\ PerchTick' = PerchTick
        BY <2>1, StreamKept DEF StageSound, PerchTick
    <2>3. ObservedSound'
        BY <2>1 DEF ObservedSound, Distinct
    <2> QED BY <1>p, <2>1, <2>2, <2>3, ModelKept, ShownKept, PerchKept
<1>7. CASE update_world
    <2>1. /\ stage = "ingest" /\ stage' = "flight_map" /\ model' = ingest(update_ego(model))
          /\ UNCHANGED <<setup, n, pose, streamed, observed, evidence, perch, shown>>
        BY <1>7 DEF update_world
    <2>2. StageSound' /\ StreamSound' /\ PerchTick' = PerchTick
        BY <2>1, StreamKept DEF StageSound, PerchTick
    <2>3. ObservedSound'
        BY <2>1 DEF ObservedSound, Distinct
    <2>4. ModelSound'
        <3> DEFINE m == ingest(update_ego(model))
        <3>1. DOMAIN m = ModelFields /\ OfFrame(m)
            BY IngestFacts DEF ModelSound, StageSound
        <3>2. model' = m
            BY <2>1
        <3> HIDE DEF m
        <3>3. OfFrame(model)'
            BY <2>1, <3>1, <3>2 DEF OfFrame, AgentsOf, Seen, Fixture, EmulatedHere
        <3> QED BY <3>1, <3>2, <3>3 DEF ModelSound
    <2> QED BY <1>p, <2>1, <2>2, <2>3, <2>4, ShownKept, PerchKept
<1>8. CASE publish
    <2>1. /\ stage = "flight_map" /\ stage' = "frame" /\ observed' = <<>>
          /\ UNCHANGED <<setup, n, streamed, model>>
        BY <1>8 DEF publish
    <2>2. StageSound' /\ StreamSound'
        BY <2>1, StreamKept DEF StageSound
    <2>3. ObservedSound'
        BY <2>1 DEF ObservedSound, Distinct
    <2> QED BY <1>8, <1>p, <2>1, <2>2, <2>3, ModelKept, PublishFacts, PerchFacts
<1>9. CASE UNCHANGED worldVars
    <2>1. UNCHANGED <<setup, stage, n, pose, streamed, observed, evidence, model, perch, shown>>
        BY <1>9 DEF worldVars
    <2>2. StageSound' /\ StreamSound' /\ PerchTick' = PerchTick
        BY <2>1, StreamKept DEF StageSound, PerchTick
    <2>3. ObservedSound'
        BY <2>1 DEF ObservedSound, Distinct
    <2>4. ModelSound'
        <3>1. OfFrame(model) => OfFrame(model)'
            BY <2>1 DEF OfFrame, AgentsOf, Seen, Fixture, EmulatedHere
        <3> QED BY <2>1, <3>1 DEF ModelSound
    <2> QED BY <1>p, <2>1, <2>2, <2>3, <2>4, ShownKept, PerchKept
<1> QED BY <1>1, <1>2, <1>3, <1>4, <1>5, <1>6, <1>7, <1>8, <1>9 DEF WorldNext, WorldDone

\* For every list of detectable objects, bindings and patterns, every scenario, every
\* line of the child, every limit, place, cadence and number of frames: a snapshot
\* that run_once() publishes is of one frame, with its occupancy and its evidence,
\* its perch candidates are no older than the cadence, and its agents can be told
\* apart whenever the configuration names them apart.
THEOREM WorldStaysCoherent == WorldSpec => []WorldIsCoherent
<1>1. WorldSafe => WorldIsCoherent
    <2> SUFFICES ASSUME WorldSafe PROVE WorldIsCoherent
        OBVIOUS
    <2>1. \A i \in DOMAIN observed : observed[i].object \in Objects /\ observed[i].at \in Places
        <3>1. \A i \in DOMAIN observed : observed[i] \in Observation
            BY DEF WorldSafe, ObservedSound
        <3> QED BY <3>1 DEF Observation
    <2>2. WorldTypeOK
        BY <2>1 DEF WorldSafe, StageSound, PlacesSound, StreamSound, Selected, WorldTypeOK
    <2> QED BY <2>2 DEF WorldSafe, ShownSound, WorldIsCoherent
<1>2. WorldSafe /\ [WorldNext \/ WorldDone]_worldVars => WorldSafe'
    BY WorldSafeStep
<1> QED BY <1>1, <1>2, WorldSafeInit, PTL DEF WorldSpec

-----------------------------------------------------------------------------
\* g is m steps of h from b within P.
StepsIn(g, P, m, b, h) ==
    g \in [0..m -> P] /\ \A k \in 0..m : g[k] = IF k = 0 THEN b ELSE h[<<g[k - 1], k>>]

\* What is defined by steps within a set exists, and stays within it.
LEMMA StepsMake ==
    ASSUME NEW P, NEW m \in Nat, NEW b \in P, NEW h \in [P \X (1..m) -> P]
    PROVE  \E g : StepsIn(g, P, m, b, h)
<1>1. PICK g : StepsOf(g, m, b, h)
    BY StepsExist
<1>2. \A k \in 0..m : g[k] = IF k = 0 THEN b ELSE h[<<g[k - 1], k>>]
    BY <1>1 DEF StepsOf
<1>3. g[0] \in P
    <2>1. 0 \in 0..m
        OBVIOUS
    <2> QED BY <1>2, <2>1
<1>4. ASSUME NEW k \in 0..(m - 1), g[k] \in P PROVE g[k + 1] \in P
    <2>1. k + 1 \in 1..m /\ k + 1 \in 0..m /\ (k + 1) - 1 = k /\ k + 1 # 0
        OBVIOUS
    <2>2. g[k + 1] = h[<<g[k], k + 1>>]
        BY <1>2, <2>1
    <2> QED BY <1>4, <2>1, <2>2
<1>5. \A k \in 0..m : g[k] \in P
    BY <1>3, <1>4, StepsKeep
<1>6. g = [k \in 0..m |-> g[k]]
    BY <1>1 DEF StepsOf
<1>7. g \in [0..m -> P]
    BY <1>5, <1>6
<1> QED BY <1>2, <1>7 DEF StepsIn

-----------------------------------------------------------------------------
\* The Level 1 maps.

\* What is assumed of the constants, one by one.
LEMMA Limits ==
    /\ CellCount \in Nat /\ CellCount > 0 /\ Sweep \in Nat /\ Sweep > 0
    /\ MaxPending \in Nat /\ MaxPending > 0 /\ BackgroundLimit \in Nat /\ BackgroundLimit > 0
    /\ HighPriorityLimit \in Nat /\ HighPriorityLimit > 0 /\ FlushTicks \in Nat /\ FlushTicks > 0
    /\ MaxHits \in Nat /\ MaxHits > 0 /\ MaxTime \in Nat /\ MaxTime > 0
    /\ CrossChecks \in Nat /\ MaxUpdates \in Nat /\ MaxItems \in Nat /\ StaleAfter \in Nat
    /\ Radius \in Nat
    /\ WriteEvery \in Nat /\ Occupied \in Nat /\ Free \in Nat /\ MaxOdds \in Nat
    /\ Spread \in Seq(Nat) /\ Origins \subseteq Cells
    /\ None \notin Int /\ None \notin [hits : Nat, seen : Nat, free : BOOLEAN]
<1>1. \A k \in {CellCount, Sweep, MaxPending, BackgroundLimit, HighPriorityLimit,
                FlushTicks, MaxHits, MaxTime} : k \in Nat \ {0}
    BY LevelOneAssumption, Zenon DEF LevelOneAssumption
<1>2. \A k \in {CrossChecks, MaxUpdates, MaxItems, StaleAfter, Radius, WriteEvery, Occupied,
                Free, MaxOdds} : k \in Nat
    BY LevelOneAssumption, Zenon DEF LevelOneAssumption
<1>3. \A k \in Nat \ {0} : k \in Nat /\ k > 0
    OBVIOUS
<1>4. CellCount \in Nat \ {0} /\ Sweep \in Nat \ {0}
    BY <1>1, Zenon
<1>5. MaxPending \in Nat \ {0} /\ BackgroundLimit \in Nat \ {0}
    BY <1>1, Zenon
<1>6. HighPriorityLimit \in Nat \ {0} /\ FlushTicks \in Nat \ {0}
    BY <1>1, Zenon
<1>7. MaxHits \in Nat \ {0} /\ MaxTime \in Nat \ {0}
    BY <1>1, Zenon
<1>8. /\ CrossChecks \in Nat /\ MaxUpdates \in Nat /\ MaxItems \in Nat /\ StaleAfter \in Nat
      /\ Radius \in Nat
    BY <1>2, Zenon
<1>9. WriteEvery \in Nat /\ Occupied \in Nat /\ Free \in Nat /\ MaxOdds \in Nat
    BY <1>2, Zenon
<1>10. Spread \in Seq(Nat) /\ Origins \subseteq Cells
    BY LevelOneAssumption, Zenon DEF LevelOneAssumption
<1>11. None \notin Int /\ None \notin [hits : Nat, seen : Nat, free : BOOLEAN]
    BY LevelOneAssumption, Zenon DEF LevelOneAssumption
<1> QED BY <1>3, <1>4, <1>5, <1>6, <1>7, <1>8, <1>9, <1>10, <1>11

\* The larger and the smaller of two numbers.
LEMMA MinMax ==
    \A x, y \in Int : /\ Max({x, y}) = IF x >= y THEN x ELSE y
                      /\ Min({x, y}) = IF x <= y THEN x ELSE y
<1> TAKE x, y \in Int
<1>1. ASSUME NEW S, S = {x, y}
      PROVE  /\ Max(S) = IF x >= y THEN x ELSE y
             /\ Min(S) = IF x <= y THEN x ELSE y
    <2>1. \E z \in S : \A w \in S : z >= w
        BY <1>1
    <2>2. \E z \in S : \A w \in S : z =< w
        BY <1>1
    <2>3. Max(S) \in S /\ \A w \in S : Max(S) >= w
        BY <2>1 DEF Max
    <2>4. Min(S) \in S /\ \A w \in S : Min(S) =< w
        BY <2>2 DEF Min
    <2> QED BY <1>1, <2>3, <2>4
<1> QED BY <1>1

\* Log odds are clamped.
LEMMA ClampFacts == \A x \in Int : Clamp(x) \in -MaxOdds..MaxOdds
<1> TAKE x \in Int
<1>1. MaxOdds \in Nat /\ -MaxOdds \in Int
    BY Limits
<1>2. Max({-MaxOdds, x}) = IF -MaxOdds >= x THEN -MaxOdds ELSE x
    BY <1>1, MinMax
<1> DEFINE y == Max({-MaxOdds, x})
<1>3. y \in Int /\ y >= -MaxOdds
    BY <1>1, <1>2
<1> HIDE DEF y
<1>4. Min({MaxOdds, y}) = IF MaxOdds <= y THEN MaxOdds ELSE y
    BY <1>1, <1>3, MinMax
<1>5. Clamp(x) = Min({MaxOdds, y})
    BY DEF Clamp, y
<1> QED BY <1>1, <1>3, <1>4, <1>5

\* The cursors of a list.
Cursor(order) == IF order = <<>> THEN {0} ELSE 0..(Len(order) - 1)

Maps == [cell : [Cells -> TravCell], order : Seq(Cells), occupied : SUBSET Cells,
         touched : SUBSET Cells, tick : SUBSET Cells, cross : Nat, sweep : Nat,
         log_odds : BOOLEAN]

\* A map that update_from_mission_obstacle_map() may leave or work on.
MapSound(m) ==
    /\ m \in Maps /\ IsInjective(m.order)
    /\ m.occupied \cup m.touched \cup m.tick \subseteq Known(m)
    /\ m.cross \in Cursor(m.order) /\ m.sweep \in Cursor(m.order)

\* A list that goes on where another ends.
Continues(u, s) == Len(s) <= Len(u) /\ \A i \in 1..Len(s) : u[i] = s[i]

\* What the stages of an update do to a map: cells are appended, the hits, the states
\* and the index of the occupied cells stay, and every cell that is new or whose log
\* odds change is noted for the derived fields, the changed ones for Level 2, too.
Grows(m, w) ==
    /\ MapSound(w) /\ Continues(w.order, m.order) /\ Known(m) \subseteq Known(w)
    /\ Known(w) \subseteq Known(m) \cup w.tick
    /\ m.touched \subseteq w.touched /\ m.tick \subseteq w.tick
    /\ w.occupied = m.occupied /\ w.sweep = m.sweep /\ w.log_odds = m.log_odds
    /\ \A c \in Cells : /\ w.cell[c].hits = m.cell[c].hits /\ w.cell[c].state = m.cell[c].state
                        /\ w.cell[c].odds # m.cell[c].odds => c \in w.touched /\ c \in w.tick

\* Stages follow one another.
LEMMA GrowsOn ==
    ASSUME NEW a, NEW b, NEW c, MapSound(a), Grows(a, b), Grows(b, c)
    PROVE  Grows(a, c)
<1>1. Len(a.order) \in Nat /\ Len(b.order) \in Nat /\ Len(c.order) \in Nat
    BY DEF Grows, MapSound, Maps
<1>2. Continues(c.order, a.order)
    BY <1>1 DEF Grows, Continues
<1>3. Known(c) \subseteq Known(a) \cup c.tick /\ Known(a) \subseteq Known(c)
    BY DEF Grows
<1>4. /\ a.touched \subseteq c.touched /\ a.tick \subseteq c.tick
      /\ c.occupied = a.occupied /\ c.sweep = a.sweep /\ c.log_odds = a.log_odds /\ MapSound(c)
    BY DEF Grows
<1>5. ASSUME NEW d \in Cells
      PROVE  /\ c.cell[d].hits = a.cell[d].hits /\ c.cell[d].state = a.cell[d].state
             /\ c.cell[d].odds # a.cell[d].odds => d \in c.touched /\ d \in c.tick
    BY DEF Grows
<1> QED BY <1>2, <1>3, <1>4, <1>5 DEF Grows

\* A stage that does nothing.
LEMMA GrowsStays == ASSUME NEW a, MapSound(a) PROVE Grows(a, a)
<1>1. Len(a.order) \in Nat
    BY DEF MapSound, Maps
<1> QED BY <1>1 DEF Grows, Continues

\* A marked cell is a cell, with the hits and the state it had.
LEMMA MarkedFacts ==
    ASSUME NEW x \in TravCell, NEW v \in Int, NEW t \in 0..MaxTime
    PROVE  /\ Marked(x, v, t) \in TravCell
           /\ Marked(x, v, t).hits = x.hits /\ Marked(x, v, t).state = x.state
<1> DEFINE l == Max({x.seen, t})
           o == Clamp(x.odds + v)
           y == Marked(x, v, t)
<1>1. MaxTime \in Nat /\ x.seen \in 0..MaxTime /\ x.odds \in Int
    BY Limits DEF TravCell
<1>2. l = IF x.seen >= t THEN x.seen ELSE t
    BY <1>1, MinMax
<1>3. l \in 0..MaxTime
    BY <1>1, <1>2
<1>4. x.odds + v \in Int
    BY <1>1
<1>5. o \in -MaxOdds..MaxOdds
    BY <1>4, ClampFacts
<1>6. y = [x EXCEPT !.odds = o, !.seen = l]
    BY DEF Marked
<1> HIDE DEF l, y, o
<1>7. y = [odds |-> o, conf |-> x.conf, hits |-> x.hits, free |-> x.free, seen |-> l, state |-> x.state,
           stale |-> x.stale, near |-> x.near]
    BY <1>6 DEF TravCell
<1>8. y \in TravCell /\ y.hits = x.hits /\ y.state = x.state
    BY <1>3, <1>5, <1>7 DEF TravCell
<1> QED BY <1>8 DEF y

\* Cells that are appended are there once, behind those that were.
LEMMA EnsureCell ==
    ASSUME NEW s \in Seq(Cells), IsInjective(s), NEW c \in Cells
    PROVE  LET u == ensure_cell(s, c)
           IN  /\ u \in Seq(Cells) /\ IsInjective(u) /\ Continues(u, s)
               /\ Range(u) = Range(s) \cup {c}
<1> DEFINE u == ensure_cell(s, c)
<1>1. Len(s) \in Nat /\ DOMAIN s = 1..Len(s)
    OBVIOUS
<1>2. CASE c \in Range(s)
    <2>1. u = s
        BY <1>2 DEF ensure_cell
    <2> QED BY <1>1, <1>2, <2>1 DEF Continues
<1>3. CASE c \notin Range(s)
    <2>1. u = Append(s, c)
        BY <1>3 DEF ensure_cell
    <2> HIDE DEF u
    <2>2. /\ u \in Seq(Cells) /\ Len(u) = Len(s) + 1 /\ DOMAIN u = 1..(Len(s) + 1)
          /\ u[Len(s) + 1] = c /\ \A i \in 1..Len(s) : u[i] = s[i]
        BY <2>1
    <2>3. \A i \in 1..(Len(s) + 1) : i = Len(s) + 1 \/ i \in 1..Len(s)
        BY <1>1
    <2>4. \A i \in 1..Len(s) : s[i] # c /\ i \in DOMAIN u
        BY <1>1, <1>3, <2>2 DEF Range
    <2>5. IsInjective(u)
        BY <1>1, <2>2, <2>3, <2>4 DEF IsInjective
    <2>6. Range(u) = Range(s) \cup {c}
        <3>1. Range(u) \subseteq Range(s) \cup {c}
            BY <1>1, <2>2, <2>3 DEF Range
        <3>2. Len(s) + 1 \in DOMAIN u
            BY <1>1, <2>2
        <3>3. c \in Range(u)
            BY <2>2, <3>2 DEF Range
        <3>4. Range(s) \subseteq Range(u)
            BY <1>1, <2>2, <2>4 DEF Range
        <3> QED BY <3>1, <3>3, <3>4
    <2>7. Continues(u, s)
        BY <1>1, <2>2 DEF Continues
    <2> QED BY <2>2, <2>5, <2>6, <2>7 DEF u
<1> QED BY <1>2, <1>3

\* Going on twice.
LEMMA ContinuesOn ==
    ASSUME NEW T, NEW s \in Seq(T), NEW u \in Seq(T), NEW v \in Seq(T), Continues(u, s), Continues(v, u)
    PROVE  Continues(v, s)
<1>1. Len(s) \in Nat /\ Len(u) \in Nat /\ Len(v) \in Nat
    OBVIOUS
<1> QED BY <1>1 DEF Continues

\* The lists that may grow out of another.
Grown(s) == {u \in Seq(Cells) : IsInjective(u) /\ Continues(u, s)}

\* ensure_cell() for a list of cells.
LEMMA EnsureCells ==
    ASSUME NEW s \in Seq(Cells), IsInjective(s), NEW list \in Seq(Int)
    PROVE  LET u == ensure_cells(s, list)
           IN  /\ u \in Grown(s)
               /\ Range(u) = Range(s) \cup (Range(list) \cap Cells)
<1> DEFINE m == Len(list)
           P == Grown(s)
           F(v, k) == IF list[k] \in Cells THEN ensure_cell(v, list[k]) ELSE v
           Steps(g) == g = [i \in 0..m |-> IF i = 0 THEN s
                                           ELSE IF list[i] \in Cells THEN ensure_cell(g[i - 1], list[i])
                                           ELSE g[i - 1]]
           pick == CHOOSE g : Steps(g)
           u == ensure_cells(s, list)
<1>0. m \in Nat /\ DOMAIN list = 1..m
    OBVIOUS
<1>1. u = pick[m]
    BY DEF ensure_cells
<1>2. s \in P
    <2>1. Len(s) \in Nat
        OBVIOUS
    <2> QED BY <2>1 DEF Continues, Grown
<1>3. ASSUME NEW v \in P, NEW k \in 1..m
      PROVE  F(v, k) \in P /\ Range(F(v, k)) = Range(v) \cup ({list[k]} \cap Cells)
    <2>0. v \in Seq(Cells) /\ IsInjective(v) /\ Continues(v, s)
        BY <1>3 DEF Grown
    <2>1. CASE list[k] \in Cells
        <3> DEFINE w == ensure_cell(v, list[k])
        <3>1. w \in Seq(Cells) /\ IsInjective(w) /\ Continues(w, v) /\ Range(w) = Range(v) \cup {list[k]}
            BY <2>0, <2>1, EnsureCell
        <3>2. F(v, k) = w
            BY <2>1
        <3> HIDE DEF w, F
        <3>3. Continues(w, s)
            BY <2>0, <3>1, ContinuesOn
        <3> QED BY <2>1, <3>1, <3>2, <3>3 DEF Grown
    <2>2. CASE list[k] \notin Cells
        <3>1. F(v, k) = v
            BY <2>2
        <3> HIDE DEF F
        <3> QED BY <1>3, <2>2, <3>1
    <2> QED BY <2>1, <2>2
<1> HIDE DEF P
<1>4. \E g : Steps(g)
    <2> DEFINE h == [p \in P \X (1..m) |-> F(p[1], p[2])]
    <2>0. h \in [P \X (1..m) -> P]
        <3> HIDE DEF F
        <3> QED BY <1>3
    <2>1. \A v \in P, k \in 1..m : h[<<v, k>>] = F(v, k)
        <3> HIDE DEF F
        <3> QED OBVIOUS
    <2> HIDE DEF h, m
    <2>2. PICK g : StepsIn(g, P, m, s, h)
        BY <1>0, <1>2, <2>0, StepsMake
    <2>21. g \in [0..m -> P] /\ \A k \in 0..m : g[k] = IF k = 0 THEN s ELSE h[<<g[k - 1], k>>]
        BY <2>2 DEF StepsIn
    <2>3. ASSUME NEW k \in 0..m PROVE g[k] = IF k = 0 THEN s ELSE F(g[k - 1], k)
        <3>1. CASE k = 0
            BY <2>21, <3>1
        <3>2. CASE k # 0
            <4>1. k \in 1..m /\ k - 1 \in 0..m
                BY <1>0, <3>2
            <4>2. g[k - 1] \in P
                BY <2>21, <4>1
            <4> HIDE DEF F
            <4> QED BY <2>1, <2>21, <3>2, <4>1, <4>2
        <3> QED BY <3>1, <3>2
    <2>4. g = [k \in 0..m |-> g[k]]
        BY <2>21
    <2>5. Steps(g)
        BY <2>3, <2>4 DEF m
    <2> QED BY <2>5
<1>5. Steps(pick)
    <2> HIDE DEF Steps
    <2> QED BY <1>4
<1> HIDE DEF pick
<1>6. \A k \in 0..m : pick[k] = IF k = 0 THEN s ELSE F(pick[k - 1], k)
    BY <1>5
<1> HIDE DEF Steps, F, m, u
<1> DEFINE Upto(k) == {list[i] : i \in 1..k} \cap Cells
           Good(k) == pick[k] \in P /\ Range(pick[k]) = Range(s) \cup Upto(k)
           N == {k \in Nat : k <= m => Good(k)}
<1>7. 0 \in N
    <2>1. pick[0] = s
        <3>1. 0 \in 0..m
            BY <1>0
        <3> QED BY <1>6, <3>1
    <2>2. Upto(0) = {}
        OBVIOUS
    <2> QED BY <1>2, <2>1, <2>2
<1>8. ASSUME NEW k \in Nat, k \in N PROVE k + 1 \in N
    <2> SUFFICES ASSUME k + 1 <= m PROVE Good(k + 1)
        <3> HIDE DEF Good
        <3> QED OBVIOUS
    <2>1. k + 1 \in 0..m /\ k + 1 \in 1..m /\ k + 1 # 0 /\ (k + 1) - 1 = k /\ k <= m
        BY <1>0
    <2>2. pick[k] \in P /\ Range(pick[k]) = Range(s) \cup Upto(k)
        BY <1>8, <2>1
    <2>3. pick[k + 1] = F(pick[k], k + 1)
        BY <1>6, <2>1
    <2>4. pick[k + 1] \in P /\ Range(pick[k + 1]) = Range(pick[k]) \cup ({list[k + 1]} \cap Cells)
        BY <1>3, <2>1, <2>2, <2>3
    <2>5. Upto(k + 1) = Upto(k) \cup ({list[k + 1]} \cap Cells)
        <3>1. 1..(k + 1) = 1..k \cup {k + 1}
            OBVIOUS
        <3> QED BY <3>1
    <2> HIDE DEF Upto
    <2> QED BY <2>2, <2>4, <2>5
<1> HIDE DEF N
<1>9. \A k \in Nat : k \in N
    BY <1>7, <1>8, AllNats
<1>10. m \in N
    BY <1>0, <1>9
<1>11. pick[m] \in P /\ Range(pick[m]) = Range(s) \cup Upto(m)
    <2>1. m <= m
        BY <1>0
    <2> QED BY <1>0, <1>10, <2>1 DEF N
<1>12. Upto(m) = Range(list) \cap Cells
    BY <1>0 DEF Range
<1> HIDE DEF Upto
<1>13. u \in P /\ Range(u) = Range(s) \cup (Range(list) \cap Cells)
    BY <1>1, <1>11, <1>12
<1> QED BY <1>13 DEF P, u

\* What an endpoint spreads to.
LEMMA BehindFacts ==
    ASSUME NEW o \in Cells, NEW e \in Cells
    PROVE  /\ Behind(o, e) \in Seq(Int)
           /\ \A c \in Range(Behind(o, e)) : c \in Int /\ Distance(c, e) \in 1..Len(Spread)
<1>1. CellCount \in Nat /\ o \in Int /\ e \in Int /\ Len(Spread) \in Nat
    BY Limits DEF Cells
<1>2. CASE o = e
    <2>1. Behind(o, e) = <<>>
        BY <1>2 DEF Behind
    <2> QED BY <2>1 DEF Range
<1>3. CASE o # e
    <2> DEFINE b == [s \in 1..Len(Spread) |-> e + (IF e > o THEN s ELSE -s)]
    <2>1. Behind(o, e) = b
        BY <1>3 DEF Behind
    <2>2. \A s \in 1..Len(Spread) : b[s] \in Int /\ Distance(b[s], e) = s
        BY <1>1 DEF Distance
    <2>3. b \in [1..Len(Spread) -> Int] /\ DOMAIN b = 1..Len(Spread)
        BY <1>1
    <2> HIDE DEF b
    <2>4. b \in Seq(Int)
        BY <1>1, <2>3, SeqDef
    <2>5. \A c \in Range(b) : c \in Int /\ Distance(c, e) \in 1..Len(Spread)
        BY <2>2, <2>3 DEF Range
    <2> QED BY <2>1, <2>4, <2>5
<1> QED BY <1>2, <1>3

\* What is spread is a number.
LEMMA GainFacts ==
    ASSUME NEW o \in Cells, NEW fresh \in Seq(Cells), NEW c \in Cells
    PROVE  Gain(o, fresh, c) \in Int
<1> DEFINE m == Len(fresh)
           P == Int
           F(v, k) == v + (IF c \in Range(Behind(o, fresh[k])) THEN Spread[Distance(c, fresh[k])] ELSE 0)
           Steps(g) == g = [i \in 0..m |->
                              IF i = 0 THEN 0
                              ELSE g[i - 1] + (IF c \in Range(Behind(o, fresh[i]))
                                               THEN Spread[Distance(c, fresh[i])] ELSE 0)]
           pick == CHOOSE g : Steps(g)
<1>0. m \in Nat /\ \A k \in 1..m : fresh[k] \in Cells
    OBVIOUS
<1>1. Gain(o, fresh, c) = pick[m]
    BY DEF Gain
<1>2. 0 \in P
    OBVIOUS
<1>3. ASSUME NEW v \in P, NEW k \in 1..m PROVE F(v, k) \in P
    <2> DEFINE d == Distance(c, fresh[k])
    <2>1. c \in Range(Behind(o, fresh[k])) => d \in 1..Len(Spread)
        BY <1>0, BehindFacts
    <2>2. Spread \in Seq(Nat)
        BY Limits
    <2> HIDE DEF d
    <2>3. c \in Range(Behind(o, fresh[k])) => Spread[d] \in Int
        BY <2>1, <2>2
    <2> QED BY <2>3 DEF d
<1> HIDE DEF P
<1>4. \E g : Steps(g)
    <2> DEFINE h == [p \in P \X (1..m) |-> F(p[1], p[2])]
    <2>1. h \in [P \X (1..m) -> P]
        <3> HIDE DEF F
        <3> QED BY <1>3
    <2>2. \A v \in P, k \in 1..m : h[<<v, k>>] = F(v, k)
        <3> HIDE DEF F
        <3> QED OBVIOUS
    <2> HIDE DEF h, m
    <2>3. PICK g : StepsIn(g, P, m, 0, h)
        BY <1>0, <1>2, <2>1, StepsMake
    <2>4. g \in [0..m -> P] /\ \A k \in 0..m : g[k] = IF k = 0 THEN 0 ELSE h[<<g[k - 1], k>>]
        BY <2>3 DEF StepsIn
    <2>5. ASSUME NEW k \in 0..m PROVE g[k] = IF k = 0 THEN 0 ELSE F(g[k - 1], k)
        <3>1. CASE k = 0
            BY <2>4, <3>1
        <3>2. CASE k # 0
            <4>1. k \in 1..m /\ k - 1 \in 0..m
                BY <1>0, <3>2
            <4>2. g[k - 1] \in P
                BY <2>4, <4>1
            <4> HIDE DEF F
            <4> QED BY <2>2, <2>4, <3>2, <4>1, <4>2
        <3> QED BY <3>1, <3>2
    <2>6. g = [k \in 0..m |-> g[k]]
        BY <2>4
    <2>7. Steps(g)
        BY <2>5, <2>6 DEF m
    <2> QED BY <2>7
<1>5. Steps(pick)
    <2> HIDE DEF Steps
    <2> QED BY <1>4
<1> HIDE DEF pick
<1>6. \A k \in 0..m : pick[k] = IF k = 0 THEN 0 ELSE F(pick[k - 1], k)
    BY <1>5
<1> HIDE DEF Steps, F, m
<1>7. pick[0] = 0
    <2>1. 0 \in 0..m
        BY <1>0
    <2> QED BY <1>6, <2>1
<1>8. ASSUME NEW k \in 0..(m - 1) PROVE pick[k + 1] = F(pick[k], k + 1) /\ k + 1 \in 1..m
    <2>1. k + 1 \in 0..m /\ k + 1 \in 1..m /\ k + 1 # 0 /\ (k + 1) - 1 = k
        BY <1>0
    <2> QED BY <1>6, <2>1
<1>9. \A k \in 0..(m - 1) : pick[k] \in P => pick[k + 1] \in P
    BY <1>3, <1>8
<1>10. pick[0] \in P
    BY <1>2, <1>7
<1>11. \A k \in 0..m : pick[k] \in P
    BY <1>0, <1>9, <1>10, StepsKeep
<1>12. m \in 0..m
    BY <1>0
<1> QED BY <1>1, <1>11, <1>12 DEF P

\* The cells that endpoint_spread() reaches, and the order after it.
Reached(o, fresh) == {c \in Cells : \E e \in Range(fresh) : c \in Range(Behind(o, e))}
Created(order, o, fresh) ==
    LET created[i \in 0..Len(fresh)] ==
          IF i = 0 THEN order ELSE ensure_cells(created[i - 1], Behind(o, fresh[i]))
    IN  created[Len(fresh)]

\* Every cell reached is created, and no other.
LEMMA CreatedFacts ==
    ASSUME NEW s \in Seq(Cells), IsInjective(s), NEW o \in Cells, NEW fresh \in Seq(Cells)
    PROVE  /\ Created(s, o, fresh) \in Grown(s)
           /\ Range(Created(s, o, fresh)) = Range(s) \cup Reached(o, fresh)
<1> DEFINE m == Len(fresh)
           P == Grown(s)
           F(v, k) == ensure_cells(v, Behind(o, fresh[k]))
           Steps(g) == g = [i \in 0..m |->
                              IF i = 0 THEN s ELSE ensure_cells(g[i - 1], Behind(o, fresh[i]))]
           pick == CHOOSE g : Steps(g)
           u == Created(s, o, fresh)
           To(k) == Range(Behind(o, fresh[k])) \cap Cells
<1>0. m \in Nat /\ DOMAIN fresh = 1..m /\ \A k \in 1..m : fresh[k] \in Cells
    OBVIOUS
<1>1. u = pick[m]
    BY DEF Created
<1>2. s \in P
    <2>1. Len(s) \in Nat
        OBVIOUS
    <2> QED BY <2>1 DEF Continues, Grown
<1>3. ASSUME NEW v \in P, NEW k \in 1..m
      PROVE  F(v, k) \in P /\ Range(F(v, k)) = Range(v) \cup To(k)
    <2>1. v \in Seq(Cells) /\ IsInjective(v) /\ Continues(v, s)
        BY <1>3 DEF Grown
    <2> DEFINE list == Behind(o, fresh[k])
               w == ensure_cells(v, list)
    <2>2. list \in Seq(Int)
        BY <1>0, BehindFacts
    <2>3. w \in Grown(v) /\ Range(w) = Range(v) \cup To(k)
        <3> HIDE DEF list
        <3>1. w \in Grown(v) /\ Range(w) = Range(v) \cup (Range(list) \cap Cells)
            BY <2>1, <2>2, EnsureCells
        <3> QED BY <3>1 DEF list
    <2> HIDE DEF w, To
    <2>4. w \in Seq(Cells) /\ IsInjective(w) /\ Continues(w, v)
        BY <2>3 DEF Grown
    <2>5. Continues(w, s)
        BY <2>1, <2>4, ContinuesOn
    <2>6. w \in P
        BY <2>4, <2>5 DEF Grown
    <2> QED BY <2>3, <2>6 DEF w
<1> HIDE DEF P, To, u
<1>4. \E g : Steps(g)
    <2> DEFINE h == [p \in P \X (1..m) |-> F(p[1], p[2])]
    <2>1. h \in [P \X (1..m) -> P]
        <3> HIDE DEF F
        <3> QED BY <1>3
    <2>2. \A v \in P, k \in 1..m : h[<<v, k>>] = F(v, k)
        <3> HIDE DEF F
        <3> QED OBVIOUS
    <2> HIDE DEF h, m
    <2>3. PICK g : StepsIn(g, P, m, s, h)
        BY <1>0, <1>2, <2>1, StepsMake
    <2>4. g \in [0..m -> P] /\ \A k \in 0..m : g[k] = IF k = 0 THEN s ELSE h[<<g[k - 1], k>>]
        BY <2>3 DEF StepsIn
    <2>5. ASSUME NEW k \in 0..m PROVE g[k] = IF k = 0 THEN s ELSE F(g[k - 1], k)
        <3>1. CASE k = 0
            BY <2>4, <3>1
        <3>2. CASE k # 0
            <4>1. k \in 1..m /\ k - 1 \in 0..m
                BY <1>0, <3>2
            <4>2. g[k - 1] \in P
                BY <2>4, <4>1
            <4> HIDE DEF F
            <4> QED BY <2>2, <2>4, <3>2, <4>1, <4>2
        <3> QED BY <3>1, <3>2
    <2>6. g = [k \in 0..m |-> g[k]]
        BY <2>4
    <2>7. Steps(g)
        BY <2>5, <2>6 DEF m
    <2> QED BY <2>7
<1>5. Steps(pick)
    <2> HIDE DEF Steps
    <2> QED BY <1>4
<1> HIDE DEF pick
<1>6. \A k \in 0..m : pick[k] = IF k = 0 THEN s ELSE F(pick[k - 1], k)
    BY <1>5
<1> HIDE DEF Steps, F, m
<1>7. pick[0] = s
    <2>1. 0 \in 0..m
        BY <1>0
    <2> QED BY <1>6, <2>1
<1>8. ASSUME NEW k \in 0..(m - 1) PROVE pick[k + 1] = F(pick[k], k + 1) /\ k + 1 \in 1..m
    <2>1. k + 1 \in 0..m /\ k + 1 \in 1..m /\ k + 1 # 0 /\ (k + 1) - 1 = k
        BY <1>0
    <2> QED BY <1>6, <2>1
<1> DEFINE Upto(k) == UNION {To(i) : i \in 1..k}
           Good(k) == pick[k] \in P /\ Range(pick[k]) = Range(s) \cup Upto(k)
           N == {k \in Nat : k <= m => Good(k)}
<1>9. 0 \in N
    <2>1. Upto(0) = {}
        OBVIOUS
    <2> QED BY <1>2, <1>7, <2>1
<1>10. ASSUME NEW k \in Nat, k \in N PROVE k + 1 \in N
    <2> SUFFICES ASSUME k + 1 <= m PROVE Good(k + 1)
        <3> HIDE DEF Good
        <3> QED OBVIOUS
    <2>1. k \in 0..(m - 1) /\ k <= m
        BY <1>0
    <2>2. pick[k] \in P /\ Range(pick[k]) = Range(s) \cup Upto(k)
        BY <1>10, <2>1
    <2>3. pick[k + 1] \in P /\ Range(pick[k + 1]) = Range(pick[k]) \cup To(k + 1)
        BY <1>3, <1>8, <2>1, <2>2
    <2>4. Upto(k + 1) = Upto(k) \cup To(k + 1)
        <3>1. 1..(k + 1) = 1..k \cup {k + 1}
            OBVIOUS
        <3> QED BY <3>1
    <2> HIDE DEF Upto
    <2> QED BY <2>2, <2>3, <2>4
<1> HIDE DEF N
<1>11. \A k \in Nat : k \in N
    BY <1>9, <1>10, AllNats
<1>12. Good(m)
    <2>1. m <= m /\ m \in N
        BY <1>0, <1>11
    <2> HIDE DEF Good
    <2> QED BY <2>1 DEF N
<1>13. Upto(m) = Reached(o, fresh)
    <2>1. \A i \in 1..m : fresh[i] \in Range(fresh)
        BY <1>0 DEF Range
    <2>2. \A e \in Range(fresh) : \E i \in 1..m : e = fresh[i]
        BY <1>0 DEF Range
    <2>3. \A c : c \in Upto(m) => c \in Reached(o, fresh)
        BY <2>1 DEF Reached, To
    <2>4. \A c : c \in Reached(o, fresh) => c \in Upto(m)
        BY <2>2 DEF Reached, To
    <2> QED BY <2>3, <2>4
<1> HIDE DEF Upto
<1>14. u \in P /\ Range(u) = Range(s) \cup Reached(o, fresh)
    BY <1>1, <1>12, <1>13
<1> QED BY <1>14 DEF P, u

\* A cursor of a list is one of what the list grows to.
LEMMA CursorGrows ==
    ASSUME NEW s \in Seq(Cells), NEW u \in Grown(s)
    PROVE  Cursor(s) \subseteq Cursor(u) /\ Cursor(s) \subseteq Nat
<1>1. Len(s) \in Nat /\ Len(u) \in Nat /\ Len(s) <= Len(u) /\ u \in Seq(Cells)
    BY DEF Grown, Continues
<1>2. s = <<>> <=> Len(s) = 0
    BY EmptySeq
<1>3. u = <<>> <=> Len(u) = 0
    BY <1>1, EmptySeq
<1> QED BY <1>1, <1>2, <1>3 DEF Cursor

\* What a stage looks like that grows a map: the cells of R change, the order grows to
\* u and the cursor of the cross check moves to x.
LEMMA StageGrows ==
    ASSUME NEW m, MapSound(m), NEW C \in [Cells -> TravCell], NEW R \in SUBSET Cells,
           NEW u \in Grown(m.order), Range(u) = Known(m) \cup R, NEW x \in Cursor(u),
           \A c \in Cells : C[c].hits = m.cell[c].hits /\ C[c].state = m.cell[c].state,
           \A c \in Cells : c \notin R => C[c] = m.cell[c],
           NEW w, w = [cell |-> C, order |-> u, occupied |-> m.occupied, touched |-> m.touched \cup R,
                       tick |-> m.tick \cup R, cross |-> x, sweep |-> m.sweep, log_odds |-> m.log_odds]
    PROVE  Grows(m, w)
<1>1. /\ m \in Maps /\ IsInjective(m.order) /\ m.order \in Seq(Cells)
      /\ m.occupied \subseteq Known(m) /\ m.touched \subseteq Known(m) /\ m.tick \subseteq Known(m)
      /\ m.cross \in Cursor(m.order) /\ m.sweep \in Cursor(m.order)
      /\ m.occupied \subseteq Cells /\ m.touched \subseteq Cells /\ m.tick \subseteq Cells
    BY DEF MapSound, Maps
<1>2. /\ w.cell = C /\ w.order = u /\ w.occupied = m.occupied /\ w.touched = m.touched \cup R
      /\ w.tick = m.tick \cup R /\ w.cross = x /\ w.sweep = m.sweep /\ w.log_odds = m.log_odds
    OBVIOUS
<1>3. u \in Seq(Cells) /\ IsInjective(u) /\ Continues(u, m.order)
    BY DEF Grown
<1>4. x \in Nat /\ m.sweep \in Cursor(u) /\ m.sweep \in Nat
    <2>1. m.sweep \in Cursor(u) /\ m.sweep \in Nat
        BY <1>1, CursorGrows
    <2>2. u \in Grown(u)
        <3>1. Len(u) \in Nat
            BY <1>3
        <3> QED BY <1>3, <3>1 DEF Grown, Continues
    <2>3. x \in Nat
        BY <1>3, <2>2, CursorGrows
    <2> QED BY <2>1, <2>3
<1>5. w \in Maps
    BY <1>1, <1>3, <1>4 DEF Maps
<1>6. Known(w) = Known(m) \cup R
    BY <1>2 DEF Known
<1>7. MapSound(w)
    BY <1>1, <1>2, <1>3, <1>4, <1>5, <1>6 DEF MapSound
<1>8. Continues(w.order, m.order)
    BY <1>2, <1>3
<1>9. \A c \in Cells : /\ w.cell[c].hits = m.cell[c].hits /\ w.cell[c].state = m.cell[c].state
                       /\ w.cell[c].odds # m.cell[c].odds => c \in w.touched /\ c \in w.tick
    BY <1>2
<1> QED BY <1>2, <1>6, <1>7, <1>8, <1>9 DEF Grows

\* Stage 3 grows a map.
LEMMA SpreadGrows ==
    ASSUME NEW m, MapSound(m), NEW o \in Cells, NEW fresh \in Seq(Cells), NEW t \in 0..MaxTime
    PROVE  Grows(m, endpoint_spread(m, o, fresh, t))
<1> DEFINE R == Reached(o, fresh)
           u == Created(m.order, o, fresh)
           C == [c \in Cells |-> IF c \notin R THEN m.cell[c] ELSE Marked(m.cell[c], Gain(o, fresh, c), t)]
           w == endpoint_spread(m, o, fresh, t)
<1>1. /\ m \in Maps /\ IsInjective(m.order) /\ m.order \in Seq(Cells) /\ m.cross \in Cursor(m.order)
      /\ m.cell \in [Cells -> TravCell]
    BY DEF MapSound, Maps
<1>2. u \in Grown(m.order) /\ Range(u) = Known(m) \cup R
    BY <1>1, CreatedFacts DEF Known
<1>3. R \in SUBSET Cells
    BY DEF Reached
<1>4. w = [m EXCEPT !.cell = C, !.order = u, !.touched = @ \cup R, !.tick = @ \cup R]
    BY DEF endpoint_spread, Reached, Created
<1>5. ASSUME NEW c \in Cells
      PROVE  /\ C[c] \in TravCell /\ C[c].hits = m.cell[c].hits /\ C[c].state = m.cell[c].state
             /\ c \notin R => C[c] = m.cell[c]
    <2>1. m.cell[c] \in TravCell /\ Gain(o, fresh, c) \in Int
        BY <1>1, GainFacts
    <2>2. CASE c \in R
        <3>1. C[c] = Marked(m.cell[c], Gain(o, fresh, c), t)
            BY <2>2
        <3> HIDE DEF C
        <3> QED BY <2>1, <2>2, <3>1, MarkedFacts
    <2>3. CASE c \notin R
        <3>1. C[c] = m.cell[c]
            BY <2>3
        <3> HIDE DEF C
        <3> QED BY <2>1, <3>1
    <2> QED BY <2>2, <2>3
<1>6. C \in [Cells -> TravCell]
    BY <1>5
<1> HIDE DEF C, u, R, w
<1>7. w = [cell |-> C, order |-> u, occupied |-> m.occupied, touched |-> m.touched \cup R,
           tick |-> m.tick \cup R, cross |-> m.cross, sweep |-> m.sweep, log_odds |-> m.log_odds]
    BY <1>1, <1>4 DEF Maps
<1>8. m.cross \in Cursor(u)
    BY <1>1, <1>2, CursorGrows
<1>9. Grows(m, w)
    BY <1>2, <1>3, <1>5, <1>6, <1>7, <1>8, StageGrows
<1> QED BY <1>9 DEF w

\* One ray grows a map.
LEMMA RayGrows ==
    ASSUME NEW m, MapSound(m), NEW o \in Cells, NEW e \in Cells, NEW t \in 0..MaxTime
    PROVE  Grows(m, free_ray(m, o, e, t))
<1> DEFINE R == {c \in Known(m) : SamplesIn(o, e, c) > 0}
           Less(c) == -SamplesIn(o, e, c) * Free * m.cell[e].conf
           C == [c \in Cells |-> IF c \notin R THEN m.cell[c] ELSE Marked(m.cell[c], Less(c), t)]
           w == free_ray(m, o, e, t)
<1>1. /\ m \in Maps /\ IsInjective(m.order) /\ m.order \in Seq(Cells) /\ m.cross \in Cursor(m.order)
      /\ m.cell \in [Cells -> TravCell]
    BY DEF MapSound, Maps
<1>2. m.order \in Grown(m.order)
    <2>1. Len(m.order) \in Nat
        BY <1>1
    <2> QED BY <1>1, <2>1 DEF Grown, Continues
<1>3. R \in SUBSET Cells /\ Range(m.order) = Known(m) \cup R
    BY <1>1 DEF Known, Range
<1>4. w = [m EXCEPT !.cell = C, !.touched = @ \cup R, !.tick = @ \cup R]
    BY DEF free_ray
<1>5. ASSUME NEW c \in Cells
      PROVE  /\ C[c] \in TravCell /\ C[c].hits = m.cell[c].hits /\ C[c].state = m.cell[c].state
             /\ c \notin R => C[c] = m.cell[c]
    <2>1. m.cell[c] \in TravCell /\ m.cell[e].conf \in 0..1 /\ Free \in Nat /\ SamplesIn(o, e, c) \in {0, 1, 2}
        BY <1>1, Limits DEF TravCell, SamplesIn
    <2>2. Less(c) \in Int
        <3>1. SamplesIn(o, e, c) * Free \in Int
            BY <2>1
        <3>2. SamplesIn(o, e, c) * Free * m.cell[e].conf \in Int
            BY <2>1, <3>1
        <3> QED BY <3>2
    <2> HIDE DEF Less
    <2>3. CASE c \in R
        <3>1. C[c] = Marked(m.cell[c], Less(c), t)
            BY <2>3
        <3> HIDE DEF C, R
        <3> QED BY <2>1, <2>2, <2>3, <3>1, MarkedFacts
    <2>4. CASE c \notin R
        <3>1. C[c] = m.cell[c]
            BY <2>4
        <3> HIDE DEF C, R
        <3> QED BY <2>1, <3>1
    <2> QED BY <2>3, <2>4
<1>6. C \in [Cells -> TravCell]
    <2> HIDE DEF Less, R
    <2> QED BY <1>5
<1> HIDE DEF C, R, w, Less
<1>7. w = [cell |-> C, order |-> m.order, occupied |-> m.occupied, touched |-> m.touched \cup R,
           tick |-> m.tick \cup R, cross |-> m.cross, sweep |-> m.sweep, log_odds |-> m.log_odds]
    BY <1>1, <1>4 DEF Maps
<1>9. Grows(m, w)
    BY <1>1, <1>2, <1>3, <1>5, <1>6, <1>7, StageGrows
<1> QED BY <1>9 DEF w

\* The rays of the new cells grow a map.
LEMMA RaysGrow ==
    ASSUME NEW a, MapSound(a), NEW o \in Cells, NEW fresh \in Seq(Cells), NEW t \in 0..MaxTime
    PROVE  Grows(a, free_rays(a, o, fresh, t))
<1> DEFINE m == Len(fresh)
           P == {w \in Maps : Grows(a, w)}
           F(v, k) == free_ray(v, o, fresh[k], t)
           Steps(g) == g = [i \in 0..m |-> IF i = 0 THEN a ELSE free_ray(g[i - 1], o, fresh[i], t)]
           pick == CHOOSE g : Steps(g)
<1>0. m \in Nat /\ \A k \in 1..m : fresh[k] \in Cells
    OBVIOUS
<1>1. free_rays(a, o, fresh, t) = pick[m]
    BY DEF free_rays
<1>2. a \in P
    BY GrowsStays DEF MapSound
<1>3. ASSUME NEW v \in P, NEW k \in 1..m PROVE F(v, k) \in P
    <2>1. Grows(a, v) /\ MapSound(v) /\ fresh[k] \in Cells
        BY <1>0, <1>3 DEF Grows
    <2>2. Grows(v, F(v, k))
        BY <2>1, RayGrows
    <2> HIDE DEF F
    <2>3. Grows(a, F(v, k))
        BY <2>1, <2>2, GrowsOn
    <2> QED BY <2>3 DEF Grows, MapSound
<1> HIDE DEF P
<1>4. \E g : Steps(g)
    <2> DEFINE h == [p \in P \X (1..m) |-> F(p[1], p[2])]
    <2>1. h \in [P \X (1..m) -> P]
        <3> HIDE DEF F
        <3> QED BY <1>3
    <2>2. \A v \in P, k \in 1..m : h[<<v, k>>] = F(v, k)
        <3> HIDE DEF F
        <3> QED OBVIOUS
    <2> HIDE DEF h, m
    <2>3. PICK g : StepsIn(g, P, m, a, h)
        BY <1>0, <1>2, <2>1, StepsMake
    <2>4. g \in [0..m -> P] /\ \A k \in 0..m : g[k] = IF k = 0 THEN a ELSE h[<<g[k - 1], k>>]
        BY <2>3 DEF StepsIn
    <2>5. ASSUME NEW k \in 0..m PROVE g[k] = IF k = 0 THEN a ELSE F(g[k - 1], k)
        <3>1. CASE k = 0
            BY <2>4, <3>1
        <3>2. CASE k # 0
            <4>1. k \in 1..m /\ k - 1 \in 0..m
                BY <1>0, <3>2
            <4>2. g[k - 1] \in P
                BY <2>4, <4>1
            <4> HIDE DEF F
            <4> QED BY <2>2, <2>4, <3>2, <4>1, <4>2
        <3> QED BY <3>1, <3>2
    <2>6. g = [k \in 0..m |-> g[k]]
        BY <2>4
    <2>7. Steps(g)
        BY <2>5, <2>6 DEF m
    <2> QED BY <2>7
<1>5. Steps(pick)
    <2> HIDE DEF Steps
    <2> QED BY <1>4
<1> HIDE DEF pick
<1>6. \A k \in 0..m : pick[k] = IF k = 0 THEN a ELSE F(pick[k - 1], k)
    BY <1>5
<1> HIDE DEF Steps, F, m
<1>7. pick[0] = a
    <2>1. 0 \in 0..m
        BY <1>0
    <2> QED BY <1>6, <2>1
<1>8. ASSUME NEW k \in 0..(m - 1) PROVE pick[k + 1] = F(pick[k], k + 1) /\ k + 1 \in 1..m
    <2>1. k + 1 \in 0..m /\ k + 1 \in 1..m /\ k + 1 # 0 /\ (k + 1) - 1 = k
        BY <1>0
    <2> QED BY <1>6, <2>1
<1>9. \A k \in 0..(m - 1) : pick[k] \in P => pick[k + 1] \in P
    BY <1>3, <1>8
<1>10. pick[0] \in P
    BY <1>2, <1>7
<1>11. \A k \in 0..m : pick[k] \in P
    BY <1>0, <1>9, <1>10, StepsKeep
<1>12. m \in 0..m
    BY <1>0
<1> QED BY <1>1, <1>11, <1>12 DEF P

\* Moving the cursor of the cross check is all the growing it does to a map.
LEMMA MoveCross ==
    ASSUME NEW m, MapSound(m), NEW x \in Cursor(m.order)
    PROVE  Grows(m, [m EXCEPT !.cross = x])
<1> DEFINE w == [m EXCEPT !.cross = x]
           R == {}
           C == m.cell
<1>1. /\ m \in Maps /\ IsInjective(m.order) /\ m.order \in Seq(Cells)
      /\ C \in [Cells -> TravCell] /\ R \in SUBSET Cells /\ Range(m.order) = Known(m) \cup R
      /\ m.touched = m.touched \cup R /\ m.tick = m.tick \cup R
    BY DEF MapSound, Maps, Known
<1>2. m.order \in Grown(m.order)
    <2>1. Len(m.order) \in Nat
        BY <1>1
    <2> QED BY <1>1, <2>1 DEF Grown, Continues
<1>3. w = [cell |-> C, order |-> m.order, occupied |-> m.occupied, touched |-> m.touched,
           tick |-> m.tick, cross |-> x, sweep |-> m.sweep, log_odds |-> m.log_odds]
    BY <1>1 DEF Maps
<1>4. \A c \in Cells : /\ C[c].hits = m.cell[c].hits /\ C[c].state = m.cell[c].state
                       /\ (c \notin R => C[c] = m.cell[c])
    OBVIOUS
<1> HIDE DEF w, R, C
<1>5. w = [cell |-> C, order |-> m.order, occupied |-> m.occupied, touched |-> m.touched \cup R,
           tick |-> m.tick \cup R, cross |-> x, sweep |-> m.sweep, log_odds |-> m.log_odds]
    BY <1>1, <1>3
<1>6. Grows(m, w)
    BY <1>1, <1>2, <1>4, <1>5, StageGrows
<1> QED BY <1>6 DEF w

\* One step of the cross check.
LEMMA CrossStepGrows ==
    ASSUME NEW m, MapSound(m), m.order # <<>>, NEW k \in Nat, NEW o \in Cells, NEW t \in 0..MaxTime
    PROVE  LET z == cross_step([map |-> m, checked |-> k], o, t)
           IN  /\ z = [map |-> z.map, checked |-> z.checked]
               /\ z.checked \in Nat /\ Grows(m, z.map)
<1> DEFINE acc == [map |-> m, checked |-> k]
           z == cross_step(acc, o, t)
           e == m.order[m.cross + 1]
           x == (m.cross + 1) % Len(m.order)
           w == [m EXCEPT !.cross = x]
<1>1. m \in Maps /\ m.order \in Seq(Cells) /\ m.cross \in 0..(Len(m.order) - 1)
    BY DEF MapSound, Maps, Cursor
<1>2. Len(m.order) \in Nat /\ Len(m.order) > 0
    BY <1>1, EmptySeq
<1>3. e \in Cells
    <2>1. m.cross + 1 \in 1..Len(m.order)
        BY <1>1, <1>2
    <2> QED BY <1>1, <2>1
<1>4. x \in Cursor(m.order)
    <2>1. m.cross + 1 \in Nat
        BY <1>1, <1>2
    <2>2. x \in 0..(Len(m.order) - 1)
        BY <1>2, <2>1
    <2> QED BY <2>2 DEF Cursor
<1>5. acc.map = m /\ acc.checked = k
    OBVIOUS
<1>6. z = IF acc.checked >= CrossChecks THEN acc
          ELSE IF w.cell[e].odds <= 0 THEN [acc EXCEPT !.map = w]
          ELSE [map |-> free_ray(w, o, e, t), checked |-> acc.checked + 1]
    BY DEF cross_step
<1> HIDE DEF x
<1>7. Grows(m, w)
    BY <1>4, MoveCross
<1> HIDE DEF w, e, z
<1>8. MapSound(w)
    BY <1>7 DEF Grows
<1>9. Grows(w, free_ray(w, o, e, t))
    BY <1>3, <1>8, RayGrows
<1>10. Grows(m, free_ray(w, o, e, t))
    BY <1>7, <1>9, GrowsOn
<1>11. Grows(m, m)
    BY GrowsStays
<1>12. \/ z = [map |-> m, checked |-> k]
       \/ z = [map |-> w, checked |-> k]
       \/ z = [map |-> free_ray(w, o, e, t), checked |-> k + 1]
    BY <1>6
<1>13. z = [map |-> z.map, checked |-> z.checked] /\ z.checked \in Nat /\ Grows(m, z.map)
    BY <1>7, <1>10, <1>11, <1>12
<1> QED BY <1>13 DEF z

\* The cross check grows a map.
LEMMA CrossGrows ==
    ASSUME NEW a, MapSound(a), NEW o \in Cells, NEW t \in 0..MaxTime
    PROVE  Grows(a, cross_check(a, o, t))
<1> DEFINE m == Len(a.order)
           start == [a EXCEPT !.cross = IF @ >= m THEN 0 ELSE @]
           b == [map |-> start, checked |-> 0]
           P == {z \in [map : Maps, checked : Nat] : Grows(a, z.map)}
           F(v, k) == cross_step(v, o, t)
           Steps(g) == g = [i \in 0..m |-> IF i = 0 THEN b ELSE cross_step(g[i - 1], o, t)]
           pick == CHOOSE g : Steps(g)
<1>0. m \in Nat /\ a.order \in Seq(Cells) /\ (m = 0 <=> a.order = <<>>)
    BY EmptySeq DEF MapSound, Maps
<1>1. cross_check(a, o, t) = IF m = 0 \/ CrossChecks = 0 THEN a ELSE pick[m].map
    BY DEF cross_check
<1> SUFFICES ASSUME m # 0 /\ CrossChecks # 0 PROVE Grows(a, cross_check(a, o, t))
    <2> HIDE DEF pick, m
    <2> QED BY <1>1, GrowsStays
<1>2. b \in P
    <2> DEFINE x == IF a.cross >= m THEN 0 ELSE a.cross
    <2>1. x \in Cursor(a.order)
        BY <1>0 DEF MapSound, Cursor
    <2>2. start = [a EXCEPT !.cross = x]
        OBVIOUS
    <2> HIDE DEF x, start
    <2>3. Grows(a, start)
        BY <2>1, <2>2, MoveCross
    <2>4. start \in Maps
        BY <2>3 DEF Grows, MapSound
    <2> QED BY <2>3, <2>4
<1> HIDE DEF b
<1>3. ASSUME NEW v \in P, NEW k \in 1..m PROVE F(v, k) \in P
    <2>1. v = [map |-> v.map, checked |-> v.checked] /\ v.checked \in Nat /\ Grows(a, v.map)
        OBVIOUS
    <2>2. MapSound(v.map) /\ v.map.order # <<>>
        <3>1. MapSound(v.map) /\ Continues(v.map.order, a.order) /\ v.map.order \in Seq(Cells)
            BY <2>1 DEF Grows, MapSound, Maps
        <3>2. m <= Len(v.map.order)
            BY <3>1 DEF Continues
        <3> QED BY <1>0, <3>1, <3>2
    <2> DEFINE z == cross_step([map |-> v.map, checked |-> v.checked], o, t)
    <2>3. z = [map |-> z.map, checked |-> z.checked] /\ z.checked \in Nat /\ Grows(v.map, z.map)
        BY <2>1, <2>2, CrossStepGrows
    <2>4. F(v, k) = z
        BY <2>1
    <2> HIDE DEF z, F
    <2>5. Grows(a, z.map)
        BY <2>1, <2>3, GrowsOn
    <2>6. z.map \in Maps
        BY <2>5 DEF Grows, MapSound
    <2>7. z \in [map : Maps, checked : Nat]
        BY <2>3, <2>6
    <2> QED BY <2>4, <2>5, <2>7
<1> HIDE DEF P
<1>4. \E g : Steps(g)
    <2> DEFINE h == [p \in P \X (1..m) |-> F(p[1], p[2])]
    <2>1. h \in [P \X (1..m) -> P]
        <3> HIDE DEF F
        <3> QED BY <1>3
    <2>2. \A v \in P, k \in 1..m : h[<<v, k>>] = F(v, k)
        <3> HIDE DEF F
        <3> QED OBVIOUS
    <2> HIDE DEF h, m
    <2>3. PICK g : StepsIn(g, P, m, b, h)
        BY <1>0, <1>2, <2>1, StepsMake
    <2>4. g \in [0..m -> P] /\ \A k \in 0..m : g[k] = IF k = 0 THEN b ELSE h[<<g[k - 1], k>>]
        BY <2>3 DEF StepsIn
    <2>5. ASSUME NEW k \in 0..m PROVE g[k] = IF k = 0 THEN b ELSE F(g[k - 1], k)
        <3>1. CASE k = 0
            BY <2>4, <3>1
        <3>2. CASE k # 0
            <4>1. k \in 1..m /\ k - 1 \in 0..m
                BY <1>0, <3>2
            <4>2. g[k - 1] \in P
                BY <2>4, <4>1
            <4> HIDE DEF F
            <4> QED BY <2>2, <2>4, <3>2, <4>1, <4>2
        <3> QED BY <3>1, <3>2
    <2>6. g = [k \in 0..m |-> g[k]]
        BY <2>4
    <2>7. Steps(g)
        BY <2>5, <2>6 DEF m
    <2> QED BY <2>7
<1>5. Steps(pick)
    <2> HIDE DEF Steps
    <2> QED BY <1>4
<1> HIDE DEF pick
<1>6. \A k \in 0..m : pick[k] = IF k = 0 THEN b ELSE F(pick[k - 1], k)
    BY <1>5
<1> HIDE DEF Steps, F, m
<1>7. pick[0] = b
    <2>1. 0 \in 0..m
        BY <1>0
    <2> QED BY <1>6, <2>1
<1>8. ASSUME NEW k \in 0..(m - 1) PROVE pick[k + 1] = F(pick[k], k + 1) /\ k + 1 \in 1..m
    <2>1. k + 1 \in 0..m /\ k + 1 \in 1..m /\ k + 1 # 0 /\ (k + 1) - 1 = k
        BY <1>0
    <2> QED BY <1>6, <2>1
<1>9. \A k \in 0..(m - 1) : pick[k] \in P => pick[k + 1] \in P
    BY <1>3, <1>8
<1>10. pick[0] \in P
    BY <1>2, <1>7
<1>11. \A k \in 0..m : pick[k] \in P
    BY <1>0, <1>9, <1>10, StepsKeep
<1>12. m \in 0..m
    BY <1>0
<1>13. cross_check(a, o, t) = pick[m].map
    BY <1>1
<1> QED BY <1>11, <1>12, <1>13 DEF P

\* What an update makes of a map m and the cells S of a snapshot, but for the derived
\* fields: the hits of the snapshot are in the map, and whatever is new or has changed
\* is noted.
Assimilates(m, S, w) ==
    /\ MapSound(w) /\ Continues(w.order, m.order)
    /\ Known(m) \cup DOMAIN S \subseteq Known(w) /\ Known(w) \subseteq Known(m) \cup w.tick
    /\ DOMAIN S \subseteq w.tick /\ m.touched \cup DOMAIN S \subseteq w.touched
    /\ w.occupied = m.occupied /\ w.sweep = m.sweep /\ w.log_odds = m.log_odds
    /\ \A c \in Cells :
          /\ w.cell[c].state = m.cell[c].state
          /\ w.cell[c].hits = IF c \in DOMAIN S THEN Max({m.cell[c].hits, Min({S[c].hits, MaxHits})})
                              ELSE m.cell[c].hits
          /\ w.cell[c].odds # m.cell[c].odds => c \in w.touched /\ c \in w.tick

\* The cells of a snapshot.
CellsOf(S) == DOMAIN S \subseteq Cells /\ \A c \in DOMAIN S : S[c] \in RawCell \ {None}

\* The new cells of a snapshot, in some order.
LEMMA FreshFacts ==
    ASSUME NEW m, MapSound(m), NEW snapshot, CellsOf(snapshot.cells), NEW fresh \in Fresh(m, snapshot)
    PROVE  /\ fresh \in Seq(Cells) /\ IsInjective(fresh)
           /\ Range(fresh) = DOMAIN snapshot.cells \ Known(m)
<1> DEFINE S == DOMAIN snapshot.cells \ Known(m)
           d == Cardinality(S)
<1>1. CellCount \in Nat
    BY Limits
<1>2. IsFiniteSet(Cells)
    BY <1>1, FS_Interval DEF Cells
<1>3. S \subseteq Cells
    BY DEF CellsOf
<1>4. IsFiniteSet(S)
    BY <1>2, <1>3, FS_Subset
<1>5. d \in Nat
    BY <1>4, FS_CardinalityType
<1>6. fresh \in [1..d -> S] /\ \A i, j \in 1..d : i # j => fresh[i] # fresh[j]
    BY DEF Fresh, SetToSeqs
<1> HIDE DEF S, d
<1>7. fresh \in Injection(1..d, S)
    BY <1>6 DEF Injection, IsInjective
<1>8. IsFiniteSet(1..d) /\ Cardinality(1..d) = d
    BY <1>5, FS_Interval
<1>9. fresh \in Surjection(1..d, S)
    <2>1. Cardinality(1..d) = Cardinality(S)
        BY <1>8 DEF d
    <2> QED BY <1>4, <1>7, <2>1, FS_Injection
<1>10. DOMAIN fresh = 1..d /\ Range(fresh) = S
    BY <1>6, <1>9 DEF Surjection, Range
<1>11. fresh \in Seq(Cells)
    <2>1. fresh \in [1..d -> Cells]
        BY <1>3, <1>6
    <2> QED BY <1>5, <2>1, SeqDef
<1>12. IsInjective(fresh)
    BY <1>7 DEF Injection
<1> QED BY <1>10, <1>11, <1>12 DEF S

\* A list with another behind it whose members are not in the first.
LEMMA AppendedFacts ==
    ASSUME NEW s \in Seq(Cells), NEW v \in Seq(Cells), IsInjective(s), IsInjective(v),
           Range(s) \cap Range(v) = {}
    PROVE  s \o v \in Grown(s) /\ Range(s \o v) = Range(s) \cup Range(v)
<1> DEFINE u == s \o v
<1>1. /\ Len(s) \in Nat /\ DOMAIN s = 1..Len(s) /\ Len(v) \in Nat /\ DOMAIN v = 1..Len(v)
      /\ u \in Seq(Cells) /\ Len(u) = Len(s) + Len(v) /\ DOMAIN u = 1..(Len(s) + Len(v))
      /\ \A i \in 1..Len(s) : u[i] = s[i]
    OBVIOUS
<1>2. \A i \in (Len(s) + 1)..(Len(s) + Len(v)) : u[i] = v[i - Len(s)] /\ i - Len(s) \in 1..Len(v)
    BY <1>1
<1>3. \A i \in 1..Len(v) : u[i + Len(s)] = v[i] /\ i + Len(s) \in DOMAIN u
    <2> TAKE i \in 1..Len(v)
    <2>1. i + Len(s) \in (Len(s) + 1)..(Len(s) + Len(v)) /\ (i + Len(s)) - Len(s) = i
        BY <1>1
    <2>2. u[i + Len(s)] = v[i]
        BY <1>2, <2>1
    <2>3. i + Len(s) \in DOMAIN u
        BY <1>1, <2>1
    <2> QED BY <2>2, <2>3
<1> HIDE DEF u
<1>4. \A i \in DOMAIN u : i \in 1..Len(s) \/ i \in (Len(s) + 1)..(Len(s) + Len(v))
    BY <1>1
<1>5. \A i \in 1..Len(s), j \in 1..Len(v) : s[i] # v[j]
    BY <1>1 DEF Range
<1>6. ASSUME NEW i \in DOMAIN u, NEW j \in DOMAIN u, u[i] = u[j] PROVE i = j
    <2>1. CASE i \in 1..Len(s) /\ j \in 1..Len(s)
        BY <1>1, <1>6, <2>1 DEF IsInjective
    <2>2. CASE i \in 1..Len(s) /\ j \in (Len(s) + 1)..(Len(s) + Len(v))
        BY <1>1, <1>2, <1>5, <1>6, <2>2
    <2>3. CASE i \in (Len(s) + 1)..(Len(s) + Len(v)) /\ j \in 1..Len(s)
        BY <1>1, <1>2, <1>5, <1>6, <2>3
    <2>4. CASE i \in (Len(s) + 1)..(Len(s) + Len(v)) /\ j \in (Len(s) + 1)..(Len(s) + Len(v))
        <3>1. i - Len(s) = j - Len(s)
            BY <1>1, <1>2, <1>6, <2>4 DEF IsInjective
        <3> QED BY <1>1, <2>4, <3>1
    <2> QED BY <1>4, <2>1, <2>2, <2>3, <2>4
<1>7. IsInjective(u)
    BY <1>6 DEF IsInjective
<1>8. Continues(u, s)
    BY <1>1 DEF Continues
<1>9. Range(u) = Range(s) \cup Range(v)
    <2>1. \A x \in Range(u) : x \in Range(s) \/ x \in Range(v)
        <3> SUFFICES ASSUME NEW i \in DOMAIN u PROVE u[i] \in Range(s) \/ u[i] \in Range(v)
            BY DEF Range
        <3>1. CASE i \in 1..Len(s)
            <4>1. u[i] = s[i] /\ i \in DOMAIN s
                BY <1>1, <3>1
            <4> QED BY <4>1 DEF Range
        <3>2. CASE i \in (Len(s) + 1)..(Len(s) + Len(v))
            <4>1. u[i] = v[i - Len(s)] /\ i - Len(s) \in DOMAIN v
                BY <1>1, <1>2, <3>2
            <4> QED BY <4>1 DEF Range
        <3> QED BY <1>4, <3>1, <3>2
    <2>2. \A x \in Range(s) : x \in Range(u)
        <3>1. \A i \in 1..Len(s) : i \in DOMAIN u
            BY <1>1
        <3> QED BY <1>1, <3>1 DEF Range
    <2>3. \A x \in Range(v) : x \in Range(u)
        BY <1>1, <1>3 DEF Range
    <2> QED BY <2>1, <2>2, <2>3
<1> QED BY <1>1, <1>7, <1>8, <1>9 DEF Grown, u

\* The merge loop assimilates a snapshot.
LEMMA MergeFacts ==
    ASSUME NEW m, MapSound(m), m.tick = {}, NEW snapshot, CellsOf(snapshot.cells),
           NEW fresh \in Fresh(m, snapshot)
    PROVE  Assimilates(m, snapshot.cells, merge(m, snapshot, fresh))
<1> DEFINE S == snapshot.cells
           D == DOMAIN S
           u == m.order \o fresh
           New(c) == [m.cell[c] EXCEPT
                         !.odds = Clamp(IF m.log_odds THEN @ + Occupied ELSE Max({@, S[c].hits})),
                         !.conf = 1,
                         !.free = @ \/ S[c].free,
                         !.hits = Max({@, Min({S[c].hits, MaxHits})}),
                         !.seen = Max({@, S[c].seen})]
           C == [c \in Cells |-> IF c \notin D THEN m.cell[c] ELSE New(c)]
           w == merge(m, snapshot, fresh)
<1>1. /\ m \in Maps /\ IsInjective(m.order) /\ m.order \in Seq(Cells) /\ m.cross \in Cursor(m.order)
      /\ m.sweep \in Cursor(m.order) /\ m.cell \in [Cells -> TravCell]
      /\ m.occupied \subseteq Known(m) /\ m.touched \subseteq Known(m)
    BY DEF MapSound, Maps
<1>2. fresh \in Seq(Cells) /\ IsInjective(fresh) /\ Range(fresh) = D \ Known(m)
    BY FreshFacts
<1>3. u \in Grown(m.order) /\ Range(u) = Known(m) \cup D
    <2>1. Range(m.order) \cap Range(fresh) = {}
        BY <1>2 DEF Known
    <2>2. u \in Grown(m.order) /\ Range(u) = Range(m.order) \cup Range(fresh)
        BY <1>1, <1>2, <2>1, AppendedFacts
    <2> QED BY <1>2, <2>2 DEF Known
<1>4. D \subseteq Cells
    BY DEF CellsOf
<1>5. w = [m EXCEPT !.cell = C, !.order = u, !.touched = @ \cup D, !.tick = D]
    BY DEF merge
<1>6. ASSUME NEW c \in Cells
      PROVE  /\ C[c] \in TravCell /\ C[c].state = m.cell[c].state
             /\ C[c].hits = IF c \in D THEN Max({m.cell[c].hits, Min({S[c].hits, MaxHits})})
                            ELSE m.cell[c].hits
             /\ c \notin D => C[c] = m.cell[c]
    <2>1. CASE c \in D
        <3> DEFINE x == m.cell[c]
                   v == IF m.log_odds THEN x.odds + Occupied ELSE Max({x.odds, S[c].hits})
                   o == Clamp(v)
                   f == x.free \/ S[c].free
                   l == Min({S[c].hits, MaxHits})
                   h == Max({x.hits, l})
                   e == Max({x.seen, S[c].seen})
        <3>1. /\ x \in TravCell /\ MaxHits \in Nat /\ MaxTime \in Nat /\ Occupied \in Nat
              /\ S[c].hits \in 0..(MaxHits + 1) /\ S[c].seen \in 0..MaxTime
            BY <1>1, <2>1, Limits DEF CellsOf, RawCell
        <3>2. v \in Int
            <4>1. x.odds \in Int /\ S[c].hits \in Int /\ x.odds + Occupied \in Int
                BY <3>1 DEF TravCell
            <4>2. Max({x.odds, S[c].hits}) \in Int
                <5> HIDE DEF S, x
                <5>1. Max({x.odds, S[c].hits}) = IF x.odds >= S[c].hits THEN x.odds ELSE S[c].hits
                    BY <4>1, MinMax
                <5> QED BY <4>1, <5>1
            <4> QED BY <4>1, <4>2
        <3>3. o \in -MaxOdds..MaxOdds
            <4> HIDE DEF v
            <4> QED BY <3>2, ClampFacts
        <3>0. f \in BOOLEAN
            OBVIOUS
        <3>4. l = IF S[c].hits <= MaxHits THEN S[c].hits ELSE MaxHits
            <4>1. S[c].hits \in Int /\ MaxHits \in Int
                BY <3>1
            <4> HIDE DEF S
            <4> QED BY <4>1, MinMax
        <3>5. l \in 0..MaxHits
            BY <3>1, <3>4
        <3>6. x.hits \in 0..MaxHits /\ x.seen \in 0..MaxTime
            BY <3>1 DEF TravCell
        <3> HIDE DEF l
        <3>7. h = IF x.hits >= l THEN x.hits ELSE l
            BY <3>1, <3>5, <3>6, MinMax
        <3>8. h \in 0..MaxHits
            BY <3>5, <3>6, <3>7
        <3>9. e = IF x.seen >= S[c].seen THEN x.seen ELSE S[c].seen
            BY <3>1, <3>6, MinMax
        <3>10. e \in 0..MaxTime
            BY <3>1, <3>6, <3>9
        <3>11. New(c) = [x EXCEPT !.odds = o, !.conf = 1, !.free = f, !.hits = h, !.seen = e]
            BY <3>1 DEF l, TravCell
        <3>12. C[c] = New(c)
            BY <2>1
        <3> HIDE DEF v, o, f, h, e, x, New, C
        <3>13. C[c] = [odds |-> o, conf |-> 1, hits |-> h, free |-> f, seen |-> e, state |-> x.state,
                       stale |-> x.stale, near |-> x.near]
            BY <3>1, <3>11, <3>12 DEF TravCell
        <3>14. C[c] \in TravCell /\ C[c].hits = h /\ C[c].state = x.state
            BY <3>0, <3>1, <3>3, <3>8, <3>10, <3>13 DEF TravCell
        <3> QED BY <2>1, <3>14 DEF h, x, l
    <2>2. CASE c \notin D
        <3>1. C[c] = m.cell[c] /\ m.cell[c] \in TravCell
            BY <1>1, <2>2
        <3> HIDE DEF C, D
        <3> QED BY <2>2, <3>1
    <2> QED BY <2>1, <2>2
<1>7. C \in [Cells -> TravCell]
    <2> HIDE DEF New, D
    <2> QED BY <1>6
<1> HIDE DEF C, u, w, D, New
<1>8. w = [cell |-> C, order |-> u, occupied |-> m.occupied, touched |-> m.touched \cup D,
           tick |-> D, cross |-> m.cross, sweep |-> m.sweep, log_odds |-> m.log_odds]
    BY <1>1, <1>5 DEF Maps
<1>9. /\ m.cross \in Cursor(u) /\ m.sweep \in Cursor(u) /\ m.cross \in Nat /\ m.sweep \in Nat
    BY <1>1, <1>3, CursorGrows
<1>10. u \in Seq(Cells) /\ IsInjective(u) /\ Continues(u, m.order)
    BY <1>3 DEF Grown
<1>11. w \in Maps
    BY <1>1, <1>4, <1>7, <1>8, <1>9, <1>10 DEF Maps
<1>12. Known(w) = Known(m) \cup D
    BY <1>3, <1>8 DEF Known
<1>13. MapSound(w)
    BY <1>1, <1>8, <1>9, <1>10, <1>11, <1>12 DEF MapSound
<1>14. /\ Continues(w.order, m.order) /\ w.tick = D /\ w.touched = m.touched \cup D
       /\ w.occupied = m.occupied /\ w.sweep = m.sweep /\ w.log_odds = m.log_odds /\ w.cell = C
    BY <1>8, <1>10
<1>15. \A c \in Cells :
          /\ w.cell[c].state = m.cell[c].state
          /\ w.cell[c].hits = IF c \in D THEN Max({m.cell[c].hits, Min({S[c].hits, MaxHits})})
                              ELSE m.cell[c].hits
          /\ w.cell[c].odds # m.cell[c].odds => c \in w.touched /\ c \in w.tick
    BY <1>6, <1>14
<1> QED BY <1>12, <1>13, <1>14, <1>15 DEF Assimilates, w, D

\* The later stages keep what the merge loop did.
LEMMA AssimilatesOn ==
    ASSUME NEW m, NEW S, NEW b, NEW w, MapSound(m), Assimilates(m, S, b), Grows(b, w)
    PROVE  Assimilates(m, S, w)
<1>1. Len(m.order) \in Nat /\ Len(b.order) \in Nat /\ Len(w.order) \in Nat
    BY DEF Grows, MapSound, Maps, Assimilates
<1>2. Continues(w.order, m.order)
    BY <1>1 DEF Grows, Continues, Assimilates
<1>3. /\ Known(m) \cup DOMAIN S \subseteq Known(w) /\ Known(w) \subseteq Known(m) \cup w.tick
      /\ DOMAIN S \subseteq w.tick /\ m.touched \cup DOMAIN S \subseteq w.touched
    BY DEF Grows, Assimilates
<1>4. w.occupied = m.occupied /\ w.sweep = m.sweep /\ w.log_odds = m.log_odds /\ MapSound(w)
    BY DEF Grows, Assimilates
<1>5. ASSUME NEW c \in Cells
      PROVE  /\ w.cell[c].state = m.cell[c].state
             /\ w.cell[c].hits = IF c \in DOMAIN S THEN Max({m.cell[c].hits, Min({S[c].hits, MaxHits})})
                                 ELSE m.cell[c].hits
             /\ w.cell[c].odds # m.cell[c].odds => c \in w.touched /\ c \in w.tick
    BY DEF Grows, Assimilates
<1> QED BY <1>2, <1>3, <1>4, <1>5 DEF Assimilates

\* All the stages together.
LEMMA AfterFacts ==
    ASSUME NEW m, MapSound(m), m.tick = {}, NEW snapshot, CellsOf(snapshot.cells),
           snapshot.origin \in Origins \cup {None},
           NEW fresh \in Fresh(m, snapshot), NEW t \in 0..MaxTime
    PROVE  Assimilates(m, snapshot.cells, MapAfter(m, snapshot, fresh, t))
<1> DEFINE o == snapshot.origin
           a == merge(m, snapshot, fresh)
           b == endpoint_spread(a, o, fresh, t)
           d == free_rays(b, o, fresh, t)
           e == cross_check(d, o, t)
<1>1. Assimilates(m, snapshot.cells, a)
    BY MergeFacts
<1>2. MapAfter(m, snapshot, fresh, t) = IF o = None \/ ~m.log_odds THEN a ELSE e
    BY DEF MapAfter
<1>3. fresh \in Seq(Cells)
    BY FreshFacts
<1>4. MapSound(a)
    BY <1>1 DEF Assimilates
<1> HIDE DEF a
<1>5. CASE o = None \/ ~m.log_odds
    BY <1>1, <1>2, <1>5
<1>6. CASE ~(o = None \/ ~m.log_odds)
    <2>1. o \in Cells
        BY <1>6, Limits
    <2> HIDE DEF o
    <2>2. Grows(a, b)
        BY <1>3, <1>4, <2>1, SpreadGrows
    <2>3. MapSound(b)
        BY <2>2 DEF Grows
    <2> HIDE DEF b
    <2>4. Grows(b, d)
        BY <1>3, <2>1, <2>3, RaysGrow
    <2>5. MapSound(d)
        BY <2>4 DEF Grows
    <2> HIDE DEF d
    <2>6. Grows(d, e)
        BY <2>1, <2>5, CrossGrows
    <2> HIDE DEF e
    <2>7. Assimilates(m, snapshot.cells, b)
        BY <1>1, <2>2, AssimilatesOn
    <2>8. Assimilates(m, snapshot.cells, d)
        BY <2>4, <2>7, AssimilatesOn
    <2>9. Assimilates(m, snapshot.cells, e)
        BY <2>6, <2>8, AssimilatesOn
    <2> QED BY <1>2, <1>6, <2>9
<1> QED BY <1>5, <1>6

\* The cursor of the sweep wraps round.
LEMMA ModFacts ==
    ASSUME NEW T \in Nat, T > 0, NEW x \in Nat, x < T + T
    PROVE  x % T \in 0..(T - 1) /\ (x < T => x % T = x) /\ (~(x < T) => x % T = x - T)
<1>1. CASE x < T
    BY <1>1
<1>2. CASE x >= T
    BY <1>2
<1> QED BY <1>1, <1>2

\* How far the cursor s of the sweep over T cells has come since it was at i.
Walked(s, T, i) == IF i - 1 < s THEN s - (i - 1) ELSE T - (i - 1) + s

\* The cells an update computes the derived fields of.
Redo(m) == m.tick \cup (IF Len(m.order) = 0 THEN {} ELSE Slice(m))

\* How many cells the sweep covers.
Covered(m) == Min({Sweep, Len(m.order)})

\* The slice is of cells of the map; the cells that are not in it are not between the
\* cursor and where it moves.
LEMMA SliceFacts ==
    ASSUME NEW m, MapSound(m), Len(m.order) # 0
    PROVE  /\ m.sweep \in 0..(Len(m.order) - 1) /\ Covered(m) \in 1..Len(m.order)
           /\ Covered(m) = Sweep \/ Covered(m) = Len(m.order)
           /\ Slice(m) \subseteq Known(m)
           /\ \A i \in 1..Len(m.order) :
                 m.order[i] \notin Slice(m) =>
                     IF i - 1 < m.sweep THEN i - 1 >= m.sweep + Covered(m) - Len(m.order)
                     ELSE i - 1 >= m.sweep + Covered(m)
<1> DEFINE T == Len(m.order)
           s == m.sweep
           k == Covered(m)
<1>1. m.order \in Seq(Cells) /\ T \in Nat /\ T > 0 /\ Sweep \in Nat /\ Sweep > 0 /\ DOMAIN m.order = 1..T
    <2>1. Sweep \in Nat /\ Sweep > 0
        BY Limits
    <2>2. m.order \in Seq(Cells)
        BY DEF MapSound, Maps
    <2> QED BY <2>1, <2>2
<1>2. s \in 0..(T - 1)
    <2>1. m.order # <<>>
        BY EmptySeq
    <2> QED BY <2>1 DEF MapSound, Cursor
<1>3. k = IF Sweep <= T THEN Sweep ELSE T
    <2>1. k = Min({Sweep, T}) /\ Sweep \in Int /\ T \in Int
        BY <1>1 DEF Covered
    <2> HIDE DEF T, k
    <2> QED BY <2>1, MinMax
<1>4. k \in 1..T /\ (k = Sweep \/ k = T)
    BY <1>1, <1>3
<1>5. Slice(m) = {m.order[((s + i) % T) + 1] : i \in 0..(k - 1)}
    <2>1. ~(s >= T)
        BY <1>1, <1>2
    <2> QED BY <2>1 DEF Slice, Covered
<1> HIDE DEF T, s, k
<1>6. ASSUME NEW i \in 0..(k - 1)
      PROVE  /\ (s + i) % T \in 0..(T - 1) /\ (s + i < T => (s + i) % T = s + i)
             /\ (~(s + i < T) => (s + i) % T = s + i - T)
    <2> DEFINE x == s + i
    <2>1. x \in Nat /\ x < T + T
        BY <1>1, <1>2, <1>4
    <2> HIDE DEF x
    <2>2. x % T \in 0..(T - 1) /\ (x < T => x % T = x) /\ (~(x < T) => x % T = x - T)
        BY <1>1, <2>1, ModFacts
    <2> QED BY <1>1, <1>2, <1>4, <2>2 DEF x
<1>7. Slice(m) \subseteq Known(m)
    <2>1. \A i \in 0..(k - 1) : ((s + i) % T) + 1 \in DOMAIN m.order
        <3> TAKE i \in 0..(k - 1)
        <3> DEFINE x == (s + i) % T
        <3>1. x \in 0..(T - 1)
            BY <1>6
        <3> HIDE DEF x
        <3>2. x + 1 \in 1..T
            BY <1>1, <3>1
        <3>3. x + 1 \in DOMAIN m.order
            BY <1>1, <3>2
        <3> QED BY <3>3 DEF x
    <2> QED BY <1>5, <2>1 DEF Known, Range
<1>8. ASSUME NEW i \in 1..T, m.order[i] \notin Slice(m)
      PROVE  IF i - 1 < s THEN i - 1 >= s + k - T ELSE i - 1 >= s + k
    <2>1. CASE i - 1 < s
        <3> SUFFICES ASSUME i - 1 < s + k - T PROVE FALSE
            BY <1>1, <1>2, <1>4, <2>1
        <3> DEFINE j == (i - 1) + T - s
        <3>1. j \in 0..(k - 1) /\ s + j = (i - 1) + T /\ ~(s + j < T) /\ (s + j - T) + 1 = i
            BY <1>1, <1>2, <1>4, <2>1
        <3> HIDE DEF j
        <3>2. (s + j) % T = s + j - T
            BY <1>6, <3>1
        <3>3. ((s + j) % T) + 1 = i
            BY <3>1, <3>2
        <3>4. m.order[i] \in Slice(m)
            BY <1>5, <3>1, <3>3
        <3> QED BY <1>8, <3>4
    <2>2. CASE ~(i - 1 < s)
        <3> SUFFICES ASSUME i - 1 < s + k PROVE FALSE
            BY <1>1, <1>2, <1>4, <2>2
        <3> DEFINE j == (i - 1) - s
        <3>1. j \in 0..(k - 1) /\ s + j = i - 1 /\ s + j < T /\ (s + j) + 1 = i
            BY <1>1, <1>2, <1>4, <2>2
        <3> HIDE DEF j
        <3>2. (s + j) % T = s + j
            BY <1>6, <3>1
        <3>3. ((s + j) % T) + 1 = i
            BY <3>1, <3>2
        <3>4. m.order[i] \in Slice(m)
            BY <1>5, <3>1, <3>3
        <3> QED BY <1>8, <3>4
    <2> QED BY <2>1, <2>2
<1> QED BY <1>2, <1>4, <1>7, <1>8 DEF T, s, k

\* A cell has a nearest one within the search radius, or none.
LEMMA NearestFacts ==
    ASSUME NEW c \in Cells, NEW S \in SUBSET Cells
    PROVE  Nearest(c, S) \in Cells \cup {None}
<1> DEFINE D == {Distance(c, d) : d \in S} \cap 0..Radius
<1>1. CellCount \in Nat
    BY Limits
<1>2. \A d \in Cells : Distance(c, d) \in Cells /\ Distance(c, d) \in Nat
    BY <1>1 DEF Distance, Cells
<1>3. D \in SUBSET Nat /\ D \subseteq Cells
    BY <1>2
<1>4. Nearest(c, S) = IF D = {} THEN None ELSE Min(D)
    BY DEF Nearest
<1> HIDE DEF D
<1>5. CASE D = {}
    BY <1>4, <1>5
<1>6. CASE D # {}
    <2>1. \E x \in D : \A y \in D : x <= y
        BY <1>3, <1>6, LeastNat
    <2>2. Min(D) \in D
        BY <2>1 DEF Min
    <2> QED BY <1>3, <1>4, <1>6, <2>2
<1> QED BY <1>5, <1>6

\* What recompute_derived_fields() makes of a map w.
Rederives(w, r, clearance) ==
    /\ MapSound(r) /\ r.order = w.order /\ r.touched = w.touched /\ r.tick = {}
    /\ r.log_odds = w.log_odds
    /\ r.occupied = (w.occupied \ Redo(w)) \cup {c \in Redo(w) : IsOccupied(w, c)}
    /\ r.sweep = IF Len(w.order) = 0 THEN w.sweep ELSE (w.sweep + Covered(w)) % Len(w.order)
    /\ \A c \in Cells :
          /\ r.cell[c].odds = w.cell[c].odds /\ r.cell[c].hits = w.cell[c].hits
          /\ c \notin Redo(w) => r.cell[c].state = w.cell[c].state
          /\ c \in Redo(w) => (r.cell[c].state \in {"occupied", "mixed"} <=> IsOccupied(w, c))
          /\ c \in Redo(w) /\ clearance => r.cell[c].near = Nearest(c, r.occupied)

LEMMA RecomputeFacts ==
    ASSUME NEW w, MapSound(w), NEW t \in 0..MaxTime, NEW clearance \in BOOLEAN
    PROVE  Rederives(w, recompute_derived_fields(w, t, clearance), clearance)
<1> DEFINE total == Len(w.order)
           start == IF w.sweep >= total THEN 0 ELSE w.sweep
           redo == w.tick \cup (IF total = 0 THEN {} ELSE Slice(w))
           hot == {c \in redo : IsOccupied(w, c)}
           occ == (w.occupied \ redo) \cup hot
           Stale(c) == StaleAfter > 0 /\ w.cell[c].seen # 0 /\ t - w.cell[c].seen > StaleAfter
           State(c) == IF c \in hot THEN (IF IsFree(w, c) THEN "mixed" ELSE "occupied")
                       ELSE IF Stale(c) THEN "stale"
                       ELSE IF IsFree(w, c) THEN "free" ELSE "unknown"
           Near(c) == IF clearance THEN Nearest(c, occ) ELSE w.cell[c].near
           New(c) == [w.cell[c] EXCEPT !.state = State(c), !.stale = Stale(c), !.near = Near(c)]
           C == [c \in Cells |-> IF c \notin redo THEN w.cell[c] ELSE New(c)]
           x == IF total = 0 THEN w.sweep ELSE (start + Min({Sweep, total})) % total
           r == recompute_derived_fields(w, t, clearance)
<1>1. /\ w \in Maps /\ IsInjective(w.order) /\ w.order \in Seq(Cells) /\ total \in Nat
      /\ w.cross \in Cursor(w.order) /\ w.sweep \in Cursor(w.order) /\ w.cell \in [Cells -> TravCell]
      /\ w.occupied \subseteq Known(w) /\ w.touched \subseteq Known(w) /\ w.tick \subseteq Known(w)
      /\ Known(w) \subseteq Cells /\ w.cross \in Nat
    BY DEF MapSound, Maps, Known, Range
<1>2. r = [w EXCEPT !.cell = C, !.occupied = occ, !.tick = {},
                    !.sweep = IF total = 0 THEN @ ELSE (start + Min({Sweep, total})) % total]
    BY DEF recompute_derived_fields
<1>3. redo = Redo(w)
    BY DEF Redo
<1>4. redo \subseteq Known(w)
    <2>1. CASE total = 0
        BY <1>1, <2>1
    <2>2. CASE total # 0
        <3>1. Slice(w) \subseteq Known(w)
            BY <2>2, SliceFacts
        <3> QED BY <1>1, <3>1
    <2> QED BY <2>1, <2>2
<1>5. x = IF total = 0 THEN w.sweep ELSE (w.sweep + Covered(w)) % total
    <2>1. CASE total = 0
        BY <2>1
    <2>2. CASE total # 0
        <3>1. w.sweep \in 0..(total - 1)
            BY <2>2, SliceFacts
        <3>2. start = w.sweep
            BY <1>1, <3>1
        <3> QED BY <2>2, <3>2 DEF Covered
    <2> QED BY <2>1, <2>2
<1>6. x \in Cursor(w.order) /\ x \in Nat
    <2> HIDE DEF x, start
    <2>1. CASE total = 0
        <3>1. w.order = <<>>
            BY <1>1, <2>1, EmptySeq
        <3> QED BY <1>1, <1>5, <2>1, <3>1 DEF Cursor
    <2>2. CASE total # 0
        <3> DEFINE y == w.sweep + Covered(w)
        <3>1. w.sweep \in 0..(total - 1) /\ Covered(w) \in 1..total
            BY <2>2, SliceFacts
        <3>2. y \in Nat /\ y < total + total /\ total > 0
            BY <1>1, <2>2, <3>1
        <3> HIDE DEF y, total
        <3>3. y % total \in 0..(total - 1)
            BY <1>1, <3>2, ModFacts
        <3>4. x = y % total
            BY <1>5, <2>2 DEF y
        <3>5. w.order # <<>>
            BY <1>1, <2>2, EmptySeq DEF total
        <3> QED BY <3>3, <3>4, <3>5 DEF Cursor, total
    <2> QED BY <2>1, <2>2
<1>7. occ \subseteq Known(w) /\ occ \subseteq Cells
    BY <1>1, <1>4
<1> HIDE DEF occ, redo, x, start, total
<1>8. ASSUME NEW c \in Cells
      PROVE  /\ C[c] \in TravCell /\ C[c].odds = w.cell[c].odds /\ C[c].hits = w.cell[c].hits
             /\ c \notin redo => C[c].state = w.cell[c].state
             /\ c \in redo => (C[c].state \in {"occupied", "mixed"} <=> IsOccupied(w, c))
             /\ c \in redo /\ clearance => C[c].near = Nearest(c, occ)
    <2>1. CASE c \in redo
        <3> DEFINE z == w.cell[c]
                   st == State(c)
                   sl == Stale(c)
                   nr == Near(c)
        <3>1. z \in TravCell
            BY <1>1
        <3>2. st \in {"unknown", "free", "occupied", "mixed", "stale"}
            <4> HIDE DEF hot, Stale
            <4> QED OBVIOUS
        <3>3. sl \in BOOLEAN
            OBVIOUS
        <3>4. nr \in Cells \cup {None}
            <4>1. Nearest(c, occ) \in Cells \cup {None}
                BY <1>7, NearestFacts
            <4>2. w.cell[c].near \in Cells \cup {None}
                BY <3>1 DEF TravCell
            <4> QED BY <4>1, <4>2
        <3>5. clearance => nr = Nearest(c, occ)
            OBVIOUS
        <3>6. st \in {"occupied", "mixed"} <=> IsOccupied(w, c)
            <4>1. c \in hot <=> IsOccupied(w, c)
                BY <2>1
            <4> HIDE DEF hot, Stale
            <4>2. st \in {"occupied", "mixed"} <=> c \in hot
                OBVIOUS
            <4> QED BY <4>1, <4>2
        <3>7. C[c] = [z EXCEPT !.state = st, !.stale = sl, !.near = nr]
            BY <2>1
        <3> HIDE DEF z, st, sl, nr, C
        <3>8. C[c] = [odds |-> z.odds, conf |-> z.conf, hits |-> z.hits, free |-> z.free, seen |-> z.seen, state |-> st,
                      stale |-> sl, near |-> nr]
            BY <3>1, <3>7 DEF TravCell
        <3>9. C[c] \in TravCell
            BY <3>1, <3>2, <3>3, <3>4, <3>8 DEF TravCell
        <3>10. /\ C[c].odds = z.odds /\ C[c].hits = z.hits /\ C[c].state = st /\ C[c].near = nr
            BY <3>8
        <3> QED BY <2>1, <3>5, <3>6, <3>9, <3>10 DEF z
    <2>2. CASE c \notin redo
        <3>1. C[c] = w.cell[c] /\ w.cell[c] \in TravCell
            BY <1>1, <2>2
        <3> HIDE DEF C
        <3> QED BY <2>2, <3>1
    <2> QED BY <2>1, <2>2
<1>9. C \in [Cells -> TravCell]
    <2> HIDE DEF New
    <2> QED BY <1>8
<1> HIDE DEF C, r, hot, New
<1>10. r = [cell |-> C, order |-> w.order, occupied |-> occ, touched |-> w.touched, tick |-> {},
            cross |-> w.cross, sweep |-> x, log_odds |-> w.log_odds]
    BY <1>1, <1>2 DEF Maps, x
<1>11. r \in Maps
    BY <1>1, <1>6, <1>7, <1>9, <1>10 DEF Maps
<1>12. Known(r) = Known(w)
    BY <1>10 DEF Known
<1>13. MapSound(r)
    BY <1>1, <1>6, <1>7, <1>10, <1>11, <1>12 DEF MapSound
<1>14. r.occupied = (w.occupied \ redo) \cup {c \in redo : IsOccupied(w, c)}
    BY <1>10 DEF occ, hot
<1>15. r.sweep = IF Len(w.order) = 0 THEN w.sweep ELSE (w.sweep + Covered(w)) % Len(w.order)
    BY <1>5, <1>10 DEF total
<1>16. \A c \in Cells :
          /\ r.cell[c].odds = w.cell[c].odds /\ r.cell[c].hits = w.cell[c].hits
          /\ c \notin redo => r.cell[c].state = w.cell[c].state
          /\ c \in redo => (r.cell[c].state \in {"occupied", "mixed"} <=> IsOccupied(w, c))
          /\ c \in redo /\ clearance => r.cell[c].near = Nearest(c, r.occupied)
    BY <1>8, <1>10
<1>17. r.order = w.order /\ r.touched = w.touched /\ r.tick = {} /\ r.log_odds = w.log_odds
    BY <1>10
<1>18. Rederives(w, r, clearance)
    BY <1>3, <1>13, <1>14, <1>15, <1>16, <1>17 DEF Rederives
<1> QED BY <1>18 DEF r

\* The lag of every cell is paid for by the way the cursor has come.
SweepSound(order, s, late) ==
    \A i \in 1..Len(order) :
        late[order[i]] \in Nat /\ late[order[i]] * Sweep < Walked(s, Len(order), i)

\* The cursor comes k cells farther from a cell that it does not reach, even if the list
\* has grown from T to U cells.
LEMMA WalkStep ==
    ASSUME NEW T \in Nat, NEW U \in Nat, T <= U, NEW i \in 1..T, NEW s \in 0..(U - 1), NEW k \in 1..U,
           NEW y, y = (IF s + k < U THEN s + k ELSE s + k - U),
           IF i - 1 < s THEN i - 1 >= s + k - U ELSE i - 1 >= s + k
    PROVE  Walked(y, U, i) >= Walked(s, T, i) + k
<1>1. CASE i - 1 < s /\ s + k < U
    <2>1. y = s + k /\ i - 1 < y
        BY <1>1
    <2> QED BY <1>1, <2>1 DEF Walked
<1>2. CASE i - 1 < s /\ ~(s + k < U)
    <2>1. y = s + k - U /\ ~(i - 1 < y)
        BY <1>2
    <2> QED BY <1>2, <2>1 DEF Walked
<1>3. CASE ~(i - 1 < s)
    <2>1. y = s + k /\ ~(i - 1 < y)
        BY <1>3
    <2> QED BY <1>3, <2>1 DEF Walked
<1> QED BY <1>1, <1>2, <1>3

\* The cursor has come at least one cell and at most one round.
LEMMA WalkedFacts ==
    ASSUME NEW T \in Nat, NEW i \in 1..T, NEW s \in 0..(T - 1)
    PROVE  Walked(s, T, i) \in 1..T
BY DEF Walked

\* An update that grows the map from m to w keeps the sweep sound.
LEMMA SweepStep ==
    ASSUME NEW m, NEW w, MapSound(m), MapSound(w), Continues(w.order, m.order), w.sweep = m.sweep,
           Known(w) \subseteq Known(m) \cup w.tick,
           NEW late \in [Cells -> Nat], SweepSound(m.order, m.sweep, late),
           NEW later, later = [c \in Cells |-> IF c \in Redo(w) THEN 0
                                               ELSE IF c \in Known(m) THEN late[c] + 1 ELSE late[c]],
           NEW x, x = IF Len(w.order) = 0 THEN w.sweep ELSE (w.sweep + Covered(w)) % Len(w.order)
    PROVE  later \in [Cells -> Nat] /\ SweepSound(w.order, x, later)
<1> DEFINE T == Len(m.order)
           U == Len(w.order)
           s == w.sweep
           k == Covered(w)
<1>1. /\ m.order \in Seq(Cells) /\ w.order \in Seq(Cells) /\ T \in Nat /\ U \in Nat
      /\ DOMAIN m.order = 1..T /\ DOMAIN w.order = 1..U
      /\ \A i \in 1..U : w.order[i] \in Cells
      /\ IsInjective(w.order)
    BY DEF MapSound, Maps
<1>2. T <= U /\ \A i \in 1..T : w.order[i] = m.order[i]
    BY DEF Continues
<1>3. later \in [Cells -> Nat]
    BY Zenon, SMT
<1> SUFFICES ASSUME NEW i \in 1..U
             PROVE  later[w.order[i]] \in Nat /\ later[w.order[i]] * Sweep < Walked(x, U, i)
    BY <1>3 DEF SweepSound
<1> DEFINE c == w.order[i]
           l == late[c]
<1>4. U # 0 /\ c \in Cells /\ later[c] \in Nat /\ l \in Nat /\ Sweep \in Nat
    <2>1. Sweep \in Nat
        BY Limits
    <2>2. U # 0
        BY <1>1
    <2>3. c \in Cells
        BY <1>1
    <2> HIDE DEF c, U
    <2>4. later[c] \in Nat /\ l \in Nat
        BY <1>3, <2>3
    <2> QED BY <2>1, <2>2, <2>3, <2>4
<1>5. /\ s \in 0..(U - 1) /\ k \in 1..U /\ (k = Sweep \/ k = U)
      /\ c \notin Slice(w) => IF i - 1 < s THEN i - 1 >= s + k - U ELSE i - 1 >= s + k
    <2>1. Len(w.order) # 0
        BY <1>4
    <2>2. /\ w.sweep \in 0..(Len(w.order) - 1) /\ Covered(w) \in 1..Len(w.order)
          /\ Covered(w) = Sweep \/ Covered(w) = Len(w.order)
          /\ \A j \in 1..Len(w.order) :
                 w.order[j] \notin Slice(w) =>
                     IF j - 1 < w.sweep THEN j - 1 >= w.sweep + Covered(w) - Len(w.order)
                     ELSE j - 1 >= w.sweep + Covered(w)
        BY <2>1, SliceFacts
    <2>3. /\ s \in 0..(U - 1) /\ k \in 1..U /\ (k = Sweep \/ k = U)
        BY <2>2
    <2>4. c \notin Slice(w) => IF i - 1 < s THEN i - 1 >= s + k - U ELSE i - 1 >= s + k
        BY <2>2
    <2> QED BY <2>3, <2>4
<1>6. /\ x = (IF s + k < U THEN s + k ELSE s + k - U) /\ x \in 0..(U - 1)
    <2> DEFINE y == s + k
    <2>0. s \in 0..(U - 1) /\ k \in 1..U /\ U \in Nat
        BY <1>1, <1>5
    <2>2. x = y % U
        BY <1>4
    <2> HIDE DEF U, s, k
    <2>1. y \in Nat /\ y < U + U /\ U > 0
        BY <2>0
    <2> HIDE DEF y
    <2>3. y % U \in 0..(U - 1) /\ (y < U => y % U = y) /\ (~(y < U) => y % U = y - U)
        BY <1>1, <2>1, ModFacts
    <2>4. x \in 0..(U - 1) /\ (y < U => x = y) /\ (~(y < U) => x = y - U)
        BY <2>2, <2>3
    <2> QED BY <2>0, <2>4 DEF y
<1>7. CASE c \in Redo(w)
    <2>1. later[c] = 0
        BY <1>4, <1>7
    <2>2. Walked(x, U, i) \in 1..U
        <3>1. U \in Nat /\ i \in 1..U /\ x \in 0..(U - 1)
            BY <1>1, <1>6
        <3> HIDE DEF U, s, k
        <3> QED BY <3>1, WalkedFacts
    <2>3. later[c] * Sweep = 0
        <3> HIDE DEF c
        <3> QED BY <1>4, <2>1
    <2> HIDE DEF c, U
    <2> QED BY <2>1, <2>2, <2>3 DEF c
<1>8. CASE c \notin Redo(w)
    <2>1. c \notin w.tick /\ c \notin Slice(w)
        BY <1>4, <1>8 DEF Redo
    <2>2. c \in Known(w)
        BY <1>1 DEF Known, Range
    <2>3. c \in Known(m)
        BY <2>1, <2>2
    <2>4. i \in 1..T
        <3>1. PICK j \in 1..T : m.order[j] = c
            BY <1>1, <2>3 DEF Known, Range
        <3>2. w.order[j] = w.order[i] /\ j \in 1..U
            BY <1>1, <1>2, <3>1
        <3>3. i = j
            BY <1>1, <3>2 DEF IsInjective
        <3> QED BY <3>3
    <2>5. m.order[i] = c
        BY <1>2, <2>4
    <2>6. l * Sweep < Walked(s, T, i)
        BY <2>4, <2>5 DEF SweepSound
    <2>7. later[c] = l + 1
        BY <1>4, <1>8, <2>3
    <2>8. k = Sweep
        <3>1. SUFFICES ASSUME k = U PROVE FALSE
            BY <1>5
        <3> HIDE DEF U, s, k, c
        <3> QED BY <1>1, <1>5, <2>1, <3>1
    <2> HIDE DEF T, U, s, k, c, l
    <2>9. Walked(x, U, i) >= Walked(s, T, i) + k
        <3>1. T \in Nat /\ U \in Nat /\ T <= U /\ i \in 1..T /\ s \in 0..(U - 1) /\ k \in 1..U
            BY <1>1, <1>2, <1>5, <2>4
        <3>2. IF i - 1 < s THEN i - 1 >= s + k - U ELSE i - 1 >= s + k
            BY <1>5, <2>1
        <3>3. x = (IF s + k < U THEN s + k ELSE s + k - U)
            BY <1>6
        <3> QED BY <3>1, <3>2, <3>3, WalkStep
    <2>10. (l + 1) * Sweep = l * Sweep + Sweep /\ l * Sweep \in Nat
        BY <1>4
    <2>11. Walked(x, U, i) \in Int /\ Walked(s, T, i) \in Int
        <3>1. T \in Int /\ U \in Int /\ s \in Int /\ x \in Int /\ i \in Int
            BY <1>1, <1>5, <1>6
        <3> QED BY <3>1 DEF Walked
    <2>12. l * Sweep + Sweep < Walked(x, U, i)
        <3> DEFINE p == l * Sweep
        <3>1. p \in Nat /\ p < Walked(s, T, i)
            BY <2>6, <2>10
        <3> HIDE DEF p
        <3>2. p + Sweep < Walked(x, U, i)
            BY <1>4, <2>8, <2>9, <2>11, <3>1
        <3> QED BY <3>2 DEF p
    <2> QED BY <1>4, <2>7, <2>10, <2>12 DEF c
<1> QED BY <1>7, <1>8

\* The derived fields of a map follow from its log odds.
Derived(m) ==
    /\ m.occupied = {c \in Known(m) : IsOccupied(m, c)}
    /\ \A c \in Known(m) : m.cell[c].state \in {"occupied", "mixed"} <=> IsOccupied(m, c)

\* A map between two updates, and how long each of its cells has waited.
Kept(m, late) ==
    /\ MapSound(m) /\ m.tick = {} /\ Derived(m)
    /\ late \in [Cells -> Nat] /\ SweepSound(m.order, m.sweep, late)

\* What a whole update makes of a map m and the cells S of a snapshot.
Absorbs(m, S, r, clearance) ==
    /\ Known(m) \cup DOMAIN S \subseteq Known(r) /\ m.touched \subseteq r.touched
    /\ \A c \in Cells :
          /\ r.cell[c].hits = IF c \in DOMAIN S THEN Max({m.cell[c].hits, Min({S[c].hits, MaxHits})})
                              ELSE m.cell[c].hits
          /\ r.cell[c].odds # m.cell[c].odds => c \in r.touched
          /\ c \in DOMAIN S => c \in r.touched
          /\ c \in DOMAIN S /\ clearance => r.cell[c].near = Nearest(c, r.occupied)

\* update_from_mission_obstacle_map() takes a snapshot and leaves a map as kept as it was.
LEMMA UpdateFacts ==
    ASSUME NEW m, NEW late, Kept(m, late), NEW snapshot, CellsOf(snapshot.cells),
           snapshot.origin \in Origins \cup {None},
           NEW fresh \in Fresh(m, snapshot), NEW t \in 0..MaxTime, NEW clearance \in BOOLEAN,
           NEW later, later = [c \in Cells |-> IF c \in Redone(m, snapshot, fresh, t) THEN 0
                                               ELSE IF c \in Known(m) THEN late[c] + 1 ELSE late[c]]
    PROVE  LET r == update_from_mission_obstacle_map(m, snapshot, fresh, t, clearance)
           IN  Kept(r, later) /\ Absorbs(m, snapshot.cells, r, clearance)
<1> DEFINE S == snapshot.cells
           w == MapAfter(m, snapshot, fresh, t)
           r == recompute_derived_fields(w, t, clearance)
<1>1. /\ MapSound(m) /\ m.tick = {} /\ late \in [Cells -> Nat] /\ SweepSound(m.order, m.sweep, late)
      /\ Derived(m)
    BY DEF Kept
<1>2. Assimilates(m, S, w)
    BY <1>1, AfterFacts
<1>3. update_from_mission_obstacle_map(m, snapshot, fresh, t, clearance) = r
    BY DEF update_from_mission_obstacle_map
<1>4. Redone(m, snapshot, fresh, t) = w.tick \cup (IF w.order = <<>> THEN {} ELSE Slice(w))
    BY DEF Redone
<1> HIDE DEF w, S
<1>5. MapSound(w)
    BY <1>2 DEF Assimilates
<1>6. Redone(m, snapshot, fresh, t) = Redo(w)
    <2>1. w.order = <<>> <=> Len(w.order) = 0
        BY <1>5, EmptySeq DEF MapSound, Maps
    <2> QED BY <1>4, <2>1 DEF Redo
<1>7. Rederives(w, r, clearance)
    BY <1>5, RecomputeFacts
<1> HIDE DEF r
<1>8. /\ MapSound(r) /\ r.order = w.order /\ r.touched = w.touched /\ r.tick = {}
      /\ r.occupied = (w.occupied \ Redo(w)) \cup {c \in Redo(w) : IsOccupied(w, c)}
      /\ r.sweep = IF Len(w.order) = 0 THEN w.sweep ELSE (w.sweep + Covered(w)) % Len(w.order)
    BY <1>7 DEF Rederives
<1>9. Known(r) = Known(w) /\ Known(w) \subseteq Cells /\ Redo(w) \subseteq Known(w)
    <2>1. Known(r) = Known(w)
        BY <1>8 DEF Known
    <2>2. Known(w) \subseteq Cells /\ w.tick \subseteq Known(w)
        BY <1>5 DEF MapSound, Maps, Known, Range
    <2>3. Len(w.order) # 0 => Slice(w) \subseteq Known(w)
        BY <1>5, SliceFacts
    <2> QED BY <2>1, <2>2, <2>3 DEF Redo
<1>10. later \in [Cells -> Nat] /\ SweepSound(r.order, r.sweep, later)
    <2>1. /\ Continues(w.order, m.order) /\ w.sweep = m.sweep /\ Known(w) \subseteq Known(m) \cup w.tick
        BY <1>2 DEF Assimilates
    <2>2. later = [c \in Cells |-> IF c \in Redo(w) THEN 0
                                   ELSE IF c \in Known(m) THEN late[c] + 1 ELSE late[c]]
        BY <1>6
    <2>3. later \in [Cells -> Nat] /\ SweepSound(w.order, r.sweep, later)
        BY <1>1, <1>5, <1>8, <2>1, <2>2, SweepStep
    <2> QED BY <1>8, <2>3
<1>11. ASSUME NEW c \in Known(r)
       PROVE  /\ c \in r.occupied <=> IsOccupied(r, c)
              /\ r.cell[c].state \in {"occupied", "mixed"} <=> IsOccupied(r, c)
    <2>1. c \in Cells /\ c \in Known(w)
        BY <1>9
    <2>2. IsOccupied(r, c) <=> IsOccupied(w, c)
        BY <1>7, <2>1 DEF Rederives, IsOccupied
    <2>3. CASE c \in Redo(w)
        <3>1. r.cell[c].state \in {"occupied", "mixed"} <=> IsOccupied(w, c)
            BY <1>7, <2>1, <2>3 DEF Rederives
        <3>2. c \in r.occupied <=> IsOccupied(w, c)
            BY <1>8, <2>3
        <3> QED BY <2>2, <3>1, <3>2
    <2>4. CASE c \notin Redo(w)
        <3>1. c \notin w.tick
            BY <2>4 DEF Redo
        <3>2. c \in Known(m) /\ w.cell[c].odds = m.cell[c].odds /\ w.cell[c].state = m.cell[c].state
            BY <1>2, <2>1, <3>1 DEF Assimilates
        <3>3. w.occupied = m.occupied
            BY <1>2 DEF Assimilates
        <3>4. /\ c \in w.occupied <=> IsOccupied(w, c)
              /\ w.cell[c].state \in {"occupied", "mixed"} <=> IsOccupied(w, c)
            <4>1. IsOccupied(w, c) <=> IsOccupied(m, c)
                BY <1>2, <3>2 DEF Assimilates, IsOccupied
            <4> QED BY <1>1, <3>2, <3>3, <4>1 DEF Derived
        <3>5. r.cell[c].state = w.cell[c].state
            BY <1>7, <2>1, <2>4 DEF Rederives
        <3>6. c \in r.occupied <=> c \in w.occupied
            BY <1>8, <2>4
        <3> QED BY <2>2, <3>4, <3>5, <3>6
    <2> QED BY <2>3, <2>4
<1>12. Derived(r)
    <2>1. r.occupied \subseteq Known(r)
        BY <1>8 DEF MapSound
    <2> QED BY <1>11, <2>1 DEF Derived
<1>13. Kept(r, later)
    BY <1>8, <1>10, <1>12 DEF Kept
<1>14. /\ Known(m) \cup DOMAIN S \subseteq Known(r) /\ m.touched \subseteq r.touched
       /\ DOMAIN S \subseteq r.touched /\ DOMAIN S \subseteq Redo(w)
    BY <1>2, <1>8, <1>9 DEF Assimilates, Redo
<1>15. ASSUME NEW c \in Cells
       PROVE  /\ r.cell[c].hits = IF c \in DOMAIN S THEN Max({m.cell[c].hits, Min({S[c].hits, MaxHits})})
                                  ELSE m.cell[c].hits
              /\ r.cell[c].odds # m.cell[c].odds => c \in r.touched
              /\ c \in DOMAIN S /\ clearance => r.cell[c].near = Nearest(c, r.occupied)
    <2>1. /\ w.cell[c].hits = IF c \in DOMAIN S THEN Max({m.cell[c].hits, Min({S[c].hits, MaxHits})})
                              ELSE m.cell[c].hits
          /\ w.cell[c].odds # m.cell[c].odds => c \in w.touched
        BY <1>2 DEF Assimilates
    <2>2. r.cell[c].odds = w.cell[c].odds /\ r.cell[c].hits = w.cell[c].hits
        BY <1>7 DEF Rederives
    <2>3. c \in DOMAIN S /\ clearance => r.cell[c].near = Nearest(c, r.occupied)
        BY <1>7, <1>14 DEF Rederives
    <2> QED BY <1>8, <2>1, <2>2, <2>3
<1>16. Absorbs(m, S, r, clearance)
    BY <1>14, <1>15 DEF Absorbs
<1> QED BY <1>3, <1>13, <1>16 DEF S

-----------------------------------------------------------------------------
\* The inductive invariant of the Level 1 maps.

\* The queue holds one snapshot at most, of what the accumulator holds now, and the
\* tick or flush under way will take it.
QueueSound ==
    pending # <<>> =>
        /\ pc \in {"drained", "flush"} /\ pending = <<Head(pending)>>
        /\ budget > 0 /\ ~status.canForget
        /\ Head(pending).origin \in Origins \cup {None}
        /\ CellsOf(Head(pending).cells)
        /\ \A c \in DOMAIN Head(pending).cells : Head(pending).cells[c] = raw[c]
        /\ pc = "flush" => \A c \in Cells : raw[c] # None => c \in DOMAIN Head(pending).cells

InQueue(c) == pending # <<>> /\ c \in DOMAIN Head(pending).cells

\* Level 1 holds all the evidence of a cell.
Settled(c) == c \in Known(trav) /\ trav.cell[c].hits = Min({raw[c].hits, MaxHits})

\* Evidence is in Level 1, in the queue, or still to be drained; Level 1 has no other.
EvidenceSound ==
    /\ rawTouched \subseteq {c \in Cells : raw[c] # None}
    /\ pc \in {"idle", "drained", "assimilated"} => rawTouched = {}
    /\ updates = 0 => \A c \in Cells : raw[c] = None
    /\ \A c \in Cells :
          /\ raw[c] # None /\ c \notin rawTouched /\ ~InQueue(c) => Settled(c)
          /\ raw[c] # None => trav.cell[c].hits <= Min({raw[c].hits, MaxHits})
          /\ raw[c] = None => trav.cell[c].hits = 0

\* Level 2 has the log odds of every observed cell, or will get them.
PlannedSound ==
    /\ pc = "drained" => budget <= BackgroundLimit
    /\ \/ pc \in {"idle", "updated", "written", "failed"}
       \/ pc = "drained" /\ budget = BackgroundLimit
       => trav.touched = {}
    /\ \A c \in Cells : trav.cell[c].hits > 0 => planned[c] = trav.cell[c].odds \/ c \in trav.touched

\* The delta file and what its writer remembers.
FileSound ==
    /\ DeltaFileReplays
    /\ writer \in [count : Nat, seen : 0..MaxTime, started : BOOLEAN, times : SUBSET Nat]
    /\ writer.seen <= now
    /\ writer.seen # 0 => writer.started /\ writer.seen \in writer.times
    /\ ~writer.started => \A c \in Cells : file[c] = None
    /\ \A c \in Cells : raw[c] # None => raw[c].seen <= now

\* After landing nothing is left to take, and the clearances are final.
LandingSound ==
    /\ pc \in {"flush", "closed"} /\ pending = <<>> =>
          \A c \in Cells : raw[c] # None =>
              /\ Settled(c)
              /\ trav.cell[c].near = Nearest(c, trav.occupied)
    /\ pc = "closed" => pending = <<>> /\ status.state = "finalized"

\* The rest of the state.
StepSound ==
    /\ pc \in {"idle", "updated", "written", "drained", "assimilated", "failed", "flush", "closed"}
    /\ now \in 1..MaxTime /\ origin \in Origins \cup {None}
    /\ raw \in [Cells -> RawCell] /\ file \in [Cells -> RawCell]
    /\ updates \in 0..MaxUpdates /\ budget \in Nat
    /\ status \in [state : States, canForget : BOOLEAN, dropped : {FALSE}]

TravSound == Kept(trav, lag)

MapSafe ==
    /\ StepSound /\ QueueSound /\ EvidenceSound /\ PlannedSound /\ FileSound
    /\ LandingSound /\ TravSound

\* The hits of Level 1 are those of the accumulator up to a limit.
LEMMA CapFacts ==
    \A h \in 0..(MaxHits + 1) :
        /\ MaxHits \in Nat /\ MaxHits > 0 /\ h \in Nat
        /\ Min({h, MaxHits}) = IF h <= MaxHits THEN h ELSE MaxHits
<1> TAKE h \in 0..(MaxHits + 1)
<1>1. MaxHits \in Nat /\ MaxHits > 0
    BY Limits
<1>2. h \in Nat
    BY <1>1
<1> QED BY <1>1, <1>2, MinMax

LEMMA MapSafeInit == MapInit => MapSafe
<1> SUFFICES ASSUME MapInit PROVE MapSafe
    OBVIOUS
<1>1. /\ MaxTime \in Nat /\ MaxTime > 0 /\ MaxUpdates \in Nat /\ MaxOdds \in Nat /\ MaxHits \in Nat
      /\ CellCount \in Nat
    BY Limits
<1>2. \A c \in Cells : raw[c] = None /\ file[c] = None
    BY DEF MapInit, NoRawCell
<1>3. StepSound
    <2>1. NoRawCell \in [Cells -> RawCell]
        BY DEF NoRawCell, RawCell
    <2>2. NoStatus \in [state : States, canForget : BOOLEAN, dropped : {FALSE}]
        BY DEF NoStatus, States
    <2>3. now \in 1..MaxTime /\ updates \in 0..MaxUpdates /\ budget \in Nat
        BY <1>1 DEF MapInit
    <2> QED BY <2>1, <2>2, <2>3 DEF MapInit, StepSound
<1>4. QueueSound
    BY DEF MapInit, QueueSound
<1>0. PICK logOdds \in BOOLEAN : trav = NoTrav(logOdds)
    BY DEF MapInit
<1> DEFINE M == NoTrav(logOdds)
<1>5. trav.cell = [c \in Cells |-> NoCell] /\ trav.order = <<>> /\ trav = M
    BY <1>0 DEF NoTrav
<1>6. EvidenceSound
    <2>1. \A c \in Cells : trav.cell[c].hits = 0
        BY <1>5 DEF NoCell
    <2> QED BY <1>2, <2>1 DEF MapInit, EvidenceSound
<1>7. PlannedSound
    <2>1. \A c \in Cells : trav.cell[c].hits = 0
        BY <1>5 DEF NoCell
    <2>2. trav.touched = {}
        BY <1>5 DEF NoTrav
    <2>3. \A c \in Cells : ~(trav.cell[c].hits > 0)
        BY <2>1
    <2> QED BY <2>2, <2>3 DEF MapInit, PlannedSound
<1>8. FileSound
    <2>1. writer = [count |-> 0, seen |-> 0, started |-> FALSE, times |-> {}] /\ now = 1
        BY DEF MapInit, NoWriter
    <2>2. DeltaFileReplays
        BY <1>2 DEF DeltaFileReplays
    <2> QED BY <1>1, <1>2, <2>1, <2>2 DEF FileSound
<1>9. LandingSound
    BY DEF MapInit, LandingSound
<1>10. TravSound
    <2>1. NoCell \in TravCell
        BY <1>1 DEF NoCell, TravCell
    <2>2. M \in Maps
        BY <1>0, <2>1 DEF NoTrav, Maps
    <2>3. Known(M) = {} /\ IsInjective(M.order)
        BY DEF NoTrav, Known, Range, IsInjective
    <2>4. MapSound(M)
        BY <2>2, <2>3 DEF MapSound, NoTrav, Cursor
    <2>5. M.tick = {} /\ Derived(M)
        BY <2>3 DEF Derived, NoTrav
    <2>6. lag \in [Cells -> Nat] /\ SweepSound(M.order, M.sweep, lag)
        BY DEF MapInit, SweepSound, NoTrav
    <2> QED BY <1>5, <2>4, <2>5, <2>6 DEF TravSound, Kept
<1> QED BY <1>3, <1>4, <1>6, <1>7, <1>8, <1>9, <1>10 DEF MapSafe

\* What the raw accumulator makes of the evidence of a frame.
LEMMA RawFacts ==
    ASSUME raw \in [Cells -> RawCell], NEW S \in SUBSET Cells, NEW items \in [S -> SUBSET Kinds \ {{}}],
           NEW t \in 0..MaxTime, NEW c \in Cells
    PROVE  /\ raw_update(items, t)[c] \in RawCell
           /\ c \notin S => raw_update(items, t)[c] = raw[c]
           /\ c \in S => /\ raw_update(items, t)[c] # None /\ raw_update(items, t)[c].seen = t
                         /\ raw_update(items, t)[c].hits \in 0..(MaxHits + 1)
                         /\ raw[c] # None => raw[c].hits <= raw_update(items, t)[c].hits
<1> DEFINE a == IF raw[c] = None THEN 0 ELSE raw[c].hits
           b == IF "occupied" \in items[c] THEN 1 ELSE 0
           f == "free" \in items[c] \/ (raw[c] # None /\ raw[c].free)
           h == Min({MaxHits + 1, a + b})
           q == raw_update(items, t)[c]
<1>1. MaxHits \in Nat /\ MaxTime \in Nat
    BY Limits
<1>2. raw[c] \in RawCell /\ DOMAIN items = S
    OBVIOUS
<1>3. a \in 0..(MaxHits + 1) /\ b \in {0, 1}
    BY <1>1, <1>2 DEF RawCell
<1>4. q = IF c \notin S THEN raw[c] ELSE [hits |-> h, seen |-> t, free |-> f]
    BY <1>2 DEF raw_update
<1>9. f \in BOOLEAN
    OBVIOUS
<1> HIDE DEF b, f, q
<1>5. h = IF MaxHits + 1 <= a + b THEN MaxHits + 1 ELSE a + b
    <2> HIDE DEF a
    <2>1. MaxHits + 1 \in Int /\ a + b \in Int
        BY <1>1, <1>3
    <2> QED BY <2>1, MinMax
<1>6. h \in 0..(MaxHits + 1) /\ a <= h
    <2> HIDE DEF a, h
    <2> QED BY <1>1, <1>3, <1>5
<1> HIDE DEF h
<1>7. CASE c \in S
    <2>1. q = [hits |-> h, seen |-> t, free |-> f]
        BY <1>4, <1>7
    <2>2. q.hits = h /\ q.seen = t
        BY <2>1
    <2>3. q \in RawCell
        BY <1>6, <1>9, <2>1 DEF RawCell
    <2>4. h \in Nat /\ t \in Nat
        BY <1>1, <1>6
    <2>5. q \in [hits : Nat, seen : Nat, free : BOOLEAN]
        BY <1>9, <2>1, <2>4
    <2>6. q # None
        BY <2>5, Limits
    <2>7. raw[c] # None => raw[c].hits <= q.hits
        BY <1>6, <2>2
    <2> QED BY <1>6, <1>7, <2>2, <2>3, <2>6, <2>7 DEF q
<1>8. CASE c \notin S
    BY <1>2, <1>4, <1>8 DEF q
<1> QED BY <1>7, <1>8

\* run_once() takes the evidence of a frame.
LEMMA UpdateRawKeeps ==
    ASSUME MapSafe, NEW S \in SUBSET Cells, NEW t \in {now, now + 1}, NEW o \in Origins, t <= MaxTime,
           NEW items \in [S -> SUBSET Kinds \ {{}}], update_raw(items, t, o)
    PROVE  MapSafe'
<1>1. /\ pc = "idle" /\ pc' = "updated" /\ raw' = raw_update(items, t) /\ updates < MaxUpdates
      /\ rawTouched' = rawTouched \cup S /\ updates' = updates + 1 /\ now' = t /\ origin' = o
      /\ UNCHANGED <<writer, file, pending, status, budget, trav, lag, planned>>
    BY DEF update_raw
<1>2. StepSound /\ QueueSound /\ EvidenceSound /\ PlannedSound /\ FileSound /\ TravSound
    BY DEF MapSafe
<1>3. /\ MaxTime \in Nat /\ MaxUpdates \in Nat /\ now \in 1..MaxTime /\ t \in 1..MaxTime /\ now <= t
      /\ t \in 0..MaxTime
    <2>1. MaxTime \in Nat /\ MaxUpdates \in Nat
        BY Limits
    <2>2. now \in 1..MaxTime
        BY <1>2 DEF StepSound
    <2>3. t = now \/ t = now + 1
        OBVIOUS
    <2> QED BY <2>1, <2>2, <2>3
<1>4. raw \in [Cells -> RawCell]
    BY <1>2 DEF StepSound
<1>5. pending = <<>> /\ pending' = <<>> /\ rawTouched = {} /\ rawTouched' = S
    BY <1>1, <1>2 DEF QueueSound, EvidenceSound
<1>6. \A c \in Cells :
          /\ raw'[c] \in RawCell
          /\ c \notin S => raw'[c] = raw[c]
          /\ c \in S => /\ raw'[c] # None /\ raw'[c].seen = t
                        /\ raw'[c].hits \in 0..(MaxHits + 1)
                        /\ raw[c] # None => raw[c].hits <= raw'[c].hits
    <2>1. t \in 0..MaxTime /\ raw' = raw_update(items, t)
        BY <1>1, <1>3
    <2> TAKE c \in Cells
    <2>2. /\ raw_update(items, t)[c] \in RawCell
          /\ c \notin S => raw_update(items, t)[c] = raw[c]
          /\ c \in S => /\ raw_update(items, t)[c] # None /\ raw_update(items, t)[c].seen = t
                        /\ raw_update(items, t)[c].hits \in 0..(MaxHits + 1)
                        /\ raw[c] # None => raw[c].hits <= raw_update(items, t)[c].hits
        BY <1>4, <2>1, RawFacts
    <2> QED BY <2>1, <2>2
<1>7. StepSound'
    <2>1. raw' \in [Cells -> RawCell]
        <3>1. raw' = [c \in Cells |-> raw'[c]]
            BY <1>1 DEF raw_update
        <3> QED BY <1>6, <3>1
    <2>2. updates' \in 0..MaxUpdates
        BY <1>1, <1>2, <1>3 DEF StepSound
    <2> QED BY <1>1, <1>2, <1>3, <2>1, <2>2 DEF StepSound
<1>8. QueueSound'
    BY <1>5 DEF QueueSound
<1>9. EvidenceSound'
    <2>1. updates' # 0
        BY <1>1, <1>2 DEF StepSound
    <2>2. ASSUME NEW c \in Cells
          PROVE  /\ raw'[c] # None /\ c \notin rawTouched' /\ ~InQueue(c)' => Settled(c)'
                 /\ raw'[c] # None => trav.cell[c].hits <= Min({raw'[c].hits, MaxHits})
                 /\ raw'[c] = None => trav.cell[c].hits = 0
        <3>1. CASE c \notin S
            <4>1. raw'[c] = raw[c]
                BY <1>6, <3>1
            <4>2. raw[c] # None => Settled(c)
                BY <1>2, <1>5 DEF EvidenceSound, InQueue
            <4>3. Settled(c) => Settled(c)'
                BY <1>1, <4>1 DEF Settled
            <4> QED BY <1>2, <4>1, <4>2, <4>3 DEF EvidenceSound
        <3>2. CASE c \in S
            <4>1. raw'[c] # None /\ raw'[c].hits \in 0..(MaxHits + 1)
                BY <1>6, <3>2
            <4>2. Min({raw'[c].hits, MaxHits}) = IF raw'[c].hits <= MaxHits THEN raw'[c].hits ELSE MaxHits
                BY <4>1, CapFacts
            <4>3. MaxHits \in Nat /\ raw'[c].hits \in Nat
                BY <4>1, CapFacts
            <4>4. CASE raw[c] = None
                <5>1. trav.cell[c].hits = 0
                    BY <1>2, <4>4 DEF EvidenceSound
                <5> QED BY <1>5, <3>2, <4>1, <4>2, <4>3, <5>1
            <4>5. CASE raw[c] # None
                <5>1. trav.cell[c].hits <= Min({raw[c].hits, MaxHits})
                    BY <1>2, <4>5 DEF EvidenceSound
                <5>2. raw[c].hits \in 0..(MaxHits + 1)
                    BY <1>4, <4>5 DEF RawCell
                <5>3. Min({raw[c].hits, MaxHits}) = IF raw[c].hits <= MaxHits THEN raw[c].hits ELSE MaxHits
                    BY <5>2, CapFacts
                <5>4. raw[c].hits <= raw'[c].hits
                    BY <1>6, <3>2, <4>5
                <5>5. trav.cell[c].hits \in Nat
                    BY <1>2, <4>3 DEF TravSound, Kept, MapSound, Maps, TravCell
                <5>6. trav.cell[c].hits <= Min({raw'[c].hits, MaxHits})
                    BY <4>2, <4>3, <5>1, <5>2, <5>3, <5>4, <5>5
                <5> QED BY <1>5, <3>2, <4>1, <5>6
            <4> QED BY <4>4, <4>5
        <3> QED BY <3>1, <3>2
    <2>3. rawTouched' \subseteq {c \in Cells : raw'[c] # None}
        BY <1>5, <1>6
    <2> QED BY <1>1, <2>1, <2>2, <2>3 DEF EvidenceSound
<1>10. PlannedSound'
    BY <1>1, <1>2 DEF PlannedSound
<1>11. FileSound'
    <2>1. writer.seen \in 0..MaxTime /\ writer.seen <= now
        BY <1>2 DEF FileSound
    <2>2. DeltaFileReplays'
        <3> SUFFICES ASSUME NEW c \in Cells, file[c] # raw'[c]
                     PROVE  raw'[c] # None /\ (raw'[c].seen > writer.seen \/ raw'[c].seen \in writer.times)
            BY <1>1 DEF DeltaFileReplays
        <3>1. CASE c \notin S
            BY <1>2, <1>6, <3>1 DEF FileSound, DeltaFileReplays
        <3>2. CASE c \in S
            <4>1. raw'[c] # None /\ raw'[c].seen = t
                BY <1>6, <3>2
            <4>2. t > writer.seen \/ (t = writer.seen /\ writer.seen # 0)
                BY <1>3, <2>1
            <4> QED BY <1>2, <4>1, <4>2 DEF FileSound
        <3> QED BY <3>1, <3>2
    <2>3. writer.seen <= t
        BY <1>3, <2>1
    <2>4. \A c \in Cells : raw'[c] # None => raw'[c].seen <= t
        <3> SUFFICES ASSUME NEW c \in Cells, raw'[c] # None PROVE raw'[c].seen <= t
            OBVIOUS
        <3>1. CASE c \in S
            BY <1>3, <1>6, <3>1
        <3>2. CASE c \notin S
            <4>1. raw'[c] = raw[c]
                BY <1>6, <3>2
            <4>2. raw[c].seen <= now /\ raw[c].seen \in Nat
                BY <1>2, <1>3, <1>4, <4>1 DEF FileSound, RawCell
            <4> QED BY <1>3, <4>1, <4>2
        <3> QED BY <3>1, <3>2
    <2> QED BY <1>1, <1>2, <2>2, <2>3, <2>4 DEF FileSound
<1>12. LandingSound'
    BY <1>1 DEF LandingSound
<1>13. TravSound'
    BY <1>1, <1>2 DEF TravSound
<1> QED BY <1>7, <1>8, <1>9, <1>10, <1>11, <1>12, <1>13 DEF MapSafe

\* What the steps that leave the accumulator, the queue and the map alone keep.
LEMMA EvidenceKept ==
    ASSUME EvidenceSound, UNCHANGED <<raw, rawTouched, pending, updates, trav>>,
           pc' \in {"idle", "drained", "assimilated"} => rawTouched = {}
    PROVE  EvidenceSound'
<1>1. ASSUME NEW c \in Cells PROVE (InQueue(c)' <=> InQueue(c)) /\ (Settled(c)' <=> Settled(c))
    BY DEF InQueue, Settled
<1> QED BY <1>1 DEF EvidenceSound

\* The delta writer writes what is due.
LEMMA AppendKeeps ==
    ASSUME MapSafe, append_if_due
    PROVE  MapSafe'
<1>1. /\ pc = "updated" /\ pc' = "written"
      /\ UNCHANGED <<now, origin, raw, rawTouched, updates, pending, status, budget, trav, lag, planned>>
    BY DEF append_if_due
<1>2. StepSound /\ QueueSound /\ EvidenceSound /\ PlannedSound /\ FileSound /\ TravSound
    BY DEF MapSafe
<1>3. pending = <<>> /\ pending' = <<>>
    BY <1>1, <1>2 DEF QueueSound
<1>4. MaxTime \in Nat /\ now \in 1..MaxTime /\ updates \in Nat
    BY <1>2, Limits DEF StepSound
<1>5. file' \in [Cells -> RawCell] /\ FileSound'
    <2>1. CASE Due
        <3>1. /\ file' = [c \in Cells |-> IF c \in Batch THEN raw[c]
                                          ELSE IF writer.started THEN file[c] ELSE None]
              /\ writer' = [count |-> updates, seen |-> now, started |-> TRUE,
                            times |-> writer.times \cup {now}]
            BY <2>1 DEF append_if_due
        <3>2. file' \in [Cells -> RawCell]
            BY <1>2, <3>1 DEF StepSound, RawCell
        <3>3. /\ writer'.seen = now /\ writer'.started /\ writer'.times = writer.times \cup {now}
              /\ writer' \in [count : Nat, seen : 0..MaxTime, started : BOOLEAN, times : SUBSET Nat]
            BY <1>2, <1>4, <3>1 DEF FileSound
        <3>4. DeltaFileReplays'
            <4> SUFFICES ASSUME NEW c \in Cells, file'[c] # raw[c]
                         PROVE  raw[c] # None /\ raw[c].seen \in writer.times
                BY <1>1, <3>3 DEF DeltaFileReplays
            <4>1. c \notin Batch
                BY <3>1
            <4>2. raw[c] # None
                <5> SUFFICES ASSUME raw[c] = None PROVE FALSE
                    OBVIOUS
                <5>1. file[c] = None
                    BY <1>2 DEF FileSound, DeltaFileReplays
                <5> QED BY <3>1, <4>1, <5>1
            <4>3. writer.seen # 0 /\ ~(raw[c].seen > writer.seen)
                BY <4>1, <4>2 DEF Batch
            <4>4. writer.started
                BY <1>2, <4>3 DEF FileSound
            <4>5. file[c] # raw[c]
                BY <3>1, <4>1, <4>4
            <4> QED BY <1>2, <4>2, <4>3, <4>5 DEF FileSound, DeltaFileReplays
        <3> QED BY <1>1, <1>2, <1>4, <3>2, <3>3, <3>4 DEF FileSound
    <2>2. CASE ~Due
        <3>1. file' = file /\ writer' = writer
            BY <2>2 DEF append_if_due
        <3> QED BY <1>1, <1>2, <3>1 DEF FileSound, DeltaFileReplays, StepSound
    <2> QED BY <2>1, <2>2
<1>6. StepSound'
    BY <1>1, <1>2, <1>5 DEF StepSound
<1>7. QueueSound'
    BY <1>3 DEF QueueSound
<1>8. EvidenceSound'
    BY <1>1, <1>2, EvidenceKept
<1>9. PlannedSound'
    BY <1>1, <1>2 DEF PlannedSound
<1>10. LandingSound'
    BY <1>1 DEF LandingSound
<1>11. TravSound'
    BY <1>1, <1>2 DEF TravSound
<1> QED BY <1>5, <1>6, <1>7, <1>8, <1>9, <1>10, <1>11 DEF MapSafe

\* The artifact writer throws.
LEMMA WriteThrowKeeps ==
    ASSUME MapSafe, write_throws
    PROVE  MapSafe'
<1>1. /\ pc = "updated" /\ pc' = "failed"
      /\ UNCHANGED <<raw, rawTouched, pending, updates, trav>>
      /\ UNCHANGED <<now, origin, writer, file, status, budget, lag, planned>>
    BY DEF write_throws
<1>2. StepSound /\ QueueSound /\ EvidenceSound /\ PlannedSound /\ FileSound /\ TravSound
    BY DEF MapSafe
<1>3. pending = <<>> /\ pending' = <<>>
    BY <1>1, <1>2 DEF QueueSound
<1>4. FileSound'
    BY <1>1, <1>2 DEF FileSound, DeltaFileReplays
<1>5. StepSound'
    BY <1>1, <1>2 DEF StepSound
<1>6. QueueSound'
    BY <1>3 DEF QueueSound
<1>7. EvidenceSound'
    BY <1>1, <1>2, EvidenceKept
<1>8. PlannedSound'
    BY <1>1, <1>2 DEF PlannedSound
<1>9. LandingSound'
    BY <1>1 DEF LandingSound
<1>10. TravSound'
    BY <1>1, <1>2 DEF TravSound
<1> QED BY <1>4, <1>5, <1>6, <1>7, <1>8, <1>9, <1>10 DEF MapSafe

\* The delta writer throws.
LEMMA ThrowKeeps ==
    ASSUME MapSafe, append_throws
    PROVE  MapSafe'
<1>1. /\ pc = "updated" /\ pc' = "failed"
      /\ file' = (IF writer.started THEN file ELSE NoRawCell)
      /\ writer' = [writer EXCEPT !.started = TRUE]
      /\ UNCHANGED <<now, origin, raw, rawTouched, updates, pending, status, budget, trav, lag, planned>>
    BY DEF append_throws
<1>2. StepSound /\ QueueSound /\ EvidenceSound /\ PlannedSound /\ FileSound /\ TravSound
    BY DEF MapSafe
<1>3. pending = <<>> /\ pending' = <<>>
    BY <1>1, <1>2 DEF QueueSound
<1>4. file' \in [Cells -> RawCell] /\ \A c \in Cells : file'[c] = file[c]
    BY <1>1, <1>2 DEF FileSound, StepSound, NoRawCell, RawCell
<1>5. /\ writer'.seen = writer.seen /\ writer'.started /\ writer'.times = writer.times
      /\ writer' \in [count : Nat, seen : 0..MaxTime, started : BOOLEAN, times : SUBSET Nat]
    BY <1>1, <1>2 DEF FileSound
<1>6. FileSound'
    <2>1. DeltaFileReplays'
        BY <1>1, <1>2, <1>4, <1>5 DEF FileSound, DeltaFileReplays
    <2> QED BY <1>1, <1>2, <1>5, <2>1 DEF FileSound
<1>7. StepSound'
    BY <1>1, <1>2, <1>4 DEF StepSound
<1>8. QueueSound'
    BY <1>3 DEF QueueSound
<1>9. EvidenceSound'
    BY <1>1, <1>2, EvidenceKept
<1>10. PlannedSound'
    BY <1>1, <1>2 DEF PlannedSound
<1>11. LandingSound'
    BY <1>1 DEF LandingSound
<1>12. TravSound'
    BY <1>1, <1>2 DEF TravSound
<1> QED BY <1>6, <1>7, <1>8, <1>9, <1>10, <1>11, <1>12 DEF MapSafe

\* The queue is empty when something is put into it: nothing has to make room.
LEMMA EnqueueFacts ==
    ASSUME NEW x, status \in [state : States, canForget : BOOLEAN, dropped : {FALSE}]
    PROVE  /\ enqueue(<<>>, x) = <<x>> /\ Head(<<x>>) = x /\ Tail(<<x>>) = <<>> /\ <<x>> # <<>>
           /\ enqueue_status(<<>>) \in [state : States, canForget : {FALSE}, dropped : {FALSE}]
<1>1. MaxPending \in Nat /\ MaxPending > 0
    BY Limits
<1>2. Len(<<>>) = 0
    OBVIOUS
<1> DEFINE k == Max({1, 0 - MaxPending + 2})
<1>3. k = IF 1 >= 0 - MaxPending + 2 THEN 1 ELSE 0 - MaxPending + 2
    <2>1. 1 \in Int /\ 0 - MaxPending + 2 \in Int
        BY <1>1
    <2> QED BY <2>1, MinMax
<1>4. k = 1
    <2> HIDE DEF k
    <2> QED BY <1>1, <1>3
<1>5. SubSeq(<<>>, 1, 0) = <<>>
    OBVIOUS
<1>6. enqueue(<<>>, x) = Append(SubSeq(<<>>, k, 0), x)
    BY <1>2 DEF enqueue
<1>7. enqueue(<<>>, x) = <<x>>
    <2>1. enqueue(<<>>, x) = Append(<<>>, x)
        BY <1>4, <1>5, <1>6
    <2> QED BY <2>1
<1>8. ~(Len(<<>>) >= MaxPending)
    BY <1>1, <1>2
<1>9. enqueue_status(<<>>) \in [state : States, canForget : {FALSE}, dropped : {FALSE}]
    BY <1>8 DEF enqueue_status, States
<1>10. Head(<<x>>) = x /\ <<x>> # <<>>
    OBVIOUS
<1>11. Tail(<<x>>) = <<>>
    <2>1. Tail(<<x>>) \in Seq({x}) /\ Len(Tail(<<x>>)) = 0
        OBVIOUS
    <2> QED BY <2>1, EmptySeq
<1> QED BY <1>7, <1>9, <1>10, <1>11

\* The delta of the accumulator is drained into the queue.
LEMMA DrainDeltaKeeps ==
    ASSUME MapSafe, drain_delta
    PROVE  MapSafe'
<1>1. /\ pc = "written" /\ pc' = "drained" /\ rawTouched' = {} /\ budget' = BackgroundLimit
      /\ UNCHANGED <<now, origin, raw, updates, writer, file, trav, lag, planned>>
    BY DEF drain_delta
<1>2. StepSound /\ QueueSound /\ EvidenceSound /\ PlannedSound /\ FileSound /\ TravSound
    BY DEF MapSafe
<1>3. pending = <<>>
    BY <1>1, <1>2 DEF QueueSound
<1>4. BackgroundLimit \in Nat /\ BackgroundLimit > 0
    BY Limits
<1>5. status \in [state : States, canForget : BOOLEAN, dropped : {FALSE}]
    BY <1>2 DEF StepSound
<1>6. CASE rawTouched = {}
    <2>1. pending' = <<>> /\ status' = status /\ rawTouched' = rawTouched /\ pending' = pending
        BY <1>1, <1>3, <1>6 DEF drain_delta
    <2>2. StepSound'
        BY <1>1, <1>2, <1>4, <2>1 DEF StepSound
    <2>3. QueueSound'
        BY <2>1 DEF QueueSound
    <2>4. EvidenceSound'
        BY <1>1, <1>2, <1>6, <2>1, EvidenceKept
    <2> QED BY <2>2, <2>3, <2>4, <1>1, <1>2, <1>4 DEF MapSafe, PlannedSound, FileSound, DeltaFileReplays,
              LandingSound, TravSound
<1>7. CASE rawTouched # {}
    <2> DEFINE S == [c \in rawTouched |-> raw[c]]
    <2>1. pending' = <<raw_delta>> /\ status' = enqueue_status(<<>>)
        BY <1>3, <1>5, <1>7, EnqueueFacts DEF drain_delta
    <2>2. /\ Head(pending') = raw_delta /\ pending' # <<>>
          /\ status' \in [state : States, canForget : {FALSE}, dropped : {FALSE}]
        BY <1>5, <2>1, EnqueueFacts
    <2>3. raw_delta.cells = S /\ raw_delta.origin = origin
        BY DEF raw_delta
    <2>4. /\ Head(pending').cells = S /\ Head(pending').origin = origin
          /\ pending' = <<Head(pending')>>
        BY <2>1, <2>2, <2>3
    <2>5. /\ rawTouched \subseteq Cells /\ \A c \in rawTouched : raw[c] \in RawCell /\ raw[c] # None
        BY <1>2 DEF EvidenceSound, StepSound
    <2>6. /\ DOMAIN S = rawTouched /\ \A c \in DOMAIN S : S[c] = raw[c]
        OBVIOUS
    <2> HIDE DEF S
    <2>7. CellsOf(S)
        BY <2>5, <2>6 DEF CellsOf
    <2>8. StepSound'
        <3>1. status' \in [state : States, canForget : BOOLEAN, dropped : {FALSE}]
            BY <2>2
        <3> QED BY <1>1, <1>2, <1>4, <3>1 DEF StepSound
    <2>9. QueueSound'
        <3>1. ~status'.canForget
            BY <2>2
        <3>2. origin \in Origins \cup {None}
            BY <1>2 DEF StepSound
        <3>3. budget' > 0
            BY <1>1, <1>4
        <3>4. \A c \in DOMAIN Head(pending').cells : Head(pending').cells[c] = raw'[c]
            BY <1>1, <2>4, <2>6
        <3> QED BY <1>1, <2>4, <2>7, <3>1, <3>2, <3>3, <3>4 DEF QueueSound
    <2>10. EvidenceSound'
        <3>1. ASSUME NEW c \in Cells, raw[c] # None, ~InQueue(c)' PROVE Settled(c)'
            <4>1. c \notin rawTouched
                BY <2>2, <2>4, <2>6, <3>1 DEF InQueue
            <4>2. ~InQueue(c)
                BY <1>3 DEF InQueue
            <4>3. Settled(c)
                BY <1>2, <3>1, <4>1, <4>2 DEF EvidenceSound
            <4> QED BY <1>1, <4>3 DEF Settled
        <3> QED BY <1>1, <1>2, <3>1 DEF EvidenceSound
    <2> QED BY <2>8, <2>9, <2>10, <1>1, <1>2, <1>4 DEF MapSafe, PlannedSound, FileSound, DeltaFileReplays,
              LandingSound, TravSound
<1> QED BY <1>6, <1>7

\* The end of a tick.
LEMMA TickKeeps ==
    ASSUME MapSafe, tick
    PROVE  MapSafe'
<1>1. /\ pc = "drained" /\ (pending = <<>> \/ budget = 0)
      /\ pc' = (IF budget < BackgroundLimit THEN "assimilated" ELSE "idle")
      /\ UNCHANGED <<now, origin, raw, rawTouched, updates, writer, file, pending, budget, trav, lag, planned>>
    BY DEF tick
<1>2. StepSound /\ QueueSound /\ EvidenceSound /\ PlannedSound /\ FileSound /\ TravSound
    BY DEF MapSafe
<1>3. pending = <<>> /\ pending' = <<>>
    <2>1. budget = 0 => ~(budget > 0)
        OBVIOUS
    <2> QED BY <1>1, <1>2, <2>1 DEF QueueSound
<1>4. status' \in [state : States, canForget : BOOLEAN, dropped : {FALSE}]
    <2>1. status' = [status EXCEPT !.state = "idle", !.canForget = TRUE]
        BY <1>3 DEF tick
    <2>2. status \in [state : States, canForget : BOOLEAN, dropped : {FALSE}]
        BY <1>2 DEF StepSound
    <2>3. "idle" \in States
        BY DEF States
    <2> QED BY <2>1, <2>2, <2>3
<1>5. StepSound'
    BY <1>1, <1>2, <1>4 DEF StepSound
<1>6. QueueSound'
    BY <1>3 DEF QueueSound
<1>7. EvidenceSound'
    <2>1. rawTouched = {}
        BY <1>1, <1>2 DEF EvidenceSound
    <2> QED BY <1>1, <1>2, <2>1, EvidenceKept
<1>8. PlannedSound'
    <2>1. budget \in Nat /\ BackgroundLimit \in Nat /\ budget <= BackgroundLimit
        BY <1>1, <1>2, Limits DEF StepSound, PlannedSound
    <2>2. pc' = "idle" => budget = BackgroundLimit
        BY <1>1, <2>1
    <2>3. pc' = "idle" => trav'.touched = {}
        BY <1>1, <1>2, <2>2 DEF PlannedSound
    <2>4. pc' \in {"idle", "assimilated"}
        BY <1>1
    <2> QED BY <1>1, <1>2, <2>3, <2>4 DEF PlannedSound
<1>9. FileSound'
    BY <1>1, <1>2 DEF FileSound, DeltaFileReplays
<1>10. LandingSound'
    BY <1>1 DEF LandingSound
<1>11. TravSound'
    BY <1>1, <1>2 DEF TravSound
<1> QED BY <1>5, <1>6, <1>7, <1>8, <1>9, <1>10, <1>11 DEF MapSafe

\* Level 2 takes what is touched.
LEMMA PlanKeeps ==
    ASSUME MapSafe, drain_delta_for_planning_map
    PROVE  MapSafe'
<1>1. /\ pc = "assimilated" /\ pc' = "idle"
      /\ planned' = [c \in Cells |-> IF c \in trav.touched /\ trav.cell[c].hits > 0
                                     THEN trav.cell[c].odds ELSE planned[c]]
      /\ trav' = [trav EXCEPT !.touched = {}]
      /\ UNCHANGED <<now, origin, raw, rawTouched, updates, writer, file, pending, status, budget, lag>>
    BY DEF drain_delta_for_planning_map
<1>2. StepSound /\ QueueSound /\ EvidenceSound /\ PlannedSound /\ FileSound /\ TravSound
    BY DEF MapSafe
<1>3. pending = <<>> /\ pending' = <<>>
    BY <1>1, <1>2 DEF QueueSound
<1>4. MapSound(trav) /\ trav \in Maps
    BY <1>2 DEF TravSound, Kept, MapSound
<1>5. trav' = [cell |-> trav.cell, order |-> trav.order, occupied |-> trav.occupied, touched |-> {},
               tick |-> trav.tick, cross |-> trav.cross, sweep |-> trav.sweep, log_odds |-> trav.log_odds]
    BY <1>1, <1>4 DEF Maps
<1>6. /\ trav'.cell = trav.cell /\ trav'.order = trav.order /\ trav'.occupied = trav.occupied
      /\ trav'.touched = {} /\ trav'.tick = trav.tick /\ trav'.cross = trav.cross
      /\ trav'.sweep = trav.sweep /\ trav'.log_odds = trav.log_odds
    BY <1>5
<1>7. Known(trav') = Known(trav)
    BY <1>6 DEF Known
<1>8. TravSound'
    <2>1. trav' \in Maps
        BY <1>4, <1>5 DEF Maps
    <2>2. MapSound(trav')
        BY <1>4, <1>6, <1>7, <2>1 DEF MapSound
    <2>3. Derived(trav')
        <3>1. \A c \in Known(trav) : IsOccupied(trav', c) <=> IsOccupied(trav, c)
            BY <1>6 DEF IsOccupied
        <3> QED BY <1>2, <1>6, <1>7, <3>1 DEF TravSound, Kept, Derived
    <2>4. Kept(trav', lag')
        BY <1>1, <1>2, <1>6, <2>2, <2>3 DEF TravSound, Kept
    <2> QED BY <2>4 DEF TravSound
<1>9. StepSound'
    BY <1>1, <1>2 DEF StepSound
<1>10. QueueSound'
    BY <1>3 DEF QueueSound
<1>11. EvidenceSound'
    <2>1. ASSUME NEW c \in Cells PROVE (InQueue(c)' <=> InQueue(c)) /\ (Settled(c)' <=> Settled(c))
        BY <1>1, <1>6, <1>7 DEF InQueue, Settled
    <2> QED BY <1>1, <1>2, <1>6, <2>1 DEF EvidenceSound
<1>12. PlannedSound'
    <2>1. ASSUME NEW c \in Cells, trav.cell[c].hits > 0 PROVE planned'[c] = trav.cell[c].odds
        BY <1>1, <1>2, <2>1 DEF PlannedSound
    <2> QED BY <1>1, <1>6, <2>1 DEF PlannedSound
<1>13. FileSound'
    BY <1>1, <1>2 DEF FileSound, DeltaFileReplays
<1>14. LandingSound'
    BY <1>1 DEF LandingSound
<1> QED BY <1>8, <1>9, <1>10, <1>11, <1>12, <1>13, <1>14 DEF MapSafe

\* The oldest snapshot goes into the map.
LEMMA DrainSnapshotsKeeps ==
    ASSUME MapSafe, pending # <<>>, NEW fresh \in Fresh(trav, Head(pending)), drain_snapshots(fresh)
    PROVE  MapSafe'
<1> DEFINE x == Head(pending)
           S == x.cells
           clear == include_clearance
<1>1. /\ pc \in {"drained", "flush"} /\ budget > 0 /\ pending' = Tail(pending) /\ budget' = budget - 1
      /\ trav' = update_from_mission_obstacle_map(trav, x, fresh, now, clear)
      /\ lag' = [c \in Cells |-> IF c \in Redone(trav, x, fresh, now) THEN 0
                                 ELSE IF c \in Known(trav) THEN lag[c] + 1 ELSE lag[c]]
      /\ UNCHANGED <<pc, now, origin, raw, rawTouched, updates, writer, file, status, planned>>
    BY DEF drain_snapshots
<1>2. StepSound /\ QueueSound /\ EvidenceSound /\ PlannedSound /\ FileSound /\ TravSound /\ LandingSound
    BY DEF MapSafe
<1>3. /\ pending = <<x>> /\ x.origin \in Origins \cup {None} /\ CellsOf(S)
      /\ \A c \in DOMAIN S : S[c] = raw[c]
      /\ pc = "flush" => \A c \in Cells : raw[c] # None => c \in DOMAIN S
    BY <1>2 DEF QueueSound
<1>4. MaxTime \in Nat /\ now \in 0..MaxTime
    <2>1. MaxTime \in Nat
        BY Limits
    <2>2. now \in 1..MaxTime
        BY <1>2 DEF StepSound
    <2> QED BY <2>1, <2>2
<1>5. clear \in BOOLEAN /\ (clear <=> pc = "flush")
    BY DEF include_clearance
<1> HIDE DEF x, clear
<1>6. fresh \in Fresh(trav, x)
    BY DEF x
<1>7. Kept(trav', lag') /\ Absorbs(trav, x.cells, trav', clear)
    <2>1. Kept(trav, lag) /\ CellsOf(x.cells)
        BY <1>2, <1>3 DEF TravSound
    <2> DEFINE r == update_from_mission_obstacle_map(trav, x, fresh, now, clear)
               later == [c \in Cells |-> IF c \in Redone(trav, x, fresh, now) THEN 0
                                         ELSE IF c \in Known(trav) THEN lag[c] + 1 ELSE lag[c]]
    <2>2. Kept(r, later) /\ Absorbs(trav, x.cells, r, clear)
        BY <1>3, <1>4, <1>5, <1>6, <2>1, UpdateFacts
    <2> HIDE DEF r, later
    <2>3. trav' = r /\ lag' = later
        BY <1>1 DEF r, later
    <2> QED BY <2>2, <2>3
<1> HIDE DEF S
<1>8. Absorbs(trav, S, trav', clear)
    BY <1>7 DEF S
<1>9. pending' = <<>>
    <2>1. Tail(<<x>>) = <<>>
        BY <1>2, EnqueueFacts DEF StepSound
    <2> QED BY <1>1, <1>3, <2>1
<1>10. \A c \in Cells : c \in Known(trav) \/ c \in DOMAIN S => c \in Known(trav')
    BY <1>8 DEF Absorbs
<1>11. DOMAIN S \subseteq Cells /\ \A c \in DOMAIN S : raw[c] # None /\ raw[c] \in RawCell
    BY <1>3 DEF CellsOf
<1>12. ASSUME NEW c \in Cells
       PROVE  /\ c \in DOMAIN S => trav'.cell[c].hits = Min({raw[c].hits, MaxHits})
              /\ c \notin DOMAIN S => trav'.cell[c].hits = trav.cell[c].hits
              /\ raw[c] # None => trav'.cell[c].hits <= Min({raw[c].hits, MaxHits})
    <2>1. CASE c \in DOMAIN S
        <3> DEFINE l == Min({raw[c].hits, MaxHits})
                   h == trav.cell[c].hits
        <3>1. raw[c].hits \in 0..(MaxHits + 1)
            BY <1>11, <2>1 DEF RawCell
        <3>2. l = (IF raw[c].hits <= MaxHits THEN raw[c].hits ELSE MaxHits) /\ MaxHits \in Nat
            BY <3>1, CapFacts
        <3>3. l \in Nat
            <4> HIDE DEF l
            <4> QED BY <3>1, <3>2
        <3>4. h <= l
            BY <1>2, <1>11, <2>1 DEF EvidenceSound
        <3>5. h \in Nat
            BY <1>2, <3>2 DEF TravSound, Kept, MapSound, Maps, TravCell
        <3>6. trav'.cell[c].hits = Max({h, l})
            <4>1. trav'.cell[c].hits = Max({trav.cell[c].hits, Min({S[c].hits, MaxHits})})
                BY <1>8, <2>1 DEF Absorbs
            <4>2. S[c] = raw[c]
                BY <1>3, <2>1
            <4> QED BY <4>1, <4>2
        <3> HIDE DEF l, h
        <3>7. Max({h, l}) = IF h >= l THEN h ELSE l
            BY <3>3, <3>5, MinMax
        <3>8. Max({h, l}) = l
            BY <3>3, <3>4, <3>5, <3>7
        <3>9. trav'.cell[c].hits = l /\ l <= l
            BY <3>3, <3>6, <3>8
        <3> QED BY <2>1, <3>9 DEF l
    <2>2. CASE c \notin DOMAIN S
        <3>1. trav'.cell[c].hits = trav.cell[c].hits
            BY <1>8, <2>2 DEF Absorbs
        <3> QED BY <1>2, <2>2, <3>1 DEF EvidenceSound
    <2> QED BY <2>1, <2>2
<1>13. ASSUME NEW c \in DOMAIN S PROVE Settled(c)'
    <2>1. c \in Cells /\ c \in Known(trav')
        BY <1>10, <1>11
    <2>2. trav'.cell[c].hits = Min({raw[c].hits, MaxHits})
        BY <1>12, <2>1
    <2> QED BY <1>1, <2>1, <2>2 DEF Settled
<1>14. StepSound'
    <2>1. budget' \in Nat
        BY <1>1, <1>2 DEF StepSound
    <2> QED BY <1>1, <1>2, <2>1 DEF StepSound
<1>15. QueueSound'
    BY <1>9 DEF QueueSound
<1>16. EvidenceSound'
    <2>1. ASSUME NEW c \in Cells, raw[c] # None, c \notin rawTouched PROVE Settled(c)'
        <3>1. CASE c \in DOMAIN S
            BY <1>13, <3>1
        <3>2. CASE c \notin DOMAIN S
            <4>1. ~InQueue(c)
                BY <3>2 DEF InQueue, S, x
            <4>2. Settled(c)
                BY <1>2, <2>1, <4>1 DEF EvidenceSound
            <4> QED BY <1>1, <1>10, <1>12, <3>2, <4>2 DEF Settled
        <3> QED BY <3>1, <3>2
    <2>2. ASSUME NEW c \in Cells, raw[c] = None PROVE trav'.cell[c].hits = 0
        <3>1. c \notin DOMAIN S
            BY <1>11, <2>2
        <3> QED BY <1>2, <1>12, <2>2, <3>1 DEF EvidenceSound
    <2> QED BY <1>1, <1>2, <1>12, <2>1, <2>2 DEF EvidenceSound
<1>17. PlannedSound'
    <2>1. BackgroundLimit \in Nat /\ budget \in Nat
        BY <1>2, Limits DEF StepSound
    <2>2. pc' = "drained" => budget' <= BackgroundLimit /\ budget' # BackgroundLimit
        BY <1>1, <1>2, <2>1 DEF PlannedSound
    <2>3. ASSUME NEW c \in Cells, trav'.cell[c].hits > 0
          PROVE  planned[c] = trav'.cell[c].odds \/ c \in trav'.touched
        <3>1. CASE c \in DOMAIN S
            BY <1>8, <3>1 DEF Absorbs
        <3>2. CASE c \notin DOMAIN S
            <4>1. trav.cell[c].hits > 0
                BY <1>12, <2>3, <3>2
            <4>2. planned[c] = trav.cell[c].odds \/ c \in trav.touched
                BY <1>2, <4>1 DEF PlannedSound
            <4>3. trav'.cell[c].odds # trav.cell[c].odds => c \in trav'.touched
                BY <1>8 DEF Absorbs
            <4>4. trav.touched \subseteq trav'.touched
                BY <1>8 DEF Absorbs
            <4> QED BY <4>2, <4>3, <4>4
        <3> QED BY <3>1, <3>2
    <2> QED BY <1>1, <2>2, <2>3 DEF PlannedSound
<1>18. FileSound'
    BY <1>1, <1>2 DEF FileSound, DeltaFileReplays
<1>19. LandingSound'
    <2>1. pc' \in {"drained", "flush"}
        BY <1>1
    <2>2. ASSUME pc = "flush", NEW c \in Cells, raw[c] # None
          PROVE  /\ Settled(c)'
                 /\ trav'.cell[c].near = Nearest(c, trav'.occupied)
        <3>1. c \in DOMAIN S /\ clear
            BY <1>3, <1>5, <2>2
        <3>2. Settled(c)'
            BY <1>13, <3>1
        <3>3. trav'.cell[c].near = Nearest(c, trav'.occupied)
            BY <1>8, <3>1 DEF Absorbs
        <3> QED BY <3>2, <3>3
    <2> QED BY <1>1, <2>1, <2>2 DEF LandingSound
<1>20. TravSound'
    BY <1>7 DEF TravSound
<1> QED BY <1>14, <1>15, <1>16, <1>17, <1>18, <1>19, <1>20 DEF MapSafe

\* The whole accumulator is put into the queue after landing.
LEMMA FinalizeKeeps ==
    ASSUME MapSafe, finalize_mission_map
    PROVE  MapSafe'
<1>1. /\ pc \in {"idle", "failed"} /\ pc' = "flush" /\ budget' = FlushTicks * HighPriorityLimit
      /\ UNCHANGED <<now, origin, raw, rawTouched, updates, writer, file, trav, lag, planned>>
    BY DEF finalize_mission_map
<1>2. StepSound /\ QueueSound /\ EvidenceSound /\ PlannedSound /\ FileSound /\ TravSound
    BY DEF MapSafe
<1>3. pending = <<>>
    BY <1>1, <1>2 DEF QueueSound
<1>4. budget' \in Nat /\ budget' > 0
    <2>1. FlushTicks \in Nat /\ FlushTicks > 0 /\ HighPriorityLimit \in Nat /\ HighPriorityLimit > 0
        BY Limits
    <2>2. FlushTicks * HighPriorityLimit \in Nat /\ FlushTicks * HighPriorityLimit > 0
        BY <2>1
    <2> QED BY <1>1, <2>2
<1>5. status \in [state : States, canForget : BOOLEAN, dropped : {FALSE}] /\ raw \in [Cells -> RawCell]
    BY <1>2 DEF StepSound
<1>6. /\ PlannedSound' /\ FileSound' /\ TravSound'
    BY <1>1, <1>2 DEF PlannedSound, FileSound, DeltaFileReplays, TravSound
<1>7. CASE updates = 0
    <2>1. pending' = <<>> /\ status' = status /\ pending' = pending
        BY <1>3, <1>7 DEF finalize_mission_map
    <2>2. StepSound'
        BY <1>1, <1>2, <1>4, <2>1 DEF StepSound
    <2>3. QueueSound'
        BY <2>1 DEF QueueSound
    <2>4. EvidenceSound'
        BY <1>1, <1>2, <2>1, EvidenceKept
    <2>5. LandingSound'
        BY <1>1, <1>2, <1>7 DEF LandingSound, EvidenceSound
    <2> QED BY <1>6, <2>2, <2>3, <2>4, <2>5 DEF MapSafe
<1>8. CASE updates # 0
    <2> DEFINE S == [c \in {d \in Cells : raw[d] # None} |-> raw[c]]
    <2>1. pending' = <<raw_snapshot>> /\ status' = [enqueue_status(<<>>) EXCEPT !.state = "post_landing"]
        BY <1>3, <1>5, <1>8, EnqueueFacts DEF finalize_mission_map
    <2>2. /\ Head(pending') = raw_snapshot /\ pending' # <<>>
          /\ enqueue_status(<<>>) \in [state : States, canForget : {FALSE}, dropped : {FALSE}]
        BY <1>5, <2>1, EnqueueFacts
    <2>3. status' \in [state : States, canForget : {FALSE}, dropped : {FALSE}]
        BY <2>1, <2>2 DEF States
    <2>4. raw_snapshot.cells = S /\ raw_snapshot.origin = None
        BY DEF raw_snapshot
    <2>5. /\ Head(pending').cells = S /\ Head(pending').origin = None
          /\ pending' = <<Head(pending')>>
        BY <2>1, <2>2, <2>4
    <2>6. /\ DOMAIN S = {d \in Cells : raw[d] # None} /\ \A c \in DOMAIN S : S[c] = raw[c]
        OBVIOUS
    <2> HIDE DEF S
    <2>7. CellsOf(S)
        BY <1>5, <2>6 DEF CellsOf
    <2>8. StepSound'
        <3>1. status' \in [state : States, canForget : BOOLEAN, dropped : {FALSE}]
            BY <2>3
        <3> QED BY <1>1, <1>2, <1>4, <3>1 DEF StepSound
    <2>9. QueueSound'
        <3>1. ~status'.canForget
            BY <2>3
        <3>2. \A c \in DOMAIN Head(pending').cells : Head(pending').cells[c] = raw'[c]
            BY <1>1, <2>5, <2>6
        <3>3. \A c \in Cells : raw'[c] # None => c \in DOMAIN Head(pending').cells
            BY <1>1, <2>5, <2>6
        <3> QED BY <1>1, <1>4, <2>5, <2>7, <3>1, <3>2, <3>3 DEF QueueSound
    <2>10. EvidenceSound'
        <3>1. ASSUME NEW c \in Cells, raw[c] # None PROVE InQueue(c)'
            BY <2>2, <2>5, <2>6, <3>1 DEF InQueue
        <3> QED BY <1>1, <1>2, <3>1 DEF EvidenceSound
    <2>11. LandingSound'
        BY <1>1, <2>2 DEF LandingSound
    <2> QED BY <1>6, <2>8, <2>9, <2>10, <2>11 DEF MapSafe
<1> QED BY <1>7, <1>8

\* The end of the flush.
LEMMA FlushKeeps ==
    ASSUME MapSafe, flush_after_landing
    PROVE  MapSafe'
<1>1. /\ pc = "flush" /\ (pending = <<>> \/ budget = 0) /\ pc' = "closed"
      /\ UNCHANGED <<now, origin, raw, rawTouched, updates, writer, file, pending, budget, trav, lag, planned>>
    BY DEF flush_after_landing
<1>2. StepSound /\ QueueSound /\ EvidenceSound /\ PlannedSound /\ FileSound /\ TravSound /\ LandingSound
    BY DEF MapSafe
<1>3. pending = <<>> /\ pending' = <<>>
    <2>1. budget = 0 => ~(budget > 0)
        OBVIOUS
    <2> QED BY <1>1, <1>2, <2>1 DEF QueueSound
<1>4. status' \in [state : States, canForget : BOOLEAN, dropped : {FALSE}] /\ status'.state = "finalized"
    <2>1. status' = [status EXCEPT !.state = "finalized", !.canForget = TRUE]
        BY <1>3 DEF flush_after_landing
    <2>2. status \in [state : States, canForget : BOOLEAN, dropped : {FALSE}]
        BY <1>2 DEF StepSound
    <2>3. "finalized" \in States
        BY DEF States
    <2> QED BY <2>1, <2>2, <2>3
<1>5. StepSound'
    BY <1>1, <1>2, <1>4 DEF StepSound
<1>6. QueueSound'
    BY <1>3 DEF QueueSound
<1>7. EvidenceSound'
    BY <1>1, <1>2, EvidenceKept
<1>8. PlannedSound' /\ FileSound' /\ TravSound'
    BY <1>1, <1>2 DEF PlannedSound, FileSound, DeltaFileReplays, TravSound
<1>9. LandingSound'
    <2>1. ASSUME NEW c \in Cells PROVE Settled(c)' <=> Settled(c)
        BY <1>1 DEF Settled
    <2> QED BY <1>1, <1>2, <1>3, <1>4, <2>1 DEF LandingSound
<1> QED BY <1>5, <1>6, <1>7, <1>8, <1>9 DEF MapSafe

\* Every step keeps the invariant.
LEMMA MapSafeStep ==
    ASSUME MapSafe, [MapNext \/ MapDone]_mapVars
    PROVE  MapSafe'
<1>1. CASE \E S \in SUBSET Cells, t \in {now, now + 1}, o \in Origins :
              t <= MaxTime /\ \E items \in [S -> SUBSET Kinds \ {{}}] : update_raw(items, t, o)
    BY <1>1, UpdateRawKeeps
<1>2. CASE append_if_due
    BY <1>2, AppendKeeps
<1>3. CASE append_throws
    BY <1>3, ThrowKeeps
<1>11. CASE write_throws
    BY <1>11, WriteThrowKeeps
<1>4. CASE drain_delta
    BY <1>4, DrainDeltaKeeps
<1>5. CASE \E fresh \in IF pending = <<>> THEN {} ELSE Fresh(trav, Head(pending)) : drain_snapshots(fresh)
    BY <1>5, DrainSnapshotsKeeps
<1>6. CASE tick
    BY <1>6, TickKeeps
<1>7. CASE drain_delta_for_planning_map
    BY <1>7, PlanKeeps
<1>8. CASE finalize_mission_map
    BY <1>8, FinalizeKeeps
<1>9. CASE flush_after_landing
    BY <1>9, FlushKeeps
<1>10. CASE UNCHANGED mapVars
    <2>1. /\ UNCHANGED <<raw, rawTouched, pending, updates, trav>> /\ pc' = pc
          /\ UNCHANGED <<now, origin, writer, file, status, budget, lag, planned>>
        BY <1>10 DEF mapVars
    <2>2. EvidenceSound'
        BY <2>1, EvidenceKept DEF MapSafe, EvidenceSound
    <2>3. ASSUME NEW c \in Cells PROVE Settled(c)' <=> Settled(c)
        BY <2>1 DEF Settled
    <2>4. LandingSound'
        BY <2>1, <2>3 DEF MapSafe, LandingSound
    <2>5. StepSound' /\ QueueSound' /\ PlannedSound'
        BY <2>1 DEF MapSafe, StepSound, QueueSound, PlannedSound
    <2>6. FileSound' /\ TravSound'
        BY <2>1 DEF MapSafe, FileSound, DeltaFileReplays, TravSound
    <2> QED BY <2>2, <2>4, <2>5, <2>6 DEF MapSafe
<1> QED BY <1>1, <1>2, <1>3, <1>4, <1>5, <1>6, <1>7, <1>8, <1>9, <1>10, <1>11 DEF MapNext, MapDone

\* For every line of cells, every limit, period and increment, and whatever the frames
\* bring: can_forget_raw_evidence is said only when Level 1 holds all the evidence that
\* has been drained, and after landing it holds all there is.
THEOREM RawEvidenceMayBeForgotten == MapSpec => []ForgettingIsSafe
<1>1. MapSafe => ForgettingIsSafe
    <2> SUFFICES ASSUME MapSafe PROVE ForgettingIsSafe
        OBVIOUS
    <2>1. ASSUME status.canForget, NEW c \in Cells, raw[c] # None, c \notin rawTouched PROVE Settled(c)
        <3>1. ~InQueue(c)
            BY <2>1 DEF MapSafe, QueueSound, InQueue
        <3> QED BY <2>1, <3>1 DEF MapSafe, EvidenceSound
    <2>2. ASSUME pc = "closed"
          PROVE  status.state = "finalized" /\ \A c \in Cells : raw[c] # None => Settled(c)
        BY <2>2 DEF MapSafe, LandingSound
    <2> QED BY <2>1, <2>2 DEF ForgettingIsSafe, Settled
<1>2. MapSafe /\ [MapNext \/ MapDone]_mapVars => MapSafe'
    BY MapSafeStep
<1> QED BY <1>1, <1>2, MapSafeInit, PTL DEF MapSpec

\* For every line of cells, every limit, period and increment: the drop-oldest queue
\* never drops, what was observed has come to Level 2 when run_once() returns, and a
\* reader of the delta file misses only what the writer takes for written.
THEOREM EvidenceNeverGetsLost == MapSpec => []EvidenceSurvives
<1>1. MapSafe => EvidenceSurvives
    <2> SUFFICES ASSUME MapSafe PROVE EvidenceSurvives
        OBVIOUS
    <2>1. DeltaFileReplays
        BY DEF MapSafe, FileSound
    <2>2. ~status.dropped
        BY DEF MapSafe, StepSound
    <2>3. ASSUME pc = "idle", NEW c \in Cells, raw[c] # None, raw[c].hits > 0
          PROVE  trav.cell[c].hits = Min({raw[c].hits, MaxHits}) /\ planned[c] = trav.cell[c].odds
        <3>1. rawTouched = {}
            BY <2>3 DEF MapSafe, EvidenceSound
        <3>2. ~InQueue(c)
            BY <2>3 DEF MapSafe, QueueSound, InQueue
        <3>3. trav.cell[c].hits = Min({raw[c].hits, MaxHits})
            BY <2>3, <3>1, <3>2 DEF MapSafe, EvidenceSound, Settled
        <3>4. raw[c].hits \in 0..(MaxHits + 1)
            BY <2>3 DEF MapSafe, StepSound, RawCell
        <3>5. MaxHits > 0 /\ Min({raw[c].hits, MaxHits}) = IF raw[c].hits <= MaxHits THEN raw[c].hits ELSE MaxHits
            BY <3>4, CapFacts
        <3>6. trav.cell[c].hits > 0
            BY <2>3, <3>3, <3>5
        <3>7. trav.touched = {}
            BY <2>3 DEF MapSafe, PlannedSound
        <3>8. planned[c] = trav.cell[c].odds
            BY <3>6, <3>7 DEF MapSafe, PlannedSound
        <3> QED BY <3>3, <3>8
    <2> QED BY <2>1, <2>2, <2>3 DEF EvidenceSurvives, EvidenceReachesLevelTwo
<1>2. MapSafe /\ [MapNext \/ MapDone]_mapVars => MapSafe'
    BY MapSafeStep
<1> QED BY <1>1, <1>2, MapSafeInit, PTL DEF MapSpec

\* For every line of cells, every limit, period and increment, with log odds or with the
\* legacy merge, and however the map grows: the index of occupied cells and the states
\* are those of the scores, the sweep lets no cell wait longer than one round, and after
\* landing every observed cell has its distance to the nearest occupied one within the
\* search radius, or none.
THEOREM IncrementalMapIsTheMap == MapSpec => []DerivedFieldsAreKept
<1>1. MapSafe => DerivedFieldsAreKept
    <2> SUFFICES ASSUME MapSafe PROVE DerivedFieldsAreKept
        OBVIOUS
    <2>1. /\ MapSound(trav) /\ Derived(trav) /\ SweepSound(trav.order, trav.sweep, lag)
        BY DEF MapSafe, TravSound, Kept
    <2>2. DerivedFieldsAreCurrent
        BY <2>1 DEF Derived, DerivedFieldsAreCurrent
    <2>3. /\ trav.order \in Seq(Cells) /\ Len(trav.order) \in Nat /\ DOMAIN trav.order = 1..Len(trav.order)
          /\ trav.cell \in [Cells -> TravCell]
        BY <2>1 DEF MapSound, Maps
    <2>4. trav.order # <<>> => {trav.cross, trav.sweep} \subseteq 0..(Len(trav.order) - 1)
        BY <2>1 DEF MapSound, Cursor
    <2>5. MapTypeOK
        <3>1. Len(pending) <= MaxPending
            <4>1. MaxPending \in Nat /\ MaxPending > 0
                BY Limits
            <4>2. pending = <<>> \/ pending = <<Head(pending)>>
                BY DEF MapSafe, QueueSound
            <4>3. CASE pending = <<>>
                BY <4>1, <4>3
            <4>4. CASE pending = <<Head(pending)>>
                <5>1. Len(<<Head(pending)>>) = 1
                    OBVIOUS
                <5>2. Len(pending) = 1
                    BY <4>4, <5>1
                <5> QED BY <4>1, <5>2
            <4> QED BY <4>2, <4>3, <4>4
        <3>2. Known(trav) \subseteq Cells
            BY <2>3 DEF Known, Range
        <3>3. IsInjective(trav.order) /\ trav.occupied \cup trav.touched \subseteq Known(trav)
            BY <2>1 DEF MapSound
        <3>4. rawTouched \subseteq {c \in Cells : raw[c] # None}
            BY DEF MapSafe, EvidenceSound
        <3> QED BY <2>3, <2>4, <3>1, <3>2, <3>3, <3>4 DEF MapSafe, StepSound, MapTypeOK
    <2>6. SweepReachesEveryCell
        <3> SUFFICES ASSUME NEW c \in Known(trav) PROVE lag[c] * Sweep < Len(trav.order)
            BY DEF SweepReachesEveryCell
        <3> DEFINE T == Len(trav.order)
        <3>1. PICK i \in 1..T : trav.order[i] = c
            BY <2>3 DEF Known, Range
        <3>2. lag[c] \in Nat /\ lag[c] * Sweep < Walked(trav.sweep, T, i) /\ Sweep \in Nat
            BY <2>1, <3>1, Limits DEF SweepSound
        <3>3. trav.order # <<>>
            BY <2>3, <3>1
        <3>4. trav.sweep \in 0..(T - 1)
            BY <2>4, <3>3
        <3> HIDE DEF T
        <3>5. T \in Nat
            BY <2>3 DEF T
        <3>6. Walked(trav.sweep, T, i) \in 1..T
            BY <3>1, <3>4, <3>5, WalkedFacts
        <3>7. lag[c] * Sweep \in Nat
            BY <3>2
        <3>8. lag[c] * Sweep < T
            BY <3>2, <3>5, <3>6, <3>7
        <3> QED BY <3>8 DEF T
    <2>7. FinalClearances
        BY DEF MapSafe, LandingSound, FinalClearances
    <2> QED BY <2>2, <2>5, <2>6, <2>7 DEF DerivedFieldsAreKept
<1>2. MapSafe /\ [MapNext \/ MapDone]_mapVars => MapSafe'
    BY MapSafeStep
<1> QED BY <1>1, <1>2, MapSafeInit, PTL DEF MapSpec
=============================================================================
