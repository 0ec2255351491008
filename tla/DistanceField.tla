---------------------------- MODULE DistanceField ----------------------------
(***************************************************************************)
(* The arithmetic of the Level 3 distance field: the distance transform of *)
(* compute_esdf(), and which voxels LocalESDFMap::update_incremental()     *)
(* erases and computes again.  Distances are exact squares; the rounding   *)
(* of floats is left out.  The windows are those of one axis: a Level 2    *)
(* cell k has its centre at 2k + 1 half cells, and a voxel of the field is *)
(* Spacing cells wide.                                                     *)
(***************************************************************************)
EXTENDS Integers, Sequences, FiniteSetsExt

CONSTANTS
    Spacing,     \* kESDFSampleSpacingM, in Level 2 cells
    D0           \* kESDFD0M, in Level 2 cells

ASSUME FieldAssumption ==
    /\ Spacing \in Nat \ {0} /\ D0 \in Nat
    /\ D0 >= Spacing

InfSq == 1000000    \* kInfSq: beyond every squared distance of a grid

-----------------------------------------------------------------------------
\* The place from which on the parabola of q is below that of p, as a fraction.
Meet(f, s, p, q) == <<s * s * (q * q - p * p) + f[q] - f[p], 2 * s * s * (q - p)>>

\* The lower envelope: the parabolas that are the lowest somewhere, each with
\* the place where it begins.  A new one pops those it hides.
Envelope(f, s, Keep(_, _)) ==
    LET Upto[q \in {-1} \cup DOMAIN f] ==
            IF q = -1 THEN <<>>
            ELSE LET e == Upto[q - 1]
                     k == Max({0} \cup {i \in DOMAIN e : Keep(Meet(f, s, e[i].at, q), e[i].from)})
                 IN  IF f[q] >= InfSq THEN e
                     ELSE Append(SubSeq(e, 1, k),
                                 [at |-> q, from |-> IF k = 0 THEN <<-InfSq, 1>>
                                                     ELSE Meet(f, s, e[k].at, q)])
    IN  Upto[Max(DOMAIN f)]

Beyond(x, y) == x[1] * y[2] > y[1] * x[2]
BeyondNothing(x, y) == TRUE

\* Read off an envelope: the parabola that the place q lies under.
Lowest(f, s, e) ==
    [q \in DOMAIN f |->
        IF e = <<>> THEN InfSq
        ELSE LET j == Max({1} \cup {i \in DOMAIN e : \A h \in 2..i : e[h].from[1] < q * e[h].from[2]})
             IN  (q - e[j].at) * (q - e[j].at) * s * s + f[e[j].at]]

\* Mutant of dt1d: a new parabola pops nothing.
dt1d_keeps(f, s) == Lowest(f, s, Envelope(f, s, BeyondNothing))

\* One column: g[q] is the least of (q - p)^2 s^2 + f[p].
dt1d(f, s) == Lowest(f, s, Envelope(f, s, Beyond))

\* The three phases, one per axis, over a grid of n[1] x n[2] x n[3] voxels of
\* size[1] x size[2] x size[3].
compute_esdf(occ, n, size) ==
    LET Cells == (0..n[1] - 1) \X (0..n[2] - 1) \X (0..n[3] - 1)
        Along(g, axis) ==
            [c \in Cells |->
                dt1d([i \in 0..n[axis] - 1 |-> g[[c EXCEPT ![axis] = i]]], size[axis])[c[axis]]]
    IN  Along(Along(Along([c \in Cells |-> IF c \in occ THEN 0 ELSE InfSq], 1), 2), 3)

-----------------------------------------------------------------------------
Voxel(k) == k \div Spacing
Voxels(S) == {Voxel(k) : k \in S}

\* Twice the centre, and the extent, of the window around the cells s; size is
\* the voxel size the map's own configuration gives.
Centre(s) == Min(s) + Max(s) + 1
Half(s, size) == Max(s) - Min(s) + 2 * D0 + 2 * size

\* The grid compute_esdf() makes of the window: rounded up to whole voxels, its
\* origin rounded down to one.
Count(s, size) == (Half(s, size) + Spacing - 1) \div Spacing
Origin(s, size) == (Centre(s) - Count(s, size) * Spacing) \div (2 * Spacing)
InGrid(v, s, size) == Origin(s, size) <= v /\ v < Origin(s, size) + Count(s, size)

\* What update_incremental() erases before it merges the grid: the window with
\* another voxel on either side.
InErased(v, s, size) ==
    LET at == 2 * Spacing * v + Spacing
    IN  /\ Centre(s) - Half(s, size) - 2 * size <= at
        /\ at <= Centre(s) + Half(s, size) + 2 * size
=============================================================================
