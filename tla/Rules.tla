------------------------------- MODULE Rules -------------------------------
(***************************************************************************)
(* What rules/mod.rs computes: the order of the rules, which of them the   *)
(* occlusion pass deletes, and where a blit reads and writes.  A u32       *)
(* computation is written with its exact value v: the code gets U32(v),    *)
(* or panics where overflow is checked and v >= Word.  A byte of a frame   *)
(* is the sequence of the source bytes mixed into it since the last        *)
(* opaque one, <<>> being black.                                           *)
(***************************************************************************)
EXTENDS Integers, SequencesExt

CONSTANTS
    Word,              \* 2^32
    BytesPerPixel,     \* BYTES_PER_PIXEL (3)
    ResortThreshold    \* RESORT_THRESHOLD (8)

U32(v) == v % Word

Dim == [width : Nat, height : Nat]
Pos == [x : Nat, y : Nat]

\* A rule; alpha is told apart as 1.0, below it, and above it.
RuleRect == [ul : Pos, dim : Dim, dest : Pos,
             alpha : {"opaque", "blend", "over"}, z : Nat]

CalcSize(d)   == d.width * d.height * BytesPerPixel
CalcStride(d) == d.width * BytesPerPixel

-----------------------------------------------------------------------------
(* sort_rules: by z, then by the source corner; a stable sort.             *)

Before(rs, i, j) ==
    LET a == rs[i]  b == rs[j]
    IN  \/ a.z < b.z
        \/ a.z = b.z /\ a.ul.x < b.ul.x
        \/ a.z = b.z /\ a.ul.x = b.ul.x /\ a.ul.y < b.ul.y
        \/ a.z = b.z /\ a.ul = b.ul /\ i < j

\* Mutant: z is taken for the whole key, and rules of one z are reversed.
SortRulesByZ(rs) ==
    {[p \in DOMAIN rs |-> rs[f[p]]] :
        f \in {g \in [DOMAIN rs -> DOMAIN rs] :
                  \A p, q \in DOMAIN rs : p < q =>
                      \/ rs[g[p]].z < rs[g[q]].z
                      \/ rs[g[p]].z = rs[g[q]].z /\ g[p] > g[q]}}

\* The ways to order rs: one, since Before is total.
SortRules(rs) ==
    {[p \in DOMAIN rs |-> rs[f[p]]] :
        f \in {g \in [DOMAIN rs -> DOMAIN rs] :
                  \A p, q \in DOMAIN rs : p < q => Before(rs, g[p], g[q])}}

-----------------------------------------------------------------------------
(* eliminate_occlusions.                                                   *)

\* zbuf has a capacity and no element, so that the first cell of an opaque
\* rectangle is already out of bounds.
ScanPanics(r, tgtDim, checks) ==
    /\ r.alpha = "opaque"
    /\ \/ r.dim.width > 0 /\ r.dim.height > 0
       \/ checks /\ (r.dest.y + r.dim.height) * tgtDim.width + r.dest.x >= Word

\* The rule at which the scan, from the last rule to the first, stops: 0 if none.
ScanStop(rs, tgtDim, checks) ==
    LET stops == {i \in DOMAIN rs : \/ rs[i].alpha = "over"
                                    \/ ScanPanics(rs[i], tgtDim, checks)}
    IN  IF stops = {} THEN 0 ELSE CHOOSE i \in stops : \A j \in stops : j <= i

\* to_del: a rule gets there once for each of its rows, and only an opaque
\* rule without columns does.
ToDelete(rs) ==
    FoldLeftDomain(
        LAMBDA del, i : (IF rs[i].alpha = "opaque"
                         THEN [row \in 1..rs[i].dim.height |-> i] ELSE <<>>) \o del,
        <<>>, rs)

SwapRemove(rs, i) == SubSeq(ReplaceAt(rs, i, rs[Len(rs)]), 1, Len(rs) - 1)

\* The rules that are left when the indices in del are removed one by one.
Removed(rs, del) ==
    LET drop(s, i) == IF Len(del) < ResortThreshold THEN RemoveAt(s, i)
                                                    ELSE SwapRemove(s, i)
    IN  FoldLeft(drop, rs, del)

\* An index is taken from a list that the removals before it have shortened.
RemovalPanics(rs, del) == \E n \in DOMAIN del : del[n] > Len(rs) - (n - 1)

-----------------------------------------------------------------------------
(* BlitContext::blit.  The corners are computed in u32, the rows in usize. *)

\* Mutant: the coordinates are swapped.
CornerSwapped(pos, d) == U32(CalcStride(d)) * pos.x + pos.y * BytesPerPixel

Corner(pos, d) == U32(CalcStride(d)) * pos.y + pos.x * BytesPerPixel

BlitOverflows(r, srcDim, tgtDim) ==
    \/ Corner(r.ul, srcDim) >= Word
    \/ Corner(r.dest, tgtDim) >= Word
    \/ CalcStride(r.dim) >= Word

\* The slice of each row lies in the buffer of a frame of d.
RowsFit(pos, d, r) ==
    \A row \in 0..(r.dim.height - 1) :
        U32(Corner(pos, d)) + row * U32(CalcStride(d)) + U32(CalcStride(r.dim))
            <= U32(CalcSize(d))

BlitPanics(r, srcDim, tgtDim, checks) ==
    \/ checks /\ BlitOverflows(r, srcDim, tgtDim)
    \/ ~ RowsFit(r.ul, srcDim, r)
    \/ ~ RowsFit(r.dest, tgtDim, r)

Mix(s, old, alpha) == IF alpha = "opaque" THEN <<s>> ELSE Append(old, s)

\* tgt after the rows of r, in order: a row may overwrite part of the one before.
Blit(src, tgt, r, srcDim, tgtDim) ==
    LET from(row) == U32(Corner(r.ul, srcDim)) + row * U32(CalcStride(srcDim))
        to(row)   == U32(Corner(r.dest, tgtDim)) + row * U32(CalcStride(tgtDim))
        rows[n \in 0..r.dim.height] ==
            IF n = 0 THEN tgt
            ELSE [b \in DOMAIN tgt |->
                    LET k == b - to(n - 1)
                    IN  IF k \in 0..(U32(CalcStride(r.dim)) - 1)
                        THEN Mix(src[from(n - 1) + k], rows[n - 1][b], r.alpha)
                        ELSE rows[n - 1][b]]
    IN  rows[r.dim.height]
=============================================================================
