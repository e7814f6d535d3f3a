----------------------------- MODULE MCBookMove -----------------------------
(***************************************************************************)
(* BookMove for TLC: three paths, one cache file, so that a second move    *)
(* and an upload find room.  The paths are interchangeable.                *)
(***************************************************************************)
EXTENDS BookMove, TLC

CONSTANTS p1, p2, p3, c1

TwoPaths == {p1, p2}
ThreePaths == {p1, p2, p3}
OneCacheFile == {c1}
PathSymmetry == Permutations(Paths)

=============================================================================
