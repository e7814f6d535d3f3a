--------------------------- MODULE MCBookMutation ---------------------------
(***************************************************************************)
(* BookMutation for TLC: three paths, so that a move names two and leaves  *)
(* one unrelated.                                                          *)
(***************************************************************************)
EXTENDS BookMutation

CONSTANTS p1, p2, p3

ThreePaths == {p1, p2, p3}

=============================================================================
