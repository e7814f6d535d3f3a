---------------------------- MODULE MCPdfDelete ----------------------------
(***************************************************************************)
(* PdfDelete for TLC: two interchangeable paths, so that one deletion can  *)
(* find another one pending.                                               *)
(***************************************************************************)
EXTENDS PdfDelete

CONSTANTS p1, p2

TwoPaths == {p1, p2}

=============================================================================
