-------------------------- MODULE MCPdfPreparation --------------------------
(***************************************************************************)
(* PdfPreparation for TLC: two versions of one PDF.  s1 is one section     *)
(* file without images; s2 has an image on its last page and a section     *)
(* file for every page.  Both start at the same generation.                *)
(***************************************************************************)
EXTENDS PdfPreparation

CONSTANTS s1, s2

Versions      == {s1, s2}
ImageInS2     == [v \in Versions |-> IF v = s2 THEN {Pages} ELSE {}]
SectionsInS2  == [v \in Versions |-> IF v = s2 THEN 2..Pages ELSE {}]
FromOne       == [v \in Versions |-> 1]

=============================================================================
