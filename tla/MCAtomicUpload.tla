--------------------------- MODULE MCAtomicUpload ---------------------------
(***************************************************************************)
(* Two contents, so that the new one differs from the old, and every       *)
(* number of failures, power losses and uploads.                           *)
(***************************************************************************)
EXTENDS AtomicUpload

CONSTANTS c1, c2

TwoContents == {c1, c2}
WhenClean   == {"clean"}
Never       == {}

=============================================================================
