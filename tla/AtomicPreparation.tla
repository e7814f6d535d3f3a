------------------------- MODULE AtomicPreparation -------------------------
(***************************************************************************)
(* What a preparation promises to the reader: a PDF either has a complete  *)
(* reading product or none.  A product appears in one step, belongs to the *)
(* version of the file it was made from, and the version at the path never *)
(* loses it; products of other versions may be dropped.                    *)
(***************************************************************************)
CONSTANT Sources   \* versions of the PDF at the path

VARIABLES
  source,   \* the version that lies at the path
  have      \* the versions that have a complete product

Init ==
  /\ source \in Sources
  /\ have = {}

Replace(s) ==
  /\ source' = s
  /\ UNCHANGED have

(***************************************************************************)
(* The product of the current version appears.                             *)
(***************************************************************************)
Finish ==
  /\ source \notin have
  /\ have' = have \union {source}
  /\ UNCHANGED source

(***************************************************************************)
(* The slot of another version is reused.                                  *)
(***************************************************************************)
Evict(s) ==
  /\ s \in have \ {source}
  /\ have' = have \ {s}
  /\ UNCHANGED source

Next ==
  \/ \E s \in Sources : Replace(s) \/ Evict(s)
  \/ Finish

Spec == Init /\ [][Next]_<<source, have>>

=============================================================================
