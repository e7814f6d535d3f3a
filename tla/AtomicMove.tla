----------------------------- MODULE AtomicMove -----------------------------
(***************************************************************************)
(* What a journaled book move promises: the state of the book is read      *)
(* under one key at every moment; a pending move either switches that key  *)
(* from its old to its new path in one step or leaves it, and a switch is  *)
(* never taken back.                                                       *)
(***************************************************************************)
CONSTANT Paths

VARIABLES
  home,     \* the key the book's state is read under
  pending,  \* the move under way: a set of at most one <<old, new>>
  done      \* has the pending move switched the key?

vars == <<home, pending, done>>

Init == home \in Paths /\ pending = {} /\ done = FALSE

Begin(old, new) ==
  /\ pending = {} /\ old # new
  /\ pending' = {<<old, new>>}
  /\ UNCHANGED <<home, done>>

Switch(old, new) ==
  /\ pending = {<<old, new>>} /\ ~done
  /\ home' = IF home = old THEN new ELSE home
  /\ done' = TRUE
  /\ UNCHANGED pending

(* A move that has not switched is abandoned, one that has is finished.    *)
End ==
  /\ pending # {}
  /\ pending' = {} /\ done' = FALSE
  /\ UNCHANGED home

Next ==
  \/ \E old, new \in Paths : Begin(old, new) \/ Switch(old, new)
  \/ End

Spec == Init /\ [][Next]_vars

=============================================================================
