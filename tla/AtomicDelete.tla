---------------------------- MODULE AtomicDelete ----------------------------
(***************************************************************************)
(* What the deletion of a PDF promises: once it is decided it cannot be    *)
(* undone, the book disappears from its path before anything of it is      *)
(* purged, and what has disappeared is removed in the end.  One deletion   *)
(* is under way at a time.  Another file may come to a path; one that      *)
(* comes to the path of a hidden book may block its deletion.              *)
(***************************************************************************)
CONSTANT Paths

VARIABLE status   \* per path: kept, doomed, hidden, blocked or gone

Init == status \in [Paths -> {"kept", "gone"}]

UnderWay == {p \in Paths : status[p] \in {"doomed", "hidden", "blocked"}}

Doom(p) ==
  /\ status[p] = "kept" /\ UnderWay = {}
  /\ status' = [status EXCEPT ![p] = "doomed"]

Hide(p) ==
  /\ status[p] = "doomed"
  /\ status' = [status EXCEPT ![p] = "hidden"]

(* The hidden book goes; another file may have its path by now.            *)
Remove(p) ==
  /\ status[p] = "hidden"
  /\ \E left \in {"gone", "kept"} : status' = [status EXCEPT ![p] = left]

Arrive(p) ==
  /\ status[p] \in {"gone", "hidden"}
  /\ status' = [status EXCEPT ![p] = IF status[p] = "gone" THEN "kept" ELSE "blocked"]

Finish == \E p \in Paths : Hide(p) \/ Remove(p)

Next == Finish \/ \E p \in Paths : Doom(p) \/ Arrive(p)

Safe == Init /\ [][Next]_status

Spec == Safe /\ WF_status(Finish)

=============================================================================
