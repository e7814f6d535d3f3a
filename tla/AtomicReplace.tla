--------------------------- MODULE AtomicReplace ---------------------------
(***************************************************************************)
(* What an upload promises about the file it replaces: while one of its    *)
(* calls runs the file has its old content until one step gives it the new *)
(* one, and the answer Ok is given in that step or not at all.  Others     *)
(* write the file between calls only.                                      *)
(***************************************************************************)
CONSTANTS Contents, NoFile

VARIABLES content,   \* of the file: what a reader is entitled to
          status,    \* the last answer
          running    \* a call that may change the file is under way

vars == <<content, status, running>>

Answers == {"Ok", "Failed", "Aborted", "RecoveryFailed", "CleanupFailed"}

Init ==
  /\ content \in Contents \cup {NoFile}
  /\ status = "none"
  /\ running = FALSE

(* A call begins, goes on, or is cut off by the loss of power.             *)
Proceed ==
  /\ running' \in BOOLEAN
  /\ status' \in {status, "none"}
  /\ UNCHANGED content

Replace ==
  /\ running /\ ~running'
  /\ content' \in Contents
  /\ status' = "Ok"

Refuse ==
  /\ ~running'
  /\ status' \in Answers \ {"Ok"}
  /\ UNCHANGED content

Overwrite ==
  /\ ~running
  /\ content' \in Contents \cup {NoFile}
  /\ UNCHANGED <<status, running>>

Next == Proceed \/ Replace \/ Refuse \/ Overwrite

Spec == Init /\ [][Next]_vars

=============================================================================
