--------------------------- MODULE AtomicJournal ---------------------------
(***************************************************************************)
(* What a mutation journal of two slots promises those who load it.  An    *)
(* empty journal is armed with one mutation; if arming is interrupted, it  *)
(* is armed, empty, or corrupt for good.  An armed journal names the same  *)
(* mutation until it is empty again: no later write that fails, and no     *)
(* loss of power, makes it unreadable.                                     *)
(***************************************************************************)
CONSTANTS
  Mutations,   \* what a record may ask for
  NoMutation   \* no mutation at all

VARIABLE journal   \* [load : what load finds, of : the mutation it names]

Loaded(load, of) == [load |-> load, of |-> of]

Empty   == Loaded("empty", NoMutation)
Corrupt == Loaded("corrupt", NoMutation)

Init == journal = Empty

Begin(m) ==
  /\ journal = Empty
  /\ journal' = Loaded("arming", m)

Settle(m) ==
  /\ journal = Loaded("arming", m)
  /\ journal' \in {Empty, Corrupt, Loaded("pending", m)}

Finish(m) ==
  /\ journal = Loaded("pending", m)
  /\ journal' = Empty

Next == \E m \in Mutations : Begin(m) \/ Settle(m) \/ Finish(m)

Spec == Init /\ [][Next]_journal

=============================================================================
