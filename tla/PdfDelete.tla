----------------------------- MODULE PdfDelete -----------------------------
(***************************************************************************)
(* The journaled deletion of a PDF: PdfDeleteJournal and                   *)
(* PdfDeleteCoordinator (lib/BookStateMigration) driven by                 *)
(* src/util/PdfDeleteUtils.cpp (deletePdfBook, boot recovery, the fence    *)
(* that moves ask).                                                        *)
(*                                                                         *)
(* A deletion hides the source under a tombstone name, purges the cache,   *)
(* the bookmarks, the clippings and the recent-books entry of its path,    *)
(* and removes the tombstone last.  Each finished phase is a journal       *)
(* record in one of two slots.  The steps of the one running call          *)
(* interleave with power loss, I/O failures, uploads and the user; the     *)
(* move journal is empty (BookMutation has both).                          *)
(***************************************************************************)
EXTENDS Naturals

CONSTANTS
  Paths,        \* absolute paths a PDF may have
  NoPath,       \* no path at all
  MaxFaults,    \* bound: I/O failures and power losses
  MaxDeletes,   \* bound: calls of deletePdfBook
  MaxUploads    \* bound: files the user puts at a path

ASSUME PathsAssumption == NoPath \notin Paths
ASSUME BoundsAssumption == /\ MaxFaults \in Nat
                           /\ MaxDeletes \in Nat
                           /\ MaxUploads \in Nat

Slots == {"A", "B"}
Parts == {"cache", "bookmarks", "clippings"}

(***************************************************************************)
(* enum class Phase.                                                       *)
(***************************************************************************)
Prepared        == 1
SourceHidden    == 2
FullCachePurged == 3
BookmarksPurged == 4
ClippingsPurged == 5
RecentsPurged   == 6
SourceRemoved   == 7

Phases == 1..7

(***************************************************************************)
(* The six targets of a record are functions of its source path.           *)
(***************************************************************************)
Record(seq, phase, source) ==
  [kind |-> "record", seq |-> seq, phase |-> phase, source |-> source]

Blank(kind) == [kind |-> kind, seq |-> 0, phase |-> 0, source |-> NoPath]
Absent == Blank("absent")
Torn   == Blank("torn")

IsRecord(v) == v.kind = "record"

NoSlot == "none"
NoSelection == [slot |-> NoSlot, rec |-> Absent]

Opposite(s) == IF s = "A" THEN "B" ELSE "A"

VARIABLES
  slot,      \* content of /.crosspoint/pdf_delete.a and .b
  file,      \* what lies at each path
  hidden,    \* what lies at the tombstone name of each path
  state,     \* which parts of reading state each path has
  recents,   \* recent.json on disk and the list in RAM
  presence,  \* journalPresence, what the fence knows of the journal
  pc,        \* where the mutating task stands
  sel,       \* the Selection the running step works on
  out,       \* the slot and record writeRecord is writing
  steps,     \* steps of the running Coordinator::recover
  job,       \* the running call and the path it was asked to delete
  result,    \* what the last call returned
  faults, deletes, uploads

domainVars == <<file, hidden, state, recents>>
callVars   == <<sel, out, steps>>
jobVars    == <<job, result, presence>>
boundVars  == <<faults, deletes, uploads>>
vars == <<slot, domainVars, pc, callVars, jobVars, boundVars>>

(***************************************************************************)
(* Jobs: "recover" is the resumption at the head of deletePdfBook,         *)
(* "delete" its own deletion, "boot" recoverPendingPdfDelete.              *)
(***************************************************************************)
Job(kind, path) == [kind |-> kind, path |-> path]
NoJob == Job("none", NoPath)

-----------------------------------------------------------------------------
(***************************************************************************)
(* Journal::load.  Sequences run from 1 to 7, far from the wrap; two valid *)
(* slots with one sequence are corrupt.                                    *)
(***************************************************************************)
SequenceNewer(candidate, reference) == candidate > reference

Corrupt(a, b) ==
  \/ ~IsRecord(a) /\ ~IsRecord(b) /\ (a # Absent \/ b # Absent)
  \/ IsRecord(a) /\ IsRecord(b) /\ a.seq = b.seq

Select(a, b) ==
  IF ~IsRecord(a) /\ ~IsRecord(b) THEN NoSelection
  ELSE IF ~IsRecord(b) \/ (IsRecord(a) /\ SequenceNewer(a.seq, b.seq))
    THEN [slot |-> "A", rec |-> a]
    ELSE [slot |-> "B", rec |-> b]

IsCorrupt == Corrupt(slot["A"], slot["B"])
Selected == Select(slot["A"], slot["B"])
JournalEmpty == slot = [s \in Slots |-> Absent]

-----------------------------------------------------------------------------
Init ==
  /\ slot = [s \in Slots |-> Absent]
  /\ file \in [Paths -> {"none", "book"}]
  /\ hidden \in [Paths -> {"none", "stray"}]
  /\ state \in [Paths -> {{}, Parts}]
  /\ \A p \in Paths : file[p] = "none" => state[p] = {}
  /\ \E listed \in SUBSET {p \in Paths : file[p] = "book"} :
       recents = [disk |-> listed, ram |-> listed]
  /\ presence = "lookup"
  /\ pc = "idle"
  /\ sel = NoSelection /\ out = NoSelection /\ steps = 0
  /\ job = NoJob /\ result = "none"
  /\ faults = 0 /\ deletes = 0 /\ uploads = 0

Fault == faults < MaxFaults /\ faults' = faults + 1
NoFault == UNCHANGED faults

(***************************************************************************)
(* publishResult: which results prove to the fence that no deletion is     *)
(* pending.                                                                *)
(***************************************************************************)
ProvesAbsentOrRefused(res) == res \in {"complete", "nothing", "invalid", "conflict"}

ProvesAbsent(res) == res \in {"complete", "nothing", "invalid"}

Publish(res) ==
  /\ presence' = IF ProvesAbsent(res) THEN "absent" ELSE "lookup"
  /\ pc' = "idle" /\ job' = NoJob /\ result' = res
  /\ sel' = NoSelection /\ out' = NoSelection /\ steps' = 0

(***************************************************************************)
(* Coordinator::recover returns.  After another book's deletion was        *)
(* completed, deletePdfBook goes on to the requested one.                  *)
(***************************************************************************)
Return(res) ==
  IF job.kind = "recover" /\ res = "complete" /\ sel.rec.source # job.path
    THEN /\ pc' = "check"
         /\ sel' = NoSelection /\ out' = NoSelection /\ steps' = 0
         /\ UNCHANGED jobVars
    ELSE Publish(res)

Goto(label) == pc' = label /\ UNCHANGED jobVars

(***************************************************************************)
(* Journal::advance: the next phase goes to the opposite slot.             *)
(***************************************************************************)
NextPhaseSkipping(phase) == IF phase = FullCachePurged THEN phase + 2 ELSE phase + 1

NextPhase(phase) == phase + 1

AdvanceSameSlot(s) == s.slot

AdvanceSlot(s) == Opposite(s.slot)

Advance ==
  /\ out' = [slot |-> AdvanceSlot(sel),
             rec  |-> Record(sel.rec.seq + 1, NextPhase(sel.rec.phase),
                             sel.rec.source)]
  /\ Goto("truncate")
  /\ UNCHANGED <<sel, steps>>

-----------------------------------------------------------------------------
(***************************************************************************)
(* The user.                                                               *)
(***************************************************************************)
(* deletePdfBook, of a file the browser lists.                             *)
StartDelete(p) ==
  /\ pc = "idle" /\ deletes < MaxDeletes /\ file[p] # "none"
  /\ presence' = "starting"
  /\ job' = Job("recover", p)
  /\ pc' = "find" /\ result' = "none"
  /\ deletes' = deletes + 1
  /\ UNCHANGED <<slot, domainVars, callVars, faults, uploads>>

(* recoverPendingPdfDelete before a directory is deleted.                  *)
Resume ==
  /\ pc = "idle" /\ presence # "absent"
  /\ presence' = "starting"
  /\ job' = Job("boot", NoPath)
  /\ pc' = "find" /\ result' = "none"
  /\ UNCHANGED <<slot, domainVars, callVars, boundVars>>

(* mutationFenceForPath: a lookup that finds no journal is remembered.     *)
AskFence ==
  /\ pc = "idle" /\ presence = "lookup" /\ JournalEmpty
  /\ presence' = "absent"
  /\ UNCHANGED <<slot, domainVars, pc, callVars, job, result, boundVars>>

(* An upload, to a free path or over a file.  Over USB or WebDAV it asks   *)
(* no journal; it clears derived cache files, the reading state stays.     *)
Upload(p) ==
  /\ pc = "idle" /\ uploads < MaxUploads
  /\ file' = [file EXCEPT ![p] = "upload"]
  /\ uploads' = uploads + 1
  /\ UNCHANGED <<slot, hidden, state, recents, pc, callVars, jobVars, faults, deletes>>

(* Reading a book creates its state and lists it; the list is pruned of    *)
(* missing files first.                                                    *)
Listed == {p \in recents.ram : file[p] # "none"}

OpenBook(p) ==
  /\ pc = "idle" /\ file[p] # "none"
  /\ state' = [state EXCEPT ![p] = Parts]
  /\ recents' = [disk |-> Listed \cup {p}, ram |-> Listed \cup {p}]
  /\ UNCHANGED <<slot, file, hidden, pc, callVars, jobVars, boundVars>>

ShowRecents ==
  /\ pc = "idle" /\ Listed # recents.ram
  /\ recents' = [disk |-> Listed, ram |-> Listed]
  /\ UNCHANGED <<slot, file, hidden, state, pc, callVars, jobVars, boundVars>>

Sleep ==
  /\ pc = "idle"
  /\ pc' = "off"
  /\ UNCHANGED <<slot, domainVars, callVars, jobVars, boundVars>>

PowerLoss ==
  /\ pc \notin {"idle", "off"} /\ Fault
  /\ pc' = "off"
  /\ sel' = NoSelection /\ out' = NoSelection /\ steps' = 0
  /\ job' = NoJob /\ result' = "none"
  /\ UNCHANGED <<slot, domainVars, presence, deletes, uploads>>

(* The static journalPresence starts as LookupRequired; boot then recovers.*)
Boot ==
  /\ pc = "off"
  /\ recents' = [recents EXCEPT !.ram = recents.disk]
  /\ presence' = "starting"
  /\ job' = Job("boot", NoPath)
  /\ pc' = "find" /\ result' = "none"
  /\ UNCHANGED <<slot, file, hidden, state, callVars, boundVars>>

-----------------------------------------------------------------------------
(***************************************************************************)
(* The first load of deletePdfBook and recoverPendingPdfDelete.            *)
(***************************************************************************)
Find ==
  /\ pc = "find"
  /\ IF IsCorrupt THEN Publish("pending")
     ELSE IF Selected # NoSelection
       THEN Goto("load") /\ UNCHANGED callVars
     ELSE IF job.kind = "boot" THEN Publish("nothing")
     ELSE Goto("check") /\ UNCHANGED callVars
  /\ UNCHANGED <<slot, domainVars, boundVars>>

(* A tombstone that is already there is never adopted.                     *)
CheckSource ==
  /\ pc = "check"
  /\ IF file[job.path] = "none"
       THEN Publish("invalid")
       ELSE /\ pc' = "begin"
            /\ job' = [job EXCEPT !.kind = "delete"]
            /\ UNCHANGED <<callVars, result, presence>>
  /\ UNCHANGED <<slot, domainVars, boundVars>>

Check ==
  /\ pc = "check"
  /\ IF file[job.path] = "none" \/ hidden[job.path] # "none"
       THEN Publish("invalid")
       ELSE /\ pc' = "begin"
            /\ job' = [job EXCEPT !.kind = "delete"]
            /\ UNCHANGED <<callVars, result, presence>>
  /\ UNCHANGED <<slot, domainVars, boundVars>>

Begin ==
  /\ pc = "begin"
  /\ IF IsCorrupt THEN Publish("pending")
     ELSE IF Selected # NoSelection THEN Publish("conflict")
     ELSE /\ out' = [slot |-> "A", rec |-> Record(1, Prepared, job.path)]
          /\ Goto("truncate")
          /\ UNCHANGED <<sel, steps>>
  /\ UNCHANGED <<slot, domainVars, boundVars>>

(***************************************************************************)
(* Journal::begin after a failed write: the journal is loaded again, and   *)
(* the deletion is armed if the record is there in spite of the failure.   *)
(***************************************************************************)
Reconcile ==
  /\ pc = "reconcile"
  /\ IF ~IsCorrupt /\ Selected = [slot |-> "A", rec |-> out.rec]
       THEN Goto("load") /\ UNCHANGED callVars
       ELSE Publish("pending")
  /\ UNCHANGED <<slot, domainVars, boundVars>>

-----------------------------------------------------------------------------
(***************************************************************************)
(* Coordinator::step: load, one operation, the next phase.                 *)
(***************************************************************************)
MaxRecoverySteps == 7

Load ==
  /\ pc = "load"
  /\ IF steps = MaxRecoverySteps \/ IsCorrupt THEN Return("pending")
     ELSE IF Selected = NoSelection THEN Return("nothing")
     ELSE /\ sel' = Selected
          /\ steps' = steps + 1
          /\ out' = NoSelection
          /\ Goto(IF Selected.rec.phase = SourceRemoved THEN "cleanup" ELSE "operate")
  /\ UNCHANGED <<slot, domainVars, boundVars>>

TargetOfRequest == IF job.path = NoPath THEN sel.rec.source ELSE job.path

Target == sel.rec.source

Operating(phase) == pc = "operate" /\ sel.rec.phase = phase

(* An operation that is done, or one that reports failure: its effect may  *)
(* be there all the same.                                                  *)
Done == Advance /\ NoFault
Fails == Return("pending") /\ Fault

HideSource ==
  /\ Operating(Prepared)
  /\ CASE file[Target] # "none" /\ hidden[Target] # "none" ->
            Return("conflict") /\ NoFault /\ UNCHANGED <<file, hidden>>
       [] file[Target] = "none" /\ hidden[Target] = "none" ->
            Return("pending") /\ NoFault /\ UNCHANGED <<file, hidden>>
       [] file[Target] = "none" /\ hidden[Target] # "none" ->
            Done /\ UNCHANGED <<file, hidden>>
       [] OTHER ->
            \/ /\ file' = [file EXCEPT ![Target] = "none"]
               /\ hidden' = [hidden EXCEPT ![Target] = file[Target]]
               /\ Done \/ Fails
            \/ Fails /\ UNCHANGED <<file, hidden>>
  /\ UNCHANGED <<slot, state, recents, deletes, uploads>>

PurgePhase(part) ==
  CASE part = "cache"     -> SourceHidden
    [] part = "bookmarks" -> FullCachePurged
    [] part = "clippings" -> BookmarksPurged

PurgePart(part) ==
  /\ Operating(PurgePhase(part))
  /\ \/ /\ state' = [state EXCEPT ![Target] = state[Target] \ {part}]
        /\ Done \/ Fails
     \/ Fails /\ UNCHANGED state
  /\ UNCHANGED <<slot, file, hidden, recents, deletes, uploads>>

(* removeByPathDurably: the file is replaced first, then the RAM list.     *)
WithoutOnDisk(p) == [recents EXCEPT !.disk = recents.disk \ {p}]

Without(p) == [disk |-> recents.disk \ {p}, ram |-> recents.ram \ {p}]

PurgeRecents ==
  /\ Operating(ClippingsPurged)
  /\ \/ recents' = Without(Target) /\ Done
     \/ recents' = WithoutOnDisk(Target) /\ Fails
     \/ Fails /\ UNCHANGED recents
  /\ UNCHANGED <<slot, file, hidden, state, deletes, uploads>>

RemoveHiddenSource ==
  /\ Operating(RecentsPurged)
  /\ \/ /\ hidden' = [hidden EXCEPT ![Target] = "none"]
        /\ Done \/ Fails
     \/ Fails /\ UNCHANGED hidden
  /\ UNCHANGED <<slot, file, state, recents, deletes, uploads>>

(***************************************************************************)
(* Journal::cleanup: the stale slot first, the terminal record last.       *)
(***************************************************************************)
FirstRemoved(s) == Opposite(s.slot)

Cleanup ==
  /\ pc = "cleanup"
  /\ slot' = [slot EXCEPT ![FirstRemoved(sel)] = Absent]
  /\ Goto("cleanup2")
  /\ UNCHANGED <<domainVars, callVars, boundVars>>

CleanupDone ==
  /\ pc = "cleanup2"
  /\ slot' = [slot EXCEPT ![Opposite(FirstRemoved(sel))] = Absent]
  /\ Return("complete")
  /\ UNCHANGED <<domainVars, boundVars>>

-----------------------------------------------------------------------------
(***************************************************************************)
(* writeRecord.  Its failure ends a step as Pending, but sends begin to    *)
(* its reconciliation.                                                     *)
(***************************************************************************)
WriteFails ==
  IF out.rec.phase = Prepared
    THEN Goto("reconcile") /\ UNCHANGED callVars
    ELSE Return("pending")

(* open with truncation; a failed open may have truncated all the same.    *)
Truncate ==
  /\ pc = "truncate"
  /\ \/ /\ slot' = [slot EXCEPT ![out.slot] = Torn]
        /\ Goto("write") /\ NoFault /\ UNCHANGED callVars
     \/ /\ slot' \in {slot, [slot EXCEPT ![out.slot] = Torn]}
        /\ WriteFails /\ Fault
  /\ UNCHANGED <<domainVars, deletes, uploads>>

Write ==
  /\ pc = "write"
  /\ \/ /\ slot' = [slot EXCEPT ![out.slot] = out.rec]
        /\ Goto("close") /\ NoFault
     \/ Goto("unwrite") /\ Fault /\ UNCHANGED slot
  /\ UNCHANGED <<domainVars, callVars, deletes, uploads>>

Close ==
  /\ pc = "close"
  /\ \/ Goto("load") /\ NoFault
     \/ Goto("unwrite") /\ Fault
  /\ UNCHANGED <<slot, domainVars, callVars, deletes, uploads>>

Unwrite ==
  /\ pc = "unwrite"
  /\ \/ slot' = [slot EXCEPT ![out.slot] = Absent] /\ NoFault
     \/ Fault /\ UNCHANGED slot
  /\ WriteFails
  /\ UNCHANGED <<domainVars, deletes, uploads>>

(* A failed load, slot removal or lookup of the move journal.              *)
IoFails ==
  /\ pc \in {"find", "check", "begin", "reconcile", "load", "cleanup", "cleanup2"}
  /\ Fault
  /\ Return("pending")
  /\ UNCHANGED <<slot, domainVars, deletes, uploads>>

-----------------------------------------------------------------------------
Working ==
  \/ Find \/ Check \/ Begin \/ Reconcile \/ Load
  \/ HideSource \/ PurgeRecents \/ RemoveHiddenSource
  \/ \E part \in Parts : PurgePart(part)
  \/ Cleanup \/ CleanupDone
  \/ Truncate \/ Write \/ Close \/ Unwrite
  \/ IoFails

User ==
  \/ \E p \in Paths : StartDelete(p) \/ Upload(p) \/ OpenBook(p)
  \/ Resume \/ AskFence \/ ShowRecents

Next == Working \/ User \/ Sleep \/ PowerLoss \/ Boot

Spec == Init /\ [][Next]_vars

(* The running call is scheduled, a reader left alone sleeps and is woken. *)
FairSpec == Spec /\ WF_vars(Working) /\ WF_vars(Boot) /\ WF_vars(Sleep)

-----------------------------------------------------------------------------
(***************************************************************************)
(* Properties.                                                             *)
(***************************************************************************)
(* Every variable holds a value of its kind; the sequence number of a      *)
(* record is its phase.                                                    *)
Records == {r \in [kind : {"record"}, seq : Nat, phase : Phases, source : Paths] :
              r.seq = r.phase}
Selections == [slot : Slots, rec : Records] \cup {NoSelection}
Labels == {"off", "idle", "find", "check", "begin", "reconcile", "load", "operate",
           "cleanup", "cleanup2", "truncate", "write", "close", "unwrite"}

TypeOK ==
  /\ slot \in [Slots -> Records \cup {Absent, Torn}]
  /\ file \in [Paths -> {"none", "book", "upload"}]
  /\ hidden \in [Paths -> {"none", "book", "upload", "stray"}]
  /\ state \in [Paths -> SUBSET Parts]
  /\ recents \in [disk : SUBSET Paths, ram : SUBSET Paths]
  /\ presence \in {"lookup", "absent", "starting"}
  /\ pc \in Labels
  /\ sel \in Selections /\ out \in Selections
  /\ steps \in 0..MaxRecoverySteps
  /\ job \in [kind : {"none", "boot"}, path : {NoPath}]
             \cup [kind : {"recover", "delete"}, path : Paths]
  /\ result \in {"none", "nothing", "complete", "pending", "conflict", "invalid"}
  /\ faults \in 0..MaxFaults /\ deletes \in 0..MaxDeletes
  /\ uploads \in 0..MaxUploads

(* The fence never calls the journal absent while a slot exists: a move    *)
(* that relies on it does not start beside a pending deletion.             *)
AbsenceIsKnown == presence = "absent" => JournalEmpty

(* Nothing is hidden, purged or removed but what the journal durably names *)
(* at that moment, whatever other deletion was asked for meanwhile.        *)
OnlyTheNamedSuffer ==
  [][\A p \in Paths :
       \/ file[p] # "none" /\ file'[p] = "none"
       \/ hidden[p] # "none" /\ hidden'[p] = "none"
       \/ ~(state[p] \subseteq state'[p])
       => Selected.slot # NoSlot /\ Selected.rec.source = p]_vars

(* The tombstone is the last of a book to go: once it is gone no reading   *)
(* state and no recent-books entry, on disk or in RAM, names the path.     *)
TombstoneGoesLast ==
  \A p \in Paths : file[p] = "none" /\ hidden[p] \in {"none", "stray"} =>
    state[p] = {} /\ p \notin recents.disk /\ p \notin recents.ram

(* deletePdfBook answers Complete only when the journal, the file, its     *)
(* tombstone, its reading state and its entry among the recent books are   *)
(* all gone; only a file uploaded to the path meanwhile may be there, with *)
(* what reading it has left.                                               *)
Completes == /\ job.kind \in {"recover", "delete"}
             /\ result # "complete" /\ result' = "complete"

CompleteMeansGone ==
  [][Completes =>
       /\ slot' = [s \in Slots |-> Absent]
       /\ hidden'[job.path] = "none" /\ file'[job.path] # "book"
       /\ file'[job.path] = "none" =>
            /\ state'[job.path] = {}
            /\ job.path \notin recents'.disk \cup recents'.ram]_vars

(* A durable deletion whose tombstone is there and whose path was taken    *)
(* again before the hiding was recorded: a conflict every recovery finds.  *)
Blocked(p) ==
  /\ Selected.slot # NoSlot /\ Selected.rec.source = p
  /\ Selected.rec.phase = Prepared
  /\ file[p] # "none" /\ hidden[p] \in {"book", "upload"}

(* Any other durable deletion ends with an empty journal, if faults stop.  *)
DeletionFinishes ==
  Selected # NoSelection ~> JournalEmpty \/ \E p \in Paths : Blocked(p)

(***************************************************************************)
(* The abstract deletion.  A record that writeRecord has not read back yet *)
(* is not durable.                                                         *)
(***************************************************************************)
Doomed(p) ==
  /\ Selected.slot # NoSlot /\ Selected.rec.source = p
  /\ Selected.rec.phase = Prepared
  /\ ~(pc \in {"close", "unwrite"} /\ out.rec.phase = Prepared)

Promise == INSTANCE AtomicDelete WITH
  status <- [p \in Paths |->
               IF hidden[p] \in {"book", "upload"}
                 THEN IF Blocked(p) THEN "blocked" ELSE "hidden"
               ELSE IF file[p] = "none" THEN "gone"
               ELSE IF Doomed(p) THEN "doomed" ELSE "kept"]

(* The interrupted deletion implements the atomic one, its progress too.   *)
ImplementsAtomicDelete == Promise!Spec

=============================================================================
