--------------------------- MODULE BookMoveProofs ---------------------------
(***************************************************************************)
(* Proofs about BookMove, for every set of paths, every set of cache files *)
(* and every bound: that a book's state is never lost, what a move leaves, *)
(* answers and costs, and that it implements the atomic move.              *)
(***************************************************************************)
EXTENDS BookMove, TLAPS

(***************************************************************************)
(* Where the mutating task stands tells what it works on.                  *)
(***************************************************************************)
Dispatched == {"locate", "rename", "copy", "verify", "recent", "openPath",
               "verifyActivation", "remove", "cleanup", "cleanup2"}
Writing == {"truncate", "write", "close", "unwrite"}

PhasesAt(label) ==
  CASE label \in {"locate", "rename"} -> {Prepared}
    [] label = "copy" -> {SourceMoved, CacheCopied, BookmarksCopied}
    [] label = "verify" -> {ClippingsCopied}
    [] label \in {"recent", "openPath", "verifyActivation"} -> {StateVerified}
    [] label = "remove" -> {Activated}
    [] label \in {"cleanup", "cleanup2"} -> {OldStateRemoved, Abandoned}
    [] OTHER -> {}

JobOK ==
  /\ pc \notin Dispatched \cup Writing => sel = NoSelection
  /\ pc \in {"check", "begin"} => job.kind \in {"recover", "move"}
  /\ pc \notin {"idle", "off"} => job.kind # "none"
  /\ job.kind \in {"recover", "move"} => job.old # job.new
  /\ pc = "begin" => file[job.new] = "none"

(* The selection a dispatched step works on is the newest record on disk.  *)
SelOK ==
  /\ pc \in Dispatched => /\ sel # NoSelection
                          /\ sel.rec.phase \in PhasesAt(pc)
                          /\ Selected = sel
  /\ pc = "rename" => SourceLocation = "oldOnly"
  /\ pc = "cleanup2" => slot[Opposite(sel.slot)] = Absent

(* While a record is written, the slot it does not go to still holds the   *)
(* record it follows.                                                      *)
OutOK ==
  pc \in Writing =>
    /\ out # NoSelection
    /\ sel = NoSelection => out.slot = "A" /\ out.rec.phase = Prepared
                            /\ slot["B"] = Absent
    /\ sel # NoSelection => /\ out.slot = Opposite(sel.slot)
                            /\ slot[sel.slot] = sel.rec
                            /\ out.rec.old = sel.rec.old
                            /\ out.rec.new = sel.rec.new
                            /\ out.rec.seq = sel.rec.seq + 1
    /\ pc = "truncate" => Selected = sel
    /\ pc = "write" => slot[out.slot] = Torn
    /\ pc \in {"close", "unwrite"} => slot[out.slot] \in {Torn, out.rec}

Inv == TypeOK /\ JobOK /\ SelOK /\ OutOK

(* A fresh reader, whatever lies on its card, satisfies the invariant.     *)
THEOREM InitInv == Init => Inv
<1> SUFFICES ASSUME Init PROVE Inv
  OBVIOUS
<1>1. TypeOK
  <2>1. slot \in [Slots -> SlotValues]
    BY DEF Init, SlotValues
  <2>2. file \in [Paths -> {"none", "book", "other"}]
    BY DEF Init
  <2>3. store \in [Paths -> [Parts -> {"none", "own", "alien"}]]
    BY DEF Init
  <2>4. /\ recents \in [disk : SUBSET Paths, ram : SUBSET Paths]
        /\ open \in [disk : Paths, ram : Paths]
    BY DEF Init
  <2>5. /\ pc \in Labels /\ sel \in Selections /\ out \in Selections
        /\ job \in Jobs /\ result \in Results
    BY DEF Init, Labels, Selections, Jobs, NoJob, Job, Results
  <2>6. /\ steps \in 0..MaxRecoverySteps /\ faults \in 0..MaxFaults
        /\ moves \in 0..MaxMoves /\ uploads \in 0..MaxUploads
    BY BoundsAssumption DEF Init, MaxRecoverySteps
  <2> QED
    BY <2>1, <2>2, <2>3, <2>4, <2>5, <2>6 DEF TypeOK
<1>2. JobOK /\ SelOK /\ OutOK
  BY DEF Init, JobOK, SelOK, OutOK, NoJob, Job, Dispatched, Writing
<1> QED
  BY <1>1, <1>2 DEF Inv

(***************************************************************************)
(* Facts about the journal's data.                                         *)
(***************************************************************************)
LEMMA SlotFacts ==
  /\ \A s \in Slots : Opposite(s) \in Slots /\ Opposite(s) # s
  /\ \A s \in Slots : Opposite(Opposite(s)) = s
  /\ NoSelection \in Selections
  /\ \A r \in Records : IsRecord(r) /\ r # Torn /\ r # Absent
  /\ ~IsRecord(Torn) /\ ~IsRecord(Absent)
  /\ \A s \in [slot : Slots, rec : Records] : s # NoSelection
  BY DEF Slots, Opposite, NoSelection, Selections, Records, IsRecord, Torn,
         Absent, Blank, NoSlot

(* Selection is of a slot that holds the record selected.                  *)
LEMMA SelectedIsOnDisk ==
  ASSUME TypeOK
  PROVE  /\ Selected \in Selections
         /\ Selected # NoSelection => /\ Selected.slot \in Slots
                                      /\ Selected.rec \in Records
                                      /\ slot[Selected.slot] = Selected.rec
         /\ Selected = NoSelection => \A s \in Slots : ~IsRecord(slot[s])
  BY SlotFacts DEF TypeOK, Selected, Select, Selections, SlotValues, Slots,
         IsRecord, NoSelection, Records, Absent, Torn, Blank

(* What is left when a call returns.                                       *)
LEMMA ReturnOK ==
  ASSUME Inv, NEW res \in Results, Return(res)
  PROVE  /\ sel' \in Selections /\ out' \in Selections /\ pc' \in Labels
         /\ job' \in Jobs /\ result' \in Results
         /\ steps' \in 0..MaxRecoverySteps
         /\ JobOK' /\ SelOK' /\ OutOK'
<1>1. /\ sel' = NoSelection /\ out' = NoSelection /\ steps' = 0
      /\ \/ pc' = "check" /\ UNCHANGED <<job, result>> /\ job.kind = "recover"
         \/ pc' = "idle" /\ job' = NoJob /\ result' = res
  BY DEF Return
<1>2. /\ sel' \in Selections /\ out' \in Selections
      /\ steps' \in 0..MaxRecoverySteps /\ pc' \in Labels
  BY <1>1, SlotFacts DEF Labels, MaxRecoverySteps
<1>3. job' \in Jobs /\ result' \in Results
  <2>1. NoJob \in Jobs
    BY DEF NoJob, Job, Jobs
  <2>2. job \in Jobs /\ result \in Results
    BY DEF Inv, TypeOK
  <2> QED
    BY <1>1, <2>1, <2>2
<1>4. JobOK'
  BY <1>1 DEF Inv, JobOK, NoJob, Job, Dispatched, Writing
<1>5. SelOK' /\ OutOK'
  BY <1>1 DEF SelOK, OutOK, Dispatched, Writing
<1> QED
  BY <1>2, <1>3, <1>4, <1>5

(* What is left when the next phase is about to be written.                *)
LEMMA AdvanceOK ==
  ASSUME Inv, NEW phase \in Phases, Advance(phase), slot' = slot,
         pc \in Dispatched,
         SequenceOf(phase) = SequenceOf(sel.rec.phase) + 1
  PROVE  /\ sel' \in Selections /\ out' \in Selections /\ pc' \in Labels
         /\ job' \in Jobs /\ result' \in Results
         /\ steps' \in 0..MaxRecoverySteps
         /\ JobOK' /\ SelOK' /\ OutOK'
<1>1. sel # NoSelection /\ sel \in [slot : Slots, rec : Records]
  BY DEF Inv, SelOK, TypeOK, Selections
<1>2. Selected = sel /\ slot[sel.slot] = sel.rec
  BY <1>1, SelectedIsOnDisk DEF Inv, SelOK
<1>3. out' \in [slot : Slots, rec : Records]
  BY <1>1, SlotFacts DEF Advance, AdvanceTarget, Record, Records
<1>4. Selected' = Selected
  BY DEF Selected
<1>5. /\ out'.slot = Opposite(sel.slot) /\ out'.rec.old = sel.rec.old
      /\ out'.rec.new = sel.rec.new /\ out'.rec.seq = sel.rec.seq + 1
  BY DEF Advance, AdvanceTarget, Record
<1>6. pc' = "truncate" /\ UNCHANGED <<job, result, sel, steps>>
  BY DEF Advance, Goto
<1>7. job' \in Jobs /\ result' \in Results /\ sel' \in Selections
      /\ steps' \in 0..MaxRecoverySteps
  BY <1>6 DEF Inv, TypeOK
<1>8. out' \in Selections /\ out' # NoSelection
  BY <1>3, SlotFacts DEF Selections
<1>9. JobOK'
  BY <1>6 DEF Inv, JobOK, Dispatched, Writing
<1>10. SelOK' /\ OutOK'
  BY <1>1, <1>2, <1>4, <1>5, <1>6, <1>8 DEF SelOK, OutOK, Dispatched, Writing
<1> QED
  BY <1>6, <1>7, <1>8, <1>9, <1>10 DEF Labels

-----------------------------------------------------------------------------
(***************************************************************************)
(* Every step keeps Inv.  DomainOK is what a step says of the variables it *)
(* changes outside the call.                                               *)
(***************************************************************************)
DomainOK ==
  /\ slot \in [Slots -> SlotValues]
  /\ file \in [Paths -> {"none", "book", "other"}]
  /\ store \in [Paths -> [Parts -> {"none", "own", "alien"}]]
  /\ recents \in [disk : SUBSET Paths, ram : SUBSET Paths]
  /\ open \in [disk : Paths, ram : Paths]
  /\ faults \in 0..MaxFaults /\ moves \in 0..MaxMoves
  /\ uploads \in 0..MaxUploads

LEMMA FaultOK ==
  ASSUME TypeOK, Fault \/ NoFault
  PROVE  faults' \in 0..MaxFaults
  BY BoundsAssumption DEF TypeOK, Fault, NoFault

LEMMA StartMoveInv ==
  ASSUME Inv, NEW o \in Paths, NEW n \in Paths, NEW keep \in BOOLEAN,
         StartMove(o, n, keep)
  PROVE  Inv'
<1>1. DomainOK'
  BY BoundsAssumption DEF Inv, TypeOK, StartMove, DomainOK, journalVars, domainVars
<1>2. job' \in Jobs /\ result' \in Results
  BY DEF StartMove, Job, Jobs, Results
<1>3. pc' \in Labels
  BY DEF StartMove, Labels
<1>4. JobOK' /\ SelOK' /\ OutOK'
  BY DEF Inv, StartMove, Job, JobOK, SelOK, OutOK, Dispatched, Writing
<1> QED
  BY <1>1, <1>2, <1>3, <1>4 DEF Inv, TypeOK, DomainOK, StartMove, journalVars

LEMMA UploadInv ==
  ASSUME Inv, NEW p \in Paths, Upload(p)
  PROVE  Inv'
<1>1. DomainOK'
  <2>1. store' \in [Paths -> [Parts -> {"none", "own", "alien"}]]
    BY DEF Inv, TypeOK, Upload
  <2> QED
    BY <2>1, BoundsAssumption DEF Inv, TypeOK, Upload, DomainOK, journalVars
<1>2. JobOK' /\ SelOK' /\ OutOK'
  BY DEF Inv, Upload, callVars, JobOK, SelOK, OutOK, Dispatched, Writing
<1> QED
  BY <1>1, <1>2 DEF Inv, TypeOK, DomainOK, Upload, journalVars, callVars

LEMMA OpenBookInv ==
  ASSUME Inv, NEW p \in Paths, OpenBook(p)
  PROVE  Inv'
<1>1. DomainOK'
  <2>1. store' \in [Paths -> [Parts -> {"none", "own", "alien"}]]
    BY DEF Inv, TypeOK, OpenBook
  <2>2. Listed \subseteq Paths
    BY DEF Inv, TypeOK, Listed
  <2> QED
    BY <2>1, <2>2 DEF Inv, TypeOK, OpenBook, DomainOK, journalVars, boundVars
<1>2. JobOK' /\ SelOK' /\ OutOK'
  BY DEF Inv, OpenBook, callVars, JobOK, SelOK, OutOK, Dispatched, Writing
<1> QED
  BY <1>1, <1>2 DEF Inv, TypeOK, DomainOK, OpenBook, journalVars, callVars

LEMMA ShowRecentsInv == Inv /\ ShowRecents => Inv'
<1> SUFFICES ASSUME Inv, ShowRecents PROVE Inv'
  OBVIOUS
<1>1. DomainOK'
  <2>1. Listed \subseteq Paths
    BY DEF Inv, TypeOK, Listed
  <2> QED
    BY <2>1 DEF Inv, TypeOK, ShowRecents, DomainOK, journalVars, boundVars
<1>2. JobOK' /\ SelOK' /\ OutOK'
  BY DEF Inv, ShowRecents, callVars, JobOK, SelOK, OutOK, Dispatched, Writing
<1> QED
  BY <1>1, <1>2 DEF Inv, TypeOK, DomainOK, ShowRecents, journalVars, callVars

LEMMA SleepInv == Inv /\ Sleep => Inv'
<1> SUFFICES ASSUME Inv, Sleep PROVE Inv'
  OBVIOUS
<1>1. DomainOK' /\ pc' \in Labels
  BY DEF Inv, TypeOK, Sleep, DomainOK, Labels, journalVars, domainVars, boundVars
<1>2. JobOK' /\ SelOK' /\ OutOK'
  BY DEF Inv, Sleep, callVars, JobOK, SelOK, OutOK, Dispatched, Writing
<1> QED
  BY <1>1, <1>2 DEF Inv, TypeOK, DomainOK, Sleep, journalVars, callVars

LEMMA PowerLossInv == Inv /\ PowerLoss => Inv'
<1> SUFFICES ASSUME Inv, PowerLoss PROVE Inv'
  OBVIOUS
<1>1. DomainOK' /\ pc' \in Labels
  BY FaultOK DEF Inv, TypeOK, PowerLoss, DomainOK, Labels, domainVars
<1>2. /\ sel' \in Selections /\ out' \in Selections /\ job' \in Jobs
      /\ steps' \in 0..MaxRecoverySteps /\ result' \in Results
  BY SlotFacts DEF PowerLoss, NoJob, Job, Jobs, MaxRecoverySteps, Results
<1>3. JobOK' /\ SelOK' /\ OutOK'
  BY DEF PowerLoss, NoJob, Job, JobOK, SelOK, OutOK, Dispatched, Writing
<1> QED
  BY <1>1, <1>2, <1>3 DEF Inv, TypeOK, DomainOK

LEMMA BootInv == Inv /\ Boot => Inv'
<1> SUFFICES ASSUME Inv, Boot PROVE Inv'
  OBVIOUS
<1>1. DomainOK' /\ pc' \in Labels
  BY DEF Inv, TypeOK, Boot, DomainOK, Labels, journalVars, boundVars
<1>2. job' \in Jobs /\ result' \in Results
  BY DEF Boot, Job, Jobs, Results
<1>3. JobOK' /\ SelOK' /\ OutOK'
  BY DEF Inv, Boot, Job, JobOK, SelOK, OutOK, Dispatched, Writing
<1> QED
  BY <1>1, <1>2, <1>3 DEF Inv, TypeOK, DomainOK, Boot, journalVars

LEMMA LoadInv == Inv /\ Load => Inv'
<1> SUFFICES ASSUME Inv, Load PROVE Inv'
  OBVIOUS
<1>1. DomainOK'
  BY DEF Inv, TypeOK, Load, DomainOK, domainVars, boundVars
<1>2. CASE \E res \in Results : Return(res)
  BY <1>1, <1>2, ReturnOK DEF Inv, TypeOK, DomainOK
<1>3. CASE /\ ~(Corrupt(slot["A"], slot["B"]) \/ steps = MaxRecoverySteps)
           /\ Selected # NoSelection
  <2>1. /\ sel' = Selected /\ steps' = steps + 1 /\ out' = out
        /\ pc' = StageOf(Selected.rec.phase) /\ UNCHANGED <<job, result>>
        /\ slot' = slot
    BY <1>3 DEF Load, Goto
  <2>2. /\ Selected \in Selections /\ Selected.rec \in Records
        /\ Selected.rec.phase \in Phases
    BY <1>3, SelectedIsOnDisk DEF Inv, Records
  <2>3. pc' \in Dispatched /\ Selected.rec.phase \in PhasesAt(pc')
        /\ pc' \notin {"rename", "cleanup2"}
    BY <2>1, <2>2 DEF StageOf, Dispatched, PhasesAt, Phases, Prepared,
       SourceMoved, CacheCopied, BookmarksCopied, ClippingsCopied,
       StateVerified, Activated, OldStateRemoved, Abandoned
  <2>4. steps' \in 0..MaxRecoverySteps
    BY <1>3, <2>1 DEF Inv, TypeOK, MaxRecoverySteps
  <2>5. JobOK'
    BY <2>1, <2>3 DEF Inv, JobOK, Dispatched, Load, Writing
  <2>6. Selected' = Selected
    BY <2>1 DEF Selected
  <2>7. SelOK' /\ OutOK'
    BY <1>3, <2>1, <2>3, <2>6 DEF SelOK, OutOK, Dispatched, Writing
  <2> QED
    BY <1>1, <2>1, <2>2, <2>3, <2>4, <2>5, <2>7
       DEF Inv, TypeOK, DomainOK, Dispatched, Labels
<1> QED
  BY <1>2, <1>3 DEF Load, Results

LEMMA LocateInv == Inv /\ Locate => Inv'
<1> SUFFICES ASSUME Inv, Locate PROVE Inv'
  OBVIOUS
<1>1. DomainOK' /\ slot' = slot /\ file' = file
  BY DEF Inv, TypeOK, Locate, DomainOK, domainVars, boundVars
<1>2. sel.rec.phase = Prepared /\ Selected = sel /\ sel # NoSelection
  BY DEF Inv, SelOK, Locate, Dispatched, PhasesAt
<1>3. CASE \E res \in Results : Return(res)
  BY <1>1, <1>3, ReturnOK DEF Inv, TypeOK, DomainOK
<1>4. CASE Advance(SourceMoved)
  <2>1. SourceMoved \in Phases /\ SequenceOf(SourceMoved) = SequenceOf(sel.rec.phase) + 1
    BY <1>2 DEF SourceMoved, Prepared, SequenceOf, Abandoned, Phases
  <2> QED
    BY <1>1, <1>4, <2>1, AdvanceOK DEF Inv, TypeOK, DomainOK, Locate, Dispatched
<1>5. CASE SourceLocation = "oldOnly" /\ Goto("rename") /\ UNCHANGED <<sel, steps, out>>
  <2>1. Selected' = Selected /\ SourceLocation' = SourceLocation
    BY <1>1, <1>5 DEF Selected, SourceLocation, Location
  <2>2. JobOK' /\ SelOK' /\ OutOK'
    BY <1>1, <1>2, <1>5, <2>1
       DEF Inv, Locate, Goto, JobOK, SelOK, OutOK, Dispatched, Writing, PhasesAt
  <2> QED
    BY <1>1, <1>5, <2>2 DEF Inv, TypeOK, DomainOK, Goto, Labels
<1> QED
  BY <1>3, <1>4, <1>5 DEF Locate, SourceLocation, Location, Results

LEMMA RenameSourceInv == Inv /\ RenameSource => Inv'
<1> SUFFICES ASSUME Inv, RenameSource PROVE Inv'
  OBVIOUS
<1>1. sel.rec.phase = Prepared /\ sel # NoSelection /\ sel \in Selections
  BY DEF Inv, TypeOK, SelOK, RenameSource, Dispatched, PhasesAt
<1>2. sel.rec.old \in Paths /\ sel.rec.new \in Paths
  BY <1>1 DEF Selections, Records
<1>3. DomainOK' /\ slot' = slot
  BY <1>2 DEF Inv, TypeOK, RenameSource, DomainOK, boundVars
<1>4. SourceMoved \in Phases /\ SequenceOf(SourceMoved) = SequenceOf(sel.rec.phase) + 1
  BY <1>1 DEF SourceMoved, Prepared, SequenceOf, Abandoned, Phases
<1> QED
  BY <1>3, <1>4, AdvanceOK DEF Inv, TypeOK, DomainOK, RenameSource, Dispatched

LEMMA RenameFailsInv == Inv /\ RenameFails => Inv'
<1> SUFFICES ASSUME Inv, RenameFails PROVE Inv'
  OBVIOUS
<1>1. sel.rec.phase = Prepared
  BY DEF Inv, SelOK, RenameFails, Dispatched, PhasesAt
<1>2. DomainOK' /\ slot' = slot
  BY FaultOK DEF Inv, TypeOK, RenameFails, DomainOK, domainVars
<1>3. Abandoned \in Phases /\ SequenceOf(Abandoned) = SequenceOf(sel.rec.phase) + 1
  BY <1>1 DEF Prepared, SequenceOf, Abandoned, Phases
<1> QED
  BY <1>2, <1>3, AdvanceOK DEF Inv, TypeOK, DomainOK, RenameFails, Dispatched

(* A step that changes only state the call works on.                       *)
LEMMA WorkOK ==
  ASSUME Inv, DomainOK', pc \in Dispatched, pc # "rename",
         UNCHANGED <<journalVars, pc, callVars>>
  PROVE  Inv'
<1>1. Selected' = Selected
  BY DEF Selected, journalVars
<1>2. JobOK' /\ SelOK' /\ OutOK'
  BY <1>1 DEF Inv, JobOK, SelOK, OutOK, Dispatched, Writing, callVars, journalVars
<1> QED
  BY <1>2 DEF Inv, TypeOK, DomainOK, callVars, journalVars

(* The selection of a dispatched step is a record.                         *)
LEMMA SelRecord ==
  ASSUME Inv, pc \in Dispatched
  PROVE  /\ sel \in [slot : Slots, rec : Records]
         /\ sel.rec \in Records
         /\ sel.rec.old \in Paths /\ sel.rec.new \in Paths
         /\ sel.rec.phase \in PhasesAt(pc) /\ sel.rec.phase \in Phases
         /\ sel.rec.seq = SequenceOf(sel.rec.phase)
         /\ slot[sel.slot] = sel.rec
<1>1. sel \in [slot : Slots, rec : Records] /\ Selected = sel /\ sel # NoSelection
  BY DEF Inv, TypeOK, SelOK, Selections
<1>2. slot[sel.slot] = sel.rec
  BY <1>1, SelectedIsOnDisk DEF Inv
<1> QED
  BY <1>1, <1>2 DEF Inv, SelOK, Records

LEMMA CopyPartInv ==
  ASSUME Inv, NEW x \in Parts, CopyPart(x)
  PROVE  Inv'
<1>1. sel.rec.old \in Paths /\ sel.rec.new \in Paths
  BY SelRecord DEF CopyPart, Dispatched
<1>2. store' \in [Paths -> [Parts -> {"none", "own", "alien"}]]
  BY <1>1 DEF Inv, TypeOK, CopyPart
<1>3. DomainOK'
  BY <1>2 DEF Inv, TypeOK, CopyPart, DomainOK, journalVars, boundVars
<1> QED
  BY <1>3, WorkOK DEF CopyPart, Dispatched

LEMMA CopyPartFailsInv ==
  ASSUME Inv, NEW x \in Parts, CopyPartFails(x)
  PROVE  Inv'
<1>1. sel.rec.old \in Paths /\ sel.rec.new \in Paths
  BY SelRecord DEF CopyPartFails, Dispatched
<1>2. store' \in [Paths -> [Parts -> {"none", "own", "alien"}]]
  BY <1>1 DEF Inv, TypeOK, CopyPartFails
<1>3. DomainOK'
  BY <1>2, FaultOK DEF Inv, TypeOK, CopyPartFails, DomainOK
<1> QED
  BY <1>3, ReturnOK DEF Inv, TypeOK, DomainOK, CopyPartFails, Results

LEMMA CopyDoneInv == Inv /\ CopyDone => Inv'
<1> SUFFICES ASSUME Inv, CopyDone PROVE Inv'
  OBVIOUS
<1>1. DomainOK' /\ slot' = slot
  BY DEF Inv, TypeOK, CopyDone, DomainOK, domainVars, boundVars
<1>2. sel.rec.phase \in {SourceMoved, CacheCopied, BookmarksCopied}
  BY SelRecord DEF CopyDone, Dispatched, PhasesAt
<1>3. /\ sel.rec.phase + 1 \in Phases
      /\ SequenceOf(sel.rec.phase + 1) = SequenceOf(sel.rec.phase) + 1
  BY <1>2 DEF SourceMoved, CacheCopied, BookmarksCopied, SequenceOf, Abandoned, Phases
<1> QED
  BY <1>1, <1>3, AdvanceOK DEF Inv, TypeOK, DomainOK, CopyDone, Dispatched

LEMMA VerifyStateInv == Inv /\ VerifyState => Inv'
<1> SUFFICES ASSUME Inv, VerifyState PROVE Inv'
  OBVIOUS
<1>1. DomainOK' /\ slot' = slot
  BY DEF Inv, TypeOK, VerifyState, DomainOK, domainVars, boundVars
<1>2. sel.rec.phase = ClippingsCopied
  BY SelRecord DEF VerifyState, Dispatched, PhasesAt
<1>3. /\ StateVerified \in Phases
      /\ SequenceOf(StateVerified) = SequenceOf(sel.rec.phase) + 1
  BY <1>2 DEF StateVerified, ClippingsCopied, SequenceOf, Abandoned, Phases
<1>4. CASE Return("pending")
  BY <1>1, <1>4, ReturnOK DEF Inv, TypeOK, DomainOK, Results
<1>5. CASE Advance(StateVerified)
  BY <1>1, <1>3, <1>5, AdvanceOK DEF Inv, TypeOK, DomainOK, VerifyState, Dispatched
<1> QED
  BY <1>4, <1>5 DEF VerifyState

(* A step that goes on to another step of the same phase.                  *)
LEMMA StageOK ==
  ASSUME Inv, DomainOK', pc \in Dispatched, slot' = slot,
         pc' \in Dispatched \ {"rename", "cleanup2"}, PhasesAt(pc') = PhasesAt(pc),
         UNCHANGED <<job, result, sel, steps, out>>
  PROVE  Inv'
<1>1. Selected' = Selected
  BY DEF Selected
<1>2. JobOK' /\ SelOK' /\ OutOK'
  BY <1>1 DEF Inv, JobOK, SelOK, OutOK, Dispatched, Writing
<1> QED
  BY <1>2 DEF Inv, TypeOK, DomainOK, Dispatched, Labels

LEMMA ActivateRecentInv == Inv /\ ActivateRecent => Inv'
<1> SUFFICES ASSUME Inv, ActivateRecent PROVE Inv'
  OBVIOUS
<1>1. sel.rec.old \in Paths /\ sel.rec.new \in Paths
  BY SelRecord DEF ActivateRecent, Dispatched
<1>2. MigrateRecents(recents.ram, sel.rec) \in SUBSET Paths
  BY <1>1 DEF Inv, TypeOK, MigrateRecents
<1>3. recents' \in [disk : SUBSET Paths, ram : SUBSET Paths]
  BY <1>2 DEF Inv, TypeOK, ActivateRecent
<1>4. DomainOK' /\ slot' = slot
  BY <1>3, FaultOK DEF Inv, TypeOK, ActivateRecent, DomainOK
<1>5. CASE Return("pending")
  BY <1>4, <1>5, ReturnOK DEF Inv, TypeOK, DomainOK, Results
<1>6. CASE Goto("openPath") /\ UNCHANGED <<sel, steps, out>>
  BY <1>4, <1>6, StageOK DEF ActivateRecent, Goto, Dispatched, PhasesAt
<1> QED
  BY <1>5, <1>6 DEF ActivateRecent

LEMMA ActivateOpenPathInv == Inv /\ ActivateOpenPath => Inv'
<1> SUFFICES ASSUME Inv, ActivateOpenPath PROVE Inv'
  OBVIOUS
<1>1. sel.rec.old \in Paths /\ sel.rec.new \in Paths
  BY SelRecord DEF ActivateOpenPath, Dispatched
<1>2. MigrateOpen(open.ram, sel.rec) \in Paths
  BY <1>1 DEF Inv, TypeOK, MigrateOpen
<1>3. open' \in [disk : Paths, ram : Paths]
  BY <1>2 DEF Inv, TypeOK, ActivateOpenPath
<1>4. DomainOK' /\ slot' = slot
  BY <1>3, FaultOK DEF Inv, TypeOK, ActivateOpenPath, DomainOK
<1>5. CASE Return("pending")
  BY <1>4, <1>5, ReturnOK DEF Inv, TypeOK, DomainOK, Results
<1>6. CASE Goto("verifyActivation") /\ UNCHANGED <<sel, steps, out>>
  BY <1>4, <1>6, StageOK DEF ActivateOpenPath, Goto, Dispatched, PhasesAt
<1> QED
  BY <1>5, <1>6 DEF ActivateOpenPath

LEMMA VerifyActivationInv == Inv /\ VerifyActivation => Inv'
<1> SUFFICES ASSUME Inv, VerifyActivation PROVE Inv'
  OBVIOUS
<1>1. DomainOK' /\ slot' = slot
  BY DEF Inv, TypeOK, VerifyActivation, DomainOK, domainVars, boundVars
<1>2. sel.rec.phase = StateVerified
  BY SelRecord DEF VerifyActivation, Dispatched, PhasesAt
<1>3. /\ Activated \in Phases
      /\ SequenceOf(Activated) = SequenceOf(sel.rec.phase) + 1
  BY <1>2 DEF StateVerified, Activated, SequenceOf, Abandoned, Phases
<1>4. CASE Return("pending")
  BY <1>1, <1>4, ReturnOK DEF Inv, TypeOK, DomainOK, Results
<1>5. CASE Advance(Activated)
  BY <1>1, <1>3, <1>5, AdvanceOK
     DEF Inv, TypeOK, DomainOK, VerifyActivation, Dispatched
<1> QED
  BY <1>4, <1>5 DEF VerifyActivation

LEMMA RemoveOldPartInv ==
  ASSUME Inv, NEW x \in Parts, RemoveOldPart(x)
  PROVE  Inv'
<1>1. sel.rec.old \in Paths
  BY SelRecord DEF RemoveOldPart, Dispatched
<1>2. store' \in [Paths -> [Parts -> {"none", "own", "alien"}]]
  BY <1>1 DEF Inv, TypeOK, RemoveOldPart
<1>3. DomainOK'
  BY <1>2 DEF Inv, TypeOK, RemoveOldPart, DomainOK, journalVars, boundVars
<1> QED
  BY <1>3, WorkOK DEF RemoveOldPart, Dispatched

LEMMA RemoveDoneInv == Inv /\ RemoveDone => Inv'
<1> SUFFICES ASSUME Inv, RemoveDone PROVE Inv'
  OBVIOUS
<1>1. DomainOK' /\ slot' = slot
  BY DEF Inv, TypeOK, RemoveDone, DomainOK, domainVars, boundVars
<1>2. sel.rec.phase = Activated
  BY SelRecord DEF RemoveDone, Dispatched, PhasesAt
<1>3. /\ OldStateRemoved \in Phases
      /\ SequenceOf(OldStateRemoved) = SequenceOf(sel.rec.phase) + 1
  BY <1>2 DEF OldStateRemoved, Activated, SequenceOf, Abandoned, Phases
<1> QED
  BY <1>1, <1>3, AdvanceOK DEF Inv, TypeOK, DomainOK, RemoveDone, Dispatched

(* A record alone, or beside no other record, is the one selected.         *)
LEMMA SelectAlone ==
  ASSUME TypeOK, NEW s \in Slots, IsRecord(slot[s]), ~IsRecord(slot[Opposite(s)])
  PROVE  Selected = [slot |-> s, rec |-> slot[s]]
  BY DEF Slots, Opposite, Selected, Select

LEMMA CleanupInv == Inv /\ Cleanup => Inv'
<1> SUFFICES ASSUME Inv, Cleanup PROVE Inv'
  OBVIOUS
<1>1. /\ sel \in [slot : Slots, rec : Records] /\ slot[sel.slot] = sel.rec
      /\ sel.rec \in Records
  BY SelRecord DEF Cleanup, Dispatched
<1>2. /\ slot' = [slot EXCEPT ![Opposite(sel.slot)] = Absent]
      /\ Opposite(sel.slot) \in Slots /\ Opposite(sel.slot) # sel.slot
  BY <1>1, SlotFacts DEF Cleanup, FirstRemoved
<1>3. slot' \in [Slots -> SlotValues]
  BY <1>2 DEF Inv, TypeOK, SlotValues
<1>4. DomainOK' /\ TypeOK'
  BY <1>3 DEF Inv, TypeOK, Cleanup, Goto, DomainOK, Labels, domainVars, boundVars
<1>5. slot'[sel.slot] = sel.rec /\ slot'[Opposite(sel.slot)] = Absent
  BY <1>1, <1>2 DEF Inv, TypeOK
<1>6. IsRecord(slot'[sel.slot]) /\ ~IsRecord(slot'[Opposite(sel.slot)])
  BY <1>1, <1>5, SlotFacts
<1>7. Selected' = [slot |-> sel.slot, rec |-> sel.rec]
  BY <1>1, <1>4, <1>5, <1>6, SelectAlone DEF Slots, Opposite, Selected, Select
<1>8. Selected' = sel
  BY <1>1, <1>7
<1>9. JobOK' /\ SelOK' /\ OutOK'
  BY <1>5, <1>8 DEF Inv, Cleanup, Goto, JobOK, SelOK, OutOK, Dispatched, Writing, PhasesAt
<1> QED
  BY <1>4, <1>9 DEF Inv

LEMMA CleanupDoneInv == Inv /\ CleanupDone => Inv'
<1> SUFFICES ASSUME Inv, CleanupDone PROVE Inv'
  OBVIOUS
<1>1. slot' \in [Slots -> SlotValues]
  BY DEF Inv, TypeOK, CleanupDone, SlotValues
<1>2. DomainOK'
  BY <1>1 DEF Inv, TypeOK, CleanupDone, DomainOK, domainVars, boundVars
<1>3. \E res \in Results : Return(res)
  BY DEF CleanupDone, Results
<1> QED
  BY <1>2, <1>3, ReturnOK DEF Inv, TypeOK, DomainOK

LEMMA CheckInv == Inv /\ Check => Inv'
<1> SUFFICES ASSUME Inv, Check PROVE Inv'
  OBVIOUS
<1>1. DomainOK' /\ slot' = slot /\ file' = file
  BY DEF Inv, TypeOK, Check, DomainOK, domainVars, boundVars
<1>2. CASE \E res \in Results : Return(res)
  BY <1>1, <1>2, ReturnOK DEF Inv, TypeOK, DomainOK
<1>3. CASE /\ Location(job.old, job.new) = "oldOnly"
           /\ pc' = "begin" /\ job' = [job EXCEPT !.kind = "move"]
           /\ UNCHANGED <<sel, steps, out, result>>
  <2>1. job.kind \in {"recover", "move"} /\ job.old # job.new
    BY DEF Inv, JobOK, Check, Dispatched, Writing
  <2>2. job \in [kind : {"recover", "move"}, old : Paths, new : Paths, keep : BOOLEAN]
    BY <2>1 DEF Inv, TypeOK, Jobs
  <2>3. job' \in Jobs /\ job'.old # job'.new /\ job'.kind = "move"
        /\ job'.new = job.new
    BY <1>3, <2>1, <2>2 DEF Jobs
  <2>4. file[job.new] = "none"
    BY <1>3 DEF Location
  <2>5. JobOK' /\ SelOK' /\ OutOK'
    BY <1>1, <1>3, <2>3, <2>4
       DEF Inv, Check, JobOK, SelOK, OutOK, Dispatched, Writing
  <2> QED
    BY <1>1, <1>3, <2>3, <2>5 DEF Inv, TypeOK, DomainOK, Labels
<1> QED
  BY <1>2, <1>3 DEF Check, Location, Results

LEMMA BeginInv == Inv /\ Begin => Inv'
<1> SUFFICES ASSUME Inv, Begin PROVE Inv'
  OBVIOUS
<1>1. DomainOK' /\ slot' = slot
  BY DEF Inv, TypeOK, Begin, DomainOK, domainVars, boundVars
<1>2. CASE \E res \in Results : Return(res)
  BY <1>1, <1>2, ReturnOK DEF Inv, TypeOK, DomainOK
<1>3. CASE /\ ~Corrupt(slot["A"], slot["B"]) /\ Selected = NoSelection
           /\ out' = [slot |-> "A",
                      rec |-> Record(1, Prepared, job.old, job.new, job.keep)]
           /\ Goto("truncate")
           /\ UNCHANGED <<sel, steps>>
  <2>1. job \in [kind : {"recover", "move"}, old : Paths, new : Paths, keep : BOOLEAN]
    BY DEF Inv, TypeOK, Jobs, JobOK, Begin, Dispatched, Writing
  <2>2. out'.rec \in Records
    BY <1>3, <2>1 DEF Record, Records, Prepared, Phases, SequenceOf, Abandoned
  <2>3. out' \in Selections /\ out' # NoSelection
    BY <1>3, <2>2, SlotFacts DEF Selections, Slots
  <2>4. slot["A"] = Absent /\ slot["B"] = Absent
    BY <1>3, SelectedIsOnDisk DEF Inv, Corrupt, Slots
  <2>5. sel = NoSelection => Selected' = NoSelection
    BY <1>1, <1>3 DEF Selected
  <2>6. sel = NoSelection
    BY DEF Inv, JobOK, Begin, Dispatched, Writing
  <2>7. JobOK' /\ SelOK' /\ OutOK'
    <3>1. JobOK'
      BY <1>1, <1>3 DEF Inv, Begin, Goto, JobOK, Dispatched, Writing
    <3>2. SelOK'
      BY <1>3 DEF Goto, SelOK, Dispatched
    <3>3. OutOK'
      BY <1>1, <1>3, <2>3, <2>4, <2>5, <2>6 DEF Goto, Record, OutOK, Writing
    <3> QED
      BY <3>1, <3>2, <3>3
  <2> QED
    BY <1>1, <1>3, <2>3, <2>7 DEF Inv, TypeOK, DomainOK, Goto, Labels
<1> QED
  BY <1>2, <1>3 DEF Begin, Results

(* The record being written goes to a slot other than the selection's.     *)
LEMMA OutRecord ==
  ASSUME Inv, pc \in Writing
  PROVE  /\ out \in [slot : Slots, rec : Records] /\ out.rec \in Records
         /\ sel # NoSelection => /\ sel \in [slot : Slots, rec : Records]
                                 /\ sel.slot = Opposite(out.slot)
                                 /\ sel.slot # out.slot
                                 /\ slot[sel.slot] = sel.rec
  BY SlotFacts DEF Inv, TypeOK, OutOK, Selections, Slots, Opposite

LEMMA TruncateInv == Inv /\ Truncate => Inv'
<1> SUFFICES ASSUME Inv, Truncate PROVE Inv'
  OBVIOUS
<1>1. pc \in Writing /\ pc' = "write" /\ UNCHANGED <<job, result, sel, steps, out>>
  BY DEF Truncate, Goto, Writing
<1>2. slot' = [slot EXCEPT ![out.slot] = Torn] /\ slot' \in [Slots -> SlotValues]
  BY <1>1, OutRecord DEF Inv, TypeOK, Truncate, SlotValues
<1>3. DomainOK' /\ TypeOK'
  BY <1>1, <1>2 DEF Inv, TypeOK, Truncate, DomainOK, Labels, domainVars, boundVars
<1>4. JobOK' /\ SelOK'
  BY <1>1 DEF Inv, JobOK, SelOK, Dispatched, Writing
<1>5. OutOK'
  BY <1>1, <1>2, OutRecord DEF Inv, TypeOK, OutOK, Writing, Slots
<1> QED
  BY <1>3, <1>4, <1>5 DEF Inv

LEMMA WriteInv == Inv /\ Write => Inv'
<1> SUFFICES ASSUME Inv, Write PROVE Inv'
  OBVIOUS
<1>1. /\ pc \in Writing /\ pc' \in {"close", "unwrite"}
      /\ UNCHANGED <<job, result, sel, steps, out>>
  BY DEF Write, Goto, Writing
<1>2. /\ slot' \in [Slots -> SlotValues]
      /\ slot' = slot \/ slot' = [slot EXCEPT ![out.slot] = out.rec]
  BY <1>1, OutRecord DEF Inv, TypeOK, Write, SlotValues
<1>3. DomainOK' /\ TypeOK'
  BY <1>1, <1>2, FaultOK
     DEF Inv, TypeOK, Write, DomainOK, Labels, domainVars, boundVars
<1>4. JobOK' /\ SelOK'
  BY <1>1 DEF Inv, JobOK, SelOK, Dispatched, Writing
<1>5. OutOK'
  BY <1>1, <1>2, OutRecord DEF Inv, TypeOK, OutOK, Write, Writing, Slots
<1> QED
  BY <1>3, <1>4, <1>5 DEF Inv

LEMMA CloseInv == Inv /\ Close => Inv'
<1> SUFFICES ASSUME Inv, Close PROVE Inv'
  OBVIOUS
<1>1. DomainOK' /\ slot' = slot /\ pc \in Writing
  BY FaultOK DEF Inv, TypeOK, Close, DomainOK, domainVars, Writing
<1>2. CASE Return("pending")
  BY <1>1, <1>2, ReturnOK DEF Inv, TypeOK, DomainOK, Results
<1>3. CASE Goto("load") /\ sel' = NoSelection /\ out' = NoSelection /\ UNCHANGED steps
  <2>1. JobOK' /\ SelOK' /\ OutOK'
    BY <1>1, <1>3 DEF Inv, Goto, JobOK, SelOK, OutOK, Dispatched, Writing
  <2> QED
    BY <1>1, <1>3, <2>1, SlotFacts DEF Inv, TypeOK, DomainOK, Goto, Labels
<1>4. CASE Goto("unwrite") /\ UNCHANGED <<sel, steps, out>>
  <2>1. JobOK' /\ SelOK' /\ OutOK'
    BY <1>1, <1>4 DEF Inv, Goto, Close, JobOK, SelOK, OutOK, Dispatched, Writing
  <2> QED
    BY <1>1, <1>4, <2>1 DEF Inv, TypeOK, DomainOK, Goto, Labels
<1> QED
  BY <1>2, <1>3, <1>4 DEF Close

LEMMA UnwriteInv == Inv /\ Unwrite => Inv'
<1> SUFFICES ASSUME Inv, Unwrite PROVE Inv'
  OBVIOUS
<1>1. slot' \in [Slots -> SlotValues]
  BY OutRecord DEF Inv, TypeOK, Unwrite, Writing, SlotValues
<1>2. DomainOK'
  BY <1>1, FaultOK DEF Inv, TypeOK, Unwrite, DomainOK, domainVars
<1> QED
  BY <1>2, ReturnOK DEF Inv, TypeOK, DomainOK, Unwrite, Results

LEMMA IoFailsInv == Inv /\ IoFails => Inv'
<1> SUFFICES ASSUME Inv, IoFails PROVE Inv'
  OBVIOUS
<1>1. DomainOK'
  BY FaultOK DEF Inv, TypeOK, IoFails, DomainOK, domainVars
<1> QED
  BY <1>1, ReturnOK DEF Inv, TypeOK, DomainOK, IoFails, Results

LEMMA StutterInv == Inv /\ UNCHANGED vars => Inv'
<1> SUFFICES ASSUME Inv, UNCHANGED vars PROVE Inv'
  OBVIOUS
<1>1. TypeOK'
  BY DEF Inv, TypeOK, vars, journalVars, domainVars, callVars, boundVars
<1>2. Selected' = Selected /\ SourceLocation' = SourceLocation
  BY DEF Selected, SourceLocation, Location, vars, journalVars, domainVars, callVars
<1>3. JobOK' /\ SelOK' /\ OutOK'
  BY <1>2 DEF Inv, JobOK, SelOK, OutOK, vars, journalVars, domainVars, callVars,
              Dispatched, Writing
<1> QED
  BY <1>1, <1>3 DEF Inv

(* Every step of a move, of the user and of a power loss keeps it.         *)
THEOREM StepInv == Inv /\ [Next]_vars => Inv'
<1> SUFFICES ASSUME Inv, [Next]_vars PROVE Inv'
  OBVIOUS
<1>1. CASE Working
  BY <1>1, LoadInv, LocateInv, RenameSourceInv, RenameFailsInv, CopyPartInv,
     CopyPartFailsInv, RemoveOldPartInv, CopyDoneInv, VerifyStateInv,
     ActivateRecentInv, ActivateOpenPathInv, VerifyActivationInv, RemoveDoneInv,
     CleanupInv, CleanupDoneInv, CheckInv, BeginInv, TruncateInv, WriteInv,
     CloseInv, UnwriteInv, IoFailsInv
     DEF Working
<1>2. CASE User
  BY <1>2, StartMoveInv, UploadInv, OpenBookInv, ShowRecentsInv DEF User
<1>3. CASE Sleep \/ PowerLoss \/ Boot
  BY <1>3, SleepInv, PowerLossInv, BootInv
<1>4. CASE UNCHANGED vars
  BY <1>4, StutterInv
<1> QED
  BY <1>1, <1>2, <1>3, <1>4 DEF Next

(* The variables keep their types, a running step works on the record that *)
(* is on disk, and what it is about to write is a legal next record.       *)
THEOREM Invariance == Spec => []Inv
  BY InitInv, StepInv, PTL DEF Spec

(* Every variable keeps its type, the sequence number of a record is the   *)
(* one its phase is reached with.                                          *)
THEOREM TypeCorrect == Spec => []TypeOK
<1>1. Inv => TypeOK
  BY DEF Inv
<1> QED
  BY <1>1, Invariance, PTL

-----------------------------------------------------------------------------
(***************************************************************************)
(* StateFollowsBook.  A selection is consistent with the files and the     *)
(* path-keyed state when every book it names has its state at the key the  *)
(* phase promises, and every other book at its own path.                   *)
(***************************************************************************)
Own(k) == \A x \in Parts : store[k][x] = "own"

Keeps(rec, p) ==
  /\ rec.phase \in Prepared..StateVerified \cup {Abandoned} => Own(rec.old)
  /\ rec.phase \in StateVerified..OldStateRemoved => Own(rec.new)
  /\ rec.phase \in SourceMoved..OldStateRemoved => p = rec.new
  /\ rec.phase = Abandoned => p = rec.old

Consistent(s) ==
  /\ s # NoSelection => s.rec.old # s.rec.new
  /\ \A p \in Paths :
       file[p] = "book" =>
         IF s = NoSelection \/ p \notin {s.rec.old, s.rec.new}
           THEN Own(p) ELSE Keeps(s.rec, p)

StateOK == /\ Consistent(Selected)
           /\ pc \in Writing => Consistent(sel) /\ Consistent(out)

LEMMA StateFollows ==
  ASSUME Inv, StateOK
  PROVE  StateFollowsBook
<1> SUFFICES ASSUME NEW p \in Paths, file[p] = "book",
                    NEW x \in Parts
             PROVE  store[KeyOf(p)][x] = "own"
  BY DEF StateFollowsBook
<1>1. Selected # NoSelection => Selected.slot # NoSlot /\ Selected.rec.phase \in Phases
  BY SelectedIsOnDisk DEF Inv, Slots, NoSlot, Records
<1>2. CASE Selected = NoSelection \/ p \notin {Selected.rec.old, Selected.rec.new}
  <2>1. KeyOf(p) = p
    BY <1>2 DEF KeyOf, KeyUnder, NoSelection
  <2> QED
    BY <1>2, <2>1 DEF StateOK, Consistent, Own
<1>3. CASE Selected # NoSelection /\ p \in {Selected.rec.old, Selected.rec.new}
  <2>1. Keeps(Selected.rec, p)
    BY <1>3 DEF StateOK, Consistent
  <2>2. CASE IsActivated(Selected.rec)
    <3>1. Own(Selected.rec.new)
      BY <2>1, <2>2 DEF Keeps, IsActivated, Activated, OldStateRemoved,
         StateVerified
    <3>2. KeyOf(p) = Selected.rec.new
      BY <1>1, <1>3, <2>2 DEF KeyOf, KeyUnder
    <3> QED
      BY <3>1, <3>2 DEF Own
  <2>3. CASE ~IsActivated(Selected.rec)
    <3>1. Own(Selected.rec.old)
      BY <1>1, <1>3, <2>1, <2>3 DEF Keeps, IsActivated, Activated,
         OldStateRemoved, StateVerified, Prepared, Abandoned, Phases
    <3>2. KeyOf(p) = Selected.rec.old
      BY <1>1, <1>3, <2>3 DEF KeyOf, KeyUnder
    <3> QED
      BY <3>1, <3>2 DEF Own
  <2> QED
    BY <2>2, <2>3
<1> QED
  BY <1>2, <1>3

LEMMA InitState == Init => StateOK
<1> SUFFICES ASSUME Init PROVE StateOK
  OBVIOUS
<1>1. Selected = NoSelection
  BY DEF Init, Selected, Select, IsRecord, Absent, Blank, Slots
<1>2. \A p \in Paths : file[p] = "book" => Own(p)
  BY DEF Init, Own
<1> QED
  BY <1>1, <1>2 DEF StateOK, Consistent, Init, Writing

(* Nothing on the card changes and no record is begun.                     *)
LEMMA QuietState ==
  ASSUME StateOK, UNCHANGED <<slot, file, store>>,
         pc' \notin Writing \/ UNCHANGED <<pc, sel, out>>
  PROVE  StateOK'
<1>1. Selected' = Selected
  BY DEF Selected
<1> QED
  BY <1>1 DEF StateOK, Consistent, Own, Keeps

(* No call is in a record's writing before or after a return.              *)
LEMMA ReturnQuiet ==
  ASSUME Inv, NEW res, Return(res)
  PROVE  pc' \notin Writing
  BY DEF Return, Writing

(* The next record is consistent when the files and the state are.         *)
LEMMA AdvanceState ==
  ASSUME Inv, NEW phase, Advance(phase), slot' = slot,
         Consistent(sel)', Consistent(out)', Selected = sel
  PROVE  StateOK'
<1>1. Selected' = Selected /\ sel' = sel
  BY DEF Selected, Advance
<1> QED
  BY <1>1 DEF StateOK

(* The steps that leave the journal, the files and the state alone.        *)
LEMMA QuietSteps ==
  ASSUME Inv, StateOK,
         \/ \E o, n \in Paths, keep \in BOOLEAN : StartMove(o, n, keep)
         \/ ShowRecents \/ Sleep \/ PowerLoss \/ Boot \/ Load \/ IoFails
         \/ ActivateRecent \/ ActivateOpenPath \/ Check
         \/ Close \/ UNCHANGED vars
  PROVE  StateOK'
<1>1. UNCHANGED <<slot, file, store>>
  BY DEF StartMove, ShowRecents, Sleep, PowerLoss, Boot, Load, IoFails,
     ActivateRecent, ActivateOpenPath, Check, Close, vars, journalVars, domainVars
<1>2. CASE UNCHANGED vars
  BY <1>1, <1>2, QuietState DEF vars, journalVars, callVars
<1>3. CASE /\ Close /\ Goto("unwrite") /\ UNCHANGED <<sel, steps, out>>
  <2>1. Selected' = Selected /\ Writing' = Writing /\ pc \in Writing
    BY <1>1, <1>3 DEF Selected, Close, Writing
  <2> QED
    BY <1>1, <1>3, <2>1 DEF StateOK, Consistent, Own, Keeps
<1>4. CASE Load
  <2>1. \A ph : StageOf(ph) \notin Writing
    BY DEF StageOf, Writing
  <2>2. pc' \notin Writing
    BY <1>4, <2>1 DEF Load, Return, Goto, Writing
  <2> QED
    BY <1>1, <2>2, QuietState
<1>5. CASE Close /\ ~(Goto("unwrite") /\ UNCHANGED <<sel, steps, out>>)
  <2>1. pc' \notin Writing
    BY <1>5 DEF Close, Return, Goto, Writing
  <2> QED
    BY <1>1, <2>1, QuietState
<1>6. CASE \/ \E o, n \in Paths, keep \in BOOLEAN : StartMove(o, n, keep)
           \/ ShowRecents \/ Sleep \/ PowerLoss \/ Boot \/ IoFails
           \/ ActivateRecent \/ ActivateOpenPath \/ Check
  <2>1. pc' \notin Writing
    BY <1>6 DEF StartMove, ShowRecents, Sleep, PowerLoss, Boot, IoFails, ActivateRecent,
       ActivateOpenPath, Check, Return, Goto, Writing
  <2> QED
    BY <1>1, <2>1, QuietState
<1> QED
  BY <1>2, <1>3, <1>4, <1>5, <1>6

(* State is written at one path whose file, if it has one, is not a book   *)
(* and whose key is its own: no book's state is at that key.               *)
LEMMA ForeignState ==
  ASSUME Inv, StateOK, NEW p \in Paths,
         UNCHANGED <<slot, pc>>, pc \notin Writing,
         \A q \in Paths : file'[q] = "book" => file[q] = "book",
         \A q \in Paths : q # p => store'[q] = store[q],
         file[p] # "book", CanOpen(p)
  PROVE  StateOK'
<1>1. Selected' = Selected /\ pc' \notin Writing
  BY DEF Selected
<1>2. CASE Selected = NoSelection
  BY <1>1, <1>2 DEF StateOK, Consistent, Own
<1>3. CASE Selected # NoSelection /\ p \notin {Selected.rec.old, Selected.rec.new}
  <2>1. Selected.rec.old \in Paths /\ Selected.rec.new \in Paths
    BY <1>3, SelectedIsOnDisk DEF Inv, Records
  <2> QED
    BY <1>1, <1>3, <2>1 DEF StateOK, Consistent, Own, Keeps
<1>4. CASE Selected # NoSelection /\ p \in {Selected.rec.old, Selected.rec.new}
  <2>1. IsActivated(Selected.rec) /\ Selected.rec.new \in Paths
    BY <1>4, SelectedIsOnDisk
       DEF CanOpen, Inv, Records, Slots, NoSelection, NoSlot
  <2>2. ASSUME NEW q \in Paths, file[q] = "book"
        PROVE  IF q \notin {Selected.rec.old, Selected.rec.new}
                 THEN Own(q)' ELSE Keeps(Selected.rec, q)'
    <3>1. CASE q \notin {Selected.rec.old, Selected.rec.new}
      BY <1>4, <2>2, <3>1 DEF StateOK, Consistent, Own
    <3>2. CASE q \in {Selected.rec.old, Selected.rec.new}
      <4>1. Keeps(Selected.rec, q)
        BY <1>4, <2>2, <3>2 DEF StateOK, Consistent
      <4>2. q = Selected.rec.new /\ q # p /\ Own(Selected.rec.new)
        BY <2>1, <2>2, <4>1
           DEF Keeps, IsActivated, SourceMoved, StateVerified, Activated,
               OldStateRemoved
      <4> QED
        BY <1>1, <2>1, <4>1, <4>2
           DEF Keeps, Own, IsActivated, SourceMoved, StateVerified, Prepared,
               Activated, OldStateRemoved, Abandoned
    <3> QED
      BY <3>1, <3>2
  <2> QED
    BY <1>1, <1>4, <2>2 DEF StateOK, Consistent
<1> QED
  BY <1>2, <1>3, <1>4

LEMMA UploadState ==
  ASSUME Inv, StateOK, NEW p \in Paths, Upload(p)
  PROVE  StateOK'
<1>1. UNCHANGED <<slot, pc, sel, out>> /\ pc \notin Writing
  BY DEF Upload, journalVars, callVars, Writing
<1>2. \A q \in Paths : file'[q] = "book" => file[q] = "book"
  BY DEF Inv, TypeOK, Upload
<1>3. \A q \in Paths : q # p => store'[q] = store[q]
  BY DEF Inv, TypeOK, Upload
<1>4. CASE ClearsCache(p)
  BY <1>1, <1>2, <1>3, <1>4, ForeignState DEF Upload, ClearsCache
<1>5. CASE ~ClearsCache(p)
  <2>1. store' = [store EXCEPT ![p] = [x \in Parts |-> store[p][x]]]
    BY <1>5 DEF Upload
  <2>2. store' = store
    BY <2>1 DEF Inv, TypeOK
  <2>3. Selected' = Selected
    BY <1>1 DEF Selected
  <2> QED
    BY <1>1, <1>2, <2>2, <2>3 DEF StateOK, Consistent, Own, Keeps
<1> QED
  BY <1>4, <1>5

(* An uploaded file rebuilds state at its own path, which is not the key   *)
(* of a book: the journal keeps it closed while the old key is in use.     *)
LEMMA OpenBookState ==
  ASSUME Inv, StateOK, NEW p \in Paths, OpenBook(p)
  PROVE  StateOK'
<1>1. UNCHANGED <<slot, pc, file>> /\ pc \notin Writing
  BY DEF OpenBook, journalVars, Writing
<1>2. CASE file[p] # "other"
  BY <1>1, <1>2, QuietState DEF OpenBook, journalVars
<1>3. CASE file[p] = "other"
  <2>1. \A q \in Paths : q # p => store'[q] = store[q]
    BY <1>3 DEF Inv, TypeOK, OpenBook
  <2> QED
    BY <1>1, <1>3, <2>1, ForeignState DEF OpenBook
<1> QED
  BY <1>2, <1>3

LEMMA LocateState ==
  ASSUME Inv, StateOK, Locate
  PROVE  StateOK'
<1>1. UNCHANGED <<slot, file, store>> /\ Selected = sel /\ sel # NoSelection
      /\ sel.rec.phase = Prepared
  BY DEF Inv, SelOK, Locate, domainVars, Dispatched, PhasesAt
<1>2. CASE pc' \notin Writing
  BY <1>1, <1>2, QuietState
<1>3. CASE SourceLocation = "newOnly" /\ Advance(SourceMoved)
  <2>1. Consistent(sel)'
    BY <1>1, <1>3 DEF StateOK, Consistent, Own, Keeps, Advance
  <2>2. /\ out'.rec.old = sel.rec.old /\ out'.rec.new = sel.rec.new
        /\ out'.rec.phase = SourceMoved /\ out' # NoSelection
    BY <1>3, SlotFacts, SelRecord
       DEF Advance, AdvanceTarget, Record, NoSelection, Locate, Dispatched,
           NoSlot, Slots
  <2>3. file[sel.rec.old] = "none"
    BY <1>3 DEF SourceLocation, Location
  <2>4. Consistent(out)'
    BY <1>1, <2>2, <2>3
       DEF StateOK, Consistent, Own, Keeps, Prepared, SourceMoved,
           StateVerified, OldStateRemoved, Abandoned
  <2> QED
    BY <1>1, <1>3, <2>1, <2>4, AdvanceState
<1> QED
  BY <1>2, <1>3 DEF Locate, SourceLocation, Location, Return, Goto, Writing

(* What the record of the next phase takes over from the selection.        *)
LEMMA NextRecord ==
  ASSUME Inv, pc \in Dispatched, NEW phase, Advance(phase)
  PROVE  /\ out'.rec.old = sel.rec.old /\ out'.rec.new = sel.rec.new
         /\ out'.rec.phase = phase /\ out' # NoSelection /\ sel' = sel
  BY SlotFacts, SelRecord
     DEF Advance, AdvanceTarget, Record, NoSelection, NoSlot, Slots

LEMMA RenameSourceState ==
  ASSUME Inv, StateOK, RenameSource
  PROVE  StateOK'
<1>1. Selected = sel /\ sel # NoSelection /\ sel.rec.phase = Prepared
      /\ sel.rec.old # sel.rec.new /\ SourceLocation = "oldOnly"
  BY DEF Inv, SelOK, RenameSource, Dispatched, PhasesAt, StateOK, Consistent
<1>2. sel.rec.old \in Paths /\ sel.rec.new \in Paths
  BY SelRecord DEF RenameSource, Dispatched
<1>3. /\ file'[sel.rec.old] = "none" /\ file'[sel.rec.new] = file[sel.rec.old]
      /\ \A q \in Paths \ {sel.rec.old, sel.rec.new} : file'[q] = file[q]
      /\ store' = store /\ slot' = slot
  BY <1>1, <1>2 DEF Inv, TypeOK, RenameSource
<1>4. ASSUME file[sel.rec.old] = "book" PROVE Own(sel.rec.old)
  BY <1>1, <1>2, <1>4 DEF StateOK, Consistent, Keeps, Prepared, StateVerified
<1>5. /\ out'.rec.old = sel.rec.old /\ out'.rec.new = sel.rec.new
      /\ out'.rec.phase = SourceMoved /\ out' # NoSelection /\ sel' = sel
  BY NextRecord DEF RenameSource, Dispatched
<1>6. Consistent(sel)'
  BY <1>1, <1>2, <1>3, <1>4, <1>5
     DEF StateOK, Consistent, Own, Keeps, Prepared, SourceMoved, StateVerified,
         OldStateRemoved, Abandoned
<1>7. Consistent(out)'
  BY <1>1, <1>2, <1>3, <1>4, <1>5
     DEF StateOK, Consistent, Own, Keeps, Prepared, SourceMoved, StateVerified,
         OldStateRemoved, Abandoned
<1> QED
  BY <1>1, <1>3, <1>6, <1>7, AdvanceState DEF RenameSource

(* Where files and state stay, the next record is consistent if it keeps   *)
(* what the selection keeps.                                               *)
LEMMA NextRecordState ==
  ASSUME Inv, StateOK, pc \in Dispatched, NEW phase, Advance(phase),
         UNCHANGED <<slot, file, store>>,
         \A p \in {sel.rec.old, sel.rec.new} :
           p \in Paths /\ file[p] = "book" /\ Keeps(sel.rec, p) =>
             Keeps([sel.rec EXCEPT !.phase = phase], p)
  PROVE  StateOK'
<1>1. Selected = sel /\ sel # NoSelection
  BY DEF Inv, SelOK
<1>2. /\ out'.rec.old = sel.rec.old /\ out'.rec.new = sel.rec.new
      /\ out'.rec.phase = phase /\ out' # NoSelection /\ sel' = sel
  BY NextRecord
<1>3. Consistent(sel)'
  BY <1>1, <1>2 DEF StateOK, Consistent, Own, Keeps
<1>4. sel.rec \in Records
  BY SelRecord
<1>5. /\ [sel.rec EXCEPT !.phase = phase].phase = phase
      /\ [sel.rec EXCEPT !.phase = phase].old = sel.rec.old
      /\ [sel.rec EXCEPT !.phase = phase].new = sel.rec.new
  BY <1>4 DEF Records
<1>6. Consistent(out)'
  BY <1>1, <1>2, <1>5 DEF StateOK, Consistent, Own, Keeps
<1> QED
  BY <1>1, <1>3, <1>6, AdvanceState

(* Keeps speaks of the phase and of the two paths only.                    *)
LEMMA KeepsPhase ==
  ASSUME NEW rec \in Records, NEW phase, NEW p
  PROVE  Keeps([rec EXCEPT !.phase = phase], p) <=>
           /\ phase \in Prepared..StateVerified \cup {Abandoned} => Own(rec.old)
           /\ phase \in StateVerified..OldStateRemoved => Own(rec.new)
           /\ phase \in SourceMoved..OldStateRemoved => p = rec.new
           /\ phase = Abandoned => p = rec.old
  BY DEF Keeps, Records

LEMMA RenameFailsState ==
  ASSUME Inv, StateOK, RenameFails
  PROVE  StateOK'
<1>1. sel.rec \in Records /\ sel.rec.phase = Prepared /\ pc \in Dispatched
  BY SelRecord DEF RenameFails, Dispatched, PhasesAt
<1>2. file[sel.rec.new] = "none"
  BY DEF Inv, SelOK, RenameFails, SourceLocation, Location
<1>3. \A p \in {sel.rec.old, sel.rec.new} :
        p \in Paths /\ file[p] = "book" /\ Keeps(sel.rec, p) =>
          Keeps([sel.rec EXCEPT !.phase = Abandoned], p)
  BY <1>1, <1>2, KeepsPhase
     DEF Keeps, Prepared, StateVerified, SourceMoved, OldStateRemoved, Abandoned
<1> QED
  BY <1>1, <1>3, NextRecordState DEF RenameFails, domainVars

LEMMA CopyDoneState ==
  ASSUME Inv, StateOK, CopyDone
  PROVE  StateOK'
<1>1. /\ sel.rec \in Records /\ pc \in Dispatched
      /\ sel.rec.phase \in {SourceMoved, CacheCopied, BookmarksCopied}
  BY SelRecord DEF CopyDone, Dispatched, PhasesAt
<1>2. \A p \in {sel.rec.old, sel.rec.new} :
        p \in Paths /\ file[p] = "book" /\ Keeps(sel.rec, p) =>
          Keeps([sel.rec EXCEPT !.phase = sel.rec.phase + 1], p)
  BY <1>1, KeepsPhase
     DEF Keeps, Prepared, StateVerified, SourceMoved, CacheCopied,
         BookmarksCopied, OldStateRemoved, Abandoned
<1> QED
  BY <1>1, <1>2, NextRecordState DEF CopyDone, domainVars

(* Verified copies of the book's own state are the book's own state.       *)
LEMMA VerifiedOwn ==
  ASSUME NEW o, NEW n, Own(o), Verified(o, n, Parts)
  PROVE  Own(n)
  BY DEF Own, Verified

LEMMA VerifyStateState ==
  ASSUME Inv, StateOK, VerifyState
  PROVE  StateOK'
<1>1. /\ sel.rec \in Records /\ pc \in Dispatched
      /\ sel.rec.phase = ClippingsCopied
  BY SelRecord DEF VerifyState, Dispatched, PhasesAt
<1>2. UNCHANGED <<slot, file, store>>
  BY DEF VerifyState, domainVars
<1>3. CASE Return("pending")
  BY <1>2, <1>3, ReturnQuiet, QuietState
<1>4. CASE Verified(sel.rec.old, sel.rec.new, Parts) /\ Advance(StateVerified)
  <2>1. \A p \in {sel.rec.old, sel.rec.new} :
          p \in Paths /\ file[p] = "book" /\ Keeps(sel.rec, p) =>
            Keeps([sel.rec EXCEPT !.phase = StateVerified], p)
    BY <1>1, <1>4, KeepsPhase, VerifiedOwn
       DEF Keeps, Prepared, StateVerified, SourceMoved, ClippingsCopied,
           OldStateRemoved, Abandoned
  <2> QED
    BY <1>1, <1>2, <1>4, <2>1, NextRecordState
<1> QED
  BY <1>3, <1>4 DEF VerifyState

LEMMA VerifyActivationState ==
  ASSUME Inv, StateOK, VerifyActivation
  PROVE  StateOK'
<1>1. /\ sel.rec \in Records /\ pc \in Dispatched
      /\ sel.rec.phase = StateVerified
  BY SelRecord DEF VerifyActivation, Dispatched, PhasesAt
<1>2. UNCHANGED <<slot, file, store>>
  BY DEF VerifyActivation, domainVars
<1>3. CASE Return("pending")
  BY <1>2, <1>3, ReturnQuiet, QuietState
<1>4. CASE Advance(Activated)
  <2>1. \A p \in {sel.rec.old, sel.rec.new} :
          p \in Paths /\ file[p] = "book" /\ Keeps(sel.rec, p) =>
            Keeps([sel.rec EXCEPT !.phase = Activated], p)
    BY <1>1, KeepsPhase
       DEF Keeps, Prepared, StateVerified, SourceMoved, Activated,
           OldStateRemoved, Abandoned
  <2> QED
    BY <1>1, <1>2, <1>4, <2>1, NextRecordState
<1> QED
  BY <1>3, <1>4 DEF VerifyActivation

LEMMA RemoveDoneState ==
  ASSUME Inv, StateOK, RemoveDone
  PROVE  StateOK'
<1>1. /\ sel.rec \in Records /\ pc \in Dispatched
      /\ sel.rec.phase = Activated
  BY SelRecord DEF RemoveDone, Dispatched, PhasesAt
<1>2. \A p \in {sel.rec.old, sel.rec.new} :
        p \in Paths /\ file[p] = "book" /\ Keeps(sel.rec, p) =>
          Keeps([sel.rec EXCEPT !.phase = OldStateRemoved], p)
  BY <1>1, KeepsPhase
     DEF Keeps, Prepared, StateVerified, SourceMoved, Activated,
         OldStateRemoved, Abandoned
<1> QED
  BY <1>1, <1>2, NextRecordState DEF RemoveDone, domainVars

(* The copying phases write at the new key only, which nothing promises.   *)
LEMMA CopyState ==
  ASSUME Inv, StateOK, pc = "copy", UNCHANGED <<slot, file>>, pc' \notin Writing,
         NEW v \in Parts \X {"none", "own", "alien"},
         store' = [store EXCEPT ![sel.rec.new][v[1]] = v[2]]
  PROVE  StateOK'
<1>1. /\ sel.rec.old \in Paths /\ sel.rec.new \in Paths
      /\ sel.rec.phase \in {SourceMoved, CacheCopied, BookmarksCopied}
      /\ Selected = sel /\ sel # NoSelection
  BY SelRecord DEF Dispatched, PhasesAt, Inv, SelOK
<1>2. \A q \in Paths \ {sel.rec.new} : store'[q] = store[q]
  BY <1>1 DEF Inv, TypeOK
<1>3. Selected' = Selected /\ sel.rec.old # sel.rec.new
  BY <1>1 DEF Selected, StateOK, Consistent
<1> QED
  BY <1>1, <1>2, <1>3
     DEF StateOK, Consistent, Own, Keeps, SourceMoved, CacheCopied,
         BookmarksCopied, Prepared, StateVerified, OldStateRemoved, Abandoned

LEMMA CopyPartState ==
  ASSUME Inv, StateOK, NEW x \in Parts, CopyPart(x)
  PROVE  StateOK'
<1>1. sel.rec.old \in Paths
  BY SelRecord DEF CopyPart, Dispatched
<1>2. <<x, store[sel.rec.old][x]>> \in Parts \X {"none", "own", "alien"}
  BY <1>1 DEF Inv, TypeOK
<1>3. pc = "copy" /\ UNCHANGED <<slot, file>> /\ pc' \notin Writing
  BY DEF CopyPart, journalVars, Writing
<1>4. store' = [store EXCEPT ![sel.rec.new][<<x, store[sel.rec.old][x]>>[1]]
                                = <<x, store[sel.rec.old][x]>>[2]]
  BY DEF CopyPart
<1> QED
  BY <1>2, <1>3, <1>4, CopyState

LEMMA CopyPartFailsState ==
  ASSUME Inv, StateOK, NEW x \in Parts, CopyPartFails(x)
  PROVE  StateOK'
<1>1. <<x, "none">> \in Parts \X {"none", "own", "alien"}
  OBVIOUS
<1>2. pc = "copy" /\ UNCHANGED <<slot, file>> /\ pc' \notin Writing
  BY ReturnQuiet DEF CopyPartFails
<1>3. store' = [store EXCEPT ![sel.rec.new][<<x, "none">>[1]] = <<x, "none">>[2]]
  BY DEF CopyPartFails
<1> QED
  BY <1>1, <1>2, <1>3, CopyState

(* From Activated on nothing is promised at the old key.                   *)
LEMMA RemoveOldPartState ==
  ASSUME Inv, StateOK, NEW x \in Parts, RemoveOldPart(x)
  PROVE  StateOK'
<1>1. /\ sel.rec.old \in Paths /\ sel.rec.new \in Paths
      /\ sel.rec.phase = Activated
      /\ Selected = sel /\ sel # NoSelection
  BY SelRecord DEF RemoveOldPart, Dispatched, PhasesAt, Inv, SelOK
<1>2. \A q \in Paths \ {sel.rec.old} : store'[q] = store[q]
  BY <1>1 DEF Inv, TypeOK, RemoveOldPart
<1>3. Selected' = Selected /\ sel.rec.old # sel.rec.new /\ file' = file
      /\ pc' \notin Writing
  BY <1>1 DEF Selected, StateOK, Consistent, RemoveOldPart, journalVars, Writing
<1> QED
  BY <1>1, <1>2, <1>3
     DEF StateOK, Consistent, Own, Keeps, SourceMoved, Activated,
         Prepared, StateVerified, OldStateRemoved, Abandoned

(* The selection outlives the first step of a cleanup and ends with it.     *)
LEMMA CleanupSelects ==
  ASSUME Inv, Cleanup \/ CleanupDone
  PROVE  /\ Selected = sel /\ sel # NoSelection
         /\ sel.rec.phase \in {OldStateRemoved, Abandoned}
         /\ file' = file /\ store' = store
         /\ Cleanup => Selected' = sel /\ sel' = sel
         /\ CleanupDone => /\ Selected' = NoSelection
                           /\ slot' = [s \in Slots |-> Absent]
<1>1. /\ sel \in [slot : Slots, rec : Records] /\ sel # NoSelection
      /\ sel.rec.phase \in {OldStateRemoved, Abandoned} /\ Selected = sel
      /\ file' = file /\ store' = store
  BY SelRecord DEF Cleanup, CleanupDone, Dispatched, PhasesAt, Inv, SelOK, domainVars
<1>2. ASSUME Cleanup PROVE Selected' = sel /\ sel' = sel
  BY <1>2, CleanupInv DEF Inv, SelOK, Cleanup, Dispatched, Goto
<1>3. ASSUME CleanupDone
      PROVE  Selected' = NoSelection /\ slot' = [s \in Slots |-> Absent]
  <2>1. slot[Opposite(sel.slot)] = Absent
    BY <1>3 DEF CleanupDone, Inv, SelOK
  <2>2. slot' = [slot EXCEPT ![sel.slot] = Absent]
    BY <1>1, <1>3, SlotFacts DEF CleanupDone, FirstRemoved
  <2>3. \A s \in Slots : slot'[s] = Absent
    BY <1>1, <2>1, <2>2 DEF Inv, TypeOK, Slots, Opposite
  <2>4. slot' = [s \in Slots |-> Absent]
    BY <2>2, <2>3 DEF Inv, TypeOK
  <2> QED
    BY <2>3, <2>4, SlotFacts DEF Selected, Select, Slots
<1> QED
  BY <1>1, <1>2, <1>3

LEMMA CleanupState ==
  ASSUME Inv, StateOK, Cleanup
  PROVE  StateOK'
  BY CleanupSelects DEF Cleanup, Goto, Writing, StateOK, Consistent, Own, Keeps

LEMMA CleanupDoneState ==
  ASSUME Inv, StateOK, CleanupDone
  PROVE  StateOK'
<1>1. \A p \in Paths : file[p] = "book" => Own(p)
  BY CleanupSelects
     DEF StateOK, Consistent, Keeps, Prepared, SourceMoved, StateVerified,
         OldStateRemoved, Abandoned
<1> QED
  BY <1>1, CleanupSelects, ReturnQuiet DEF StateOK, Consistent, Own, CleanupDone

LEMMA BeginState ==
  ASSUME Inv, StateOK, Begin
  PROVE  StateOK'
<1>1. UNCHANGED <<slot, file, store>>
  BY DEF Begin, domainVars
<1>2. CASE \E res \in Results : Return(res)
  BY <1>1, <1>2, ReturnQuiet, QuietState
<1>3. CASE /\ Selected = NoSelection
           /\ out' = [slot |-> "A",
                      rec |-> Record(1, Prepared, job.old, job.new, job.keep)]
           /\ Goto("truncate")
           /\ UNCHANGED <<sel, steps>>
  <2>1. sel = NoSelection /\ job.old # job.new /\ file[job.new] = "none"
    BY DEF Inv, JobOK, Begin, Dispatched, Writing
  <2>2. /\ out'.rec.old = job.old /\ out'.rec.new = job.new
        /\ out'.rec.phase = Prepared /\ out' # NoSelection
    BY <1>3 DEF Record, NoSelection, NoSlot
  <2>3. \A p \in Paths : file[p] = "book" => Own(p) /\ p # job.new
    BY <1>3, <2>1 DEF StateOK, Consistent
  <2>4. Consistent(out)'
    BY <1>1, <2>1, <2>2, <2>3
       DEF Consistent, Own, Keeps, Prepared, SourceMoved, StateVerified,
           OldStateRemoved, Abandoned
  <2>5. Consistent(sel)' /\ Selected' = NoSelection /\ sel' = NoSelection
    BY <1>1, <1>3, <2>1, <2>3 DEF Consistent, Own, Selected
  <2> QED
    BY <2>4, <2>5 DEF StateOK
<1> QED
  BY <1>2, <1>3 DEF Begin, Results

(* While a record is written, the slot it goes to decides what is selected: *)
(* the record if it is complete, else the one it follows.                  *)
LEMMA SlotWritten ==
  ASSUME Inv, pc \in Writing, NEW t \in [Slots -> SlotValues],
         t[Opposite(out.slot)] = slot[Opposite(out.slot)]
  PROVE  /\ ~IsRecord(t[out.slot]) => Select(t["A"], t["B"]) = sel
         /\ t[out.slot] = out.rec => Select(t["A"], t["B"]) = out
<1>1. out \in [slot : Slots, rec : Records] /\ IsRecord(out.rec)
  BY OutRecord, SlotFacts
<1>2. CASE sel = NoSelection
  <2>1. out.slot = "A" /\ t["B"] = Absent /\ ~IsRecord(Absent)
    BY <1>1, <1>2, SlotFacts DEF Inv, OutOK, Opposite
  <2> QED
    BY <1>1, <1>2, <2>1 DEF Select
<1>3. CASE sel # NoSelection
  <2>1. /\ sel \in [slot : Slots, rec : Records] /\ IsRecord(sel.rec)
        /\ sel.slot = Opposite(out.slot) /\ sel.slot # out.slot
        /\ t[sel.slot] = sel.rec
    BY <1>3, OutRecord, SlotFacts
  <2>2. out.rec.seq = sel.rec.seq + 1 /\ sel.rec.seq \in Nat
    BY <1>3, <2>1 DEF Inv, OutOK, Records
  <2>3. SequenceNewer(out.rec.seq, sel.rec.seq)
        /\ ~SequenceNewer(sel.rec.seq, out.rec.seq)
    BY <2>2 DEF SequenceNewer
  <2> QED
    BY <1>1, <2>1, <2>3 DEF Select, Slots, Opposite
<1> QED
  BY <1>2, <1>3

LEMMA WriterSelects ==
  ASSUME Inv, Truncate \/ Write \/ Unwrite
  PROVE  /\ pc \in Writing /\ file' = file /\ store' = store
         /\ Truncate => Selected' = sel
         /\ Write => Selected' = out \/ (Selected' = Selected /\ slot' = slot)
         /\ Unwrite => Selected' = sel \/ (Selected' = Selected /\ slot' = slot)
<1>1. pc \in Writing /\ file' = file /\ store' = store
  BY DEF Truncate, Write, Unwrite, domainVars, Writing
<1>2. /\ out \in [slot : Slots, rec : Records]
      /\ slot \in [Slots -> SlotValues]
      /\ Opposite(out.slot) \in Slots /\ Opposite(out.slot) # out.slot
  BY <1>1, OutRecord, SlotFacts DEF Inv, TypeOK
<1>3. ASSUME Truncate PROVE Selected' = sel
  <2>1. slot' = [slot EXCEPT ![out.slot] = Torn]
    BY <1>3 DEF Truncate
  <2>2. slot' \in [Slots -> SlotValues] /\ slot'[out.slot] = Torn
        /\ slot'[Opposite(out.slot)] = slot[Opposite(out.slot)]
    BY <1>2, <2>1 DEF SlotValues
  <2> QED
    BY <1>1, <2>2, SlotWritten, SlotFacts DEF Selected
<1>4. ASSUME Write PROVE Selected' = out \/ (Selected' = Selected /\ slot' = slot)
  <2>1. CASE slot' = slot
    BY <2>1 DEF Selected
  <2>2. CASE slot' = [slot EXCEPT ![out.slot] = out.rec]
    <3>1. slot' \in [Slots -> SlotValues] /\ slot'[out.slot] = out.rec
          /\ slot'[Opposite(out.slot)] = slot[Opposite(out.slot)]
      BY <1>2, <2>2 DEF SlotValues
    <3> QED
      BY <1>1, <3>1, SlotWritten DEF Selected
  <2> QED
    BY <1>4, <2>1, <2>2 DEF Write
<1>5. ASSUME Unwrite PROVE Selected' = sel \/ (Selected' = Selected /\ slot' = slot)
  <2>1. CASE slot' = slot
    BY <2>1 DEF Selected
  <2>2. CASE slot' = [slot EXCEPT ![out.slot] = Absent]
    <3>1. slot' \in [Slots -> SlotValues] /\ slot'[out.slot] = Absent
          /\ slot'[Opposite(out.slot)] = slot[Opposite(out.slot)]
      BY <1>2, <2>2 DEF SlotValues
    <3> QED
      BY <1>1, <3>1, SlotWritten, SlotFacts DEF Selected
  <2> QED
    BY <1>5, <2>1, <2>2 DEF Unwrite
<1> QED
  BY <1>1, <1>3, <1>4, <1>5

LEMMA TruncateState ==
  ASSUME Inv, StateOK, Truncate
  PROVE  StateOK'
  BY WriterSelects DEF Truncate, StateOK, Consistent, Own, Keeps

LEMMA WriteState ==
  ASSUME Inv, StateOK, Write
  PROVE  StateOK'
  BY WriterSelects DEF Write, StateOK, Consistent, Own, Keeps

LEMMA UnwriteState ==
  ASSUME Inv, StateOK, Unwrite
  PROVE  StateOK'
<1>1. pc' \notin Writing
  BY ReturnQuiet DEF Unwrite
<1> QED
  BY <1>1, WriterSelects DEF StateOK, Consistent, Own, Keeps

LEMMA StepState == Inv /\ StateOK /\ [Next]_vars => StateOK'
<1> SUFFICES ASSUME Inv, StateOK, [Next]_vars PROVE StateOK'
  OBVIOUS
<1>1. CASE Working
  BY <1>1, QuietSteps, LocateState, RenameSourceState, RenameFailsState,
     CopyPartState, CopyPartFailsState, RemoveOldPartState, CopyDoneState,
     VerifyStateState, VerifyActivationState, RemoveDoneState, CleanupState,
     CleanupDoneState, BeginState, TruncateState, WriteState, UnwriteState
     DEF Working
<1>2. CASE User
  BY <1>2, QuietSteps, UploadState, OpenBookState DEF User
<1>3. CASE Sleep \/ PowerLoss \/ Boot \/ UNCHANGED vars
  BY <1>3, QuietSteps
<1> QED
  BY <1>1, <1>2, <1>3 DEF Next

(* Whatever interrupts a move, the key a reader resolves for the path of   *)
(* the book holds the whole of its own state.                              *)
THEOREM StateNeverLost == Spec => []StateFollowsBook
<1>1. Spec => [](Inv /\ StateOK)
  <2>1. Init => Inv /\ StateOK
    BY InitInv, InitState
  <2>2. (Inv /\ StateOK) /\ [Next]_vars => (Inv /\ StateOK)'
    BY StepInv, StepState
  <2> QED
    BY <2>1, <2>2, PTL DEF Spec
<1>2. Inv /\ StateOK => StateFollowsBook
  BY StateFollows
<1> QED
  BY <1>1, <1>2, PTL

-----------------------------------------------------------------------------
(***************************************************************************)
(* What a move leaves behind it, what it answers, how long its recovery    *)
(* takes, and that with all its interruptions it is one atomic move.       *)
(***************************************************************************)

(***************************************************************************)
(* A record that is written down has been read back when the writer closes *)
(* it, and the first record of a move goes to a free target.               *)
(***************************************************************************)
WriterOK ==
  /\ pc = "close" => slot[out.slot] = out.rec
  /\ pc \in Writing /\ sel = NoSelection => file[out.rec.new] = "none"

(* How far a recovery has come, by the record it works on.                 *)
BudgetOK ==
  /\ pc \in Dispatched => steps <= sel.rec.seq
  /\ pc \in Writing => steps < out.rec.seq
  /\ pc = "load" => steps = 0 \/ (Selected # NoSelection /\ steps < Selected.rec.seq)
  /\ pc \notin Dispatched \cup Writing \cup {"load"} => steps = 0

(* The old path of an activated record is remembered nowhere.              *)
Left(p) ==
  /\ p \notin recents.disk \cup recents.ram
  /\ open.disk # p /\ open.ram # p

Forgotten(s) ==
  IsActivated(s.rec) /\ file[s.rec.old] = "none" => Left(s.rec.old)

ForgetOK ==
  /\ Forgotten(Selected)
  /\ pc \in Writing => Forgotten(sel) /\ Forgotten(out)
  /\ pc \in {"openPath", "verifyActivation"} =>
       sel.rec.old \notin recents.disk \cup recents.ram

(* The list in RAM differs from the one on disk only where an activation   *)
(* was published and its failure rolled back.                              *)
ListsOK ==
  \/ recents.disk = recents.ram
  \/ /\ pc \notin Writing \cup {"openPath", "verifyActivation"}
     /\ Selected.rec.phase = StateVerified
     /\ recents.disk = MigrateRecents(recents.ram, Selected.rec)

(* The record the running call is at, and how its file has moved: within   *)
(* one call at most one rename happens.                                    *)
Current == IF pc \in Writing THEN out.rec ELSE Selected.rec

OldOnly == file[job.old] # "none" /\ file[job.new] = "none"
NewOnly == file[job.old] = "none" /\ file[job.new] # "none"

CallOK ==
  /\ pc \in {"idle", "off"} => job.kind = "none"
  /\ pc = "begin" => job.kind = "move"
  /\ pc = "check" => job.kind = "recover"
  /\ job.kind = "recover" =>
       /\ pc # "check" =>
            \/ OldOnly
            \/ /\ Current.phase \in SourceMoved..OldStateRemoved
               /\ NewOnly => Current.old = job.old /\ Current.new = job.new
       /\ pc = "check" /\ NewOnly =>
            /\ slot = [s \in Slots |-> Absent]
            /\ Left(job.old)
  /\ job.kind = "move" /\ pc # "begin" =>
       /\ Current.old = job.old /\ Current.new = job.new
       /\ Current.phase \in SourceMoved..OldStateRemoved => NewOnly

OneBook ==
  \E b \in Paths : \A p \in Paths : file[p] = "book" <=> p = b

Outcome == /\ WriterOK /\ BudgetOK /\ ForgetOK
           /\ ListsOK /\ CallOK /\ OneBook

-----------------------------------------------------------------------------
(***************************************************************************)
(* The kinds of steps a call takes.                                        *)
(***************************************************************************)
(* A step that advances: the next record goes to the other slot.           *)
Advancing == Locate \/ RenameSource \/ RenameFails \/ CopyDone \/ VerifyState
             \/ VerifyActivation \/ RemoveDone

LEMMA AdvancingStep ==
  ASSUME Inv, Advancing
  PROVE  /\ pc \in Dispatched /\ sel # NoSelection /\ Selected = sel
         /\ sel \in [slot : Slots, rec : Records]
         /\ UNCHANGED <<slot, store, recents, open, moves, uploads>>
         /\ \/ \E res \in {"pending", "conflict"} : Return(res) /\ file' = file
            \/ Locate /\ Goto("rename") /\ file' = file /\ UNCHANGED <<sel, steps, out>>
            \/ Advance(sel.rec.phase + 1) /\ (file' = file \/ RenameSource)
            \/ RenameFails /\ Advance(Abandoned) /\ file' = file
<1>1. pc \in Dispatched
  BY DEF Advancing, Locate, RenameSource, RenameFails, CopyDone, VerifyState,
     VerifyActivation, RemoveDone, Dispatched
<1>2. /\ sel # NoSelection /\ Selected = sel /\ sel.rec.phase \in PhasesAt(pc)
      /\ sel \in [slot : Slots, rec : Records]
  BY <1>1, SelRecord DEF Inv, SelOK
<1>3. UNCHANGED <<slot, store, recents, open, moves, uploads>>
  BY DEF Advancing, Locate, RenameSource, RenameFails, CopyDone, VerifyState,
     VerifyActivation, RemoveDone, domainVars, boundVars
<1> DEFINE Outcomes ==
        \/ \E res \in {"pending", "conflict"} : Return(res) /\ file' = file
        \/ Locate /\ Goto("rename") /\ file' = file /\ UNCHANGED <<sel, steps, out>>
        \/ Advance(sel.rec.phase + 1) /\ (file' = file \/ RenameSource)
        \/ RenameFails /\ Advance(Abandoned) /\ file' = file
<1>4. ASSUME Locate PROVE Outcomes
  <2>1. SourceMoved = sel.rec.phase + 1
    BY <1>2, <1>4 DEF Locate, PhasesAt, SourceMoved, Prepared
  <2>2. file' = file
    BY <1>4 DEF Locate, domainVars
  <2>3. CASE SourceLocation \in {"both", "missing"}
    BY <1>4, <2>2, <2>3 DEF Locate
  <2>4. CASE SourceLocation = "newOnly"
    BY <1>4, <2>1, <2>2, <2>4 DEF Locate
  <2>5. CASE SourceLocation = "oldOnly"
    BY <1>4, <2>2, <2>5 DEF Locate
  <2>6. SourceLocation \in {"both", "missing", "newOnly", "oldOnly"}
    BY DEF SourceLocation, Location
  <2> QED
    BY <2>3, <2>4, <2>5, <2>6
<1>5. ASSUME RenameSource PROVE Outcomes
  <2>1. SourceMoved = sel.rec.phase + 1
    BY <1>2, <1>5 DEF RenameSource, PhasesAt, SourceMoved, Prepared
  <2> QED
    BY <1>5, <2>1 DEF RenameSource
<1>6. ASSUME RenameFails PROVE Outcomes
  BY <1>6 DEF RenameFails, domainVars
<1>7. ASSUME CopyDone PROVE Outcomes
  BY <1>7 DEF CopyDone, domainVars
<1>8. ASSUME VerifyState PROVE Outcomes
  <2>1. StateVerified = sel.rec.phase + 1
    BY <1>2, <1>8 DEF VerifyState, PhasesAt, ClippingsCopied, StateVerified
  <2> QED
    BY <1>8, <2>1 DEF VerifyState, domainVars
<1>9. ASSUME VerifyActivation PROVE Outcomes
  <2>1. Activated = sel.rec.phase + 1
    BY <1>2, <1>9 DEF VerifyActivation, PhasesAt, Activated, StateVerified
  <2> QED
    BY <1>9, <2>1 DEF VerifyActivation, domainVars
<1>10. ASSUME RemoveDone PROVE Outcomes
  <2>1. OldStateRemoved = sel.rec.phase + 1
    BY <1>2, <1>10 DEF RemoveDone, PhasesAt, Activated, OldStateRemoved
  <2> QED
    BY <1>10, <2>1 DEF RemoveDone, domainVars
<1>11. Outcomes
  BY <1>4, <1>5, <1>6, <1>7, <1>8, <1>9, <1>10 DEF Advancing
<1> QED
  BY <1>1, <1>2, <1>3, <1>11

(* A step that only works on the state of the record selected.             *)
Staying == (\E x \in Parts : CopyPart(x) \/ RemoveOldPart(x))

(* A step of writeRecord.                                                  *)
Recording == Truncate \/ Write \/ Close \/ Unwrite

(* A step of the user or of the power, outside every call.                 *)
Outside == User \/ Sleep \/ PowerLoss \/ Boot

LEMMA StepKinds ==
  ASSUME [Next]_vars
  PROVE  \/ Load \/ Advancing \/ Staying
         \/ (\E x \in Parts : CopyPartFails(x))
         \/ ActivateRecent \/ ActivateOpenPath \/ Cleanup \/ CleanupDone
         \/ Check \/ Begin \/ Recording \/ IoFails
         \/ Outside \/ UNCHANGED vars
  BY DEF Next, Working, Advancing, Staying, Recording, Outside

LEMMA RecordingStep ==
  ASSUME Inv, Recording
  PROVE  /\ pc \in Writing /\ UNCHANGED <<domainVars, moves, uploads>>
         /\ out \in [slot : Slots, rec : Records]
         /\ \/ Goto("write") /\ UNCHANGED <<sel, steps, out>> /\ Selected' = sel
            \/ /\ Goto("close") /\ UNCHANGED <<sel, steps, out>>
               /\ Selected' = out /\ slot'[out.slot] = out.rec
            \/ Goto("unwrite") /\ UNCHANGED <<sel, steps, out>> /\ slot' = slot
            \/ /\ pc = "close" /\ slot' = slot /\ UNCHANGED steps
               /\ Goto("load") /\ sel' = NoSelection /\ out' = NoSelection
            \/ /\ pc = "close" /\ slot' = slot /\ Return("pending")
               /\ out.rec.phase = Abandoned
            \/ pc = "unwrite" /\ Return("pending") /\ (slot' = slot \/ Selected' = sel)
<1>1. pc \in Writing /\ UNCHANGED <<domainVars, moves, uploads>>
  BY DEF Recording, Truncate, Write, Close, Unwrite, Writing, boundVars
<1>2. out \in [slot : Slots, rec : Records] /\ slot \in [Slots -> SlotValues]
  BY <1>1, OutRecord DEF Inv, TypeOK
<1>3. CASE Truncate
  BY <1>1, <1>2, <1>3, WriterSelects DEF Truncate
<1>4. CASE Write
  <2>1. CASE slot' = slot /\ Goto("unwrite")
    BY <1>1, <1>2, <1>4, <2>1 DEF Write
  <2>2. CASE slot' = [slot EXCEPT ![out.slot] = out.rec] /\ Goto("close")
    <3>1. slot'[out.slot] = out.rec
      BY <1>2, <2>2
    <3>2. slot # slot'
      BY <1>2, <1>4, <3>1, SlotFacts DEF Inv, OutOK, Write, Writing
    <3> QED
      BY <1>1, <1>2, <1>4, <2>2, <3>1, <3>2, WriterSelects DEF Write
  <2> QED
    BY <1>4, <2>1, <2>2 DEF Write
<1>5. CASE Close
  BY <1>1, <1>2, <1>5 DEF Close
<1>6. CASE Unwrite
  BY <1>1, <1>2, <1>6, WriterSelects DEF Unwrite
<1> QED
  BY <1>3, <1>4, <1>5, <1>6 DEF Recording

LEMMA ReturnStep ==
  ASSUME NEW res, Return(res)
  PROVE  /\ sel' = NoSelection /\ out' = NoSelection /\ steps' = 0
         /\ \/ pc' = "check" /\ UNCHANGED <<job, result>> /\ job.kind = "recover"
               /\ pc # "check" /\ res \in {"nothing", "complete", "abandoned"}
            \/ pc' = "idle" /\ job' = NoJob /\ result' = res
  BY DEF Return

LEMMA LoadStep ==
  ASSUME Inv, Load
  PROVE  /\ UNCHANGED <<slot, domainVars, boundVars>>
         /\ \/ Return("pending")
            \/ Return("nothing") /\ Selected = NoSelection
            \/ /\ Selected \in [slot : Slots, rec : Records] /\ sel' = Selected
               /\ steps' = steps + 1 /\ Goto(StageOf(Selected.rec.phase))
               /\ pc' \in Dispatched \ {"openPath", "verifyActivation"}
               /\ UNCHANGED out
<1>1. UNCHANGED <<slot, domainVars, boundVars>>
  BY DEF Load
<1>2. CASE Corrupt(slot["A"], slot["B"]) \/ steps = MaxRecoverySteps
  BY <1>1, <1>2 DEF Load
<1>3. CASE /\ ~(Corrupt(slot["A"], slot["B"]) \/ steps = MaxRecoverySteps)
           /\ Selected = NoSelection
  BY <1>1, <1>3 DEF Load
<1>4. CASE /\ ~(Corrupt(slot["A"], slot["B"]) \/ steps = MaxRecoverySteps)
           /\ Selected # NoSelection
  <2>1. Selected \in [slot : Slots, rec : Records]
    BY <1>4, SelectedIsOnDisk DEF Inv, Selections
  <2>2. /\ sel' = Selected /\ steps' = steps + 1 /\ UNCHANGED out
        /\ Goto(StageOf(Selected.rec.phase))
    BY <1>4 DEF Load
  <2>3. \A ph : StageOf(ph) \in Dispatched \ {"openPath", "verifyActivation"}
    BY DEF StageOf, Dispatched
  <2> QED
    BY <1>1, <2>1, <2>2, <2>3 DEF Goto
<1> QED
  BY <1>2, <1>3, <1>4

-----------------------------------------------------------------------------
(***************************************************************************)
(* The budget of recovery steps.                                           *)
(***************************************************************************)
LEMMA SequenceBounds ==
  \A r \in Records : r.seq \in 1..8
  BY DEF Records, Phases, SequenceOf, Abandoned

LEMMA BudgetReturn ==
  ASSUME NEW res, Return(res)
  PROVE  BudgetOK'
  BY ReturnStep DEF BudgetOK, Dispatched, Writing

LEMMA BudgetAdvance ==
  ASSUME Inv, BudgetOK, pc \in Dispatched, NEW phase, Advance(phase)
  PROVE  BudgetOK'
<1>1. sel.rec.seq \in Nat /\ steps \in Nat /\ steps <= sel.rec.seq
  BY SelRecord DEF Records, Inv, TypeOK, BudgetOK
<1>2. out'.rec.seq = sel.rec.seq + 1 /\ pc' = "truncate" /\ steps' = steps
  BY DEF Advance, Record, Goto
<1> QED
  BY <1>1, <1>2 DEF BudgetOK, Dispatched, Writing

(* A recovery takes no more steps than the record it works on has had.     *)
LEMMA BudgetStep ==
  ASSUME Inv, WriterOK, BudgetOK, [Next]_vars
  PROVE  BudgetOK'
<1>1. CASE Load
  <2>1. CASE /\ Selected \in [slot : Slots, rec : Records] /\ sel' = Selected
             /\ steps' = steps + 1 /\ pc' \in Dispatched
    <3>1. Selected.rec.seq \in 1..8 /\ steps \in Nat
      BY <2>1, SequenceBounds DEF Inv, TypeOK
    <3>2. steps = 0 \/ steps < Selected.rec.seq
      BY <1>1 DEF Load, BudgetOK
    <3>3. steps' <= sel'.rec.seq
      BY <2>1, <3>1, <3>2
    <3> QED
      BY <2>1, <3>3 DEF BudgetOK, Dispatched, Writing
  <2> QED
    BY <1>1, <2>1, LoadStep, BudgetReturn
<1>2. CASE Advancing
  <2>1. CASE Locate /\ Goto("rename") /\ file' = file /\ UNCHANGED <<sel, steps, out>>
    BY <1>2, <2>1, AdvancingStep DEF BudgetOK, Goto, Dispatched, Writing
  <2> QED
    BY <1>2, <2>1, AdvancingStep, BudgetAdvance, BudgetReturn
<1>3. CASE Staying \/ UNCHANGED vars
  <2>1. UNCHANGED <<slot, pc, sel, out, steps>>
    BY <1>3 DEF Staying, CopyPart, RemoveOldPart, vars, journalVars, callVars
  <2> QED
    BY <2>1 DEF BudgetOK, Selected
<1>4. CASE (\E x \in Parts : CopyPartFails(x)) \/ IoFails \/ CleanupDone
  BY <1>4, BudgetReturn DEF CopyPartFails, IoFails, CleanupDone
<1>5. CASE ActivateRecent
  <2>1. CASE Goto("openPath") /\ UNCHANGED <<sel, steps, out>>
    BY <1>5, <2>1 DEF ActivateRecent, BudgetOK, Goto, Dispatched, Writing
  <2> QED
    BY <1>5, <2>1, BudgetReturn DEF ActivateRecent
<1>6. CASE ActivateOpenPath
  <2>1. CASE Goto("verifyActivation") /\ UNCHANGED <<sel, steps, out>>
    BY <1>6, <2>1 DEF ActivateOpenPath, BudgetOK, Goto, Dispatched, Writing
  <2> QED
    BY <1>6, <2>1, BudgetReturn DEF ActivateOpenPath
<1>7. CASE Cleanup
  BY <1>7 DEF Cleanup, Goto, BudgetOK, Dispatched, Writing
<1>8. CASE Check
  <2>1. CASE pc' = "begin" /\ UNCHANGED <<sel, steps, out, result>>
    BY <1>8, <2>1 DEF Check, BudgetOK, Dispatched, Writing
  <2> QED
    BY <1>8, <2>1, BudgetReturn DEF Check, Location
<1>9. CASE Begin
  <2>1. CASE /\ out' = [slot |-> "A",
                        rec |-> Record(1, Prepared, job.old, job.new, job.keep)]
             /\ Goto("truncate") /\ UNCHANGED <<sel, steps>>
    <3>1. steps' = 0 /\ out'.rec.seq = 1 /\ pc' = "truncate"
      BY <1>9, <2>1 DEF Begin, BudgetOK, Dispatched, Writing, Record, Goto
    <3> QED
      BY <3>1 DEF BudgetOK, Dispatched, Writing
  <2> QED
    BY <1>9, <2>1, BudgetReturn DEF Begin
<1>10. CASE Recording
  <2>1. CASE /\ Goto("write") \/ Goto("close") \/ Goto("unwrite")
             /\ UNCHANGED <<sel, steps, out>>
    BY <1>10, <2>1, RecordingStep DEF BudgetOK, Goto, Dispatched, Writing
  <2>2. CASE /\ pc = "close" /\ slot' = slot /\ UNCHANGED steps
             /\ Goto("load")
    <3>1. out \in [slot : Slots, rec : Records] /\ steps < out.rec.seq
      BY <1>10, RecordingStep DEF BudgetOK
    <3>2. Selected = out
      BY <1>10, <2>2, <3>1, RecordingStep, SlotWritten DEF Inv, TypeOK, WriterOK, Selected
    <3>3. Selected' = out /\ out # NoSelection
      BY <2>2, <3>1, <3>2, SlotFacts DEF Selected
    <3> QED
      BY <2>2, <3>1, <3>3 DEF BudgetOK, Goto, Dispatched, Writing
  <2> QED
    BY <1>10, <2>1, <2>2, RecordingStep, BudgetReturn
<1>11. CASE Outside
  BY <1>11 DEF Outside, User, StartMove, Upload, OpenBook, ShowRecents, Sleep,
     PowerLoss, Boot, callVars, BudgetOK, Dispatched, Writing
<1> QED
  BY <1>1, <1>2, <1>3, <1>4, <1>5, <1>6, <1>7, <1>8, <1>9, <1>10, <1>11, StepKinds

-----------------------------------------------------------------------------
(***************************************************************************)
(* What the writer of a record knows.                                      *)
(***************************************************************************)
LEMMA WriterReturn ==
  ASSUME NEW res, Return(res)
  PROVE  WriterOK'
  BY ReturnStep DEF WriterOK, Writing

LEMMA WriterAdvance ==
  ASSUME Inv, pc \in Dispatched, NEW phase, Advance(phase)
  PROVE  WriterOK'
  BY DEF Advance, Goto, WriterOK, Writing, Inv, SelOK

LEMMA WriterStep ==
  ASSUME Inv, WriterOK, [Next]_vars
  PROVE  WriterOK'
<1>1. CASE Load
  <2>1. CASE pc' \in Dispatched
    BY <2>1 DEF WriterOK, Dispatched, Writing
  <2> QED
    BY <1>1, <2>1, LoadStep, WriterReturn
<1>2. CASE Advancing
  <2>1. CASE Goto("rename")
    BY <2>1 DEF WriterOK, Goto, Writing
  <2> QED
    BY <1>2, <2>1, AdvancingStep, WriterAdvance, WriterReturn
<1>3. CASE Staying \/ Cleanup
  BY <1>3 DEF Staying, CopyPart, RemoveOldPart, Cleanup, Goto, WriterOK, Writing
<1>4. CASE (\E x \in Parts : CopyPartFails(x)) \/ IoFails \/ CleanupDone
  BY <1>4, WriterReturn DEF CopyPartFails, IoFails, CleanupDone
<1>5. CASE ActivateRecent
  <2>1. CASE Goto("openPath")
    BY <2>1 DEF WriterOK, Goto, Writing
  <2> QED
    BY <1>5, <2>1, WriterReturn DEF ActivateRecent
<1>6. CASE ActivateOpenPath
  <2>1. CASE Goto("verifyActivation")
    BY <2>1 DEF WriterOK, Goto, Writing
  <2> QED
    BY <1>6, <2>1, WriterReturn DEF ActivateOpenPath
<1>7. CASE Check
  <2>1. CASE pc' = "begin"
    BY <2>1 DEF WriterOK, Writing
  <2> QED
    BY <1>7, <2>1, WriterReturn DEF Check, Location
<1>8. CASE Begin
  <2>1. CASE /\ out' = [slot |-> "A",
                        rec |-> Record(1, Prepared, job.old, job.new, job.keep)]
             /\ Goto("truncate")
    <3>1. out'.rec.new = job.new /\ file'[job.new] = "none" /\ pc' = "truncate"
      BY <1>8, <2>1 DEF Begin, Record, Goto, domainVars, Inv, JobOK
    <3> QED
      BY <3>1 DEF WriterOK
  <2> QED
    BY <1>8, <2>1, WriterReturn DEF Begin
<1>9. CASE Recording
  <2>1. CASE Goto("write") \/ Goto("unwrite") \/ Goto("close")
    <3>1. /\ file' = file /\ UNCHANGED <<sel, out>> /\ pc \in Writing
          /\ Goto("close") => slot'[out.slot] = out.rec
      BY <1>9, <2>1, RecordingStep DEF domainVars, Goto, Return
    <3> QED
      BY <2>1, <3>1 DEF WriterOK, Goto, Writing
  <2>2. CASE Goto("load")
    BY <2>2 DEF WriterOK, Goto, Writing
  <2>3. CASE Return("pending")
    BY <2>3, WriterReturn
  <2>4. \/ Goto("write") \/ Goto("unwrite") \/ Goto("close") \/ Goto("load")
        \/ Return("pending")
    BY <1>9, RecordingStep
  <2> QED
    BY <2>1, <2>2, <2>3, <2>4
<1>10. CASE Outside
  BY <1>10 DEF Outside, User, StartMove, Upload, OpenBook, ShowRecents, Sleep,
     PowerLoss, Boot, WriterOK, Writing
<1>11. CASE UNCHANGED vars
  BY <1>11 DEF vars, journalVars, domainVars, callVars, WriterOK
<1> QED
  BY <1>1, <1>2, <1>3, <1>4, <1>5, <1>6, <1>7, <1>8, <1>9, <1>10, <1>11, StepKinds

-----------------------------------------------------------------------------
(***************************************************************************)
(* The slots, and what the journal selects of them.                        *)
(***************************************************************************)
(* Only writing a record and cleaning up touch the slots.                  *)
LEMMA SlotStep ==
  ASSUME Inv, [Next]_vars
  PROVE  slot' = slot \/ Recording \/ Cleanup \/ CleanupDone
<1>1. CASE Load \/ Advancing
  BY <1>1, LoadStep, AdvancingStep
<1>2. CASE Staying \/ UNCHANGED vars
  BY <1>2 DEF Staying, CopyPart, RemoveOldPart, vars, journalVars
<1>3. CASE (\E x \in Parts : CopyPartFails(x)) \/ IoFails \/ Check \/ Begin
           \/ ActivateRecent \/ ActivateOpenPath
  BY <1>3 DEF CopyPartFails, IoFails, Check, Begin, ActivateRecent, ActivateOpenPath
<1>4. CASE Outside
  BY <1>4 DEF Outside, User, StartMove, Upload, OpenBook, ShowRecents, Sleep,
     PowerLoss, Boot, journalVars
<1> QED
  BY <1>1, <1>2, <1>3, <1>4, StepKinds

(* The selection changes only when a record is written, withdrawn or       *)
(* cleared.                                                                *)
LEMMA SelectedStep ==
  ASSUME Inv, [Next]_vars
  PROVE  \/ Selected' = Selected
         \/ Recording /\ Selected' \in {sel, out}
         \/ CleanupDone /\ Selected' = NoSelection
<1>1. CASE slot' = slot
  BY <1>1 DEF Selected
<1>2. CASE Recording
  <2>1. CASE slot' = slot
    BY <1>1, <2>1
  <2> QED
    BY <1>2, <2>1, RecordingStep
<1>3. CASE Cleanup \/ CleanupDone
  BY <1>3, CleanupSelects
<1> QED
  BY <1>1, <1>2, <1>3, SlotStep

(* A file appears where none was, or moves there; nothing else happens to  *)
(* the files.                                                              *)
LEMMA FileStep ==
  ASSUME Inv, [Next]_vars
  PROVE  \/ file' = file
         \/ RenameSource
         \/ \E p \in Paths : /\ Upload(p) /\ pc = "idle" /\ pc' = "idle"
                             /\ file[p] = "none"
                             /\ file' = [file EXCEPT ![p] = "other"]
<1>1. CASE Load \/ Advancing \/ Recording \/ Cleanup \/ CleanupDone
  BY <1>1, LoadStep, AdvancingStep, RecordingStep DEF Cleanup, CleanupDone, domainVars
<1>2. CASE Staying \/ UNCHANGED vars
  BY <1>2 DEF Staying, CopyPart, RemoveOldPart, vars, domainVars
<1>3. CASE (\E x \in Parts : CopyPartFails(x)) \/ IoFails \/ Check \/ Begin
           \/ ActivateRecent \/ ActivateOpenPath
  BY <1>3 DEF CopyPartFails, IoFails, Check, Begin, ActivateRecent,
              ActivateOpenPath, domainVars
<1>4. CASE Outside
  BY <1>4 DEF Outside, User, StartMove, Upload, OpenBook, ShowRecents, Sleep,
     PowerLoss, Boot, domainVars
<1> QED
  BY <1>1, <1>2, <1>3, <1>4, StepKinds

-----------------------------------------------------------------------------
(***************************************************************************)
(* OldPathForgotten: the old path of an activated move is named nowhere.   *)
(***************************************************************************)
LEMMA MigratedRecents ==
  ASSUME NEW paths, NEW rec, rec.old # rec.new
  PROVE  rec.old \notin MigrateRecents(paths, rec)
  BY DEF MigrateRecents

(* Outside the activation no step names a path that has no file.           *)
LEMMA StaysLeft ==
  ASSUME Inv, [Next]_vars, ~ActivateRecent, ~ActivateOpenPath,
         NEW p, Left(p), file[p] = "none"
  PROVE  Left(p)'
<1>1. CASE UNCHANGED <<recents, open>>
  BY <1>1 DEF Left
<1>2. CASE Load \/ Advancing \/ Recording \/ Cleanup \/ CleanupDone
  BY <1>1, <1>2, LoadStep, AdvancingStep, RecordingStep
     DEF Cleanup, CleanupDone, domainVars
<1>3. CASE Staying \/ UNCHANGED vars
  BY <1>1, <1>3 DEF Staying, CopyPart, RemoveOldPart, vars, domainVars
<1>4. CASE (\E x \in Parts : CopyPartFails(x)) \/ IoFails \/ Check \/ Begin
  BY <1>1, <1>4 DEF CopyPartFails, IoFails, Check, Begin, domainVars
<1>5. CASE Outside
  <2>1. CASE \E q \in Paths : OpenBook(q)
    <3>1. PICK q \in Paths : OpenBook(q)
      BY <2>1
    <3>2. q # p /\ recents' = [disk |-> Listed \cup {q}, ram |-> Listed \cup {q}]
          /\ open' = [disk |-> q, ram |-> q]
      BY <3>1 DEF OpenBook
    <3>3. p \notin Listed
      BY DEF Left, Listed
    <3> QED
      BY <3>2, <3>3 DEF Left
  <2>2. CASE ShowRecents
    BY <2>2 DEF ShowRecents, Left, Listed
  <2>3. CASE Boot
    <3>1. recents' = [recents EXCEPT !.ram = recents.disk]
          /\ open' = [open EXCEPT !.ram = open.disk]
      BY <2>3 DEF Boot
    <3> QED
      BY <3>1 DEF Left, Inv, TypeOK
  <2>4. CASE \/ \E o, n \in Paths, keep \in BOOLEAN : StartMove(o, n, keep)
             \/ \E q \in Paths : Upload(q)
             \/ Sleep \/ PowerLoss
    BY <1>1, <2>4 DEF StartMove, Upload, Sleep, PowerLoss, domainVars
  <2> QED
    BY <1>5, <2>1, <2>2, <2>3, <2>4 DEF Outside, User
<1> QED
  BY <1>2, <1>3, <1>4, <1>5, StepKinds

(* So a forgotten path stays forgotten.                                    *)
LEMMA StaysForgotten ==
  ASSUME Inv, [Next]_vars, ~ActivateRecent, ~ActivateOpenPath, ~RenameSource,
         NEW s \in Selections, Forgotten(s)
  PROVE  IsActivated(s.rec) /\ file'[s.rec.old] = "none" => Left(s.rec.old)'
<1> SUFFICES ASSUME IsActivated(s.rec), file'[s.rec.old] = "none"
             PROVE  Left(s.rec.old)'
  OBVIOUS
<1>1. s.rec.old \in Paths
  BY DEF Selections, NoSelection, Absent, Blank, IsActivated, Activated,
         OldStateRemoved, Records
<1>2. CASE file[s.rec.old] = "none"
  BY <1>2, StaysLeft DEF Forgotten
<1>3. CASE file[s.rec.old] # "none"
  BY <1>1, <1>3, FileStep DEF Inv, TypeOK
<1> QED
  BY <1>2, <1>3

(* What the next record of an advancing step names.                        *)
LEMMA AdvanceRecord ==
  ASSUME Inv, pc \in Dispatched, NEW phase, Advance(phase)
  PROVE  /\ pc' = "truncate" /\ sel' = sel /\ steps' = steps
         /\ UNCHANGED <<job, result>>
         /\ out'.rec.old = sel.rec.old /\ out'.rec.new = sel.rec.new
         /\ out'.rec.phase = phase /\ out' # NoSelection
  BY NextRecord DEF Advance, Goto

LEMMA ForgetAdvance ==
  ASSUME Inv, ForgetOK, Advancing, [Next]_vars
  PROVE  ForgetOK'
<1>1. /\ pc \in Dispatched /\ sel # NoSelection /\ Selected = sel
      /\ sel \in [slot : Slots, rec : Records]
      /\ UNCHANGED <<slot, recents, open>>
  BY AdvancingStep
<1>2. Selected' = Selected
  BY <1>1 DEF Selected
<1>3. CASE RenameSource
  <2>1. sel.rec.phase = Prepared /\ Advance(SourceMoved)
    BY <1>3, <1>1 DEF Inv, SelOK, RenameSource, PhasesAt
  <2>2. pc' = "truncate" /\ sel' = sel /\ out'.rec.phase = SourceMoved
    BY <1>1, <2>1, AdvanceRecord
  <2> QED
    BY <1>1, <1>2, <2>1, <2>2
       DEF ForgetOK, Forgotten, IsActivated, Activated, OldStateRemoved,
           SourceMoved, Prepared
<1>4. CASE ~RenameSource
  <2>1. ~ActivateRecent /\ ~ActivateOpenPath
    BY DEF Advancing, Locate, RenameSource, RenameFails, CopyDone, VerifyState,
       VerifyActivation, RemoveDone, ActivateRecent, ActivateOpenPath
  <2>2. Selected \in Selections /\ Forgotten(Selected)
    BY SelectedIsOnDisk DEF Inv, ForgetOK
  <2>3. Forgotten(Selected)' /\ file' = file
    BY <1>1, <1>2, <1>4, <2>1, <2>2, StaysForgotten, AdvancingStep DEF Forgotten
  <2>4. CASE pc' \notin Writing \cup {"openPath", "verifyActivation"}
    BY <2>3, <2>4 DEF ForgetOK
  <2>5. CASE (Locate /\ Goto("rename")) \/ \E res : Return(res)
    BY <2>4, <2>5, ReturnStep DEF Goto, Writing
  <2>6. ASSUME NEW phase, Advance(phase),
               phase = sel.rec.phase + 1 \/ phase = Abandoned
        PROVE  ForgetOK'
    <3>1. /\ pc' = "truncate" /\ sel' = sel
          /\ out'.rec.old = sel.rec.old /\ out'.rec.phase = phase
      BY <1>1, <2>6, AdvanceRecord
    <3>2. Forgotten(sel)'
      BY <1>1, <1>2, <2>3, <3>1
    <3>3. CASE pc = "verifyActivation"
      <4>1. sel.rec.old \notin recents.disk \cup recents.ram
        BY <3>3 DEF ForgetOK
      <4>2. ActivationPersisted(sel.rec)
        BY <2>6, <3>1, <3>3 DEF Advancing, Locate, RenameSource, RenameFails, CopyDone,
           VerifyState, VerifyActivation, RemoveDone, Return
      <4>3. Left(sel.rec.old)
        BY <4>1, <4>2 DEF Left, ActivationPersisted
      <4>4. Left(out.rec.old)'
        BY <1>1, <3>1, <4>3 DEF Left
      <4> QED
        BY <2>3, <3>1, <3>2, <4>4 DEF ForgetOK, Forgotten, Writing
    <3>4. CASE pc # "verifyActivation"
      <4>1. IsActivated(out'.rec) => IsActivated(sel.rec)
        <5>1. sel.rec.phase \in PhasesAt(pc)
              /\ pc \in {"locate", "rename", "copy", "verify", "remove"}
          BY <1>1, <3>4 DEF Inv, SelOK, Advancing, Locate, RenameSource, RenameFails,
             CopyDone, VerifyState, VerifyActivation, RemoveDone
        <5> QED
          BY <2>6, <3>1, <5>1
             DEF PhasesAt, IsActivated, Prepared, SourceMoved, CacheCopied,
                 BookmarksCopied, ClippingsCopied, StateVerified, Activated,
                 OldStateRemoved, Abandoned
      <4>2. Forgotten(out)'
        BY <1>1, <1>2, <2>3, <3>1, <4>1 DEF Forgotten, Left
      <4> QED
        BY <2>3, <3>1, <3>2, <4>2 DEF ForgetOK, Writing
    <3> QED
      BY <3>3, <3>4
  <2> QED
    BY <1>4, <2>5, <2>6, AdvancingStep
<1> QED
  BY <1>3, <1>4

LEMMA ForgetRecording ==
  ASSUME Inv, ForgetOK, Recording, [Next]_vars
  PROVE  ForgetOK'
<1>1. pc \in Writing /\ UNCHANGED <<file, recents, open>>
  BY RecordingStep DEF domainVars
<1>2. \A s : Forgotten(s) =>
             (IsActivated(s.rec) /\ file'[s.rec.old] = "none" => Left(s.rec.old)')
  BY <1>1 DEF Forgotten, Left
<1>3. Forgotten(Selected) /\ Forgotten(sel) /\ Forgotten(out)
  BY <1>1 DEF ForgetOK
<1>4. Forgotten(Selected)'
  BY <1>2, <1>3, SelectedStep, RecordingStep, <1>1 DEF Forgotten, CleanupDone, Writing
<1>5. CASE pc' \notin Writing \cup {"openPath", "verifyActivation"}
  BY <1>4, <1>5 DEF ForgetOK
<1>6. CASE UNCHANGED <<sel, out>> /\ pc' \in Writing
  <2>1. Forgotten(sel)' /\ Forgotten(out)'
    BY <1>2, <1>3, <1>6 DEF Forgotten
  <2> QED
    BY <1>4, <1>6, <2>1 DEF ForgetOK, Writing
<1>7. \/ pc' \notin Writing \cup {"openPath", "verifyActivation"}
      \/ UNCHANGED <<sel, out>> /\ pc' \in Writing
  BY RecordingStep, ReturnStep DEF Goto, Writing
<1> QED
  BY <1>5, <1>6, <1>7

LEMMA ForgetStep ==
  ASSUME Inv, StateOK, ForgetOK, [Next]_vars
  PROVE  ForgetOK'
<1>1. Selected \in Selections /\ Forgotten(Selected)
  BY SelectedIsOnDisk DEF Inv, ForgetOK
<1>2. CASE ActivateRecent \/ ActivateOpenPath
  <2>1. /\ Selected = sel /\ sel # NoSelection /\ sel.rec.phase = StateVerified
        /\ slot' = slot
    BY <1>2 DEF Inv, SelOK, ActivateRecent, ActivateOpenPath, Dispatched, PhasesAt
  <2>2. sel.rec.old # sel.rec.new /\ Selected' = sel
    BY <2>1 DEF StateOK, Consistent, Selected
  <2>3. Forgotten(Selected)'
    BY <2>1, <2>2
       DEF Forgotten, IsActivated, StateVerified, Activated, OldStateRemoved
  <2>4. CASE \E res : Return(res)
    BY <2>3, <2>4, ReturnStep DEF ForgetOK, Writing
  <2>5. CASE /\ ActivateRecent /\ Goto("openPath") /\ sel' = sel
             /\ recents' = [disk |-> MigrateRecents(recents.ram, sel.rec),
                            ram  |-> MigrateRecents(recents.ram, sel.rec)]
    BY <2>2, <2>3, <2>5, MigratedRecents DEF ForgetOK, Goto, Writing
  <2>6. CASE ActivateOpenPath /\ Goto("verifyActivation") /\ sel' = sel
    BY <2>3, <2>6 DEF ActivateOpenPath, ForgetOK, Goto, Writing
  <2> QED
    BY <1>2, <2>4, <2>5, <2>6 DEF ActivateRecent, ActivateOpenPath
<1>3. CASE Advancing
  BY <1>3, ForgetAdvance
<1>4. CASE Recording
  BY <1>4, ForgetRecording
<1>5. CASE ~ActivateRecent /\ ~ActivateOpenPath /\ ~Advancing /\ ~Recording
  <2>1. Selected' \in {Selected, NoSelection}
    BY <1>5, SelectedStep
  <2>2. Forgotten(NoSelection)'
    BY DEF Forgotten, IsActivated, NoSelection, Absent, Blank, Activated, OldStateRemoved
  <2>3. Forgotten(Selected)'
    BY <1>1, <1>5, <2>1, <2>2, StaysForgotten DEF Forgotten, Advancing
  <2>4. CASE pc' \notin Writing \cup {"openPath", "verifyActivation"}
    BY <2>3, <2>4 DEF ForgetOK
  <2>5. CASE Load \/ Staying \/ (\E x \in Parts : CopyPartFails(x)) \/ IoFails
             \/ Cleanup \/ CleanupDone \/ Check \/ Outside
    <3>1. CASE Load
      BY <2>4, <3>1, LoadStep, ReturnStep DEF Dispatched, Writing
    <3>2. CASE Staying \/ Cleanup
      BY <2>4, <3>2 DEF Staying, CopyPart, RemoveOldPart, Cleanup, Goto, Writing
    <3>3. CASE (\E x \in Parts : CopyPartFails(x)) \/ IoFails \/ CleanupDone
      BY <2>4, <3>3, ReturnStep DEF CopyPartFails, IoFails, CleanupDone, Writing
    <3>4. CASE Check
      <4>1. pc' = "begin" \/ \E res : Return(res)
        BY <3>4 DEF Check
      <4> QED
        BY <2>4, <4>1, ReturnStep DEF Writing
    <3>5. CASE Outside
      BY <2>4, <3>5 DEF Outside, User, StartMove, Upload, OpenBook, ShowRecents,
         Sleep, PowerLoss, Boot, Writing
    <3> QED
      BY <2>5, <3>1, <3>2, <3>3, <3>4, <3>5
  <2>6. CASE Begin
    <3>1. CASE \E res : Return(res)
      BY <2>4, <3>1, ReturnStep DEF Writing
    <3>2. CASE /\ out' = [slot |-> "A",
                          rec |-> Record(1, Prepared, job.old, job.new, job.keep)]
               /\ Goto("truncate") /\ sel' = sel
      <4>1. sel' = NoSelection
        BY <2>6, <3>2 DEF Begin, Inv, JobOK, Dispatched, Writing
      <4>2. out'.rec.phase = Prepared
        BY <3>2 DEF Record
      <4>3. Forgotten(sel)' /\ Forgotten(out)'
        BY <2>2, <4>1, <4>2 DEF Forgotten, IsActivated, Prepared, Activated,
           OldStateRemoved
      <4> QED
        BY <2>3, <3>2, <4>3 DEF ForgetOK, Goto, Writing
    <3> QED
      BY <2>6, <3>1, <3>2 DEF Begin
  <2>7. CASE UNCHANGED vars
    <3>1. UNCHANGED <<pc, sel, out, file, recents, open>>
      BY <2>7 DEF vars, journalVars, domainVars, callVars
    <3> QED
      BY <2>3, <3>1 DEF ForgetOK, Forgotten, Left
  <2> QED
    BY <1>5, <2>5, <2>6, <2>7, StepKinds
<1> QED
  BY <1>2, <1>3, <1>4, <1>5

-----------------------------------------------------------------------------
(***************************************************************************)
(* CompleteIsDurable: what a call that renamed its file has left behind.   *)
(***************************************************************************)
LEMMA CurrentIs ==
  ASSUME Inv
  PROVE  /\ pc \in Dispatched => Current = sel.rec /\ Selected = sel
         /\ pc \in Writing => Current = out.rec
         /\ pc \notin Writing => Current = Selected.rec
  BY DEF Current, Inv, SelOK, Dispatched, Writing

(* A step that neither moves a file nor the record the call is at.         *)
LEMMA CallKeep ==
  ASSUME CallOK, UNCHANGED <<file, job>>, Current' = Current,
         pc \notin {"check", "begin", "idle", "off"},
         pc' \notin {"check", "begin", "idle", "off"}
  PROVE  CallOK'
  BY DEF CallOK, OldOnly, NewOnly

LEMMA CallReturn ==
  ASSUME NEW res, Return(res),
         res \notin {"nothing", "complete", "abandoned"} \/ pc = "check"
  PROVE  CallOK'
<1>1. pc' = "idle" /\ job' = NoJob
  BY ReturnStep
<1> QED
  BY <1>1 DEF CallOK, NoJob, Job

(* The call whose recovery cleared the journal of its own move left the    *)
(* old path behind it.                                                     *)
LEMMA CleanupLeaves ==
  ASSUME Inv, ForgetOK, CallOK, CleanupDone,
         job.kind \in {"recover", "move"}, NewOnly, NEW left, left = job.old
  PROVE  /\ sel.rec.phase = OldStateRemoved => Left(left)'
         /\ job.kind = "recover" => sel.rec.phase = OldStateRemoved
<1>1. /\ Selected = sel /\ sel.rec.phase \in {OldStateRemoved, Abandoned}
      /\ pc \in Dispatched /\ pc = "cleanup2" /\ UNCHANGED <<recents, open>>
  BY CleanupSelects DEF CleanupDone, Dispatched, domainVars
<1>2. Current = sel.rec
  BY <1>1, CurrentIs
<1>3. ~OldOnly
  BY DEF OldOnly, NewOnly
<1>4. job.kind = "recover" => /\ sel.rec.phase = OldStateRemoved
                              /\ sel.rec.old = job.old
  BY <1>1, <1>2, <1>3
     DEF CallOK, SourceMoved, OldStateRemoved, Abandoned
<1>5. job.kind = "move" => sel.rec.old = job.old
  BY <1>1, <1>2 DEF CallOK
<1>6. sel.rec.phase = OldStateRemoved => Left(left)
  BY <1>1, <1>4, <1>5
     DEF ForgetOK, Forgotten, IsActivated, NewOnly, Activated, OldStateRemoved
<1> QED
  BY <1>1, <1>4, <1>6 DEF Left

LEMMA CallCleanupDone ==
  ASSUME Inv, ForgetOK, CallOK, CleanupDone
  PROVE  CallOK'
<1>1. PICK res \in {"abandoned", "complete"} : Return(res)
  BY DEF CleanupDone
<1>2. CASE pc' = "idle" /\ job' = NoJob
  BY <1>2 DEF CallOK, NoJob, Job
<1>3. CASE pc' = "check" /\ job.kind = "recover" /\ job' = job
  <2>1. NewOnly' => NewOnly
    BY <1>3 DEF CleanupDone, domainVars, NewOnly
  <2>2. NewOnly => Left(job.old)'
    BY <1>3, CleanupLeaves
  <2>3. slot' = [s \in Slots |-> Absent]
    BY CleanupSelects
  <2> QED
    BY <1>3, <2>1, <2>2, <2>3 DEF CallOK, Left
<1> QED
  BY <1>1, <1>2, <1>3, ReturnStep

LEMMA CallAdvance ==
  ASSUME Inv, CallOK, Advancing, [Next]_vars
  PROVE  CallOK'
<1>1. /\ pc \in Dispatched /\ sel # NoSelection /\ Selected = sel
      /\ sel \in [slot : Slots, rec : Records]
  BY AdvancingStep
<1>2. Current = sel.rec /\ sel.rec.phase \in PhasesAt(pc)
  BY <1>1, CurrentIs DEF Inv, SelOK
<1>3. CASE Goto("rename") /\ file' = file
  <2>1. Selected' = Selected
    BY <1>1, AdvancingStep DEF Selected
  <2>2. Current' = Current /\ job' = job
    BY <1>1, <1>2, <1>3, <2>1 DEF Current, Goto, Writing
  <2> QED
    BY <1>1, <1>3, <2>2, CallKeep DEF Goto, Dispatched
<1>4. ASSUME NEW phase, Advance(phase),
             \/ /\ phase = sel.rec.phase + 1
                /\ file' = file \/ RenameSource
             \/ RenameFails /\ phase = Abandoned /\ file' = file
      PROVE  CallOK'
  <2>1. /\ pc' = "truncate" /\ job' = job
        /\ out'.rec.old = sel.rec.old /\ out'.rec.new = sel.rec.new
        /\ out'.rec.phase = phase
    BY <1>1, <1>4, AdvanceRecord
  <2>2. Current' = out'.rec
    BY <2>1 DEF Current, Writing
  <2>3. CASE RenameSource
    <3>1. /\ sel.rec.phase = Prepared /\ SourceLocation = "oldOnly"
          /\ sel.rec.old \in Paths /\ sel.rec.new \in Paths
      BY <1>1, <1>2, <2>3 DEF RenameSource, PhasesAt, Inv, SelOK, Records
    <3>2. /\ file[sel.rec.old] # "none" /\ file[sel.rec.new] = "none"
          /\ file' = [file EXCEPT ![sel.rec.old] = "none",
                                  ![sel.rec.new] = file[sel.rec.old]]
      BY <2>3, <3>1 DEF SourceLocation, Location, RenameSource
    <3>3. phase = SourceMoved
      BY <1>4, <2>3, <3>1 DEF RenameSource, RenameFails, Advance, Record,
         SourceMoved, Prepared
    <3>4. ASSUME job.kind = "recover", NewOnly'
          PROVE  sel.rec.old = job.old /\ sel.rec.new = job.new
      <4>1. OldOnly
        BY <1>1, <1>2, <3>1, <3>4
           DEF CallOK, Dispatched, Prepared, SourceMoved, OldStateRemoved
      <4>2. job.old \in Paths /\ job.new \in Paths
        BY <3>4 DEF Inv, TypeOK, Jobs
      <4> QED
        BY <2>1, <3>1, <3>2, <3>4, <4>1, <4>2 DEF OldOnly, NewOnly, Inv, TypeOK
    <3>5. ASSUME job.kind = "move" PROVE NewOnly'
      <4>1. sel.rec.old = job.old /\ sel.rec.new = job.new
        BY <1>1, <1>2, <3>5 DEF CallOK, Dispatched
      <4>2. job.old # job.new
        BY <3>5 DEF Inv, JobOK
      <4> QED
        BY <2>1, <3>1, <3>2, <4>1, <4>2 DEF NewOnly, Inv, TypeOK
    <3>6. job.kind = "move" => Current.old = job.old /\ Current.new = job.new
      BY <1>1 DEF CallOK, Dispatched
    <3> QED
      BY <1>2, <2>1, <2>2, <3>3, <3>4, <3>5, <3>6
         DEF CallOK, SourceMoved, OldStateRemoved
  <2>4. CASE ~RenameSource
    <3>1. file' = file
      BY <1>4, <2>4
    <3>2. OldOnly' = OldOnly /\ NewOnly' = NewOnly
      BY <2>1, <3>1 DEF OldOnly, NewOnly
    <3>3. CASE sel.rec.phase \in SourceMoved..Activated
      <4>1. phase \in SourceMoved..OldStateRemoved
        <5>1. ~RenameFails
          BY <1>2, <3>3 DEF RenameFails, PhasesAt, Prepared, SourceMoved, Activated
        <5> QED
          BY <1>4, <3>3, <5>1 DEF SourceMoved, Activated, OldStateRemoved
      <4>2. sel.rec.phase \in SourceMoved..OldStateRemoved
        BY <3>3 DEF SourceMoved, Activated, OldStateRemoved
      <4> QED
        BY <1>1, <1>2, <2>1, <2>2, <3>2, <4>1, <4>2 DEF CallOK, Dispatched
    <3>4. CASE sel.rec.phase = Prepared
      <4>1. job.kind = "recover" => OldOnly
        BY <1>1, <1>2, <3>4
           DEF CallOK, Dispatched, Prepared, SourceMoved, OldStateRemoved
      <4>2. ASSUME job.kind = "move", phase \in SourceMoved..OldStateRemoved
            PROVE  NewOnly
        <5>1. Locate /\ SourceLocation = "newOnly"
          <6>1. ~RenameFails
            BY <1>4, <4>2 DEF RenameFails, Advance, Record, Abandoned, OldStateRemoved,
               SourceMoved
          <6>2. Locate
            BY <1>2, <2>4, <3>4, <6>1
               DEF Advancing, CopyDone, VerifyState, VerifyActivation, RemoveDone,
                   PhasesAt, Prepared, SourceMoved, CacheCopied, BookmarksCopied,
                   ClippingsCopied, StateVerified, Activated
          <6> QED
            BY <2>1, <6>2 DEF Locate, SourceLocation, Location, Return, Goto
        <5>2. sel.rec.old = job.old /\ sel.rec.new = job.new
          BY <1>1, <1>2, <4>2 DEF CallOK, Dispatched
        <5> QED
          BY <5>1, <5>2 DEF SourceLocation, Location, NewOnly
      <4> QED
        BY <1>1, <1>2, <2>1, <2>2, <3>2, <4>1, <4>2 DEF CallOK, Dispatched
    <3>5. sel.rec.phase = Prepared \/ sel.rec.phase \in SourceMoved..Activated
      <4>1. pc \in {"locate", "rename", "copy", "verify", "verifyActivation", "remove"}
        BY DEF Advancing, Locate, RenameSource, RenameFails, CopyDone, VerifyState,
           VerifyActivation, RemoveDone
      <4>2. sel.rec.phase \in {Prepared, SourceMoved, CacheCopied, BookmarksCopied,
                               ClippingsCopied, StateVerified, Activated}
        BY <1>2, <4>1 DEF PhasesAt
      <4> QED
        BY <4>2 DEF Prepared, SourceMoved, CacheCopied, BookmarksCopied,
           ClippingsCopied, StateVerified, Activated
    <3> QED
      BY <3>3, <3>4, <3>5
  <2> QED
    BY <2>3, <2>4
<1> QED
  BY <1>3, <1>4, AdvancingStep, CallReturn

LEMMA CallRecording ==
  ASSUME Inv, WriterOK, CallOK, Recording
  PROVE  CallOK'
<1>1. pc \in Writing /\ file' = file /\ Current = out.rec
  BY RecordingStep, CurrentIs DEF domainVars
<1>2. CASE Return("pending")
  BY <1>2, CallReturn
<1>3. CASE (Goto("write") \/ Goto("close") \/ Goto("unwrite")) /\ out' = out
  <2>1. Current' = Current /\ job' = job
    BY <1>1, <1>3 DEF Current, Goto, Writing
  <2> QED
    BY <1>1, <1>3, <2>1, CallKeep DEF Goto, Writing
<1>4. CASE pc = "close" /\ slot' = slot /\ Goto("load")
  <2>1. Selected = out
    BY <1>1, <1>4, SlotWritten DEF Inv, TypeOK, WriterOK, Selected
  <2>2. Current' = Current /\ job' = job
    BY <1>1, <1>4, <2>1 DEF Current, Goto, Writing, Selected
  <2> QED
    BY <1>1, <1>4, <2>2, CallKeep DEF Goto, Writing
<1>5. \/ Return("pending")
      \/ (Goto("write") \/ Goto("close") \/ Goto("unwrite")) /\ out' = out
      \/ pc = "close" /\ slot' = slot /\ Goto("load")
  BY RecordingStep
<1> QED
  BY <1>2, <1>3, <1>4, <1>5

LEMMA CallLoad ==
  ASSUME Inv, CallOK, Load
  PROVE  CallOK'
<1>1. pc = "load" /\ UNCHANGED <<slot, file>> /\ Selected' = Selected
  BY LoadStep DEF Load, domainVars, Selected
<1>2. Current = Selected.rec
  BY <1>1, CurrentIs DEF Writing
<1>3. CASE Return("pending")
  BY <1>3, CallReturn
<1>4. CASE Return("nothing") /\ Selected = NoSelection
  <2>1. CASE pc' = "idle" /\ job' = NoJob
    BY <2>1 DEF CallOK, NoJob, Job
  <2>2. CASE pc' = "check" /\ job' = job /\ job.kind = "recover"
    <3>1. Current.phase = 0
      BY <1>2, <1>4 DEF NoSelection, Absent, Blank
    <3>2. OldOnly
      BY <1>1, <2>2, <3>1 DEF CallOK, SourceMoved, OldStateRemoved
    <3> QED
      BY <1>1, <2>2, <3>2 DEF CallOK, OldOnly, NewOnly
  <2> QED
    BY <1>4, <2>1, <2>2, ReturnStep
<1>5. CASE Goto(StageOf(Selected.rec.phase)) /\ pc' \in Dispatched
  <2>1. Current' = Current /\ job' = job
    BY <1>1, <1>2, <1>5 DEF Current, Goto, Dispatched, Writing
  <2> QED
    BY <1>1, <1>5, <2>1, CallKeep DEF Dispatched
<1> QED
  BY <1>3, <1>4, <1>5, LoadStep

LEMMA CallOutside ==
  ASSUME Inv, CallOK, Outside
  PROVE  CallOK'
<1>1. CASE Sleep \/ (\E p \in Paths : Upload(p) \/ OpenBook(p)) \/ ShowRecents
  <2>1. pc = "idle" /\ pc' \in {"idle", "off"} /\ job' = job
    BY <1>1 DEF Sleep, Upload, OpenBook, ShowRecents, callVars
  <2> QED
    BY <2>1 DEF CallOK
<1>2. CASE PowerLoss \/ Boot
  BY <1>2 DEF PowerLoss, Boot, NoJob, Job, CallOK
<1>3. CASE \E o, n \in Paths, keep \in BOOLEAN : StartMove(o, n, keep)
  <2>1. /\ pc' = "load" /\ job'.kind = "recover" /\ file' = file
        /\ file[job'.old] # "none" /\ file[job'.new] = "none"
    BY <1>3 DEF StartMove, Job, domainVars
  <2> QED
    BY <2>1 DEF CallOK, OldOnly
<1> QED
  BY <1>1, <1>2, <1>3 DEF Outside, User

LEMMA CallStep ==
  ASSUME Inv, WriterOK, ForgetOK, CallOK, [Next]_vars
  PROVE  CallOK'
<1>1. CASE Staying \/ UNCHANGED vars
  <2>1. UNCHANGED <<slot, out, file, recents, open, pc, job>>
    BY <1>1 DEF Staying, CopyPart, RemoveOldPart, vars, journalVars, domainVars, callVars
  <2>2. Current' = Current
    BY <2>1 DEF Current, Selected
  <2> QED
    BY <2>1, <2>2 DEF CallOK, OldOnly, NewOnly, Left
<1>2. CASE (\E x \in Parts : CopyPartFails(x)) \/ IoFails
  BY <1>2, CallReturn DEF CopyPartFails, IoFails
<1>3. CASE ActivateRecent \/ ActivateOpenPath
  <2>1. pc \in Dispatched /\ UNCHANGED <<slot, file>> /\ Selected' = Selected
    BY <1>3 DEF ActivateRecent, ActivateOpenPath, Dispatched, Selected
  <2>2. CASE Return("pending")
    BY <2>2, CallReturn
  <2>3. CASE Goto("openPath") \/ Goto("verifyActivation")
    <3>1. Current' = Current /\ job' = job
      BY <2>1, <2>3, CurrentIs DEF Current, Goto, Writing
    <3> QED
      BY <2>1, <2>3, <3>1, CallKeep DEF Goto, Dispatched
  <2> QED
    BY <1>3, <2>2, <2>3 DEF ActivateRecent, ActivateOpenPath
<1>4. CASE Cleanup
  <2>1. pc = "cleanup" /\ pc' = "cleanup2" /\ UNCHANGED <<file, job>>
    BY <1>4 DEF Cleanup, Goto, domainVars
  <2>2. Current' = Current
    BY <1>4, <2>1, CleanupSelects, CurrentIs DEF Current, Writing
  <2> QED
    BY <2>1, <2>2, CallKeep
<1>5. CASE Check
  <2>1. CASE pc' = "begin" /\ job' = [job EXCEPT !.kind = "move"]
    <3>1. job'.kind = "move"
      BY <1>5, <2>1 DEF Check, Inv, TypeOK, JobOK, Jobs
    <3> QED
      BY <2>1, <3>1 DEF CallOK
  <2>2. CASE \E res : Return(res)
    BY <1>5, <2>2, CallReturn DEF Check
  <2> QED
    BY <1>5, <2>1, <2>2 DEF Check, Location
<1>6. CASE Begin
  <2>1. CASE Return("pending") \/ Return("conflict")
    BY <2>1, CallReturn
  <2>2. CASE /\ out' = [slot |-> "A",
                        rec |-> Record(1, Prepared, job.old, job.new, job.keep)]
             /\ Goto("truncate")
    <3>1. /\ pc' = "truncate" /\ job' = job /\ job.kind = "move"
          /\ Current' = Record(1, Prepared, job.old, job.new, job.keep)
      BY <1>6, <2>2 DEF Begin, Goto, CallOK, Current, Writing
    <3> QED
      BY <3>1 DEF CallOK, Record, Prepared, SourceMoved, OldStateRemoved
  <2> QED
    BY <1>6, <2>1, <2>2 DEF Begin
<1> QED
  BY <1>1, <1>2, <1>3, <1>4, <1>5, <1>6, CallLoad, CallAdvance, CallCleanupDone,
     CallRecording, CallOutside, StepKinds

-----------------------------------------------------------------------------
(***************************************************************************)
(* The book and the list of recent books.                                  *)
(***************************************************************************)
LEMMA RenameStep ==
  ASSUME Inv, RenameSource
  PROVE  /\ sel.rec.old \in Paths /\ sel.rec.new \in Paths
         /\ file[sel.rec.old] # "none" /\ file[sel.rec.new] = "none"
         /\ sel.rec.old # sel.rec.new
         /\ file' = [p \in Paths |-> IF p = sel.rec.old THEN "none"
                                     ELSE IF p = sel.rec.new THEN file[sel.rec.old]
                                     ELSE file[p]]
<1>1. /\ sel.rec.old \in Paths /\ sel.rec.new \in Paths
      /\ SourceLocation = "oldOnly"
  BY SelRecord DEF RenameSource, Dispatched, Inv, SelOK, Records
<1> QED
  BY <1>1 DEF RenameSource, SourceLocation, Location, Inv, TypeOK

LEMMA OneBookStep ==
  ASSUME Inv, OneBook, [Next]_vars
  PROVE  OneBook'
<1>1. PICK b \in Paths : \A p \in Paths : file[p] = "book" <=> p = b
  BY DEF OneBook
<1>2. CASE file' = file
  BY <1>1, <1>2 DEF OneBook
<1>3. CASE RenameSource
  <2>1. CASE b = sel.rec.old
    <3>1. \A p \in Paths : file'[p] = "book" <=> p = sel.rec.new
      BY <1>1, <1>3, <2>1, RenameStep
    <3> QED
      BY <1>3, <3>1, RenameStep DEF OneBook
  <2>2. CASE b # sel.rec.old
    <3>1. \A p \in Paths : file'[p] = "book" <=> p = b
      BY <1>1, <1>3, <2>2, RenameStep
    <3> QED
      BY <3>1 DEF OneBook
  <2> QED
    BY <2>1, <2>2
<1>4. CASE \E q \in Paths : file[q] = "none" /\ file' = [file EXCEPT ![q] = "other"]
  <2>1. \A p \in Paths : file'[p] = "book" <=> p = b
    BY <1>1, <1>4 DEF Inv, TypeOK
  <2> QED
    BY <2>1 DEF OneBook
<1> QED
  BY <1>2, <1>3, <1>4, FileStep

(* Who changes the list of recent books.                                   *)
LEMMA ListStep ==
  ASSUME Inv, [Next]_vars
  PROVE  \/ recents' = recents
         \/ /\ ActivateRecent /\ slot' = slot /\ file' = file
            /\ recents'.disk = MigrateRecents(recents.ram, sel.rec)
            /\ \/ recents'.ram = recents'.disk
               \/ recents'.ram = recents.ram /\ Return("pending")
         \/ \E p \in Paths : /\ OpenBook(p) /\ slot' = slot /\ file' = file
                             /\ recents' = [disk |-> Listed \cup {p}, ram |-> Listed \cup {p}]
         \/ /\ ShowRecents /\ slot' = slot /\ file' = file
            /\ recents' = [disk |-> Listed, ram |-> Listed]
         \/ Boot /\ slot' = slot /\ file' = file /\ recents' = [disk |-> recents.disk, ram |-> recents.disk]
<1>1. CASE Load \/ Advancing \/ Recording \/ Cleanup \/ CleanupDone
  BY <1>1, LoadStep, AdvancingStep, RecordingStep DEF Cleanup, CleanupDone, domainVars
<1>2. CASE Staying \/ UNCHANGED vars
  BY <1>2 DEF Staying, CopyPart, RemoveOldPart, vars, domainVars
<1>3. CASE (\E x \in Parts : CopyPartFails(x)) \/ IoFails \/ Check \/ Begin
           \/ ActivateOpenPath
  BY <1>3 DEF CopyPartFails, IoFails, Check, Begin, ActivateOpenPath, domainVars
<1>4. CASE ActivateRecent
  BY <1>4 DEF ActivateRecent, Inv, TypeOK
<1>5. CASE Outside
  BY <1>5 DEF Outside, User, StartMove, Upload, OpenBook, ShowRecents, Sleep,
     PowerLoss, Boot, journalVars, domainVars, Inv, TypeOK
<1> QED
  BY <1>1, <1>2, <1>3, <1>4, <1>5, StepKinds

LEMMA ListsOKStep ==
  ASSUME Inv, ListsOK, [Next]_vars
  PROVE  ListsOK'
<1>1. CASE recents'.disk = recents'.ram
  BY <1>1 DEF ListsOK
<1>2. CASE ActivateRecent /\ recents'.ram = recents.ram /\ Return("pending")
           /\ recents'.disk = MigrateRecents(recents.ram, sel.rec)
  <2>1. Selected = sel /\ sel.rec.phase = StateVerified /\ Selected' = Selected
    BY <1>2 DEF ActivateRecent, Inv, SelOK, Dispatched, PhasesAt, Selected
  <2> QED
    BY <1>2, <2>1, ReturnStep DEF ListsOK, MigrateRecents, Writing
<1>3. CASE recents' = recents /\ recents.disk # recents.ram
  <2>1. /\ pc \notin Writing \cup {"openPath", "verifyActivation"}
        /\ Selected.rec.phase = StateVerified
        /\ recents.disk = MigrateRecents(recents.ram, Selected.rec)
    BY <1>3 DEF ListsOK
  <2>2. ~Recording /\ ~CleanupDone /\ ~Advancing /\ ~ActivateOpenPath
    <3>1. ~Recording
      BY <2>1, RecordingStep
    <3>2. ~CleanupDone
      BY <2>1, CleanupSelects DEF StateVerified, OldStateRemoved, Abandoned
    <3>3. ~Advancing
      <4> SUFFICES ASSUME Advancing PROVE FALSE
        OBVIOUS
      <4>1. sel.rec.phase \in PhasesAt(pc) /\ Selected = sel
            /\ pc \in {"locate", "rename", "copy", "verify", "verifyActivation", "remove"}
        BY AdvancingStep DEF Inv, SelOK, Advancing, Locate, RenameSource, RenameFails,
           CopyDone, VerifyState, VerifyActivation, RemoveDone
      <4> QED
        BY <2>1, <4>1 DEF PhasesAt, Prepared, SourceMoved, CacheCopied, BookmarksCopied,
           ClippingsCopied, StateVerified, Activated
    <3>4. ~ActivateOpenPath
      BY <2>1 DEF ActivateOpenPath
    <3> QED
      BY <3>1, <3>2, <3>3, <3>4
  <2>3. Selected' = Selected /\ Selected # NoSelection
    BY <2>1, <2>2, SelectedStep DEF NoSelection, Absent, Blank, StateVerified
  <2>4. pc' \notin Writing \cup {"openPath", "verifyActivation"}
    <3>1. CASE Load
      BY <3>1, LoadStep, ReturnStep DEF Dispatched, Writing
    <3>2. CASE Staying \/ UNCHANGED vars
      BY <2>1, <3>2 DEF Staying, CopyPart, RemoveOldPart, vars
    <3>3. CASE (\E x \in Parts : CopyPartFails(x)) \/ IoFails
      BY <3>3, ReturnStep DEF CopyPartFails, IoFails, Writing
    <3>4. CASE Cleanup \/ Outside
      BY <2>1, <3>4 DEF Cleanup, Goto, Outside, User, StartMove, Upload, OpenBook,
         ShowRecents, Sleep, PowerLoss, Boot, Writing
    <3>5. CASE Check
      <4>1. pc' = "begin" \/ \E res : Return(res)
        BY <3>5 DEF Check
      <4> QED
        BY <4>1, ReturnStep DEF Writing
    <3>6. CASE Begin
      BY <2>3, <3>6, ReturnStep DEF Begin, Writing
    <3>7. CASE ActivateRecent
      <4>1. (recents' = recents /\ recents.ram = recents.disk) \/ Return("pending")
        BY <1>3, <3>7 DEF ActivateRecent
      <4> QED
        BY <1>3, <4>1, ReturnStep DEF Writing
    <3> QED
      BY <2>2, <3>1, <3>2, <3>3, <3>4, <3>5, <3>6, <3>7, StepKinds
  <2> QED
    BY <1>3, <2>1, <2>3, <2>4 DEF ListsOK
<1>4. CASE recents' = recents /\ recents.disk = recents.ram
  BY <1>4 DEF ListsOK
<1> QED
  BY <1>1, <1>2, <1>3, <1>4, ListStep

-----------------------------------------------------------------------------
(***************************************************************************)
(* The invariant and what follows from it.                                 *)
(***************************************************************************)
Whole == Inv /\ StateOK /\ Outcome

LEMMA InitWhole == Init => Whole
<1> SUFFICES ASSUME Init PROVE Whole
  OBVIOUS
<1>1. Inv /\ StateOK
  BY InitInv, InitState
<1>2. /\ pc = "idle" /\ sel = NoSelection /\ steps = 0 /\ job = NoJob
      /\ recents.disk = recents.ram
  BY DEF Init
<1>3. Selected = NoSelection
  BY DEF Init, Selected, Select, IsRecord, Absent, Blank, Slots
<1>4. ~IsActivated(Selected.rec)
  BY <1>3 DEF NoSelection, Absent, Blank, IsActivated, Activated, OldStateRemoved
<1>5. WriterOK /\ BudgetOK /\ ForgetOK /\ ListsOK /\ CallOK
  BY <1>2, <1>4 DEF WriterOK, BudgetOK, ForgetOK, Forgotten, ListsOK, CallOK, NoJob,
     Job, Dispatched, Writing
<1>6. OneBook
  <2>1. PICK home \in Paths :
          file = [p \in Paths |-> IF p = home THEN "book" ELSE "none"]
    BY DEF Init
  <2>2. \A p \in Paths : file[p] = "book" <=> p = home
    BY <2>1
  <2> QED
    BY <2>2 DEF OneBook
<1> QED
  BY <1>1, <1>5, <1>6 DEF Whole, Outcome

LEMMA WholeStep == Whole /\ [Next]_vars => Whole'
<1> SUFFICES ASSUME Whole, [Next]_vars PROVE Whole'
  OBVIOUS
<1>1. Inv /\ StateOK /\ Outcome
  BY DEF Whole
<1>2. Inv' /\ StateOK'
  BY <1>1, StepInv, StepState
<1>3. WriterOK' /\ BudgetOK' /\ ForgetOK'
  BY <1>1, WriterStep, BudgetStep, ForgetStep DEF Outcome
<1>4. ListsOK' /\ CallOK' /\ OneBook'
  BY <1>1, ListsOKStep, CallStep, OneBookStep DEF Outcome
<1> QED
  BY <1>2, <1>3, <1>4 DEF Whole, Outcome

(* The writer, the running call, the lists and the one book keep to what   *)
(* Outcome says of them.                                                   *)
THEOREM WholeInvariance == Spec => []Whole
  BY InitWhole, WholeStep, PTL DEF Spec

(* The budget of nine recovery steps never ends a recovery: a record has   *)
(* had as many steps as its sequence number says, eight at most.           *)
THEOREM BudgetIsEnough == Spec => []BudgetSuffices
<1>1. Whole => BudgetSuffices
  <2> SUFFICES ASSUME Whole PROVE BudgetSuffices
    OBVIOUS
  <2>1. Inv /\ BudgetOK /\ steps \in Nat
    BY DEF Whole, Outcome, Inv, TypeOK
  <2>2. CASE pc \in Dispatched
    <3>1. sel.rec.seq \in 1..8 /\ steps <= sel.rec.seq
      BY <2>1, <2>2, SelRecord, SequenceBounds DEF BudgetOK
    <3> QED
      BY <2>1, <3>1 DEF BudgetSuffices, MaxRecoverySteps
  <2>3. CASE pc \in Writing
    <3>1. out.rec.seq \in 1..8 /\ steps < out.rec.seq
      BY <2>1, <2>3, OutRecord, SequenceBounds DEF BudgetOK
    <3> QED
      BY <2>1, <3>1 DEF BudgetSuffices, MaxRecoverySteps
  <2>4. CASE pc = "load" /\ steps # 0
    <3>1. Selected.rec.seq \in 1..8 /\ steps < Selected.rec.seq
      BY <2>1, <2>4, SelectedIsOnDisk, SequenceBounds DEF BudgetOK, Inv
    <3> QED
      BY <2>1, <3>1 DEF BudgetSuffices, MaxRecoverySteps
  <2>5. CASE steps = 0
    BY <2>5 DEF BudgetSuffices, MaxRecoverySteps
  <2> QED
    BY <2>1, <2>2, <2>3, <2>4, <2>5 DEF BudgetOK
<1> QED
  BY <1>1, WholeInvariance, PTL

(* From Activated on, on disk and in RAM, nothing names the old path.      *)
THEOREM OldPathIsForgotten == Spec => []OldPathForgotten
<1>1. Whole => OldPathForgotten
  BY DEF Whole, Outcome, ForgetOK, Forgotten, Left, OldPathForgotten
<1> QED
  BY <1>1, WholeInvariance, PTL

(* No step of a move or of its recovery overwrites a file in the way.      *)
THEOREM NoFileIsOverwritten == Spec => FilesSurvive
<1>1. Inv /\ [Next]_vars =>
        [\A p \in Paths : file[p] # "none" /\ file'[p] # file[p] =>
           \E q \in Paths : file[q] = "none" /\ file'[q] = file[p]]_file
  <2> SUFFICES ASSUME Inv, [Next]_vars, file' # file,
                      NEW p \in Paths, file[p] # "none", file'[p] # file[p]
               PROVE  \E q \in Paths : file[q] = "none" /\ file'[q] = file[p]
    OBVIOUS
  <2>1. CASE RenameSource
    <3>1. p = sel.rec.old /\ file'[sel.rec.new] = file[p]
      BY <2>1, RenameStep
    <3> QED
      BY <2>1, <3>1, RenameStep
  <2>2. CASE \E q \in Paths : file[q] = "none" /\ file' = [file EXCEPT ![q] = "other"]
    BY <2>2 DEF Inv, TypeOK
  <2> QED
    BY <2>1, <2>2, FileStep
<1> QED
  BY <1>1, Invariance, PTL DEF Spec, FilesSurvive

(* A call that answers Complete leaves an empty journal, the file at the   *)
(* new path alone and no trace of the old one.                             *)
THEOREM CompleteMeansDone == Spec => CompleteIsDurable
<1> DEFINE Durably ==
        job.kind \in {"recover", "move"} /\ result # "complete" /\ result' = "complete" =>
          /\ slot' = [s \in Slots |-> Absent]
          /\ file'[job.old] = "none" /\ file'[job.new] # "none"
          /\ job.old \notin recents'.disk /\ open'.disk # job.old
<1>1. Whole /\ [Next]_vars => [Durably]_vars
  <2> SUFFICES ASSUME Whole, [Next]_vars, job.kind \in {"recover", "move"},
                      result # "complete", result' = "complete"
               PROVE  /\ slot' = [s \in Slots |-> Absent]
                      /\ file'[job.old] = "none" /\ file'[job.new] # "none"
                      /\ job.old \notin recents'.disk /\ open'.disk # job.old
    OBVIOUS
  <2>1. Inv /\ ForgetOK /\ CallOK
    BY DEF Whole, Outcome
  <2>2. CASE Check
    <3>1. /\ Location(job.old, job.new) = "newOnly" /\ pc = "check"
          /\ UNCHANGED <<slot, file, recents, open>>
      BY <2>2 DEF Check, Location, Return, domainVars
    <3>2. NewOnly /\ job.kind = "recover"
      BY <2>1, <3>1 DEF Location, NewOnly, CallOK, Check, Inv, JobOK
    <3> QED
      BY <2>1, <3>1, <3>2 DEF CallOK, NewOnly, Left
  <2>3. CASE CleanupDone
    <3>1. /\ sel.rec.phase = OldStateRemoved /\ job.kind = "move"
          /\ pc \in Dispatched /\ UNCHANGED <<file, recents, open>>
      BY <2>1, <2>3, CleanupSelects
         DEF CleanupDone, Return, Dispatched, domainVars
    <3>2. NewOnly
      BY <2>1, <2>3, <3>1, CurrentIs
         DEF CallOK, SourceMoved, OldStateRemoved, CleanupDone
    <3>3. Left(job.old)
      <4>1. sel.rec.old = job.old /\ Selected = sel
        BY <2>1, <2>3, <3>1, CurrentIs DEF CallOK, CleanupDone
      <4> QED
        BY <2>1, <3>1, <3>2, <4>1
           DEF ForgetOK, Forgotten, IsActivated, NewOnly, Activated, OldStateRemoved
    <3> QED
      BY <2>1, <2>3, <3>1, <3>2, <3>3, CleanupSelects DEF NewOnly, Left
  <2>4. CASE Load \/ Advancing \/ Recording
    <3>1. ASSUME NEW res, Return(res), res # "complete" PROVE FALSE
      BY <3>1, ReturnStep
    <3>2. ASSUME result' = result PROVE FALSE
      BY <3>2
    <3>3. CASE Load
      BY <2>1, <3>1, <3>2, <3>3, LoadStep DEF Goto
    <3>4. CASE Advancing
      BY <2>1, <3>1, <3>2, <3>4, AdvancingStep DEF Goto, Advance
    <3>5. CASE Recording
      BY <2>1, <3>1, <3>2, <3>5, RecordingStep DEF Goto
    <3> QED
      BY <2>4, <3>3, <3>4, <3>5
  <2>5. CASE Staying \/ (\E x \in Parts : CopyPartFails(x)) \/ ActivateRecent
             \/ ActivateOpenPath \/ Cleanup \/ Begin \/ IoFails \/ UNCHANGED vars
    BY <2>5 DEF Staying, CopyPart, RemoveOldPart, CopyPartFails, ActivateRecent,
       ActivateOpenPath, Cleanup, Begin, IoFails, Return, Goto, vars, callVars
  <2>6. CASE Outside
    BY <2>6 DEF Outside, User, StartMove, Upload, OpenBook, ShowRecents, Sleep,
       PowerLoss, Boot, callVars
  <2> QED
    BY <2>2, <2>3, <2>4, <2>5, <2>6, StepKinds
<1> QED
  BY <1>1, WholeInvariance, PTL DEF Spec, CompleteIsDurable

-----------------------------------------------------------------------------
(***************************************************************************)
(* ListedStaysListed.                                                      *)
(***************************************************************************)
(* A name of the book is never pruned: at one of them the book is, and a   *)
(* pending move hides neither of the two.                                  *)
LEMMA NamesAreListed ==
  ASSUME Inv, NEW q \in BookNames, q \in recents.ram
  PROVE  q \in Listed
<1>1. CASE file[q] = "book"
  BY <1>1 DEF Listed, Missing
<1>2. CASE file[q] # "book"
  <2>1. /\ Selected.slot # NoSlot /\ ~IsActivated(Selected.rec)
        /\ q \in {Selected.rec.old, Selected.rec.new}
    BY <1>2 DEF BookNames
  <2>2. ~CanOpen(q)
    BY <2>1 DEF CanOpen
  <2> QED
    BY <2>2 DEF Listed, Missing
<1> QED
  BY <1>1, <1>2

(* Under a record that is not activated both of its names or neither are   *)
(* names of the book.                                                      *)
LEMMA NamesOfRecord ==
  ASSUME Inv, Selected # NoSelection, ~IsActivated(Selected.rec)
  PROVE  \/ BookNames = {Selected.rec.old, Selected.rec.new}
         \/ BookNames \cap {Selected.rec.old, Selected.rec.new} = {}
<1>1. Selected.slot # NoSlot
  BY SelectedIsOnDisk DEF Inv, Slots, NoSlot
<1> QED
  BY <1>1 DEF BookNames

LEMMA MigratedNames ==
  ASSUME NEW paths, NEW names, NEW rec, rec.keep, rec.old # rec.new,
         names = {rec.old, rec.new} \/ names \cap {rec.old, rec.new} = {}
  PROVE  (MigrateRecents(paths, rec) \cap names # {}) <=> (paths \cap names # {})
  BY DEF MigrateRecents

LEMMA MigratedFewer ==
  ASSUME NEW paths, NEW names, NEW rec,
         names = {rec.old, rec.new} \/ names \cap {rec.old, rec.new} = {},
         MigrateRecents(paths, rec) \cap names # {}
  PROVE  paths \cap names # {}
  BY DEF MigrateRecents

(* What the list on disk names of the book, the list in RAM names too.     *)
LEMMA ListsAgree ==
  ASSUME Whole, recents.disk \cap BookNames # {}
  PROVE  recents.ram \cap BookNames # {}
<1>1. Inv /\ ListsOK
  BY DEF Whole, Outcome
<1>2. CASE recents.disk = recents.ram
  BY <1>2
<1>3. CASE /\ Selected.rec.phase = StateVerified
           /\ recents.disk = MigrateRecents(recents.ram, Selected.rec)
  <2>1. Selected # NoSelection /\ ~IsActivated(Selected.rec)
    BY <1>3 DEF NoSelection, Absent, Blank, IsActivated, StateVerified, Activated,
       OldStateRemoved
  <2> QED
    BY <1>1, <1>3, <2>1, NamesOfRecord, MigratedFewer
<1> QED
  BY <1>1, <1>2, <1>3 DEF ListsOK

(* Only the activation of a move that asks for it takes the last name of   *)
(* the book off the list on disk.                                          *)
THEOREM BookStaysListed == Spec => ListedStaysListed
<1> DEFINE Keeping == recents.disk \cap BookNames # {} /\ recents.disk' \cap BookNames' = {} =>
                        pc = "recent" /\ ~sel.rec.keep
<1>1. Whole /\ [Next]_vars => [Keeping]_recents
  <2> SUFFICES ASSUME Whole, [Next]_vars, recents' # recents,
                      recents.disk \cap BookNames # {},
                      recents.disk' \cap BookNames' = {}
               PROVE  pc = "recent" /\ ~sel.rec.keep
    OBVIOUS
  <2>1. Inv /\ StateOK /\ recents.ram \cap BookNames # {}
    BY ListsAgree DEF Whole
  <2>2. ASSUME UNCHANGED <<slot, file>> PROVE BookNames' = BookNames
    BY <2>2 DEF BookNames, Selected, IsActivated
  <2>3. CASE ActivateRecent
    <3>1. /\ recents'.disk = MigrateRecents(recents.ram, sel.rec)
          /\ BookNames' = BookNames /\ pc = "recent"
      <4>1. UNCHANGED <<slot, file>> /\ pc = "recent"
        BY <2>3 DEF ActivateRecent
      <4>2. recents'.disk = MigrateRecents(recents.ram, sel.rec)
        BY <2>1, <2>3 DEF ActivateRecent, Inv, TypeOK
      <4> QED
        BY <2>2, <4>1, <4>2
    <3>2. /\ Selected = sel /\ sel # NoSelection /\ sel.rec.phase = StateVerified
          /\ sel.rec.old # sel.rec.new
      BY <2>1, <2>3 DEF Inv, SelOK, ActivateRecent, Dispatched, PhasesAt, StateOK, Consistent
    <3>3. ~IsActivated(sel.rec)
      BY <3>2 DEF IsActivated, StateVerified, Activated, OldStateRemoved
    <3>4. \/ BookNames = {sel.rec.old, sel.rec.new}
          \/ BookNames \cap {sel.rec.old, sel.rec.new} = {}
      BY <2>1, <3>2, <3>3, NamesOfRecord
    <3>5. recents'.disk \cap BookNames = {}
      BY <3>1
    <3> QED
      BY <2>1, <3>1, <3>2, <3>4, <3>5, MigratedNames
  <2>4. CASE UNCHANGED <<slot, file>> /\ Listed \subseteq recents'.disk
    <3>1. PICK q \in BookNames : q \in recents.ram
      BY <2>1
    <3>2. q \in recents'.disk /\ BookNames' = BookNames
      BY <2>1, <2>2, <2>4, <3>1, NamesAreListed
    <3> QED
      BY <3>1, <3>2
  <2>5. CASE UNCHANGED <<slot, file>> /\ recents'.disk = recents.disk
    BY <2>2, <2>5
  <2> QED
    BY <2>1, <2>3, <2>4, <2>5, ListStep
<1> QED
  BY <1>1, WholeInvariance, PTL DEF Spec, ListedStaysListed

-----------------------------------------------------------------------------
(***************************************************************************)
(* The move implements the atomic move.                                    *)
(***************************************************************************)
Home == KeyUnder(Durable, BookPath)
Pending == IF Durable = NoSelection THEN {} ELSE {<<Durable.rec.old, Durable.rec.new>>}
Done == IsActivated(Durable.rec)

LEMMA DurableIs ==
  ASSUME Inv
  PROVE  Durable = IF pc \in Writing THEN sel ELSE Selected
<1>1. CASE pc \notin Writing
  BY <1>1 DEF Durable, Writing
<1>2. CASE pc = "truncate"
  BY <1>2 DEF Durable, Inv, OutOK, Writing
<1>3. CASE pc \in Writing /\ pc # "truncate"
  <2>1. /\ out \in [slot : Slots, rec : Records] /\ slot \in [Slots -> SlotValues]
        /\ ~IsRecord(Torn)
    BY <1>3, OutRecord, SlotFacts DEF Inv, TypeOK
  <2>2. CASE pc = "write"
    <3>1. ~IsRecord(slot[out.slot])
      BY <1>3, <2>1, <2>2 DEF Inv, OutOK
    <3> QED
      BY <1>3, <2>1, <2>2, <3>1, SlotWritten DEF Durable, Selected
  <2>3. CASE pc \in {"close", "unwrite"}
    <3> DEFINE t == [slot EXCEPT ![out.slot] = Torn]
    <3>1. t \in [Slots -> SlotValues] /\ ~IsRecord(t[out.slot])
          /\ t[Opposite(out.slot)] = slot[Opposite(out.slot)]
      BY <2>1, SlotFacts DEF SlotValues
    <3>2. Select(t["A"], t["B"]) = sel
      BY <1>3, <3>1, SlotWritten
    <3>3. Durable = Select(t["A"], t["B"])
      BY <2>1, <2>3 DEF Durable, Slots
    <3> QED
      BY <1>3, <3>2, <3>3
  <2> QED
    BY <1>3, <2>2, <2>3 DEF Writing
<1> QED
  BY <1>1, <1>2, <1>3 DEF Writing

(* The same of the next state.                                             *)
LEMMA DurableIsNext ==
  Inv' => Durable' = IF pc' \in Writing THEN sel' ELSE Selected'
<1>1. Inv => Durable = IF pc \in Writing THEN sel ELSE Selected
  BY DurableIs
<1>2. Inv' => (Durable = IF pc \in Writing THEN sel ELSE Selected)'
  BY <1>1, PTL
<1> QED
  BY <1>2 DEF Writing

LEMMA BookIsAt ==
  ASSUME OneBook
  PROVE  BookPath \in Paths /\ \A p \in Paths : file[p] = "book" <=> p = BookPath
<1>1. \E p \in Paths : file[p] = "book"
  BY DEF OneBook
<1>2. BookPath \in Paths /\ file[BookPath] = "book"
  BY <1>1 DEF BookPath
<1> QED
  BY <1>2 DEF OneBook

LEMMA BookIsAtNext ==
  OneBook' => /\ BookPath' \in Paths
              /\ \A p \in Paths : file'[p] = "book" <=> p = BookPath'
<1>1. OneBook => BookPath \in Paths /\ \A p \in Paths : file[p] = "book" <=> p = BookPath
  BY BookIsAt
<1>2. OneBook' => (BookPath \in Paths /\ \A p \in Paths : file[p] = "book" <=> p = BookPath)'
  BY <1>1, PTL
<1> QED
  BY <1>2

(* While a record is written the journal selects it or the one before it.  *)
LEMMA WritingSelects ==
  ASSUME Inv, pc \in Writing
  PROVE  /\ Selected \in {sel, out}
         /\ slot[out.slot] = out.rec => Selected = out
<1>1. slot \in [Slots -> SlotValues] /\ ~IsRecord(Torn)
  BY SlotFacts DEF Inv, TypeOK
<1>2. slot[out.slot] = out.rec => Selected = out
  BY <1>1, SlotWritten DEF Selected
<1>3. slot[out.slot] = Torn => Selected = sel
  BY <1>1, SlotWritten DEF Selected
<1> QED
  BY <1>2, <1>3 DEF Inv, OutOK, Writing

(* A record is begun by an advance or by the beginning of a move.          *)
LEMMA WritingStarts ==
  ASSUME Inv, [Next]_vars, pc \notin Writing, pc' \in Writing
  PROVE  Advancing \/ Begin
<1>1. ~Recording
  BY RecordingStep
<1>2. CASE Load
  BY <1>2, LoadStep, ReturnStep DEF Dispatched, Writing
<1>3. CASE Staying \/ UNCHANGED vars \/ Cleanup \/ Outside
  BY <1>3 DEF Staying, CopyPart, RemoveOldPart, vars, Cleanup, Goto, Outside,
     User, StartMove, Upload, OpenBook, ShowRecents, Sleep, PowerLoss, Boot, Writing
<1>4. CASE (\E x \in Parts : CopyPartFails(x)) \/ IoFails \/ CleanupDone
  BY <1>4, ReturnStep DEF CopyPartFails, IoFails, CleanupDone, Writing
<1>5. CASE Check
  <2>1. pc' = "begin" \/ \E res : Return(res)
    BY <1>5 DEF Check
  <2> QED
    BY <2>1, ReturnStep DEF Writing
<1>6. CASE ActivateRecent \/ ActivateOpenPath
  BY <1>6, ReturnStep DEF ActivateRecent, ActivateOpenPath, Goto, Writing
<1> QED
  BY <1>1, <1>2, <1>3, <1>4, <1>5, <1>6, StepKinds

(* Only the writer, a failure and the loss of power step from its labels.  *)
LEMMA WritingStep ==
  ASSUME Inv, [Next]_vars, pc \in Writing
  PROVE  Recording \/ PowerLoss \/ IoFails \/ UNCHANGED vars
<1>1. ~Advancing
  BY AdvancingStep DEF Dispatched, Writing
<1>2. pc \in {"truncate", "write", "close", "unwrite"}
  BY DEF Writing
<1> QED
  BY <1>1, <1>2, StepKinds
     DEF Load, Staying, CopyPart, RemoveOldPart, CopyPartFails, ActivateRecent,
         ActivateOpenPath, Cleanup, CleanupDone, Check, Begin, Outside, User,
         StartMove, Upload, OpenBook, ShowRecents, Sleep, Boot

(* The durable record is replaced by the next one, or cleared at the end.  *)
LEMMA DurableStep ==
  ASSUME Whole, [Next]_vars
  PROVE  \/ Durable' = Durable
         \/ /\ pc \in Writing /\ Durable = sel /\ Durable' = out
            /\ file' = file
         \/ CleanupDone /\ Durable = sel /\ Durable' = NoSelection
<1>1. Inv /\ WriterOK /\ Inv'
  BY StepInv DEF Whole, Outcome
<1>2. Durable = IF pc \in Writing THEN sel ELSE Selected
  BY <1>1, DurableIs
<1>3. Durable' = IF pc' \in Writing THEN sel' ELSE Selected'
  BY <1>1, DurableIsNext
<1>4. CASE pc \notin Writing /\ pc' \notin Writing
  <2>1. ~Recording
    BY <1>1, <1>4, RecordingStep
  <2>2. CASE CleanupDone
    BY <1>1, <1>2, <1>3, <1>4, <2>2, CleanupSelects
  <2>3. CASE ~CleanupDone
    BY <1>1, <1>2, <1>3, <1>4, <2>1, <2>3, SelectedStep
  <2> QED
    BY <2>2, <2>3
<1>5. CASE pc \notin Writing /\ pc' \in Writing
  <2>1. CASE Advancing
    BY <1>1, <1>2, <1>3, <1>5, <2>1, AdvancingStep, AdvanceRecord, ReturnStep DEF Goto, Writing
  <2>2. CASE Begin
    <3>1. sel = NoSelection /\ sel' = sel /\ Selected = NoSelection
      BY <1>1, <1>5, <2>2, ReturnStep DEF Begin, Inv, JobOK, Dispatched, Writing
    <3> QED
      BY <1>2, <1>3, <1>5, <3>1
  <2> QED
    BY <1>1, <1>5, <2>1, <2>2, WritingStarts
<1>6. CASE pc \in Writing
  <2>1. Selected \in {sel, out} /\ (slot[out.slot] = out.rec => Selected = out)
    BY <1>1, <1>6, WritingSelects
  <2>2. CASE Recording
    <3>1. file' = file
      BY <1>1, <2>2, RecordingStep DEF domainVars
    <3>2. CASE pc' \in Writing
      <4>1. sel' = sel
        BY <1>1, <2>2, <3>2, RecordingStep, ReturnStep DEF Goto, Writing
      <4> QED
        BY <1>2, <1>3, <1>6, <3>2, <4>1
    <3>3. CASE pc' \notin Writing
      <4>1. slot' = slot \/ Selected' = sel
        BY <1>1, <2>2, <3>3, RecordingStep DEF Goto, Writing
      <4>2. Selected' \in {sel, out}
        BY <2>1, <4>1 DEF Selected
      <4> QED
        BY <1>2, <1>3, <1>6, <3>1, <3>3, <4>2
    <3> QED
      BY <3>2, <3>3
  <2>3. CASE PowerLoss
    <3>1. pc' \notin Writing /\ Selected' = Selected /\ file' = file
      BY <2>3 DEF PowerLoss, Writing, Selected, domainVars
    <3> QED
      BY <1>2, <1>3, <1>6, <2>1, <3>1
  <2>4. CASE UNCHANGED vars
    <3>1. pc' = pc /\ sel' = sel
      BY <2>4 DEF vars, callVars
    <3> QED
      BY <1>2, <1>3, <1>6, <3>1
  <2>5. CASE IoFails
    <3>1. pc' \notin Writing /\ Selected' = Selected /\ file' = file
      BY <2>5, ReturnStep DEF IoFails, Writing, Selected, domainVars
    <3> QED
      BY <1>2, <1>3, <1>6, <2>1, <3>1
  <2> QED
    BY <1>1, <1>6, <2>2, <2>3, <2>4, <2>5, WritingStep
<1> QED
  BY <1>4, <1>5, <1>6

(* The book moves only from the one path of the durable record to the      *)
(* other, under which its key is the same.                                 *)
LEMMA HomeStays ==
  ASSUME Whole, [Next]_vars, Durable' = Durable
  PROVE  Home' = Home
<1>1. Inv /\ OneBook /\ OneBook'
  BY OneBookStep DEF Whole, Outcome
<1>2. /\ BookPath \in Paths /\ \A p \in Paths : file[p] = "book" <=> p = BookPath
  BY <1>1, BookIsAt
<1>3. /\ BookPath' \in Paths /\ \A p \in Paths : file'[p] = "book" <=> p = BookPath'
  BY <1>1, BookIsAtNext
<1>4. CASE BookPath' = BookPath
  BY <1>4 DEF Home, KeyUnder, IsActivated
<1>5. CASE file' = file
  BY <1>2, <1>3, <1>4, <1>5
<1>6. CASE RenameSource
  <2>1. CASE BookPath = sel.rec.old
    <3>1. BookPath' = sel.rec.new
      BY <1>1, <1>2, <1>3, <1>6, <2>1, RenameStep
    <3>2. Durable = sel /\ sel.rec.phase = Prepared
      BY <1>1, <1>6, DurableIs DEF Inv, SelOK, RenameSource, Dispatched, PhasesAt, Writing
    <3>3. ~IsActivated(sel.rec)
      BY <3>2 DEF IsActivated, Prepared, Activated, OldStateRemoved
    <3>4. sel.slot # NoSlot
      BY <1>1, <1>6, SelRecord DEF RenameSource, Dispatched, Slots, NoSlot
    <3>5. KeyUnder(sel, sel.rec.old) = sel.rec.old /\ KeyUnder(sel, sel.rec.new) = sel.rec.old
      BY <3>3, <3>4 DEF KeyUnder
    <3>6. Home = sel.rec.old
      BY <2>1, <3>2, <3>5 DEF Home
    <3>7. Home' = KeyUnder(Durable', BookPath')
      BY DEF Home, KeyUnder, IsActivated
    <3> QED
      BY <3>1, <3>2, <3>5, <3>6, <3>7
  <2>2. CASE BookPath # sel.rec.old
    <3>1. BookPath' = BookPath
      BY <1>1, <1>2, <1>3, <1>6, <2>2, RenameStep
    <3> QED
      BY <1>4, <3>1
  <2> QED
    BY <2>1, <2>2
<1>7. CASE \E q \in Paths : file[q] = "none" /\ file' = [file EXCEPT ![q] = "other"]
  <2>1. BookPath' = BookPath
    BY <1>1, <1>2, <1>3, <1>7 DEF Inv, TypeOK
  <2> QED
    BY <1>4, <2>1
<1> QED
  BY <1>1, <1>5, <1>6, <1>7, FileStep

(* A record is written that begins a move, switches the key, or does       *)
(* neither.                                                                *)
LEMMA WrittenPromise ==
  ASSUME Whole, OneBook', pc \in Writing, Durable = sel, Durable' = out, file' = file
  PROVE  \/ UNCHANGED <<Home, Pending, Done>>
         \/ \E old, new \in Paths : Promise!Begin(old, new) \/ Promise!Switch(old, new)
<1>1. /\ Inv /\ WriterOK /\ Consistent(out)
      /\ out \in [slot : Slots, rec : Records] /\ out # NoSelection
  BY OutRecord, SlotFacts DEF Whole, Outcome, StateOK
<1>2. /\ out.slot # NoSlot /\ out.rec \in Records
      /\ out.rec.old \in Paths /\ out.rec.new \in Paths /\ out.rec.old # out.rec.new
  BY <1>1 DEF Slots, NoSlot, Records, Consistent
<1>3. BookPath' = BookPath
  BY DEF BookPath
<1>4. BookPath \in Paths /\ file[BookPath] = "book"
  BY BookIsAt DEF Whole, Outcome
<1>5. /\ Home' = KeyUnder(out, BookPath) /\ Pending' = {<<out.rec.old, out.rec.new>>}
      /\ Done' = IsActivated(out.rec)
  BY <1>1, <1>3 DEF Home, Pending, Done, KeyUnder, IsActivated
<1>6. CASE sel = NoSelection
  <2>1. /\ Home = BookPath /\ Pending = {} /\ Done = FALSE
    BY <1>6 DEF Home, Pending, Done, KeyUnder, NoSelection, IsActivated, Absent, Blank,
       Activated, OldStateRemoved
  <2>2. out.rec.phase = Prepared /\ file[out.rec.new] = "none"
    BY <1>1, <1>6 DEF Inv, OutOK, WriterOK
  <2>3. ~IsActivated(out.rec)
    BY <2>2 DEF IsActivated, Prepared, Activated, OldStateRemoved
  <2>4. BookPath # out.rec.new
    BY <1>4, <2>2
  <2>5. Home' = BookPath /\ Done' = FALSE
    BY <1>2, <1>5, <2>3, <2>4 DEF KeyUnder
  <2>6. Promise!Begin(out.rec.old, out.rec.new)
    BY <1>2, <1>5, <2>1, <2>5 DEF Promise!Begin, Home, Pending, Done
  <2> QED
    BY <1>2, <2>6
<1>7. CASE sel # NoSelection
  <2>1. /\ sel.slot # NoSlot /\ sel.rec \in Records
        /\ out.rec.old = sel.rec.old /\ out.rec.new = sel.rec.new
        /\ out.rec.seq = sel.rec.seq + 1
    BY <1>1, <1>7, OutRecord DEF Inv, OutOK, Slots, NoSlot, Selections
  <2>2. IsActivated(sel.rec) => IsActivated(out.rec)
    BY <1>2, <2>1 DEF Records, SequenceOf, Phases, IsActivated, Activated,
       OldStateRemoved, Abandoned
  <2>3. /\ Home = KeyUnder(sel, BookPath) /\ Pending = Pending'
        /\ Done = IsActivated(sel.rec)
    BY <1>5, <1>7, <2>1 DEF Home, Pending, Done
  <2>4. CASE IsActivated(out.rec) <=> IsActivated(sel.rec)
    <3>1. Home' = Home
      BY <1>2, <1>5, <2>1, <2>3, <2>4 DEF KeyUnder
    <3>2. Done' = Done
      <4>1. Done \in BOOLEAN /\ Done' \in BOOLEAN
        BY DEF Done, IsActivated
      <4>2. Done' <=> Done
        BY <1>5, <2>3, <2>4
      <4> QED
        BY <4>1, <4>2
    <3> QED
      BY <2>3, <3>1, <3>2
  <2>5. CASE IsActivated(out.rec) /\ ~IsActivated(sel.rec)
    <3>1. Done = FALSE /\ Done' = TRUE
      <4>1. Done \in BOOLEAN /\ Done' \in BOOLEAN
        BY DEF Done, IsActivated
      <4>2. ~Done /\ Done'
        BY <1>5, <2>3, <2>5
      <4> QED
        BY <4>1, <4>2
    <3>2. Home' = IF Home = out.rec.old THEN out.rec.new ELSE Home
      BY <1>2, <1>5, <2>1, <2>3, <2>5 DEF KeyUnder
    <3>3. Pending = {<<out.rec.old, out.rec.new>>}
      BY <1>5, <2>3
    <3>4. Promise!Switch(out.rec.old, out.rec.new)
      BY <2>3, <3>1, <3>2, <3>3 DEF Promise!Switch, Home, Pending, Done
    <3> QED
      BY <1>2, <3>4
  <2> QED
    BY <2>2, <2>4, <2>5
<1> QED
  BY <1>6, <1>7

(* The journal is cleared only where the path of the book is its key.      *)
LEMMA ClearedPromise ==
  ASSUME Whole, CleanupDone, Durable = sel, Durable' = NoSelection
  PROVE  Promise!End
<1>1. /\ Inv /\ Consistent(sel) /\ Selected = sel /\ sel # NoSelection /\ file' = file
      /\ sel.rec.phase \in {OldStateRemoved, Abandoned}
  BY CleanupSelects DEF Whole, StateOK
<1>2. BookPath' = BookPath /\ BookPath \in Paths /\ file[BookPath] = "book"
  BY <1>1, BookIsAt DEF Whole, Outcome, BookPath
<1>3. Home' = BookPath /\ Pending' = {} /\ Done' = FALSE
  BY <1>2 DEF Home, Pending, Done, KeyUnder, NoSelection, IsActivated, Absent, Blank,
     Activated, OldStateRemoved
<1>4. Home = BookPath
  <2>1. CASE BookPath \notin {sel.rec.old, sel.rec.new}
    BY <2>1 DEF Home, KeyUnder
  <2>2. CASE BookPath \in {sel.rec.old, sel.rec.new}
    <3>1. Keeps(sel.rec, BookPath) /\ sel.slot # NoSlot
      BY <1>1, <1>2, <2>2, SelectedIsOnDisk DEF Consistent, Inv, Slots, NoSlot
    <3>2. CASE sel.rec.phase = OldStateRemoved
      BY <2>2, <3>1, <3>2
         DEF Home, KeyUnder, Keeps, IsActivated, SourceMoved, OldStateRemoved
    <3>3. CASE sel.rec.phase = Abandoned
      BY <2>2, <3>1, <3>3
         DEF Home, KeyUnder, Keeps, IsActivated, Activated, OldStateRemoved, Abandoned
    <3> QED
      BY <1>1, <3>2, <3>3
  <2> QED
    BY <2>1, <2>2
<1>5. Pending # {}
  BY <1>1 DEF Pending
<1> QED
  BY <1>3, <1>4, <1>5 DEF Promise!End, Home, Pending, Done

LEMMA PromiseStep ==
  Whole /\ [Next]_vars => [Promise!Next]_<<Home, Pending, Done>>
<1> SUFFICES ASSUME Whole, [Next]_vars
             PROVE  [Promise!Next]_<<Home, Pending, Done>>
  OBVIOUS
<1>1. CASE Durable' = Durable
  <2>1. Home' = Home
    BY <1>1, HomeStays
  <2>2. Pending' = Pending /\ Done' = Done
    BY <1>1 DEF Pending, Done, IsActivated
  <2> QED
    BY <2>1, <2>2
<1>2. CASE pc \in Writing /\ Durable = sel /\ Durable' = out /\ file' = file
  <2>1. OneBook'
    BY OneBookStep DEF Whole, Outcome
  <2> QED
    BY <1>2, <2>1, WrittenPromise DEF Promise!Next
<1>3. CASE CleanupDone /\ Durable = sel /\ Durable' = NoSelection
  BY <1>3, ClearedPromise DEF Promise!Next
<1> QED
  BY <1>1, <1>2, <1>3, DurableStep

(* The journaled move, with every interruption, is an atomic move: the key *)
(* of the book's state switches once between Prepared and the end.         *)
THEOREM MoveIsAtomic == Spec => ImplementsAtomicMove
<1>1. Init => Promise!Init
  <2> SUFFICES ASSUME Init PROVE Promise!Init
    OBVIOUS
  <2>1. Whole
    BY InitWhole
  <2>2. Selected = NoSelection /\ pc = "idle"
    BY DEF Init, Selected, Select, IsRecord, Absent, Blank, Slots
  <2>3. Durable = NoSelection
    BY <2>2 DEF Durable
  <2>4. BookPath \in Paths
    BY <2>1, BookIsAt DEF Whole, Outcome
  <2> QED
    BY <2>3, <2>4 DEF Promise!Init, KeyUnder, NoSelection, IsActivated, Absent, Blank,
       Activated, OldStateRemoved
<1>2. Whole /\ [Next]_vars => [Promise!Next]_(Promise!vars)
  BY PromiseStep DEF Promise!vars, Home, Pending, Done
<1> QED
  BY <1>1, <1>2, WholeInvariance, PTL DEF Spec, ImplementsAtomicMove, Promise!Spec

-----------------------------------------------------------------------------
(***************************************************************************)
(* What load finds implements the journal of AtomicJournal: a mutation is  *)
(* the pair of paths of a move, and the journal is arming while its first  *)
(* record is written.                                                      *)
(***************************************************************************)
Move(rec) == <<rec.old, rec.new>>

Beginning == pc \in Writing /\ sel = NoSelection

JournalState ==
  IF Beginning THEN [load |-> "arming", of |-> Move(out.rec)]
  ELSE IF Selected # NoSelection THEN [load |-> "pending", of |-> Move(Selected.rec)]
  ELSE IF Corrupt(slot["A"], slot["B"]) THEN [load |-> "corrupt", of |-> NoPath]
  ELSE [load |-> "empty", of |-> NoPath]

Journal == INSTANCE AtomicJournal WITH
  Mutations <- Paths \X Paths, NoMutation <- NoPath, journal <- JournalState

(* The journal names the move of its durable record.                       *)
LEMMA JournalPending ==
  Inv /\ Durable # NoSelection =>
    JournalState = [load |-> "pending", of |-> Move(Durable.rec)]
<1> SUFFICES ASSUME Inv, Durable # NoSelection
             PROVE  JournalState = [load |-> "pending", of |-> Move(Durable.rec)]
  OBVIOUS
<1>1. CASE pc \notin Writing
  BY <1>1, DurableIs DEF JournalState, Beginning
<1>2. CASE pc \in Writing
  <2>1. sel # NoSelection /\ Durable = sel /\ out # NoSelection
        /\ Move(out.rec) = Move(sel.rec)
    BY <1>2, DurableIs DEF Inv, OutOK, Move
  <2>2. Selected \in {sel, out}
    BY <1>2, WritingSelects
  <2> QED
    BY <2>1, <2>2 DEF JournalState, Beginning
<1> QED
  BY <1>1, <1>2

(* The same of the next state.                                             *)
LEMMA JournalPendingNext ==
  Inv' /\ Durable' # NoSelection =>
    JournalState' = [load |-> "pending", of |-> Move(Durable'.rec)]
<1>1. (Inv /\ Durable # NoSelection =>
         JournalState = [load |-> "pending", of |-> Move(Durable.rec)])'
  BY JournalPending, PTL
<1> QED
  BY <1>1 DEF Move

(* Without a durable record, and with none begun, nothing is selected.     *)
LEMMA JournalBare ==
  ASSUME Inv, Durable = NoSelection, ~Beginning
  PROVE  Selected = NoSelection /\ pc \notin Writing
  BY DurableIs DEF Beginning

LEMMA JournalBareNext ==
  Inv' /\ Durable' = NoSelection /\ ~Beginning' => Selected' = NoSelection
  BY DurableIsNext DEF Beginning

LEMMA BeginningMove ==
  ASSUME Inv, Beginning
  PROVE  /\ Durable = NoSelection /\ Move(out.rec) \in Paths \X Paths
         /\ JournalState = [load |-> "arming", of |-> Move(out.rec)]
<1>1. out.rec \in Records
  BY OutRecord DEF Beginning
<1> QED
  BY <1>1, DurableIs DEF Beginning, JournalState, Move, Records

(* A step that ends the first record leaves it durable or leaves none.     *)
LEMMA SettleStep ==
  ASSUME Inv, Inv', Beginning, ~Beginning',
         Durable' \in {NoSelection, out}
  PROVE  Journal!Next
<1>1. /\ Move(out.rec) \in Paths \X Paths /\ out # NoSelection
      /\ JournalState = [load |-> "arming", of |-> Move(out.rec)]
  BY BeginningMove DEF Beginning, Inv, OutOK
<1>2. CASE Durable' = out
  <2>1. JournalState' = [load |-> "pending", of |-> Move(out.rec)]
    BY <1>1, <1>2, JournalPendingNext
  <2> QED
    BY <1>1, <2>1 DEF Journal!Next, Journal!Settle, Journal!Loaded
<1>3. CASE Durable' = NoSelection
  <2>1. Selected' = NoSelection
    BY <1>3, JournalBareNext
  <2>2. JournalState' \in {[load |-> "empty", of |-> NoPath],
                           [load |-> "corrupt", of |-> NoPath]}
    BY <2>1 DEF JournalState
  <2> QED
    BY <1>1, <2>2 DEF Journal!Next, Journal!Settle, Journal!Loaded, Journal!Empty,
       Journal!Corrupt
<1> QED
  BY <1>2, <1>3

(* A step without a durable record, before and after.                      *)
LEMMA BareStep ==
  ASSUME Inv, Inv', [Next]_vars, Durable = NoSelection, Durable' = NoSelection
  PROVE  Journal!Next \/ UNCHANGED JournalState
<1>1. CASE Beginning /\ Beginning'
  <2>1. out' = out
    BY <1>1, WritingStep, RecordingStep, ReturnStep
       DEF Beginning, Writing, Goto, PowerLoss, IoFails, vars, journalVars
  <2> QED
    BY <1>1, <2>1 DEF JournalState, Move
<1>2. CASE Beginning /\ ~Beginning'
  BY <1>2, SettleStep
<1>3. CASE ~Beginning /\ Beginning'
  <2>1. Selected = NoSelection /\ pc \notin Writing /\ pc' \in Writing
    BY <1>3, JournalBare DEF Beginning
  <2>2. Begin
    BY <2>1, WritingStarts, AdvancingStep
  <2>3. /\ ~Corrupt(slot["A"], slot["B"])
        /\ Move(out'.rec) = <<job.old, job.new>>
    BY <2>1, <2>2, ReturnStep DEF Begin, Writing, Record, Move
  <2>4. job.old \in Paths /\ job.new \in Paths
    BY <2>2 DEF Begin, Inv, TypeOK, JobOK, Jobs
  <2>5. Journal!Begin(<<job.old, job.new>>)
    BY <1>3, <2>1, <2>3 DEF JournalState, Move, Journal!Begin, Journal!Empty,
       Journal!Loaded
  <2> QED
    BY <2>4, <2>5 DEF Journal!Next
<1>4. CASE ~Beginning /\ ~Beginning'
  <2>1. Selected = NoSelection /\ pc \notin Writing
    BY <1>4, JournalBare
  <2>2. ~Recording /\ ~Cleanup /\ ~CleanupDone
    BY <2>1, RecordingStep, CleanupSelects
  <2>3. slot' = slot
    BY <2>2, SlotStep
  <2> QED
    BY <1>4, <2>3 DEF JournalState, Selected
<1> QED
  BY <1>1, <1>2, <1>3, <1>4

(* The end of the clean-up empties the journal.                            *)
LEMMA ClearedJournal ==
  ASSUME Inv, Inv', CleanupDone, Durable = sel, Durable' = NoSelection
  PROVE  Journal!Next
<1>1. /\ sel # NoSelection /\ Selected' = NoSelection
      /\ slot' = [s \in Slots |-> Absent] /\ pc' \notin Writing
  BY CleanupSelects, ReturnStep DEF CleanupDone, Writing
<1>2. JournalState = [load |-> "pending", of |-> Move(sel.rec)]
  BY <1>1, JournalPending
<1>3. JournalState' = [load |-> "empty", of |-> NoPath]
  BY <1>1 DEF JournalState, Beginning, Corrupt, Slots
<1>4. Move(sel.rec) \in Paths \X Paths
  <2>1. sel.rec \in Records
    BY <1>1, CleanupSelects, SelectedIsOnDisk DEF Inv
  <2> QED
    BY <2>1 DEF Move, Records
<1> QED
  BY <1>2, <1>3, <1>4 DEF Journal!Next, Journal!Finish, Journal!Empty, Journal!Loaded

LEMMA JournalStep ==
  Whole /\ [Next]_vars => [Journal!Next]_JournalState
<1> SUFFICES ASSUME Whole, [Next]_vars
             PROVE  [Journal!Next]_JournalState
  OBVIOUS
<1>1. Inv /\ Inv'
  BY StepInv DEF Whole
<1>2. CASE Durable = NoSelection /\ Durable' = NoSelection
  BY <1>1, <1>2, BareStep
<1>3. CASE Durable # NoSelection /\ Durable' = Durable
  BY <1>1, <1>3, JournalPending, JournalPendingNext
<1>4. CASE pc \in Writing /\ Durable = sel /\ Durable' = out
  <2>1. out # NoSelection
    BY <1>1, <1>4 DEF Inv, OutOK
  <2>2. CASE sel = NoSelection
    <3>1. Beginning /\ ~Beginning'
      <4>1. Beginning' => Durable' = NoSelection
        BY <1>1, DurableIsNext DEF Beginning
      <4> QED
        BY <1>4, <2>1, <2>2, <4>1 DEF Beginning
    <3> QED
      BY <1>1, <1>4, <3>1, SettleStep
  <2>3. CASE sel # NoSelection
    <3>1. Move(out.rec) = Move(sel.rec)
      BY <1>1, <1>4, <2>3 DEF Inv, OutOK, Move
    <3> QED
      BY <1>1, <1>4, <2>1, <2>3, <3>1, JournalPending, JournalPendingNext
  <2> QED
    BY <2>2, <2>3
<1>5. CASE CleanupDone /\ Durable = sel /\ Durable' = NoSelection
  BY <1>1, <1>5, ClearedJournal
<1> QED
  BY <1>2, <1>3, <1>4, <1>5, DurableStep

(* The two slots are one journal: from its first record read back to the   *)
(* end of the clean-up load finds a record of the same move, whatever      *)
(* write fails or loses power; only the beginning of a move can leave the  *)
(* journal corrupt.                                                        *)
THEOREM JournalIsAtomic == Spec => Journal!Spec
<1>1. Init => Journal!Init
  BY SlotFacts DEF Init, JournalState, Beginning, Writing, Selected, Select, Corrupt,
     Slots, Journal!Init, Journal!Empty, Journal!Loaded
<1>2. Whole /\ [Next]_vars => [Journal!Next]_JournalState
  BY JournalStep
<1> QED
  BY <1>1, <1>2, WholeInvariance, PTL DEF Spec, Journal!Spec

=============================================================================
